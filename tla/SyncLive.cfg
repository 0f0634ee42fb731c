SPECIFICATION FairSpec
CONSTANTS
    users = users  rebuild = rebuild  photos = photos
    Proc = {p1}
    Task = {users, photos}
    NoTask = NoTask  NoProc = NoProc
    Priority <- RegistryPriority
    NeedsEntra <- RegistryEntra
    Triggers <- RegistryTriggers
    MaxTicks = 1
    MaxSlots = 1
    MaxCalls = 1
    MaxFaults = 1
CHECK_DEADLOCK FALSE
PROPERTIES ForcedStarts RowSettles
