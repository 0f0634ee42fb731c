SPECIFICATION FairSpec
CONSTANTS
    users = users  rebuild = rebuild  photos = photos
    Proc = {p1}
    Task = {users, photos}
    NoTask = NoTask  NoProc = NoProc
    Priority <- RegistryPriority
    NeedsEntra <- RegistryEntra
    Triggers <- RegistryTriggers
    MaxTicks = 1
    MaxSlots = 0
    MaxCalls = 2
    MaxFaults = 0
CHECK_DEADLOCK FALSE
PROPERTY DueRuns
