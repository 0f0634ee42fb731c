SPECIFICATION Spec
CONSTANTS
    users = users  rebuild = rebuild  photos = photos
    Proc = {p1, p2}
    Task = {users, rebuild}
    NoTask = NoTask  NoProc = NoProc
    Priority <- RegistryPriority
    NeedsEntra <- RegistryEntra
    Triggers <- RegistryTriggers
    MaxTicks = 1
    MaxSlots = 0
    MaxCalls = 1
    MaxFaults = 1
CHECK_DEADLOCK FALSE
SYMMETRY Symmetric
INVARIANTS TypeOK OneTaskAtWork
PROPERTY Implements
