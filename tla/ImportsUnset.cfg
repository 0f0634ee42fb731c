SPECIFICATION Spec
CONSTANTS
    d1 = d1  d2 = d2
    Download = {d1}
    Random = Random  Shared = Shared
    NoPassword = NoPassword  NoProgress = NoProgress
    MaxAttempts = 2
    MaxChanges = 0
    MaxFaults = 0
CHECK_DEADLOCK FALSE
INVARIANTS SucceededIsDone
