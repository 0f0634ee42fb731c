SPECIFICATION Spec
CONSTANTS
    d1 = d1  d2 = d2
    Download = {d1, d2}
    Random = Random  Shared = Shared
    NoPassword = NoPassword  NoProgress = NoProgress
    MaxAttempts = 3
    MaxChanges = 1
    MaxFaults = 1
SYMMETRY DownloadSymmetry
CHECK_DEADLOCK FALSE
INVARIANTS TypeOK CreatedOnce ForeignUntouched ProgressTrue HandedWorks HandedOnce
