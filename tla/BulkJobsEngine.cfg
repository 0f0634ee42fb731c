SPECIFICATION Spec
CONSTANTS
    j1 = j1  j2 = j2  j3 = j3
    r1 = r1  r2 = r2  r3 = r3
    Job = {j1}
    Row = {r1, r2}
    Proc = {p1, p2}
    Worker = {w1, w2}
    Token = {t1, t2}
    JobOf <- OneJobOf
    After <- SecondWaits
    Reverts <- NoReverts
    Outcomes = {"succeeded"}
    NoToken = NoToken  NoRow = NoRow  NoJob = NoJob  NoProc = NoProc
    MaxCalls = 1
    MaxFaults = 1
    MaxLapses = 1
SYMMETRY Symmetric
CHECK_DEADLOCK FALSE
INVARIANTS TypeOK OneRunHolds OneWriter AuditedUnlessContinued OneFaultStrandsNone
PROPERTIES FinishedWhole Implements
