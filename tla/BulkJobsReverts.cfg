SPECIFICATION Spec
CONSTANTS
    j1 = j1  j2 = j2  j3 = j3
    r1 = r1  r2 = r2  r3 = r3
    Job = {j1, j2, j3}
    Row = {r1, r2, r3}
    Proc = {p1}
    Worker = {w1}
    Token = {t1, t2, t3}
    JobOf <- RowPerJob
    After <- NoAfter
    Reverts <- RevertsOfOne
    Outcomes = {"succeeded", "partial"}
    NoToken = NoToken  NoRow = NoRow  NoJob = NoJob  NoProc = NoProc
    MaxCalls = 2
    MaxFaults = 0
    MaxLapses = 0
SYMMETRY SymmetricReverts
CHECK_DEADLOCK FALSE
INVARIANTS OneOpenRevert PlansAreCurrent
PROPERTY RevertsApart
