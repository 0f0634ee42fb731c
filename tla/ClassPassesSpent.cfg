SPECIFICATION Spec
CONSTANTS
    m1 = m1  m2 = m2  m3 = m3  m4 = m4  m5 = m5  m6 = m6  m7 = m7
    ann = ann  bob = bob
    s1 = s1  c1 = c1
    Sweeper = {s1}
    Route = {c1}
    Method = {m1, m2, m3, m4, m5, m6, m7}
    Operator = {ann, bob}
    Importer = ann
    NoRun = NoRun  NoPass = NoPass
    MaxCalls = 3
    MaxFaults = 0
    MaxLapses = 0
CHECK_DEADLOCK FALSE
PROPERTY HeldUntilSpent
