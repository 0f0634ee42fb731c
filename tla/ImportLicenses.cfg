SPECIFICATION FairSpec
CONSTANTS
    s1 = s1  s2 = s2  g1 = g1  g2 = g2
    Sweeper = {s1, s2}
    Group = {g1}
    NoRun = NoRun
    MaxCalls = 1
    MaxFaults = 1
INVARIANTS TypeOK SettledIsTrue
PROPERTIES Implements ChecksEnd
