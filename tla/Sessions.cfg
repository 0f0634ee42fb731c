SPECIFICATION FairSpec
CONSTANTS
    r1 = r1  r2 = r2  s1 = s1  s2 = s2  s3 = s3
    Request = {r1, r2}
    Session = {s1, s2}
    NoSession = NoSession  NoRequest = NoRequest
    SessionLife = 2
    SignInIdle = 2
    ElevatedLife = 2
    IdleTimeout = 1
    Threshold = 1
    LockTime = 1
    MaxNow = 3
    MaxCalls = 3
    MaxFaults = 1
CHECK_DEADLOCK FALSE
INVARIANTS TypeOK PasswordWithinSignIn OldTokenDead WipedStaysWiped FailuresBounded OneSetup
PROPERTIES EndedStaysEnded DeadPasswordGoes
