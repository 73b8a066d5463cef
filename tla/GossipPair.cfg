SPECIFICATION FairSpec
CONSTANTS
    n1 = n1
    n2 = n2
    Node = {n1, n2}
    Subject = n1
    Unknown = Unknown
    Nobody = Nobody
    Timeout = 0
    Loss = TRUE
    MaxCrashes = 1
    MaxRestarts = 1
    MaxTime = 2
    MaxCalls = 6
INVARIANTS
    TypeOK
PROPERTIES
    SelfAlive
    NoPhantomHeartbeat
    CrashDetected
    Recovers
