SPECIFICATION CrashedSpec
CONSTANTS
    n1 = n1
    n2 = n2
    n3 = n3
    Node = {n1, n2, n3}
    Subject = n1
    Unknown = Unknown
    Nobody = Nobody
    Timeout = 1
    Loss = FALSE
    MaxCrashes = 1
    MaxRestarts = 0
    MaxTime = 4
    MaxCalls = 6
PROPERTIES
    CrashNoticed
