SPECIFICATION FairSpec
CONSTANTS
    Node = {1, 2, 3}
    HashSize = 9
    VirtualKey <- MCVirtualKey
    Local = 2
    h1 = h1
    Handler = {h1}
    KeyHash = {6}
    ReplicationFactor = 2
    None = None
    MaxOps = 2
INVARIANTS
    TypeOK
    LTypeOK
    OwnersRegular
    EngineOpenWhenUsed
PROPERTIES
    MinimalMovement
    RingCatchesUp
    ShutsDown
CHECK_DEADLOCK FALSE
