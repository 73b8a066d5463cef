SPECIFICATION FairSpec
CONSTANTS
    i1 = i1
    i2 = i2
    i3 = i3
    r1 = r1
    Request = {i1, i2, i3}
    Replay = {r1}
INVARIANTS
    TypeOK
    NoHintLost
PROPERTIES
    ImplementsHintDelivery
    Drained
