SPECIFICATION FairSpec
CONSTANTS
    N = 2
    Empty = Empty
    Missing = Missing
    Tombstone = Tombstone
    Value = {v1, v2}
    Write = {w1, w2}
    Reader = {g1}
    MaxLate = 1
INVARIANTS
    TypeOK
    Authentic
PROPERTIES
    ImplementsRecordCopies
    
