SPECIFICATION Spec
SYMMETRY Symmetry
CONSTANTS
    N = 3
    Empty = Empty
    Missing = Missing
    Tombstone = Tombstone
    Value = {v1, v2}
    Write = {w1, w2}
    Reader = {g1}
    MaxLate = 0
PROPERTIES
    RepairsOnlyStale
