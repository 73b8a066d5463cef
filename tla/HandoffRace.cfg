SPECIFICATION Spec
CONSTANTS
    i1 = i1
    i2 = i2
    i3 = i3
    r1 = r1
    r2 = r2
    Request = {i1, i2, i3}
    Replay = {r1, r2}
SYMMETRY RequestSymmetry
INVARIANTS
    NoHintLost
