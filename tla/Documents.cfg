\* Three writers and a query, with every overlap and failure.
SPECIFICATION Spec
CONSTANTS
    x = x
    y = y
    shared = shared
    NoDoc = NoDoc
    MaxId = 2
    Entry <- MCEntry
    Doc <- MCDoc
    Call = {c1, c2, c3}
    Query = {q1}
    MaxPage = 1
SYMMETRY Symmetry
INVARIANTS
    TypeOK
    Agrees
    FindsOnly
    PageIsSlice
PROPERTIES
    FindsAll
