CONSTANTS
    A = {a1, a2, a3}
    B = {b1, b2}
    C = {c1, c2}
    D = {d1, d2}
    Refs <- MCRefs
    Hash <- MCHash
    W = 2
    HashRange = 32
    Expected = 5
    Empty = empty
    Deleted = deleted
    NoRef = none
SPECIFICATION Spec
SYMMETRY Symmetry
INVARIANTS
    FindsLive
    HeldOnce
    ProbesEnd
    RehashMakesRoom
    TagKernelsAgree
