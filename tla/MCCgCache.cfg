SPECIFICATION Spec
CONSTANTS
    Cg = {c1, c2, c3}
    Val = {0, 1}
    NULL = NULL
    Bad = Bad
    CgMax = 4
    CgSizeMin = 2
    Sizes = {0, 2, 3, 9}
SYMMETRY Groups
INVARIANTS
    SlotsSound
PROPERTY
    ReadsAsModified
