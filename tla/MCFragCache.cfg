\* What readers see: more frags than buffers, so that buffers are reused.
SPECIFICATION Spec
CONSTANTS
    Frag = {1, 2, 3}
    Data = {0, 1}
    Node = {n1, n2}
    Uninit = 0
    CacheSizeMin = 1
    NumBuffers = 2
    MaxSize = 2
    Amounts <- MoreOrLess
SYMMETRY Buffers
INVARIANTS
    ListsAgree
    Accounted
    StopsOnlyWithoutMemory
PROPERTIES
    FlushSynchronizes
    ReadsAsWritten
