SPECIFICATION Spec
CONSTANTS
    Node = {n1, n2, n3}
    NULL = NULL
    Frag = {1, 2, 3}
    Bucket = {0, 1}
    Hash <- TwoBuckets
SYMMETRY Buffers
INVARIANTS
    ChainIsBucket
