\* Four frags per block, two groups.
SPECIFICATION Spec
CONSTANTS
    FRAGS_PER_BLK = 4
    fs_ncg = 2
    fs_fpg = 16
    cg_ndblk <- Sizes
    contigsumsize = 2
    Reserved = {0, 1, 2, 3, 16, 17, 18, 19}
INVARIANTS
    CountsExact
    NeverInconsistent
    SearchesExact
