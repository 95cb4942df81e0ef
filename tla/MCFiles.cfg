\* A file and a directory on a volume of ten blocks of four frags.
SPECIFICATION Spec
CONSTANTS
    FRAGS_PER_BLK = 4
    fs_ncg = 1
    fs_fpg = 44
    cg_ndblk <- OneGroup
    contigsumsize = 2
    Reserved = {0, 1, 2, 3}
    NDADDR = 2
    NIADDR = 2
    PTRS = 1
    FSIZE = 2
    NDSPF = 2
    itod <- AtStart
    File = {f1}
    Directory = {d1}
    Handle = {h1}
    Amount = {13, 40}
    Reading = {53}
    SeekTo = {0}
    MaxDir = 3
    MaxWrites = 3
    None = None
    Closed = Closed
    Old = Old
SYMMETRY Alike
CONSTRAINT Followed
INVARIANTS
    FragsOwnedOnce
    MapsExact
    ReadsBack
