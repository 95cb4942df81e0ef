\* Every access mode, a symbolic link to file 1, and a volume that goes.
SPECIFICATION Spec
CONSTANTS
    Lock = {l1, l2, l3}
    Inode = {1, 2}
    Link = {3}
    Points <- ToFile1
    Modes = {"exclusive", "shared", "invisible"}
    MaxInhibit = 2
SYMMETRY Structs
INVARIANTS
    ListIsHeld
    ExclusiveAlone
    OpenNotDeleted
