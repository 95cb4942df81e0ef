CONSTANTS
    a = a
    b = b
    Name = {a, b}
    namlen <- MCNamlen
    case <- MCCase
    case_dependent = FALSE
    Group = {0, 1}
    ipg = 4
    DIRBLKSIZ = 9
    BlocksPerFrag = 1
    MaxBlocks = 2
    MaxUsed = 5
    MaxDirs = 2
    Lock = {l1}
    Free = Free
    Dot = Dot
    DotDot = DotDot
    NoName = NoName
SPECIFICATION Spec
INVARIANTS
    EntriesSound
    InodesExact
    PlacesHold
CHECK_DEADLOCK FALSE
