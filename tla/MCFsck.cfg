CONSTANTS
    maxino = 8
    Block = {1, 2, 3, 4, 5, 6, 7}
    PerBlock = 4
    NDADDR = 2
    Alternates = 2
    Trees <- MCTrees
    Wholes <- MCWholes
    Kinds = {"inode", "type", "old", "empty", "links", "blocks", "entry", "junk", "stale", "cg", "sb"}
    MaxFaults = 1
    MaxStops = 1
    MaxRuns = 5
    Junk = Junk
    Bad = Bad
SPECIFICATION FairSpec
INVARIANTS
    Repairs
    Converges
    HarmsNothing
PROPERTY
    RunEnds
CHECK_DEADLOCK FALSE
