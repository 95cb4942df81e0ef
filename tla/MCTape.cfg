SPECIFICATION FairSpec
CONSTANTS
    Objects <- MCObjects
    ntrec = 3
    TP_NINDIR = 8
    tbperdb = 2
    tbperfrag = 2
    NDADDR = 5
    NINDIR = 1
    Limits = {0, 6, 9, 15, 18}
    Room <- MCRoom
    Unwanted <- MCUnwanted
    MaxFaults = 1
INVARIANTS
    
    InOrder
PROPERTY
    Finishes
CHECK_DEADLOCK FALSE
