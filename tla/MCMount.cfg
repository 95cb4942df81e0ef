SPECIFICATION MSpec
CONSTANTS
    Requests <- MCRequests
    SizeofFs = 1380
    SizeofCg = 172
    CgSpace  = 168
    GMT <- MCGMT
    Drives <- MCDrives
    Names = {"n1", "n2"}
    Taken0 = 1
    Masks <- MCMasks
    Owners <- MCOwners
    Dates <- MCDates
    Now = 1000000000
    MaxMounts = 3
    MaxPackets = 2
    MaxFaults = 1
INVARIANTS
    LayoutSound
    SumsSound
    FoundInPlace
    AttrsShown
CHECK_DEADLOCK FALSE
