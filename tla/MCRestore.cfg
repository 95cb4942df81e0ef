CONSTANTS
    a = a
    b = b
    Names = {a, b}
    LastIno = 5
    Schedule <- MCSchedule
    Disks <- MCDisks
    Drivers = {"bffs", "bsd"}
    EditsBy <- MCEdits
    MaxTime = 2
    MaxStops = 1
    MaxIds = 12
SPECIFICATION Spec
INVARIANTS
    Restored
    NeverPanics
    TablesTell
CHECK_DEADLOCK FALSE
