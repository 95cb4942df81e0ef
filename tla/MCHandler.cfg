\* One client more than a batch serves, more dirty frags than stalls.  No
\* symmetry: liveness.
SPECIFICATION Spec
CONSTANTS
    Client = {c1, c2, c3}
    Batch = 2
    timer_loops = 1
    MaxDirty = 2
INVARIANTS
    OneTimer
    DirtyHasTimer
    StallsCostFrags
    OnlyExcessWaits
PROPERTIES
    WrittenBack
    EveryPacketReplied
