SPECIFICATION LiveSpec
CONSTANTS
    a = a
    Id = {a}
    NoProc = NoProc
    MaxProc = 2
    MaxEdit = 3
    Manual = TRUE
    MayDie = TRUE
INVARIANTS TypeOK NoOrphan ShutdownLeavesNothing HeldStaysDown
PROPERTIES  DeregisteredStops
CHECK_DEADLOCK FALSE
