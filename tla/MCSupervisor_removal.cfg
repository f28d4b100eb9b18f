SPECIFICATION LiveSpec
CONSTANTS
    a = a
    Id = {a}
    NoProc = NoProc
    MaxProc = 2
    MaxEdit = 1
    Manual = FALSE
    MayDie = FALSE
PROPERTIES RemovalSticks
CHECK_DEADLOCK FALSE
