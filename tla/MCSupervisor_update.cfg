SPECIFICATION LiveSpec
CONSTANTS
    a = a
    Id = {a}
    NoProc = NoProc
    MaxProc = 2
    MaxEdit = 0
    Manual = FALSE
    MayDie = TRUE
PROPERTIES UpdateComesBack
CHECK_DEADLOCK FALSE
