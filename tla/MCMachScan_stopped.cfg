SPECIFICATION Spec
CONSTANTS
    x = x  y = y  z = z
    Word = {x, y}
    NumWorkers = 2
    NoRow = NoRow
    Stream = FALSE
    RateOn = FALSE
    MaxRetry = 1
    MaxCopies = 1
    MaxSession = 2
    MaxFault = 0
    MaxCrash = 1
INVARIANTS StoppedScanCompletes
CHECK_DEADLOCK FALSE
