SPECIFICATION Spec
CONSTANTS
    x = x  y = y  z = z
    Word = {x, y}
    NumWorkers = 2
    NoRow = NoRow
    Stream = FALSE
    RateOn = FALSE
    MaxRetry = 0
    MaxCopies = 2
    MaxSession = 2
    MaxFault = 1
    MaxCrash = 1
PROPERTIES MachKeepsItems
CHECK_DEADLOCK FALSE
