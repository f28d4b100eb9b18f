SPECIFICATION LiveSpec
CONSTANTS
    x = x  y = y  z = z
    Word = {x, y}
    NumWorkers = 2
    NoRow = NoRow
    Stream = TRUE
    RateOn = TRUE
    MaxRetry = 1
    MaxCopies = 1
    MaxSession = 2
    MaxFault = 1
    MaxCrash = 1
INVARIANTS TypeOK OneWorkerPerRow ScanComplete ResultsDelivered
PROPERTIES ScanEnds
CHECK_DEADLOCK FALSE
