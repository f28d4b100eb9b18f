SPECIFICATION Spec
CONSTANTS
    n1 = n1  n2 = n2  w1 = w1
    o1 = o1  o2 = o2  m1 = m1  m2 = m2  m3 = m3
    NoNode = NoNode
    Node = {n1}
    Wf = {w1}
    Op = {o1, o2}
    Msg = {m1, m2, m3}
    OpWf <- AllOpWf
    OpTasks <- MixedTasks
    Gated = {o1, o2}
    MustClaim = {}
    Handler <- BatchAndUnknown
    MsgOp <- AllMsgOp
    MsgNode <- ScanMsgNode
    Pulled = {m1, m3}
    PermitCeiling = 2
    MaxAckPending = 1
    MaxDeliver = 2
    MaxCrash = 1
    MaxHalt = 1
INVARIANTS TypeOK PermitsConserved SerialOpsRunOnce HaltDropsParked
CHECK_DEADLOCK FALSE
