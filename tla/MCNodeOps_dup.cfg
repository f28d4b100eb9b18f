SPECIFICATION Spec
CONSTANTS
    n1 = n1  n2 = n2  w1 = w1
    o1 = o1  o2 = o2  m1 = m1  m2 = m2  m3 = m3
    NoNode = NoNode
    Node = {n1}
    Wf = {w1}
    Op = {o1, o2}
    Msg = {m1, m2}
    OpWf <- AllOpWf
    OpTasks <- TwoTasks
    Gated = {o1, o2}
    MustClaim = {}
    Handler <- ProbeAndCrawl
    MsgOp <- AllMsgOp
    MsgNode <- ScanMsgNode
    Pulled = {m1, m2}
    PermitCeiling = 3
    MaxAckPending = 2
    MaxDeliver = 2
    MaxCrash = 0
    MaxHalt = 0
INVARIANTS RedeliveryNotDuplicated
CHECK_DEADLOCK FALSE
