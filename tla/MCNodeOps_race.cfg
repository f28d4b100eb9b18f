SPECIFICATION LiveSpec
CONSTANTS
    n1 = n1  n2 = n2  w1 = w1
    o1 = o1  o2 = o2  m1 = m1  m2 = m2  m3 = m3
    NoNode = NoNode
    Node = {n1, n2}
    Wf = {w1}
    Op = {o1, o2}
    Msg = {m1, m2}
    OpWf <- AllOpWf
    OpTasks <- OneTask
    Gated = {o1, o2}
    MustClaim = {o1}
    Handler <- BatchAndUnknown
    MsgOp <- AllMsgOp
    MsgNode <- RaceMsgNode
    Pulled = {m1, m2}
    PermitCeiling = 3
    MaxAckPending = 1
    MaxDeliver = 2
    MaxCrash = 1
    MaxHalt = 0
INVARIANTS ClaimExclusive NoSilentLoss
PROPERTIES QueueDrains
CHECK_DEADLOCK FALSE
