SPECIFICATION NodeSpec
CONSTANTS
    EvictAfter = 2
    BindTries = 2
    JwtDays = 2
    RefreshDays = 1
    RemoteExec = TRUE
    MaxEdit = 2
    MaxCommand = 1
    MaxSession = 1
    Job = {j1, j2}
    NoJob = NoJob
    Threads = 1
    MaxResult = 1
    MaxPanic = 1
    Actor = {cli}
    MaxRelease = 2
    MaxOps = 3
    MaxFault = 1
    MaxCrash = 1
    DbActor = {cli}
    p = p
    DbPort = {p, q}
    MaxDbOps = 4
    MaxDbFault = 1
    MaxDbCrash = 1
    Exchange = {x1, x2}
    ChanCap = 1
    BatchMax = 2
    Seeding = TRUE
    MaxTraceFault = 1
    MaxTraceCrash = 1
INVARIANTS NodeTypeOK EvictedOnlySustained JobsKeepApart SkipIsRight InstalledSurvivesReboot
    DatabaseReady CaUsable EventsAccounted
PROPERTIES NodeFollowsDashboard ScriptsFinish TraceDelivers
CHECK_DEADLOCK FALSE
