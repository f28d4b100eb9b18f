SPECIFICATION EnginesSpec
CONSTANTS
    Probe = {p1, p2}
    Floor = 1
    Ceil = 3
    SeedConc = 2
    RetryFloor = 1
    RetryCeil = 2
    e1 = e1  e2 = e2
    Name = {r1, r2}
    Enum = {e1, e2}
    Worker <- MCWorker
    Request <- MCRequest
    MaxFault = 1
    MaxCrash = 1
    s0 = s0  a = a  b = b  b2 = b2  c = c  css = css  png = png  ext = ext
    Url = {s0, a, b, b2, c, css, png, ext}
    Seed = s0
    Key <- MCKey
    Scope = {s0, a, b, b2, c, css, png}
    Static = {css, png}
    Tracked = {css}
    Sites <- MCSites
    MaxPages = 3
    MaxDepth = 2
    Tasks = 2
    MaxVisited = 6
    MaxPanic = 1
    dir = dir  sub = sub  leaf = leaf  file = file  deep = deep
    Place = {dir, sub, leaf, file, deep}
    Root = dir
    Tree <- MCTree
    Enterable = {dir, sub, leaf, deep}
    RecurseDepth = 2
    ChunkLines = 3
    FullLines = 3
    c1 = c1
    Corr = {c1, c2}
    MaxRegs = 1
    CapPerCorr = 1
    MaxItem = 2
    MaxReg = 2
    Loads <- MCLoads
    CxCorr <- MCCorr
    RlTries = 2
    BlockTries = 1
    Polls = 2
    Broker = TRUE
    MayCrash = TRUE
    ep1 = ep1  ep2 = ep2  q1 = q1  j1 = j1  x1 = x1
    Endpoints <- MCEndpoints
    SitesOf <- MCSitesOf
    JsonBody = {j1}
    Hinted = {q1, x1}
    Versioned = {ep1, ep2}
    Sensitive = {ep2}
    Mutation = {j1}
    StringArg = {j1}
    Privileged = {j1}
    TestWrites = TRUE
    Named <- MCNamed
    MaxNew = 2
    Family <- MCFamily
    Targets <- MCTargets
    MaxEndpoints = 2
    MaxSites = 2
    UseOast = TRUE
    MaxNoise = 1
    h1 = h1  h2 = h2  h3 = h3  k1 = k1  k2 = k2  k3 = k3  gone = gone
    Host <- MCHosts
    Apex = h1
    DnsName = {h1, h2, h3, k1, k2, k3, gone}
    Nowhere = Nowhere
    Zones <- MCZones
    MaxHosts = 2
    TkTasks = 2
    MaxHops = 2
    MaxOutage = 1
    Chunk = {w1, w2}
    WindowCap = 3
    TickEvery = 2
    MinSamples = 2
    HealthyPm = 100
    StressedPm = 500
    Unit = 2
    MaxConc = 3
    DelayStep = 2
    DelayRelief = 1
    MaxDelay = 2
    BaseDelay = 3
    MaxSick = 1
INVARIANTS EnginesTypeOK LimiterConserves DoneIsLast ScanCovers RecursionCovers
    ProgressWithinTotal PolledOnce 
PROPERTIES EnginesEnd VoyageKeepsItems
CHECK_DEADLOCK FALSE
