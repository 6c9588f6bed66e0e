SPECIFICATION MCSpec
CONSTANTS
    j1 = j1  j2 = j2  j3 = j3  b1 = b1  b2 = b2  w1 = w1  w2 = w2
    p1 = p1  p2 = p2  h1 = h1
    NoBackend = NoBackend
    Jobs <- ThreeJobs
    Backends <- TwoBackends
    Submitters <- TwoSubmitters
    Pollers <- OnePoller
    Harvesters <- OneHarvester
    Reapers <- None
    MaxInflight = 1
    UnstoredMax = 2
    MaxRequeues = 1
    MaxFaults = 2
    PromptMirror = TRUE
    c1 = c1  c2 = c2  f1 = f1  g1 = g1  g2 = g2  r1 = r1  r2 = r2
    Calls <- TwoCalls
    Files <- OneFile
    GatewayJobs <- TwoGatewayJobs
    Users <- Classes
    Rivals <- Queries
    Limit <- NoBurst
    NoKey = NoKey  NoFile = NoFile  NoJob = NoJob
    CompatTTL = 2
    Budget = 6
    MaxSleep = 4
    Jitter = 1
    MaxDeaths = 1
    Requests <- TwoRequests
    AuthTTL = 2
    ConfigTTL = 2
    ShimTTL = 2
    QueryMax = 1
    MaxEdits = 1
    NoLimit = NoLimit
INVARIANTS TypeOK ExclusiveOwner CountersExact DoneOnRecord WithinLimits CompatSound CachesRecent
PROPERTIES NothingUndone ActsAsBucket
SYMMETRY Symmetry
CHECK_DEADLOCK FALSE
