SPECIFICATION MCSpec
CONSTANTS
    w1 = w1  w2 = w2  d1 = d1  d2 = d2  d3 = d3  v1 = v1  v2 = v2
    j1 = j1  j2 = j2  e1 = e1  e2 = e2  e3 = e3  e4 = e4
    Workers <- TwoWorkers
    Reader = w1
    Domains <- ThreeDomains
    Versions <- TwoVersions
    Serves <- ServesBoth
    Declared <- DeclaredOne
    NoLink = NoLink  ByHand = ByHand
    Refresh = 2
    MaxChanges = 2
    Jobs <- TwoJobs
    PollConcurrency = 1
    HarvestConcurrency = 1
    PollerTick = 1
    BackoffInitial = 1
    BackoffMax = 2
    HarvestBackoff = 1
    CheckMax = 1
    RequeueLimit = 0
    MaxRuns = 3
    EventRows <- FourRows
    QueueMax = 2
    BatchRows = 2
    MaxTroubles = 1
    b1 = b1  b2 = b2  b3 = b3  k1 = k1
    Pages <- FourPages
    DomainOf <- PageDomains
    BatchOf <- PageBatches
    Megapixels <- PageSizes
    Backends <- ThreeBackends
    MaxInflight <- RoomOfThree
    TierOf <- TwoTiers
    Serving <- ServesX
    Position <- InOrder
    Speeds = {2}
    Fallback = 3
    Parallel = 2
    ColdSamples = 1
    MaxPenalty = 6
    Tolerance = 15
    UnstoredMax = 3
    MaxRequeues = 1
    MaxOutages = 0
    NoBatch = NoBatch
INVARIANTS AllocationSound SyncSound PollSound EmitterSound
PROPERTIES EveryPageEnds NeverForgotten CatchesUp EveryJobEnds CloseEnds
CHECK_DEADLOCK FALSE
