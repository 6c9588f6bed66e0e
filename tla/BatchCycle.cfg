SPECIFICATION MCSpec
CONSTANTS
    p1 = p1  p2 = p2  w1 = w1  w2 = w2  c1 = c1
    NoArchive = NoArchive
    NoOne = NoOne
    Pages <- TwoPages
    Workers <- TwoWorkers
    Clients <- OneClient
    MaxRetries = 2
    CommitEvery = 1
    MaxMishaps = 2
    LongResults = TRUE
    SlowSubmit = FALSE
    TightCap = FALSE
SYMMETRY Symmetry
INVARIANTS BatchSound RefusedLeavesNothing CountsReachTotal
PROPERTY KeepsPromise
CHECK_DEADLOCK FALSE
