SPECIFICATION Spec
CONSTANTS
    p1 = p1  p2 = p2  w1 = w1  w2 = w2  c1 = c1
    NoArchive = NoArchive
    NoOne = NoOne
    Pages <- OnePage
    Workers <- OneWorker
    Clients <- OneClient
    MaxRetries = 1
    CommitEvery = 1
    MaxMishaps = 0
    LongResults = TRUE
    SlowSubmit = FALSE
    TightCap = FALSE
INVARIANT ArchiveIsNewest
CHECK_DEADLOCK FALSE
