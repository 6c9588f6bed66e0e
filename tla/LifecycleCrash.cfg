SPECIFICATION FairLifecycle
CONSTANTS
    j1 = j1  b1 = b1  w1 = w1  p1 = p1  h1 = h1  c1 = c1
    NoBackend = NoBackend
    Jobs <- OneJob
    Backends <- OneBackend
    Submitters <- OneSubmitter
    Pollers <- OnePoller
    Harvesters <- OneHarvester
    Reapers <- OneReaper
    MaxInflight = 1
    UnstoredMax = 1
    MaxRequeues = 0
    MaxFaults = 1
    PromptMirror = TRUE
    Rebuilds <- BackendRebuild
PROPERTIES Settles SlotsRepaired
CHECK_DEADLOCK FALSE
