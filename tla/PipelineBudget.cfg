SPECIFICATION PipelineSpec
CONSTANTS
    j1 = j1  j2 = j2  j3 = j3  b1 = b1  b2 = b2  w1 = w1  w2 = w2
    p1 = p1  p2 = p2  h1 = h1
    NoBackend = NoBackend
    Jobs <- OneJob
    Backends <- OneBackend
    Submitters <- OneSubmitter
    Pollers <- TwoPollers
    Harvesters <- OneHarvester
    Reapers <- None
    MaxInflight = 1
    UnstoredMax = 1
    MaxRequeues = 1
    MaxFaults = 0
    PromptMirror = TRUE
INVARIANT RetryOverrun
SYMMETRY PollerSymmetry
VIEW BudgetView
CHECK_DEADLOCK FALSE
