SPECIFICATION MCSpec
CONSTANTS
    j1 = j1  j2 = j2  alto = alto  txt = txt  p1 = p1  w1 = w1  s1 = s1  s2 = s2
    SingleJobs <- TwoJobs
    Formats <- TwoFormats
    ReadJob = j1
    ReadFormat = alto
    SizeOf <- TwoSizes
    DoneTTL = 2
    FailedTTL = 2
    MaxAge = 1
    CapBytes = 5
    BucketTTLs <- KeptLong
    DefaultBucketTTL = 1
    LateHarvest = 1
    HeavyEvery = 2
    MaxTroubles = 1
    NoCap = NoCap  NoObject = NoObject
    Pages <- BatchPages
    Workers <- OneWorker
    Clients <- NoClient
    MaxRetries = 1
    CommitEvery = 1
    MaxMishaps = 3
    LongResults = FALSE
    SlowSubmit = TRUE
    TightCap = TRUE
    NoArchive = NoArchive  NoOne = NoOne
    LoadFields <- ThreeFields
    CounterValues <- AroundZero
    AdapterOf <- TwoAdapters
    LinkSets <- LinkTables
    Measured <- OneMeasured
    DefaultSpp = 3
    Domains <- TwoDomains
    Tables <- ThreeTables
    Asks <- SomeAsks
    Keys <- SomeKeys
    Submits <- TwoSubmits
    CapabilitiesTTL = 2
    ReadMax = 1
    MaxTableEdits = 1
    NotGiven = NotGiven  Blank = Blank
    BoxPages <- BatchPages
    DaysPerWeek = 3
    MinutesPerDay = 2
    Schedules <- EverySchedule
    Drain = 2
    HealthTTL = 1
    StopTunnel = FALSE
    MaxBoxMishaps = 2
    NoDeadline = NoDeadline
INVARIANTS ReadsSound LoadFaithful SubmitSound BoxSound
PROPERTIES CapTakesOldest NothingStays BatchFinishes FullDrain ObeysSchedule
CHECK_DEADLOCK FALSE
