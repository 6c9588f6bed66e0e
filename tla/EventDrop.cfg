SPECIFICATION DropSpec
CONSTANTS
    py = py  ja = ja  j1 = j1  j2 = j2  j3 = j3
    NoJob = NoJob
    BatchDone = BatchDone
    Clients <- TwoClients
    Java <- OneJava
    Jobs <- ThreeJobs
    Owner <- OfBoth
    EarlyMax = 2
    MaxFaults = 1
    e1 = e1  e2 = e2
    Engines <- TwoEngines
    Adapters <- TwoKinds
    Releases <- TwoReleases
    DomainsOf <- OneMore
    SchemaOf <- OneSchemaEach
    MapDomains <- OneMapDomain
    OpenapiTTL = 2
    SyncEvery = 1
    MaxUpsets = 2
    NoSpec = NoSpec  NoSchema = NoSchema
INVARIANT DropLosesNothing
CHECK_DEADLOCK FALSE
