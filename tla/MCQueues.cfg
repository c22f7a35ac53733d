SPECIFICATION Spec
CONSTANTS
    w1 = w1
    w2 = w2
    scripted = scripted
    plain = plain
    lone = lone
    Machines = {"pool", "indexers", "tasks"}
    Workers <- TwoWorkers
    NJobs = 3
    QueueCap = 2
    JobTypes = {"PARSE", "BULK"}
    MaxCrashes = 2
    CrashPoints = {"init", "run", "cleanup"}
    Indexers <- TwoWorkers
    Documents = {1, 2, 3, 4}
    Stubs = {4}
    DeleteList = {2, 5}
    BatchSize = 3
    HttpLimit = 3
    Large = {3}
    Medium = {1}
    Fits <- FitsLimit
    MaxBusy = 1
    MaxErrors = 1
    MaxDeaths = 1
    Runs <- MCRuns
    Lone <- MCLone
    Scripts <- MCScripts
    MaxRaises = 1
    MaxRestarts = 1
INVARIANTS
    PoolTypeOK
    JobCountExact
    BusyCountExact
    JobsConserved
    StopIsDrained
    DroppedAtMostOnePerWorker
    IndexerTypeOK
    FlushInBounds
    LinesConserved
    OnlyTooLargeGivenUp
    EsHasWhatWasSent
    TaskTypeOK
    TasksConserved
    StepsInOrder
PROPERTIES
    ImplementsWorkQueue
    WaitReturns
    PoolReturns
    RowsAreTaken
    
    TasksSettle
