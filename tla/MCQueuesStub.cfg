SPECIFICATION Spec
CONSTANTS
    w1 = w1
    w2 = w2
    scripted = scripted
    plain = plain
    lone = lone
    Machines = {"indexers"}
    Workers <- TwoWorkers
    NJobs = 3
    QueueCap = 2
    JobTypes = {"PARSE", "BULK"}
    MaxCrashes = 2
    CrashPoints = {"init", "run", "cleanup"}
    Indexers <- TwoWorkers
    Documents = {1, 2, 3}
    Stubs = {2}
    DeleteList = {}
    BatchSize = 3
    HttpLimit = 3
    Large = {3}
    Medium = {1}
    Fits <- FitsLimit
    MaxBusy = 0
    MaxErrors = 0
    MaxDeaths = 0
    Runs <- MCRuns
    Lone <- MCLone
    Scripts <- MCScripts
    MaxRaises = 1
    MaxRestarts = 1
INVARIANT DocumentsAreSubmitted
