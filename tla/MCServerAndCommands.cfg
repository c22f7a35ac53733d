SPECIFICATION Spec
CONSTANTS
    p1 = p1
    p2 = p2
    c1 = c1
    c2 = c2
    path1 = path1
    path2 = path2
    Machines = {"commands", "setup", "stats", "paths", "tags", "search", "web", "records"}
    Indices = {1, 2}
    MaxId = 2
    DocPaths <- TwoPaths
    Versions <- TwoVersions
    UserTags = {"t"}
    ZeroTag = "0"
    NoTag = "none"
    MaxScans = 2
    MaxIndexings = 2
    MaxTagEdits = 2
    MaxStarts = 2
    MaxEnds = 1
    Processes <- TwoProcesses
    Commands <- MCCommands
    Absent = Absent
    MaxLevel = 3
    MaxCommands = 3
    MaxKills = 1
    MaxTime = 2
    MaxRuns = 3
    MaxFailures = 2
    MaxDeaths = 1
    Corpora <- MCCorpora
    Thresholds = {0, 2, 3, 6}
    MinMerges = 1
    SizeBucket = 2
    DateBucket = 2
    NoMime = "none"
    MaxScanKills = 1
    Directories <- MCDirectories
    PathIds = {1, 2}
    MaxPerDir = 1
    Catalogue <- MCCatalogue
    SearchForms <- MCForms
    None = None
    Wrong = Wrong
    RankBound = 3
    MaxChanges = 1
    Connections <- TwoConnections
    Settings <- MCSettings
    WebRequests <- MCRequests
    MaxRequests = 2
    MaxCloses = 1
    MaxParts = 2
    MaxSignals = 1
    Pages = {1}
    ScanOptions = {1, 2}
    InDataFolder = TRUE
    MaxJobRuns = 2
    MaxSaves = 1
    MaxFaults = 1
CHECK_DEADLOCK FALSE
INVARIANTS
    TypesOK
    IndexFileKept
    SettingsAsGiven
    ReadyForDocuments
    SizesConserved
    TreeShowsDocuments
    DocumentsAreFound
    TagsAgree
    PagesAreComplete
    RepliesAreDue
    JobsKnowTheirIndex
PROPERTY SubrequestsAreAnswered
