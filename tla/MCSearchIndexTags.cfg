SPECIFICATION SearchSpec
CONSTANTS
    p = p
    q = q
    Indices = {1}
    MaxId = 1
    DocPaths <- TwoPaths
    Versions <- TwoVersions
    UserTags = {"t"}
    ZeroTag = "0"
    NoTag = "none"
    MaxScans = 1
    MaxIndexings = 1
    MaxTagEdits = 1
    MaxStarts = 2
    MaxEnds = 1
CHECK_DEADLOCK FALSE
INVARIANTS
    TagsSurviveRestart
