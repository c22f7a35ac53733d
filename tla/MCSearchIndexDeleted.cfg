SPECIFICATION SearchSpec
CONSTANTS
    p = p
    q = q
    Indices = {1}
    MaxId = 1
    DocPaths <- TwoPaths
    Versions <- TwoVersions
    UserTags = {"t"}
    ZeroTag = "0"
    NoTag = "none"
    MaxScans = 1
    MaxIndexings = 2
    MaxTagEdits = 1
    MaxStarts = 0
    MaxEnds = 0
CHECK_DEADLOCK FALSE
INVARIANTS
    DeletedAreGone
