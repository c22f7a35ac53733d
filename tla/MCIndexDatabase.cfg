SPECIFICATION Spec
CONSTANTS
    arc = arc
    doc = doc
    member = member
    NoPath = NoPath
    Unseen = Unseen
    Absent = Absent
    t1 = t1
    t2 = t2
    w1 = w1
    w2 = w2
    Files <- MCFiles
    Inner <- MCInner
    ArchiveOf <- MCArchiveOf
    Workers <- MCWorkers
    Mtimes <- MCMtimes
    MaxId = 6
    MaxScans = 3
    MaxEdits = 2
    MaxLosses = 1
    MaxKills = 1
SYMMETRY Symmetry
INVARIANTS
    TypeOK
    PathsUnique
    ParentsRight
    ThumbnailsOwned
    ScanFaithful
    StubsAreInterrupted
    DeletedAreListed
PROPERTY UnchangedKeepIds
