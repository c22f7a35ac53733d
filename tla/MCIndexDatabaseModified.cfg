SPECIFICATION Spec
CONSTANTS
    arc = arc
    doc = doc
    member = member
    NoPath = NoPath
    Unseen = Unseen
    Absent = Absent
    t1 = t1
    t2 = t2
    w1 = w1
    w2 = w2
    Files <- MCFiles
    Inner <- MCInner
    ArchiveOf <- MCArchiveOf
    Workers <- MCWorkers
    Mtimes <- MCMtimes
    MaxId = 6
    MaxScans = 3
    MaxEdits = 1
    MaxLosses = 0
    MaxKills = 0
SYMMETRY Symmetry
INVARIANT ModifiedFilesAreIndexed
