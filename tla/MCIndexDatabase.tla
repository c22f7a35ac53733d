-------------------------- MODULE MCIndexDatabase --------------------------
(* Small instances of IndexDatabase for TLC: one archive with one member,  *)
(* one more file, two workers.                                             *)
EXTENDS IndexDatabase, TLC

CONSTANTS arc, doc, member, w1, w2, t1, t2

MCFiles == {arc, doc}
MCInner == {member}
MCArchiveOf == (member :> arc)
MCWorkers == {w1, w2}
MCMtimes == {t1, t2}

\* Workers are alike, and mtimes are only compared with each other.
Symmetry == Permutations(Workers) \cup Permutations(Mtimes)
=============================================================================
