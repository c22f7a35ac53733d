----------------------------- MODULE IndexStats -----------------------------
(***************************************************************************)
(* The statistics at the end of a scan: the three histograms and the       *)
(* treemap, whose small files are merged into their directory, small       *)
(* directories into theirs, and so on.  A step is one statement, or one    *)
(* row of the iteration that updates and deletes rows of the table it      *)
(* iterates over; the process may be killed between two.                   *)
(***************************************************************************)
EXTENDS Naturals, Sequences, FiniteSets, SequencesExt, FiniteSetsExt

CONSTANTS Corpora,      \* sets of files: path -> [size, mtime, mime]
          Thresholds,   \* sizes below which a row is merged
          MinMerges,    \* TREEMAP_MINIMUM_MERGES_TO_CONTINUE
          SizeBucket, DateBucket,
          NoMime,       \* a file whose mime type has no name
          MaxScanKills      \* bound on the scans that are killed

ASSUME StatsAssumption ==
    /\ MinMerges \in Nat
    /\ SizeBucket \in Nat \ {0} /\ DateBucket \in Nat \ {0}
    /\ Thresholds \subseteq Nat
    /\ MaxScanKills \in Nat
    /\ \A c \in Corpora :
          /\ IsFiniteSet(DOMAIN c) /\ DOMAIN c \subseteq Seq(STRING) \ {<<>>}
          /\ \A p \in DOMAIN c : c[p].size \in Nat

VARIABLES
    corpus,     \* the documents without a parent, of which the treemap is made
    members,    \* those with one: only counted
    threshold,
    tm,         \* rows <<path, size>> by rowid
    cursor,     \* the next row of the iteration
    merged,     \* merged_rows
    phase,
    stats,      \* the four tables that the server shows
    killed      \* how many scans were killed

statsVars == <<corpus, members, threshold, tm, cursor, merged, phase, stats, killed>>

Phases == {"delete", "aggregate", "flat", "parents", "merge", "store", "done"}
Tables == {"SAGG", "DAGG", "MAGG", "TMAP"}
NoStats == [t \in Tables |-> {}]

StatsInit ==
    /\ corpus \in Corpora /\ members \in Corpora
    /\ threshold \in Thresholds
    /\ tm = <<>> /\ cursor = 1 /\ merged = 0
    /\ phase = "delete" /\ stats = NoStats
    /\ killed = 0

\* path_parent: a path without a separator has none.
HasParent(p) == Len(p) > 1
Parent(p) == Front(p)

-----------------------------------------------------------------------------
\* The documents of an index: files, and members of archives.
AllDocuments == {<<"file", p>> : p \in DOMAIN corpus} \cup {<<"member", p>> : p \in DOMAIN members}
Doc(x) == IF x[1] = "file" THEN corpus[x[2]] ELSE members[x[2]]

\* SELECT bucket, count(*) ... GROUP BY bucket
Histogram(bucket) ==
    {<<b, Cardinality({x \in DOMAIN bucket : bucket[x] = b})>> : b \in {bucket[x] : x \in DOMAIN bucket}}

SizeAgg == Histogram([x \in AllDocuments |-> (Doc(x).size \div SizeBucket) * SizeBucket])
DateAgg == Histogram([x \in AllDocuments |-> (Doc(x).mtime \div DateBucket) * DateBucket])
MimeAgg == LET named == {x \in AllDocuments : Doc(x).mime # NoMime}
           IN  {<<h[1], MapThenSumSet(LAMBDA x : Doc(x).size,
                                      {x \in named : Doc(x).mime = h[1]}), h[2]>> :
                   h \in Histogram([x \in named |-> Doc(x).mime])}

DeleteStats ==
    /\ phase = "delete"
    /\ stats' = NoStats
    /\ phase' = "aggregate"
    /\ UNCHANGED <<corpus, members, threshold, tm, cursor, merged, killed>>

Aggregate ==
    /\ phase = "aggregate"
    /\ stats' = [stats EXCEPT !["SAGG"] = SizeAgg, !["DAGG"] = DateAgg, !["MAGG"] = MimeAgg]
    /\ phase' = "flat"
    /\ UNCHANGED <<corpus, members, threshold, tm, cursor, merged, killed>>

\* "flat map": a row for every path, in any order.
FlatMap ==
    /\ phase = "flat"
    /\ \E order \in SetToSeqs(DOMAIN corpus) :
          tm' = [n \in DOMAIN order |-> <<order[n], corpus[order[n]].size>>]
    /\ phase' = "parents"
    /\ UNCHANGED <<corpus, members, threshold, cursor, merged, stats, killed>>

PathsOf(rows) == {rows[n][1] : n \in DOMAIN rows}
Small(row) == row[2] < threshold

\* The parents that are missing, each with size 0.
InsertMissingParents ==
    /\ phase = "parents"
    /\ LET missing == {Parent(tm[n][1]) : n \in {m \in DOMAIN tm : Small(tm[m]) /\ HasParent(tm[m][1])}}
                      \ PathsOf(tm)
       IN  \E order \in SetToSeqs(missing) :
              tm' = tm \o [n \in DOMAIN order |-> <<order[n], 0>>]
    /\ cursor' = 1 /\ merged' = 0
    /\ phase' = "merge"
    /\ UNCHANGED <<corpus, members, threshold, stats, killed>>

AddTo(rows, p, size) ==
    [n \in DOMAIN rows |-> IF rows[n][1] = p THEN <<p, rows[n][2] + size>> ELSE rows[n]]

\* Mutant: whether the parent has a row was found out before the iteration began.
MergesUnchecked(n) == HasParent(tm[n][1]) /\ Small(tm[n])

\* The IN of the iteration looks the parent up when it comes to the row.
Merges(n) == HasParent(tm[n][1]) /\ Parent(tm[n][1]) \in PathsOf(tm) /\ Small(tm[n])

\* Mutant: the cursor moves on from a row that was deleted.
MergeRowSkips ==
    /\ phase = "merge" /\ cursor <= Len(tm)
    /\ tm' = IF Merges(cursor)
             THEN RemoveAt(AddTo(tm, Parent(tm[cursor][1]), tm[cursor][2]), cursor) ELSE tm
    /\ merged' = IF Merges(cursor) THEN merged + 1 ELSE merged
    /\ cursor' = cursor + 1
    /\ UNCHANGED <<corpus, members, threshold, phase, stats, killed>>

\* The row at the cursor is merged up, or passed over.
MergeRow ==
    /\ phase = "merge" /\ cursor <= Len(tm)
    /\ IF Merges(cursor)
       THEN /\ tm' = RemoveAt(AddTo(tm, Parent(tm[cursor][1]), tm[cursor][2]), cursor)
            /\ merged' = merged + 1
            /\ cursor' = cursor
       ELSE /\ cursor' = cursor + 1
            /\ UNCHANGED <<tm, merged>>
    /\ UNCHANGED <<corpus, members, threshold, phase, stats, killed>>

EndIteration ==
    /\ phase = "merge" /\ cursor > Len(tm)
    /\ phase' = IF merged > MinMerges THEN "parents" ELSE "store"
    /\ UNCHANGED <<corpus, members, threshold, tm, cursor, merged, stats, killed>>

StoreTreemap ==
    /\ phase = "store"
    /\ stats' = [stats EXCEPT !["TMAP"] = {tm[n] : n \in DOMAIN tm}]
    /\ phase' = "done"
    /\ UNCHANGED <<corpus, members, threshold, tm, cursor, merged, killed>>

\* tm is a temporary table: it goes with the process. The next scan begins anew.
KillStats ==
    /\ phase \notin {"delete", "done"}
    /\ killed < MaxScanKills
    /\ killed' = killed + 1
    /\ tm' = <<>> /\ cursor' = 1 /\ merged' = 0
    /\ phase' = "delete"
    /\ UNCHANGED <<corpus, members, threshold, stats>>

StatsNext ==
    \/ DeleteStats \/ Aggregate \/ FlatMap \/ InsertMissingParents
    \/ MergeRow \/ EndIteration \/ StoreTreemap \/ KillStats

StatsSpec == StatsInit /\ [][StatsNext]_statsVars
-----------------------------------------------------------------------------
(* Properties.                                                             *)

StatsTypeOK ==
    /\ phase \in Phases /\ killed \in 0 .. MaxScanKills
    /\ \A n \in DOMAIN tm : tm[n] \in Seq(STRING) \X Nat
    /\ cursor \in 1 .. Len(tm) + 1
    /\ merged \in Nat
    /\ DOMAIN stats = Tables

UpTo(a, d) == IsPrefix(d, a)

RowsWithin(d) ==
    SumFunctionOnSet([n \in DOMAIN tm |-> tm[n][2]], {n \in DOMAIN tm : UpTo(tm[n][1], d)})
FilesWithin(d) ==
    SumFunctionOnSet([p \in DOMAIN corpus |-> corpus[p].size], {p \in DOMAIN corpus : UpTo(p, d)})
FileDirectories == UNION {{SubSeq(p, 1, n) : n \in 1 .. Len(p)} : p \in DOMAIN corpus}

\* No file's size is lost or counted twice while rows are merged in any order: what is
\* in and below a directory never exceeds its files, a top-level one has all of them,
\* and no path has two rows. So the areas of the treemap are those of the files.
SizesConserved ==
    phase \in {"parents", "merge", "store", "done"} =>
        /\ \A d \in FileDirectories :
              /\ RowsWithin(d) <= FilesWithin(d)
              /\ ~HasParent(d) => RowsWithin(d) = FilesWithin(d)
        /\ \A n, m \in DOMAIN tm : tm[n][1] = tm[m][1] => n = m
=============================================================================
