----------------------------- MODULE PathIndex -----------------------------
(***************************************************************************)
(* The directory tree of the SQLite search backend: how sqlite-index makes *)
(* path_index of the directories of all documents, deepest first, and the  *)
(* queries by which the web interface walks down the tree.                 *)
(*                                                                         *)
(* A directory is the sequence of the names on its path; documents at the  *)
(* root of an index are not counted.                                       *)
(***************************************************************************)
EXTENDS Naturals, Sequences, FiniteSets, SequencesExt, FiniteSetsExt

CONSTANTS Directories,   \* the directories that hold documents, without the root
          PathIds,       \* ids of index files
          MaxPerDir      \* bound on the documents of an index file in a directory

ASSUME PathAssumption ==
    /\ IsFiniteSet(Directories) /\ Directories \subseteq Seq(STRING) \ {<<>>}
    /\ IsFiniteSet(PathIds) /\ 0 \notin PathIds
    /\ MaxPerDir \in Nat

VARIABLES
    holds,       \* documents of each index file in each directory
    path_tmp,    \* <<directory, index>> -> count of its documents, and of those below
    level,       \* the depth whose parents come next; 0 before the first statement
    path_index,  \* what the server answers from: <<directory, index>> -> count
    tree,        \* directories that were shown in the tree, with their counts
    opened       \* those that the user has opened

pathVars == <<holds, path_tmp, level, path_index, tree, opened>>

Depth(d) == Len(d)
StrictlyBelow(a, d) == Len(a) > Len(d) /\ IsPrefix(d, a)
Within(a, d) == IsPrefix(d, a)
Ancestors(d) == {SubSeq(d, 1, n) : n \in 1 .. Len(d)}
AllDirectories == UNION {Ancestors(d) : d \in Directories}
Deepest == Max({Depth(d) : d \in Directories} \cup {1})

PathInit ==
    /\ holds \in [Directories -> [PathIds -> 0 .. MaxPerDir]]
    /\ path_tmp = <<>> /\ level = 0 /\ path_index = <<>>
    /\ tree = {} /\ opened = {}

-----------------------------------------------------------------------------
(* database_fts_index.                                                     *)

Held(d) == {i \in PathIds : holds[d][i] > 0}
\* database_fts_get_max_path_depth; with no row at all the loop does not run.
MaxDepth(rows) == Max({Depth(r[1]) : r \in DOMAIN rows} \cup {1})

\* GROUP BY path: one row for a directory, with the id of any one of its documents.
GroupByPath ==
    /\ level = 0
    /\ \E id \in [Directories -> PathIds] :
          LET dirs == {d \in Directories : Held(d) # {}}
          IN  /\ \A d \in Directories : IF d \in dirs THEN id[d] \in Held(d)
                                        ELSE id[d] = CHOOSE i \in PathIds : TRUE
              /\ path_tmp' = [r \in {<<d, id[d]>> : d \in dirs} |->
                    [count |-> SumFunctionOnSet(holds[r[1]], PathIds), children |-> 0]]
    /\ level' = MaxDepth(path_tmp')
    /\ UNCHANGED <<holds, path_index, tree, opened>>

\* Mutant: only the rows of the depth at hand are added up.
CountOfChildren(rows, d, i) ==
    SumFunctionOnSet([r \in DOMAIN rows |-> rows[r].count],
                     {r \in DOMAIN rows : r[2] = i /\ Depth(r[1]) = Depth(d) + 1 /\ StrictlyBelow(r[1], d)})

\* Documents counted below a directory for an index.
CountBelow(rows, d, i) ==
    SumFunctionOnSet([r \in DOMAIN rows |-> rows[r].count],
                     {r \in DOMAIN rows : r[2] = i /\ StrictlyBelow(r[1], d)})

\* One iteration of the loop: GROUP BY parent, so one row for a parent, with the id
\* of any one of the rows of that depth in it.
InsertParents ==
    /\ level > 1
    /\ LET rows == {r \in DOMAIN path_tmp : Depth(r[1]) = level}
           parents == {Front(r[1]) : r \in rows}
           IdsIn(p) == {r[2] : r \in {q \in rows : Front(q[1]) = p}}
       IN  \E id \in [parents -> PathIds] :
              LET new == {<<p, id[p]>> : p \in parents}
              IN  /\ \A p \in parents : id[p] \in IdsIn(p)
                  /\ path_tmp' = [r \in DOMAIN path_tmp \cup new |->
                        [count |-> IF r \in DOMAIN path_tmp THEN path_tmp[r].count ELSE 0,
                         children |-> IF r \in new THEN CountBelow(path_tmp, r[1], r[2])
                                      ELSE path_tmp[r].children]]
    /\ level' = level - 1
    /\ UNCHANGED <<holds, path_index, tree, opened>>

Published == level = 1 /\ path_tmp = <<>>

PublishPaths ==
    /\ level = 1 /\ path_tmp # <<>>
    /\ path_index' = [r \in DOMAIN path_tmp |-> path_tmp[r].count + path_tmp[r].children]
    /\ path_tmp' = <<>>
    /\ UNCHANGED <<holds, level, tree, opened>>

-----------------------------------------------------------------------------
(* database_fts_get_paths, and the tree of the web interface.              *)

NoPrefix == <<>>

\* The statements with and without a prefix. Without index_id the latter finds nothing:
\* index_id = NULL. The third, of suggestions (maxDepth 10000), takes a path that begins
\* with some characters, which names do not have here, and is left out.
SearchPaths(i, min, max, prefix) ==
    {<<r[1], path_index[r]>> :
        r \in {q \in DOMAIN path_index :
                  /\ Depth(q[1]) \in min .. max
                  /\ IF prefix = NoPrefix THEN i # 0 /\ q[2] = i
                     ELSE (i = 0 \/ q[2] = i) /\ Within(q[1], prefix)}}

\* A node of the tree is opened: the depth below it is asked for.
Open(i, d) ==
    /\ Published
    /\ <<i, d>> \notin opened
    /\ d = NoPrefix \/ \E n \in tree : n[1] = i /\ n[2] = d
    /\ tree' = tree \cup {<<i, a[1], a[2]>> : a \in SearchPaths(i, Depth(d) + 1, Depth(d) + 1, d)}
    /\ opened' = opened \cup {<<i, d>>}
    /\ UNCHANGED <<holds, path_tmp, level, path_index>>

PathNext ==
    \/ GroupByPath \/ InsertParents \/ PublishPaths
    \/ \E i \in PathIds, d \in AllDirectories \cup {NoPrefix} : Open(i, d)

PathSpec == PathInit /\ [][PathNext]_pathVars
-----------------------------------------------------------------------------
(* Properties.                                                             *)

PathTypeOK ==
    /\ DOMAIN path_tmp \subseteq AllDirectories \X PathIds
    /\ \A r \in DOMAIN path_tmp : path_tmp[r] \in [count : Nat, children : Nat]
    /\ level \in 0 .. Deepest
    /\ DOMAIN path_index \subseteq AllDirectories \X PathIds
    /\ \A n \in tree : n[1] \in PathIds /\ n[2] \in AllDirectories /\ n[3] \in Nat

\* Documents of an index file in a directory and below it.
DocumentsWithin(i, d) ==
    SumFunctionOnSet([a \in Directories |-> holds[a][i]], {a \in Directories : Within(a, d)})

\* The index files have no directory of the same path.
Separate ==
    \A d \in AllDirectories : Cardinality({i \in PathIds : DocumentsWithin(i, d) > 0}) <= 1

\* Of index files that share no path, a user who opens every node sees every directory
\* that has documents in it or below, and how many: a level that holds no documents of
\* its own does not hide what is below it, and no document is counted twice.
TreeShowsDocuments ==
    /\ \A n \in tree : Separate => n[3] = DocumentsWithin(n[1], n[2])
    /\ \A i \in PathIds, d \in AllDirectories :
          ( /\ \A e \in (Ancestors(d) \ {d}) \cup {NoPrefix} : <<i, e>> \in opened
            /\ DocumentsWithin(i, d) > 0 /\ Separate )
          => \E n \in tree : n[1] = i /\ n[2] = d
=============================================================================
