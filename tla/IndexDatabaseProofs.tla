------------------------ MODULE IndexDatabaseProofs ------------------------
(***************************************************************************)
(* The index file through any number of scans, for every set of files and  *)
(* archives and every number of workers.                                   *)
(***************************************************************************)
EXTENDS IndexDatabase, TLAPS

-----------------------------------------------------------------------------
(* What the workers hold, on which type correctness depends.               *)

\* m is a file that worker w found in its archive, and it is still there.
Inside(w, m) == m \in Inner /\ ArchiveOf[m] = file[w] /\ disk[m] \in Mtimes

\* A worker with a job has a file that the walk found, and parses it or a member of
\* it; one without has nothing.
Holds(w) ==
    /\ pc[w] # "idle" => /\ file[w] \in Files /\ seen[file[w]] \in Mtimes
                         /\ cur[w] = file[w] \/ Inside(w, cur[w])
    /\ pc[w] = "idle" => file[w] = NoPath /\ cur[w] = NoPath
    /\ pc[w] \in {"stub", "members"} => cur[w] = file[w]
    /\ pc[w] = "thumbnail" => docId[w] \in Ids
    /\ \A m \in rest[w] : Inside(w, m)
    /\ rest[w] # {} => pc[w] = "members" \/ cur[w] # file[w]

Seen == /\ seen \in [Files -> Mtimes \cup {Absent, Unseen}]
        /\ \A f \in todo : seen[f] \in Mtimes

\* Out of the walk there is nothing to do and no worker.
Quiet == phase # "walk" => todo = {} /\ \A w \in Workers : pc[w] = "idle"

Reading == Seen /\ Quiet /\ \A w \in Workers : Holds(w)

\* The part of TypeOK that is about the index file, without Range.
DatabaseType ==
    /\ DOMAIN document \subseteq Ids
    /\ \A i \in DOMAIN document : document[i] \in DocumentType
    /\ DOMAIN marked \subseteq Ids
    /\ \A i \in DOMAIN marked : marked[i] \in [marked : BOOLEAN, mtime : Mtimes]
    /\ DOMAIN thumbnail \subseteq Ids
    /\ \A i \in DOMAIN thumbnail : thumbnail[i] \in Paths
    /\ delete_list \subseteq Ids

ProcessType ==
    /\ disk \in [Paths -> Mtimes \cup {Absent}]
    /\ created \in BOOLEAN
    /\ phase \in Phases
    /\ incremental \in BOOLEAN
    /\ todo \subseteq Files
    /\ pc \in [Workers -> WorkerPcs]
    /\ file \in [Workers -> Files \cup {NoPath}]
    /\ cur \in [Workers -> Paths \cup {NoPath}]
    /\ rest \in [Workers -> SUBSET Inner]
    /\ docId \in [Workers -> Ids \cup {NoId}]

\* The two parts make up TypeOK.
LEMMA TypeParts == TypeOK <=> DatabaseType /\ ProcessType
BY DEF TypeOK, DatabaseType, ProcessType, Range

-----------------------------------------------------------------------------
(* The processes.                                                          *)

\* The actions of the user and of main keep what the workers hold.
LEMMA MainKeepsReading ==
    ASSUME ProcessType, Reading, User \/ Scan
    PROVE  ProcessType' /\ Reading'
<1> USE IndexAssumption DEF ProcessType, Reading, Seen, Quiet, Holds, Inside, Paths, Phases,
        EndPhases, Running, dbVars, scanVars, workerVars
<1>1. CASE EditFile
  BY <1>1 DEF EditFile
<1>2. CASE Repack
  BY <1>2 DEF Repack, Open
<1>3. CASE BeginScan
  BY <1>3 DEF BeginScan
<1>4. CASE \E f \in Files : Visit(f)
  BY <1>4 DEF Visit
<1>5. CASE EndPool
  BY <1>5 DEF EndPool
<1>6. CASE PurgeDeleteList \/ DeleteThumbnails \/ ListDeleted \/ DeleteDocuments \/ EndScan
  <2>1. /\ phase # "walk" /\ phase' \in Phases \ {"walk"}
        /\ UNCHANGED <<disk, created, incremental, seen, todo, workerVars>>
    BY <1>6 DEF PurgeDeleteList, DeleteThumbnails, ListDeleted, DeleteDocuments, EndScan
  <2>2. QED
    BY <2>1
<1>7. CASE KillScan
  BY <1>7 DEF KillScan, WorkerPcs
<1>8. QED
  BY <1>1, <1>2, <1>3, <1>4, <1>5, <1>6, <1>7 DEF User, Scan

\* So do those of the workers.
LEMMA WorkerKeepsReading ==
    ASSUME ProcessType, Reading, NEW w \in Workers, Worker(w)
    PROVE  ProcessType' /\ Reading'
<1> USE IndexAssumption DEF ProcessType, Reading, Seen, Quiet, Holds, Inside, Paths, WorkerPcs,
        dbVars, scanVars, Return, Archives, Ids, NoId
<1>1. CASE StartJob(w)
  BY <1>1 DEF StartJob
<1>2. CASE MarkDocument(w)
  BY <1>2 DEF MarkDocument
<1>3. CASE CannotRead(w)
  BY <1>3 DEF CannotRead
<1>4. CASE WriteStub(w)
  BY <1>4 DEF WriteStub, Members
<1>5. CASE NextMember(w)
  BY <1>5 DEF NextMember
<1>6. CASE BreakOffMembers(w)
  BY <1>6 DEF BreakOffMembers
<1>7. CASE WriteDocument(w)
  BY <1>7 DEF WriteDocument
<1>8. CASE WriteThumbnail(w)
  BY <1>8 DEF WriteThumbnail
<1>9. CASE LoseJob(w)
  BY <1>9 DEF LoseJob
<1>10. QED
  BY <1>1, <1>2, <1>3, <1>4, <1>5, <1>6, <1>7, <1>8, <1>9 DEF Worker
-----------------------------------------------------------------------------
(* The tables.                                                             *)

\* The arguments that a worker gives to the statement on document are of its type.
LEMMA Upserted ==
    ASSUME ProcessType, Reading, NEW w \in Workers, pc[w] \in {"stub", "write"}
    PROVE  cur[w] \in Paths /\ Mtime(w) \in Mtimes
BY IndexAssumption DEF ProcessType, Reading, Seen, Holds, Inside, Paths, Mtime

\* Worker w writes, or finds, the row with this id.
Upserts(w, id) ==
    /\ pc[w] \in {"stub", "write"}
    /\ \E json \in BOOLEAN : UpsertDocument(cur[w], Mtime(w), json, id)

\* That row has the path the worker parses; no other row changes, and a row that is
\* added has an id above all others, above that of its parent too.
LEMMA UpsertWrites ==
    ASSUME DatabaseType, ProcessType, Reading, NEW w \in Workers, NEW id \in Ids,
           Upserts(w, id)
    PROVE  /\ cur[w] \in Paths
           /\ DOMAIN document' = DOMAIN document \cup {id}
           /\ \A i \in DOMAIN document' : document'[i] \in DocumentType
           /\ document'[id].path = cur[w]
           /\ \A i \in DOMAIN document : /\ document'[i].path = document[i].path
                                         /\ document'[i].parent = document[i].parent
                                         /\ document'[i].mtime = document[i].mtime
           /\ \/ id \in DOMAIN document /\ used' = used
              \/ /\ \A i \in DOMAIN document : i < id /\ document[i].path # cur[w]
                 /\ used' = used \cup {id}
                 /\ \/ document'[id].parent = NoId
                    \/ /\ document'[id].parent \in DOMAIN document
                       /\ cur[w] \in Inner
                       /\ document[document'[id].parent].path = ArchiveOf[cur[w]]
<1> DEFINE p == cur[w]
           t == Mtime(w)
<1>1. p \in Paths /\ t \in Mtimes
  BY Upserted DEF Upserts
<1>2. PICK json \in BOOLEAN : UpsertDocument(p, t, json, id)
  BY DEF Upserts
<1> HIDE DEF p, t
<1> USE DEF DatabaseType, DocumentType, IdOf, Ids
<1>3. CASE id \in IdOf(p) /\ document' = [document EXCEPT ![id].json = json] /\ UNCHANGED used
  BY <1>1, <1>2, <1>3 DEF p
<1>4. CASE IdOf(p) = {}
  <2>1. PICK parent \in IF p \in Inner /\ IdOf(ArchiveOf[p]) # {}
                          THEN IdOf(ArchiveOf[p]) ELSE {NoId} :
            document' = [k \in DOMAIN document \cup {id} |->
                IF k = id THEN [path |-> p, parent |-> parent, mtime |-> t, json |-> json]
                          ELSE document[k]]
    BY <1>2, <1>4 DEF UpsertDocument
  <2>2. /\ used' = used \cup {id}
        /\ \A i \in DOMAIN document : i < id /\ document[i].path # p
    BY <1>2, <1>4 DEF UpsertDocument, NextId
  <2>3. parent \in Ids \cup {NoId}
    BY <2>1
  <2>4. QED
    BY <1>1, <1>2, <2>1, <2>2, <2>3 DEF p
<1>5. QED
  BY <1>2, <1>3, <1>4 DEF UpsertDocument

\* Every step leaves document alone, writes a row for what a worker holds, or deletes
\* the rows that are not marked.
LEMMA DocumentSteps ==
    ASSUME ProcessType, Reading, [Next]_vars
    PROVE  \/ UNCHANGED <<document, used>>
           \/ \E w \in Workers, id \in Ids :
                 /\ Upserts(w, id)
                 /\ UNCHANGED <<marked, thumbnail, delete_list, phase>>
           \/ DeleteDocuments
<1> USE DEF dbVars, scanVars, historyVars
<1>1. CASE User
  BY <1>1 DEF User, EditFile, Repack
<1>2. CASE Scan
  BY <1>2 DEF Scan, BeginScan, Visit, EndPool, PurgeDeleteList, DeleteThumbnails, ListDeleted,
          EndScan, KillScan
<1>3. ASSUME NEW w \in Workers, Worker(w)
      PROVE  \/ UNCHANGED <<document, used>>
             \/ \E id \in Ids :
                   /\ Upserts(w, id)
                   /\ UNCHANGED <<marked, thumbnail, delete_list, phase>>
  <2>1. CASE WriteStub(w)
    BY <2>1 DEF WriteStub, Upserts
  <2>2. CASE WriteDocument(w)
    BY <2>2 DEF WriteDocument, Upserts
  <2>3. CASE ~WriteStub(w) /\ ~WriteDocument(w)
    BY <1>3, <2>3 DEF Worker, StartJob, MarkDocument, CannotRead, NextMember, BreakOffMembers,
            WriteThumbnail, LoseJob
  <2>4. QED
    BY <2>1, <2>2, <2>3
<1>4. CASE Rest \/ UNCHANGED vars
  BY <1>4 DEF Rest, vars
<1>5. QED
  BY <1>1, <1>2, <1>3, <1>4 DEF Next
-----------------------------------------------------------------------------
(* Type correctness.                                                       *)

\* The rows of document keep their type.
LEMMA DocumentKeepsType ==
    ASSUME DatabaseType, ProcessType, Reading, [Next]_vars
    PROVE  /\ DOMAIN document' \subseteq Ids
           /\ \A i \in DOMAIN document' : document'[i] \in DocumentType
<1>1. CASE UNCHANGED document
  BY <1>1 DEF DatabaseType
<1>2. ASSUME NEW w \in Workers, NEW id \in Ids, Upserts(w, id)
      PROVE  /\ DOMAIN document' \subseteq Ids
             /\ \A i \in DOMAIN document' : document'[i] \in DocumentType
  <2>1. /\ DOMAIN document' = DOMAIN document \cup {id}
        /\ \A i \in DOMAIN document' : document'[i] \in DocumentType
    BY <1>2, UpsertWrites
  <2>2. QED
    BY <2>1 DEF DatabaseType
<1>3. CASE DeleteDocuments
  BY <1>3 DEF DeleteDocuments, Restrict, DatabaseType
<1>4. QED
  BY <1>1, <1>2, <1>3, DocumentSteps

\* A step keeps the types of all tables.
LEMMA TablesKeepType ==
    ASSUME DatabaseType, ProcessType, Reading, [Next]_vars
    PROVE  DatabaseType'
<1> USE DEF DatabaseType, dbVars, scanVars
<1>1. /\ DOMAIN document' \subseteq Ids
      /\ \A i \in DOMAIN document' : document'[i] \in DocumentType
  BY DocumentKeepsType
<1>2. CASE User
  BY <1>1, <1>2 DEF User, EditFile, Repack, DocumentType
<1>3. CASE Scan
  <2>1. CASE BeginScan
    BY <1>1, <2>1 DEF BeginScan, DocumentType
  <2>2. CASE PurgeDeleteList
    BY <1>1, <2>2 DEF PurgeDeleteList
  <2>3. CASE DeleteThumbnails
    BY <1>1, <2>3 DEF DeleteThumbnails, Restrict
  <2>4. CASE ListDeleted
    BY <1>1, <2>4 DEF ListDeleted, MarkedAs
  <2>5. CASE EndScan
    BY <1>1, <2>5 DEF EndScan
  <2>6. CASE (\E f \in Files : Visit(f)) \/ EndPool \/ DeleteDocuments \/ KillScan
    BY <1>1, <2>6 DEF Visit, EndPool, DeleteDocuments, KillScan
  <2>7. QED
    BY <1>3, <2>1, <2>2, <2>3, <2>4, <2>5, <2>6 DEF Scan
<1>4. ASSUME NEW w \in Workers, Worker(w)
      PROVE  DatabaseType'
  <2>1. CASE MarkDocument(w)
    <3>1. /\ DOMAIN marked' \subseteq Ids
          /\ \A i \in DOMAIN marked' : marked'[i] \in [marked : BOOLEAN, mtime : Mtimes]
      <4>1. CASE marked' = marked
        BY <4>1
      <4>2. CASE marked' # marked
        <5> DEFINE m == Matching(cur[w], Mtime(w))
        <5>1. marked' = [i \in DOMAIN marked |->
                           IF i \in m THEN [marked[i] EXCEPT !.marked = TRUE] ELSE marked[i]]
          BY <2>1, <4>2 DEF MarkDocument
        <5>2. QED
          BY <5>1
      <4>3. QED
        BY <4>1, <4>2
    <3>2. QED
      BY <1>1, <2>1, <3>1 DEF MarkDocument
  <2>2. CASE WriteThumbnail(w)
    <3>1. pc[w] = "thumbnail" /\ docId[w] \in Ids /\ cur[w] \in Paths
      BY <2>2, IndexAssumption DEF WriteThumbnail, ProcessType, Reading, Holds, Inside, Paths
    <3>2. QED
      BY <1>1, <2>2, <3>1 DEF WriteThumbnail
  <2>3. CASE ~MarkDocument(w) /\ ~WriteThumbnail(w)
    BY <1>1, <1>4, <2>3 DEF Worker, StartJob, CannotRead, WriteStub, NextMember,
            BreakOffMembers, WriteDocument, LoseJob
  <2>4. QED
    BY <2>1, <2>2, <2>3
<1>5. CASE Rest \/ UNCHANGED vars
  BY <1>5 DEF Rest, vars
<1>6. QED
  BY <1>2, <1>3, <1>4, <1>5 DEF Next
Typed == DatabaseType /\ ProcessType /\ Reading

\* Types and what the workers hold are kept by every step.
LEMMA TypedInvariant == Spec => []Typed
<1>1. Init => Typed
  <2> USE IndexAssumption DEF Init
  <2>1. Init => DatabaseType
    BY DEF DatabaseType
  <2>2. Init => ProcessType
    BY DEF ProcessType, Phases, WorkerPcs
  <2>3. Init => Reading
    BY DEF Reading, Seen, Quiet, Holds
  <2>4. QED
    BY <2>1, <2>2, <2>3 DEF Typed
<1>2. Typed /\ [Next]_vars => Typed'
  <2> SUFFICES ASSUME Typed, [Next]_vars
               PROVE  Typed'
    OBVIOUS
  <2>1. DatabaseType'
    BY TablesKeepType DEF Typed
  <2>2. CASE User \/ Scan
    BY <2>1, <2>2, MainKeepsReading DEF Typed
  <2>3. ASSUME NEW w \in Workers, Worker(w)
        PROVE  Typed'
    BY <2>1, <2>3, WorkerKeepsReading DEF Typed
  <2>4. CASE UNCHANGED vars
    BY <2>1, <2>4 DEF Typed, ProcessType, Reading, Seen, Quiet, Holds, Inside, vars, dbVars,
            scanVars, workerVars
  <2>5. QED
    BY <2>2, <2>3, <2>4 DEF Next, Rest
<1>3. QED
  BY <1>1, <1>2, PTL DEF Spec

\* Type correctness. The mtime in a new row is one that the walk, or the archive, gave,
\* never Absent or Unseen: hence what Holds says of the workers.
THEOREM TypeCorrect == Spec => []TypeOK
<1>1. Typed => TypeOK
  BY TypeParts DEF Typed
<1>2. QED
  BY <1>1, TypedInvariant, PTL

-----------------------------------------------------------------------------
(* Paths and parents.                                                      *)

\* The id of a parent is below those of its members.
ParentsBelow == \A i \in DOMAIN document : document[i].parent < i

Linked == PathsUnique /\ ParentsRight /\ ParentsBelow

\* A row that is added gets the path of no other row, and no row names its id as parent.
LEMMA UpsertKeepsLinked ==
    ASSUME Typed, Linked, NEW w \in Workers, NEW id \in Ids, Upserts(w, id)
    PROVE  Linked'
<1>1. /\ DOMAIN document' = DOMAIN document \cup {id}
      /\ document'[id].path = cur[w]
      /\ \A i \in DOMAIN document : /\ document'[i].path = document[i].path
                                    /\ document'[i].parent = document[i].parent
  BY UpsertWrites DEF Typed
<1>2. /\ DOMAIN document \subseteq Nat \ {0}
      /\ \A i \in DOMAIN document : document[i].parent \in Nat
  BY DEF Typed, DatabaseType, DocumentType, Ids, NoId
<1>3. CASE id \in DOMAIN document
  BY <1>1, <1>3 DEF Linked, PathsUnique, ParentsRight, ParentsBelow
<1>4. CASE id \notin DOMAIN document
  <2>1. \A i \in DOMAIN document : i < id /\ document[i].path # cur[w]
    BY <1>4, UpsertWrites DEF Typed
  <2>2. \/ document'[id].parent = NoId
        \/ /\ document'[id].parent \in DOMAIN document
           /\ cur[w] \in Inner
           /\ document[document'[id].parent].path = ArchiveOf[cur[w]]
    BY <1>4, UpsertWrites DEF Typed
  <2>3. PathsUnique'
    BY <1>1, <1>4, <2>1 DEF Linked, PathsUnique
  <2>4. id \in Nat \ {0}
    BY DEF Ids
  <2>5. ParentsBelow'
    BY <1>1, <1>2, <2>1, <2>2, <2>4 DEF Linked, ParentsBelow, NoId
  <2>6. ParentsRight'
    <3> SUFFICES ASSUME NEW i \in DOMAIN document', document'[i].parent \in DOMAIN document'
                 PROVE  /\ document'[i].path \in Inner
                        /\ document'[document'[i].parent].path = ArchiveOf[document'[i].path]
      BY DEF ParentsRight
    <3>1. CASE i = id
      BY <1>1, <1>2, <2>2, <2>4, <3>1 DEF NoId
    <3>2. CASE i # id
      <4>1. i \in DOMAIN document /\ document'[i].parent = document[i].parent
        BY <1>1, <3>2
      <4>2. document[i].parent # id
        BY <1>2, <2>1, <2>4, <4>1 DEF Linked, ParentsBelow
      <4>3. document[i].parent \in DOMAIN document
        BY <1>1, <4>1, <4>2
      <4>4. QED
        BY <1>1, <4>1, <4>3 DEF Linked, ParentsRight
    <3>3. QED
      BY <3>1, <3>2
  <2>7. QED
    BY <2>3, <2>5, <2>6 DEF Linked
<1>5. QED
  BY <1>3, <1>4

\* Paths and parents are kept right by every step.
LEMMA LinkedInvariant == Spec => []Linked
<1>1. Init => Linked
  BY DEF Init, Linked, PathsUnique, ParentsRight, ParentsBelow
<1>2. Typed /\ Linked /\ [Next]_vars => Linked'
  <2> SUFFICES ASSUME Typed, Linked, [Next]_vars
               PROVE  Linked'
    OBVIOUS
  <2>1. CASE UNCHANGED document
    BY <2>1 DEF Linked, PathsUnique, ParentsRight, ParentsBelow
  <2>2. CASE DeleteDocuments
    BY <2>2 DEF DeleteDocuments, Restrict, Linked, PathsUnique, ParentsRight, ParentsBelow
  <2>3. QED
    BY <2>1, <2>2, DocumentSteps, UpsertKeepsLinked DEF Typed
<1>3. QED
  BY <1>1, <1>2, TypedInvariant, PTL DEF Spec

\* However many workers write at once, a path has one document.
THEOREM PathsCorrect == Spec => []PathsUnique
<1>1. Linked => PathsUnique
  BY DEF Linked
<1>2. QED
  BY <1>1, LinkedInvariant, PTL

\* However often SQLite gives an id again, no document is made the member of a file
\* that is not its archive.
THEOREM ParentsCorrect == Spec => []ParentsRight
<1>1. Linked => ParentsRight
  BY DEF Linked
<1>2. QED
  BY <1>1, LinkedInvariant, PTL
-----------------------------------------------------------------------------
(* Thumbnails.                                                             *)

\* The id a worker was given is still that of the document it wrote: documents are
\* deleted only when no worker is left.
Written ==
    \A w \in Workers : pc[w] = "thumbnail" =>
        docId[w] \in DOMAIN document /\ document[docId[w]].path = cur[w]

\* The documents about to be deleted have no thumbnails.
Purged == phase \in {"list", "documents"} => DOMAIN thumbnail \cap MarkedAs(FALSE) = {}

Owned == Written /\ Purged /\ ThumbnailsOwned

\* document only grows or is left alone, in the sense that matters here.
Kept == \A i \in DOMAIN document : i \in DOMAIN document' /\ document'[i].path = document[i].path

\* Rows and their paths go only when the documents are deleted.
LEMMA DocumentsKept ==
    ASSUME Typed, [Next]_vars, ~DeleteDocuments
    PROVE  Kept
<1>1. CASE UNCHANGED document
  BY <1>1 DEF Kept
<1>2. ASSUME NEW w \in Workers, NEW id \in Ids, Upserts(w, id)
      PROVE  Kept
  BY <1>2, UpsertWrites DEF Typed, Kept
<1>3. QED
  BY <1>1, <1>2, DocumentSteps DEF Typed

\* The user and main keep the thumbnails right: none is left when its document goes.
LEMMA MainKeepsOwned ==
    ASSUME Typed, Owned, User \/ Scan
    PROVE  Owned'
<1> USE DEF Owned, Written, Purged, ThumbnailsOwned, MarkedAs, dbVars, scanVars, workerVars
<1>1. CASE User
  BY <1>1 DEF User, EditFile, Repack
<1>2. CASE BeginScan \/ (\E f \in Files : Visit(f)) \/ EndPool \/ PurgeDeleteList
  BY <1>2 DEF BeginScan, Visit, EndPool, PurgeDeleteList
<1>3. CASE DeleteThumbnails
  BY <1>3 DEF DeleteThumbnails, Restrict
<1>4. CASE ListDeleted \/ EndScan
  BY <1>4 DEF ListDeleted, EndScan
<1>5. CASE DeleteDocuments
  <2>1. \A w \in Workers : pc[w] = "idle" /\ pc'[w] = "idle"
    BY <1>5 DEF DeleteDocuments, Typed, Reading, Quiet
  <2>2. QED
    BY <1>5, <2>1 DEF DeleteDocuments, Restrict
<1>6. CASE KillScan
  BY <1>6 DEF KillScan
<1>7. QED
  BY <1>1, <1>2, <1>3, <1>4, <1>5, <1>6 DEF Scan

\* A worker writes a thumbnail under the id of the document it has just written.
LEMMA WorkerKeepsOwned ==
    ASSUME Typed, Owned, NEW w \in Workers, Worker(w)
    PROVE  Owned'
<1>1. Kept
  <2>1. ~DeleteDocuments
    <3>1. pc[w] # "idle" \/ todo # {}
      BY DEF Worker, StartJob, MarkDocument, CannotRead, WriteStub, NextMember,
             BreakOffMembers, WriteDocument, WriteThumbnail, LoseJob
    <3>2. QED
      BY <3>1 DEF DeleteDocuments, Typed, Reading, Quiet
  <2>2. QED
    BY <2>1, DocumentsKept DEF Next
<1>2. phase' = phase /\ phase \notin {"list", "documents"}
  BY DEF Worker, StartJob, MarkDocument, CannotRead, WriteStub, NextMember, BreakOffMembers,
         WriteDocument, WriteThumbnail, LoseJob, scanVars, Typed, Reading, Quiet
<1>3. pc \in [Workers -> WorkerPcs] /\ cur \in [Workers -> Paths \cup {NoPath}]
      /\ docId \in [Workers -> Ids \cup {NoId}]
  BY DEF Typed, ProcessType
<1>4. ASSUME NEW id \in Ids, Upserts(w, id)
      PROVE  id \in DOMAIN document' /\ document'[id].path = cur[w]
  <2>1. DOMAIN document' = DOMAIN document \cup {id} /\ document'[id].path = cur[w]
    BY <1>4, UpsertWrites DEF Typed
  <2>2. QED
    BY <2>1
<1> USE <1>1, <1>2, <1>3 DEF Owned, Written, Purged, ThumbnailsOwned, Kept, dbVars
<1>5. CASE WriteDocument(w)
  <2>1. PICK id \in Ids : Upserts(w, id) /\ docId' = [docId EXCEPT ![w] = id]
    BY <1>5 DEF WriteDocument, Upserts
  <2>2. id \in DOMAIN document' /\ document'[id].path = cur[w]
    BY <2>1, <1>4
  <2>3. cur' = cur /\ thumbnail' = thumbnail /\ pc' = [pc EXCEPT ![w] = "thumbnail"]
    BY <1>5 DEF WriteDocument
  <2>4. QED
    BY <2>1, <2>2, <2>3
<1>6. CASE WriteThumbnail(w)
  BY <1>6 DEF WriteThumbnail, Return
<1>7. CASE StartJob(w) \/ MarkDocument(w) \/ CannotRead(w)
  <2>1. CASE StartJob(w)
    BY <2>1 DEF StartJob
  <2>2. CASE MarkDocument(w)
    BY <2>2 DEF MarkDocument, Return
  <2>3. CASE CannotRead(w)
    BY <2>3 DEF CannotRead, Return
  <2>4. QED
    BY <1>7, <2>1, <2>2, <2>3
<1>8. CASE WriteStub(w) \/ NextMember(w) \/ BreakOffMembers(w) \/ LoseJob(w)
  <2>1. pc'[w] # "thumbnail" /\ thumbnail' = thumbnail
    BY <1>8 DEF WriteStub, NextMember, BreakOffMembers, LoseJob
  <2>2. ASSUME NEW v \in Workers \ {w}
        PROVE  pc'[v] = pc[v] /\ cur'[v] = cur[v] /\ docId'[v] = docId[v]
    BY <1>8 DEF WriteStub, NextMember, BreakOffMembers, LoseJob
  <2>3. QED
    BY <2>1, <2>2
<1>9. QED
  BY <1>5, <1>6, <1>7, <1>8 DEF Worker

\* Hence every step keeps them right.
LEMMA OwnedInvariant == Spec => []Owned
<1>1. Init => Owned
  BY DEF Init, Owned, Written, Purged, ThumbnailsOwned
<1>2. Typed /\ Owned /\ [Next]_vars => Owned'
  <2> SUFFICES ASSUME Typed, Owned, [Next]_vars
               PROVE  Owned'
    OBVIOUS
  <2>1. CASE UNCHANGED vars
    BY <2>1 DEF vars, dbVars, scanVars, workerVars, Owned, Written, Purged, ThumbnailsOwned,
            MarkedAs
  <2>2. QED
    BY <2>1, MainKeepsOwned, WorkerKeepsOwned DEF Next, Rest
<1>3. QED
  BY <1>1, <1>2, TypedInvariant, PTL DEF Spec

\* No file is shown with the thumbnail of another, whatever scan was killed and whatever
\* id was given again.
THEOREM ThumbnailsCorrect == Spec => []ThumbnailsOwned
<1>1. Owned => ThumbnailsOwned
  BY DEF Owned
<1>2. QED
  BY <1>1, OwnedInvariant, PTL
-----------------------------------------------------------------------------
(* The delete list.                                                        *)

\* Until the documents are deleted, the rows of marked are those of documents.
MarkedAreThere ==
    phase \in {"walk", "unlist", "thumbnails", "list", "documents"} =>
        DOMAIN marked \subseteq DOMAIN document

DoomedAreListed == phase = "documents" => MarkedAs(FALSE) \subseteq delete_list

Listed == MarkedAreThere /\ DoomedAreListed /\ DeletedAreListed

\* Main deletes only documents that it has put on the delete list.
LEMMA MainKeepsListed ==
    ASSUME Typed, Listed, User \/ Scan
    PROVE  Listed'
<1> USE DEF Listed, MarkedAreThere, DoomedAreListed, DeletedAreListed, MarkedAs, dbVars,
        scanVars, historyVars
<1>1. CASE User
  BY <1>1 DEF User, EditFile, Repack
<1>2. CASE BeginScan
  BY <1>2 DEF BeginScan
<1>3. CASE (\E f \in Files : Visit(f)) \/ EndPool \/ DeleteThumbnails \/ EndScan \/ KillScan
  BY <1>3 DEF Visit, EndPool, DeleteThumbnails, EndScan, KillScan
<1>4. CASE PurgeDeleteList
  BY <1>4 DEF PurgeDeleteList
<1>5. CASE ListDeleted
  BY <1>5 DEF ListDeleted
<1>6. CASE DeleteDocuments
  BY <1>6 DEF DeleteDocuments, Restrict
<1>7. QED
  BY <1>1, <1>2, <1>3, <1>4, <1>5, <1>6 DEF Scan

\* A worker deletes nothing, and what it adds is a document.
LEMMA WorkerKeepsListed ==
    ASSUME Typed, Listed, NEW w \in Workers, Worker(w)
    PROVE  Listed'
<1>1. /\ phase' = phase /\ phase # "documents"
      /\ DOMAIN marked' = DOMAIN marked /\ delete_list' = delete_list
  BY DEF Worker, StartJob, MarkDocument, CannotRead, WriteStub, NextMember, BreakOffMembers,
         WriteDocument, WriteThumbnail, LoseJob, scanVars, dbVars, Typed, Reading, Quiet
<1>2. /\ DOMAIN document \subseteq DOMAIN document'
      /\ used' \subseteq used \cup DOMAIN document'
  <2>1. CASE UNCHANGED <<document, used>>
    BY <2>1
  <2>2. ASSUME NEW v \in Workers, NEW id \in Ids, Upserts(v, id)
        PROVE  /\ DOMAIN document \subseteq DOMAIN document'
               /\ used' \subseteq used \cup DOMAIN document'
    <3>1. /\ DOMAIN document' = DOMAIN document \cup {id}
          /\ used' = used \/ used' = used \cup {id}
      BY <2>2, UpsertWrites DEF Typed
    <3>2. QED
      BY <3>1
  <2>3. ~DeleteDocuments
    BY <1>1 DEF DeleteDocuments
  <2>4. QED
    BY <2>1, <2>2, <2>3, DocumentSteps DEF Typed, Next
<1>3. QED
  BY <1>1, <1>2 DEF Listed, MarkedAreThere, DoomedAreListed, DeletedAreListed

\* Hence no deleted document is missing from the list.
LEMMA ListedInvariant == Spec => []Listed
<1>1. Init => Listed
  BY DEF Init, Listed, MarkedAreThere, DoomedAreListed, DeletedAreListed
<1>2. Typed /\ Listed /\ [Next]_vars => Listed'
  <2> SUFFICES ASSUME Typed, Listed, [Next]_vars
               PROVE  Listed'
    OBVIOUS
  <2>1. CASE UNCHANGED vars
    BY <2>1 DEF vars, dbVars, scanVars, historyVars, Listed, MarkedAreThere, DoomedAreListed,
            DeletedAreListed, MarkedAs
  <2>2. QED
    BY <2>1, MainKeepsListed, WorkerKeepsListed DEF Next, Rest
<1>3. QED
  BY <1>1, <1>2, TypedInvariant, PTL DEF Spec

\* Whatever scan is killed between two of its last statements, no id of a deleted
\* document is missing from the delete list.
THEOREM DeletedCorrect == Spec => []DeletedAreListed
<1>1. Listed => DeletedAreListed
  BY DEF Listed
<1>2. QED
  BY <1>1, ListedInvariant, PTL
-----------------------------------------------------------------------------
(* Documents without json_data.                                            *)

\* Worker w has written the stub of its archive and not yet the document, or has
\* just come to write the document of a file that is no archive.
Past(w) == pc[w] \in {"members", "write"} \/ cur[w] # file[w]

Stub(i) ==
    /\ document[i].path \in Archives
    /\ \/ document[i].path \in interrupted
       \/ \E w \in Workers : file[w] = document[i].path /\ Past(w)

Stubs == /\ \A i \in DOMAIN document : ~document[i].json => Stub(i)
         /\ \A w \in Workers : pc[w] = "stub" => cur[w] \in Archives

\* What the statement does to json_data.
LEMMA UpsertJson ==
    ASSUME Typed, NEW w \in Workers, NEW id \in Ids, NEW json \in BOOLEAN,
           UpsertDocument(cur[w], Mtime(w), json, id)
    PROVE  /\ DOMAIN document' = DOMAIN document \cup {id}
           /\ document'[id].json = json
           /\ document'[id].path = cur[w]
           /\ \A i \in DOMAIN document \ {id} : document'[i] = document[i]
<1> USE DEF Typed, DatabaseType, DocumentType
<1>1. CASE id \in IdOf(cur[w]) /\ document' = [document EXCEPT ![id].json = json]
  BY <1>1 DEF IdOf
<1>2. ASSUME NEW parent,
             document' = [k \in DOMAIN document \cup {id} |->
                 IF k = id THEN [path |-> cur[w], parent |-> parent, mtime |-> Mtime(w),
                                 json |-> json]
                           ELSE document[k]]
      PROVE  /\ DOMAIN document' = DOMAIN document \cup {id}
             /\ document'[id].json = json
             /\ document'[id].path = cur[w]
             /\ \A i \in DOMAIN document \ {id} : document'[i] = document[i]
  BY <1>2
<1>3. QED
  BY <1>1, <1>2 DEF UpsertDocument

\* A worker that goes on, and is past its stub if it was, keeps every stub explained.
LEMMA StubsStay ==
    ASSUME Typed, Stubs, NEW w \in Workers, UNCHANGED document,
           interrupted \subseteq interrupted',
           \A v \in Workers \ {w} : pc'[v] = pc[v] /\ file'[v] = file[v] /\ cur'[v] = cur[v],
           \/ Past(w) => file'[w] = file[w] /\ Past(w)'
           \/ {file[w]} \cap Archives \subseteq interrupted',
           pc'[w] = "stub" => cur'[w] \in Archives
    PROVE  Stubs'
BY DEF Stubs, Stub, Past

\* A worker leaves a stub behind only when its parse is cut short.
LEMMA WorkerKeepsStubs ==
    ASSUME Typed, Linked, Stubs, NEW w \in Workers, Worker(w)
    PROVE  Stubs'
<1>1. /\ pc \in [Workers -> WorkerPcs] /\ cur \in [Workers -> Paths \cup {NoPath}]
      /\ file \in [Workers -> Files \cup {NoPath}]
      /\ Holds(w)
  BY DEF Typed, ProcessType, Reading
<1> USE <1>1 DEF dbVars, scanVars, historyVars
<1>2. CASE StartJob(w)
  BY <1>2, StubsStay DEF StartJob, Past, Holds
<1>3. CASE MarkDocument(w) \/ CannotRead(w)
  <2>1. cur[w] \in Inner => cur[w] # file[w]
    BY IndexAssumption
  <2>2. QED
    BY <1>3, <2>1, StubsStay, IndexAssumption
       DEF MarkDocument, CannotRead, Return, Past, Holds, Inside
<1>4. CASE NextMember(w)
  BY <1>4, StubsStay, IndexAssumption DEF NextMember, Past, Holds, Inside
<1>5. CASE BreakOffMembers(w)
  BY <1>5, StubsStay DEF BreakOffMembers, Past, Holds
<1>6. CASE WriteThumbnail(w)
  BY <1>6, StubsStay, IndexAssumption DEF WriteThumbnail, Return, Past, Holds, Inside
<1>7. CASE LoseJob(w)
  BY <1>7, StubsStay DEF LoseJob
<1>8. CASE WriteStub(w)
  <2>1. PICK id \in Ids : UpsertDocument(cur[w], Mtime(w), FALSE, id)
    BY <1>8 DEF WriteStub
  <2>2. /\ DOMAIN document' = DOMAIN document \cup {id}
        /\ document'[id].path = cur[w]
        /\ \A i \in DOMAIN document \ {id} : document'[i] = document[i]
    BY <2>1, UpsertJson
  <2>3. /\ pc' = [pc EXCEPT ![w] = "members"] /\ file' = file /\ cur' = cur
        /\ interrupted' = interrupted /\ cur[w] = file[w] /\ cur[w] \in Archives
    BY <1>8 DEF WriteStub, Holds, Stubs
  <2>4. QED
    BY <2>2, <2>3 DEF Stubs, Stub, Past
<1>9. CASE WriteDocument(w)
  <2>1. PICK id \in Ids : UpsertDocument(cur[w], Mtime(w), TRUE, id)
    BY <1>9 DEF WriteDocument
  <2>2. /\ DOMAIN document' = DOMAIN document \cup {id}
        /\ document'[id].json = TRUE
        /\ document'[id].path = cur[w]
        /\ \A i \in DOMAIN document \ {id} : document'[i] = document[i]
    BY <2>1, UpsertJson
  <2>3. /\ pc' = [pc EXCEPT ![w] = "thumbnail"] /\ file' = file /\ cur' = cur
        /\ interrupted' = interrupted
    BY <1>9 DEF WriteDocument
  <2>4. \A i \in DOMAIN document \ {id} : document[i].path # cur[w]
    <3>1. Upserts(w, id)
      BY <1>9, <2>1 DEF WriteDocument, Upserts
    <3>2. PathsUnique'
      BY <3>1, UpsertKeepsLinked DEF Linked
    <3>3. QED
      BY <2>2, <3>2 DEF PathsUnique
  <2>5. QED
    BY <2>2, <2>3, <2>4 DEF Stubs, Stub, Past
<1>10. QED
  BY <1>2, <1>3, <1>4, <1>5, <1>6, <1>7, <1>8, <1>9 DEF Worker

\* Hence every stub is explained after every step.
LEMMA StubsInvariant == Spec => []Stubs
<1>1. Init => Stubs
  BY DEF Init, Stubs
<1>2. Typed /\ Linked /\ Stubs /\ [Next]_vars => Stubs'
  <2> SUFFICES ASSUME Typed, Linked, Stubs, [Next]_vars
               PROVE  Stubs'
    OBVIOUS
  <2> USE DEF dbVars, scanVars, workerVars, historyVars, Stubs, Stub, Past
  <2>1. CASE User
    BY <2>1 DEF User, EditFile, Repack
  <2>2. CASE DeleteDocuments
    BY <2>2 DEF DeleteDocuments, Restrict
  <2>3. CASE KillScan
    BY <2>3 DEF KillScan
  <2>4. CASE Scan /\ ~DeleteDocuments /\ ~KillScan
    <3>1. UNCHANGED <<document, workerVars, interrupted>>
      BY <2>4 DEF Scan, BeginScan, Visit, EndPool, PurgeDeleteList, DeleteThumbnails,
              ListDeleted, EndScan
    <3>2. QED
      BY <3>1
  <2>5. CASE UNCHANGED vars
    BY <2>5 DEF vars
  <2>6. QED
    BY <2>1, <2>2, <2>3, <2>4, <2>5, WorkerKeepsStubs DEF Next, Rest
<1>3. QED
  BY <1>1, <1>2, TypedInvariant, LinkedInvariant, PTL DEF Spec

\* A document without json_data is being parsed, or its parse was once cut short.
THEOREM StubsCorrect == Spec => []StubsAreInterrupted
<1>1. Stubs => StubsAreInterrupted
  BY DEF Stubs, Stub, StubsAreInterrupted
<1>2. QED
  BY <1>1, StubsInvariant, PTL
-----------------------------------------------------------------------------
(* Unchanged files keep their documents.                                   *)

\* While a scan runs, a row of marked has the mtime of its document, and one that is not
\* marked is of a file that changed or was not parsed, or that is still to be marked.
Marking ==
    phase \notin {"idle", "unmark"} =>
        \A i \in DOMAIN marked \cap DOMAIN document :
            /\ marked[i].mtime = document[i].mtime
            /\ ~marked[i].marked /\ document[i].path \in Files =>
                  \/ seen[document[i].path] # document[i].mtime
                  \/ document[i].path \in failed \cup todo
                  \/ \E w \in Workers : pc[w] = "mark" /\ cur[w] = document[i].path

\* Main starts a scan with no mark and keeps what the walk found until it ends.
LEMMA MainKeepsMarking ==
    ASSUME Typed, Marking, User \/ Scan
    PROVE  Marking'
<1> USE DEF Marking, dbVars, scanVars, workerVars, historyVars
<1>1. CASE User
  BY <1>1 DEF User, EditFile, Repack
<1>2. CASE BeginScan
  <2>1. \A i \in DOMAIN document : document[i].mtime \in Mtimes
    BY DEF Typed, DatabaseType, DocumentType
  <2>2. QED
    BY <1>2, <2>1, IndexAssumption DEF BeginScan
<1>3. ASSUME NEW f \in Files, Visit(f)
      PROVE  Marking'
  <2>1. seen \in [Files -> Mtimes \cup {Absent, Unseen}]
    BY DEF Typed, Reading, Seen
  <2>2. \A i \in DOMAIN document : document[i].mtime \in Mtimes
    BY DEF Typed, DatabaseType, DocumentType
  <2>3. QED
    BY <1>3, <2>1, <2>2, IndexAssumption DEF Visit
<1>4. CASE EndPool
  BY <1>4 DEF EndPool
<1>5. CASE PurgeDeleteList \/ DeleteThumbnails \/ ListDeleted
  BY <1>5 DEF PurgeDeleteList, DeleteThumbnails, ListDeleted
<1>6. CASE DeleteDocuments \/ EndScan \/ KillScan
  BY <1>6 DEF DeleteDocuments, EndScan, KillScan
<1>7. QED
  BY <1>1, <1>2, <1>3, <1>4, <1>5, <1>6 DEF Scan

\* A worker gives up a file only when it is marked, changed, or not parsed.
LEMMA WorkerKeepsMarking ==
    ASSUME Typed, Listed, Marking, NEW w \in Workers, Worker(w)
    PROVE  Marking'
<1>1. /\ pc \in [Workers -> WorkerPcs] /\ cur \in [Workers -> Paths \cup {NoPath}]
      /\ Holds(w)
  BY DEF Typed, ProcessType, Reading
<1>2. phase = "walk" /\ DOMAIN marked \subseteq DOMAIN document
  BY DEF Worker, StartJob, MarkDocument, CannotRead, WriteStub, NextMember, BreakOffMembers,
         WriteDocument, WriteThumbnail, LoseJob, Typed, Reading, Quiet, Listed, MarkedAreThere
<1>3. ASSUME NEW id \in Ids, Upserts(w, id)
      PROVE  \A i \in DOMAIN document : /\ document'[i].path = document[i].path
                                       /\ document'[i].mtime = document[i].mtime
  BY <1>3, UpsertWrites DEF Typed
<1> USE <1>1, <1>2 DEF Marking, dbVars, scanVars, historyVars
<1>4. CASE StartJob(w)
  BY <1>4 DEF StartJob
<1>5. CASE MarkDocument(w)
  <2>1. cur[w] \in Files => Mtime(w) = seen[cur[w]]
    BY DEF Mtime
  <2>2. \A i \in DOMAIN marked : document[i].path = cur[w] /\ marked[i].mtime = Mtime(w)
            => i \in Matching(cur[w], Mtime(w))
    BY DEF Matching, IdOf
  <2>3. CASE Matching(cur[w], Mtime(w)) # {}
    <3>1. \A i \in DOMAIN marked : marked[i] \in [marked : BOOLEAN, mtime : Mtimes]
      BY DEF Typed, DatabaseType
    <3>2. /\ DOMAIN marked' = DOMAIN marked
          /\ \A i \in DOMAIN marked : marked'[i].mtime = marked[i].mtime
          /\ \A i \in Matching(cur[w], Mtime(w)) : marked'[i].marked = TRUE
          /\ \A i \in DOMAIN marked \ Matching(cur[w], Mtime(w)) : marked'[i] = marked[i]
      BY <1>5, <2>3, <3>1 DEF MarkDocument, Matching
    <3>3. /\ UNCHANGED <<document, phase, seen, failed, todo>>
          /\ \A v \in Workers \ {w} : pc'[v] = pc[v] /\ cur'[v] = cur[v]
      BY <1>5, <2>3 DEF MarkDocument, Return
    <3>4. QED
      BY <2>1, <2>2, <3>2, <3>3
  <2>4. CASE Matching(cur[w], Mtime(w)) = {}
    BY <1>5, <2>1, <2>2, <2>4 DEF MarkDocument
  <2>5. QED
    BY <2>3, <2>4
<1>6. CASE CannotRead(w)
  BY <1>6 DEF CannotRead, Return
<1>7. CASE WriteStub(w) \/ WriteDocument(w)
  <2>1. PICK id \in Ids : Upserts(w, id)
    BY <1>7 DEF WriteStub, WriteDocument, Upserts
  <2>2. \A i \in DOMAIN document : /\ document'[i].path = document[i].path
                                  /\ document'[i].mtime = document[i].mtime
    BY <1>3, <2>1
  <2>3. /\ marked' = marked /\ phase' = phase /\ seen' = seen /\ failed' = failed
        /\ todo' = todo /\ cur' = cur /\ pc[w] # "mark"
        /\ \A v \in Workers \ {w} : pc'[v] = pc[v]
    BY <1>7 DEF WriteStub, WriteDocument
  <2>4. QED
    BY <2>2, <2>3
<1>8. CASE NextMember(w) \/ BreakOffMembers(w)
  BY <1>8 DEF NextMember, BreakOffMembers
<1>9. CASE WriteThumbnail(w)
  BY <1>9 DEF WriteThumbnail, Return
<1>10. CASE LoseJob(w)
  BY <1>10, IndexAssumption DEF LoseJob, Holds, Inside
<1>11. QED
  BY <1>4, <1>5, <1>6, <1>7, <1>8, <1>9, <1>10 DEF Worker

\* Hence what is not marked at the end of a scan changed, went, or was not parsed.
LEMMA MarkingInvariant == Spec => []Marking
<1>1. Init => Marking
  BY DEF Init, Marking
<1>2. Typed /\ Listed /\ Marking /\ [Next]_vars => Marking'
  <2> SUFFICES ASSUME Typed, Listed, Marking, [Next]_vars
               PROVE  Marking'
    OBVIOUS
  <2>1. CASE UNCHANGED vars
    BY <2>1 DEF vars, dbVars, scanVars, workerVars, historyVars, Marking
  <2>2. QED
    BY <2>1, MainKeepsMarking, WorkerKeepsMarking DEF Next, Rest
<1>3. QED
  BY <1>1, <1>2, TypedInvariant, ListedInvariant, PTL DEF Spec

\* Only the end of a scan deletes documents, and none of a file that it found as it was.
THEOREM UnchangedCorrect == Spec => UnchangedKeepIds
<1> DEFINE Keeps(i) ==
      document[i].path \in Files =>
          \/ i \in DOMAIN document' /\ document'[i].path = document[i].path
          \/ seen[document[i].path] # document[i].mtime
          \/ document[i].path \in failed
<1>1. Typed /\ Marking /\ [Next]_vars => [\A i \in DOMAIN document : Keeps(i)]_vars
  <2> SUFFICES ASSUME Typed, Marking, [Next]_vars, NEW i \in DOMAIN document
               PROVE  Keeps(i)
    OBVIOUS
  <2>1. CASE DeleteDocuments
    <3>1. todo = {} /\ \A w \in Workers : pc[w] = "idle"
      BY <2>1 DEF DeleteDocuments, Typed, Reading, Quiet
    <3>2. QED
      BY <2>1, <3>1 DEF DeleteDocuments, Restrict, Marking, MarkedAs
  <2>2. CASE ~DeleteDocuments
    BY <2>2, DocumentsKept DEF Kept
  <2>3. QED
    BY <2>1, <2>2
<1>2. QED
  BY <1>1, TypedInvariant, MarkingInvariant, PTL DEF Spec, UnchangedKeepIds
-----------------------------------------------------------------------------
(* Scans that run to their end.                                            *)

\* A row that the end of the scan is not to delete.
Stays(i) == phase # "unmark" /\ i \in DOMAIN marked => marked[i].marked

Beginnings ==
    /\ ~created => DOMAIN document = {}
    /\ Running => created /\ ~complete /\ (~incremental => DOMAIN marked = {})
    /\ phase \in EndPhases => \A f \in Files : seen[f] # Unseen

\* The document of a file that was found as it was has the mtime that was found.
UpToDate ==
    Running => \A i \in DOMAIN document :
        document[i].path \in Files \ modified /\ seen[document[i].path] \in Mtimes
            => document[i].mtime = seen[document[i].path]

\* A worker that parses a file whose mtime is not another one found no row to mark.
Rewritten ==
    \A w \in Workers :
        pc[w] # "idle" /\ ~(pc[w] = "mark" /\ cur[w] = file[w]) /\ file[w] \notin modified
            => \A i \in DOMAIN marked \cap DOMAIN document : document[i].path # file[w]

\* What the walk found is to be parsed, is being parsed, or has a document that stays.
SeenAreKept ==
    Running => \A f \in Files \ (failed \cup modified) : seen[f] \in Mtimes =>
        \/ f \in todo
        \/ \E w \in Workers : file[w] = f
        \/ \E i \in DOMAIN document : document[i].path = f /\ Stays(i)

\* A document that stays is of a file that the walk found.
KeptAreSeen ==
    Running => \A i \in DOMAIN document :
        document[i].path \in Files /\ Stays(i) => seen[document[i].path] \in Mtimes

Tracked == UpToDate /\ Rewritten /\ SeenAreKept /\ KeptAreSeen
Faithful == Beginnings /\ Tracked /\ ScanFaithful

\* When the pool or the last statement ends a scan, it is faithful.
LEMMA EndIsFaithful ==
    ASSUME Typed, Faithful, Running, todo = {}, \A w \in Workers : pc[w] = "idle",
           phase = "unmark" \/ ~incremental, \A f \in Files : seen[f] # Unseen,
           UNCHANGED <<document, seen, failed, modified>>
    PROVE  ScanFaithful'
<1>1. \A i \in DOMAIN document : Stays(i)
  BY DEF Faithful, Beginnings, Stays
<1>2. \A w \in Workers : file[w] = NoPath
  BY DEF Typed, Reading, Holds
<1>3. seen \in [Files -> Mtimes \cup {Absent, Unseen}]
  BY DEF Typed, Reading, Seen
<1>4. ASSUME NEW f \in Files \ (failed \cup modified), seen[f] # Absent
      PROVE  \E i \in DOMAIN document : document[i].path = f /\ document[i].mtime = seen[f]
  <2>1. seen[f] \in Mtimes
    BY <1>3, <1>4
  <2>2. PICK i \in DOMAIN document : document[i].path = f
    BY <1>2, <1>4, <2>1, IndexAssumption DEF Faithful, Tracked, SeenAreKept
  <2>3. document[i].mtime = seen[f]
    BY <1>4, <2>1, <2>2 DEF Faithful, Tracked, UpToDate
  <2>4. QED
    BY <2>2, <2>3
<1>5. ASSUME NEW i \in DOMAIN document, document[i].path \in Files
      PROVE  seen[document[i].path] # Absent
  BY <1>1, <1>5, IndexAssumption DEF Faithful, Tracked, KeptAreSeen
<1>6. QED
  BY <1>4, <1>5 DEF ScanFaithful

\* The user and main keep the account of what the walk found.
LEMMA MainKeepsFaithful ==
    ASSUME Typed, Listed, Faithful, User \/ Scan
    PROVE  Faithful'
<1> USE DEF dbVars, scanVars, workerVars, historyVars
<1>1. /\ phase \in Phases /\ incremental \in BOOLEAN
      /\ Running <=> phase # "idle"
      /\ phase # "walk" => todo = {} /\ \A w \in Workers : pc[w] = "idle"
      /\ seen \in [Files -> Mtimes \cup {Absent, Unseen}]
  BY DEF Typed, ProcessType, Reading, Quiet, Seen, Running
<1>2. CASE User
  <2>1. UNCHANGED <<dbVars, scanVars, workerVars, historyVars>>
    BY <1>2 DEF User, EditFile, Repack
  <2>2. QED
    BY <2>1 DEF Faithful, Beginnings, Tracked, UpToDate, Rewritten, SeenAreKept, KeptAreSeen, Stays,
                ScanFaithful, Running
<1>3. CASE BeginScan
  <2>1. /\ phase = "idle" /\ phase' = "walk" /\ created' /\ incremental' = created /\ ~complete'
        /\ UNCHANGED <<document, pc>>
        /\ seen' = [f \in Files |-> Unseen]
        /\ marked' = [i \in DOMAIN document |-> [marked |-> FALSE, mtime |-> document[i].mtime]]
    BY <1>3 DEF BeginScan, Running
  <2>2. \A f \in Files : seen'[f] \notin Mtimes
    BY <2>1, IndexAssumption
  <2>3. DOMAIN marked' = DOMAIN document /\ \A i \in DOMAIN document : ~marked'[i].marked
    BY <2>1
  <2>4. Beginnings'
    BY <2>1, <2>3 DEF Faithful, Beginnings, Running, EndPhases
  <2>5. Rewritten'
    BY <1>1, <2>1 DEF Rewritten
  <2>6. UpToDate' /\ SeenAreKept'
    BY <2>2 DEF UpToDate, SeenAreKept
  <2>7. KeptAreSeen'
    BY <2>1, <2>3 DEF KeptAreSeen, Stays
  <2>8. ScanFaithful'
    BY <2>1 DEF ScanFaithful
  <2>9. QED
    BY <2>4, <2>5, <2>6, <2>7, <2>8 DEF Faithful, Tracked
<1>4. ASSUME NEW f \in Files, Visit(f)
      PROVE  Faithful'
  <2>1. /\ phase = "walk" /\ seen[f] = Unseen /\ seen' = [seen EXCEPT ![f] = disk[f]]
        /\ disk[f] # Absent => f \in todo'
        /\ todo \subseteq todo' /\ modified \subseteq modified'
        /\ \A i \in DOMAIN document :
              document[i].path = f /\ disk[f] # Absent /\ document[i].mtime # disk[f] => f \in modified'
        /\ UNCHANGED <<dbVars, phase, incremental, workerVars, failed, complete>>
    BY <1>4 DEF Visit
  <2>2. seen'[f] = disk[f] /\ \A g \in Files \ {f} : seen'[g] = seen[g]
    BY <1>1, <2>1
  <2>3. Unseen \notin Mtimes /\ Absent \notin Mtimes
    BY IndexAssumption
  <2>4. Running /\ Running' /\ \A i \in DOMAIN document : Stays(i)' <=> Stays(i)
    BY <2>1 DEF Running, Stays
  <2>5. Beginnings'
    BY <2>1 DEF Faithful, Beginnings, Running, EndPhases
  <2>6. UpToDate'
    BY <2>1, <2>2, <2>3, <2>4 DEF Faithful, Tracked, UpToDate
  <2>7. Rewritten'
    BY <2>1 DEF Faithful, Tracked, Rewritten
  <2>8. SeenAreKept'
    BY <2>1, <2>2, <2>3, <2>4 DEF Faithful, Tracked, SeenAreKept
  <2>9. KeptAreSeen'
    BY <2>1, <2>2, <2>3, <2>4 DEF Faithful, Tracked, KeptAreSeen
  <2>10. ScanFaithful'
    BY <2>4 DEF ScanFaithful
  <2>11. QED
    BY <2>5, <2>6, <2>7, <2>8, <2>9, <2>10 DEF Faithful, Tracked
<1>5. ASSUME Running, phase # "unmark", phase' \in EndPhases \ {"unmark"},
             phase = "walk" => \A f \in Files : seen[f] # Unseen, ~complete',
             UNCHANGED <<created, document, marked, incremental, seen, todo, workerVars,
                         failed, modified>>
      PROVE  Faithful'
  <2>1. Running' /\ \A i \in DOMAIN document : Stays(i)' <=> Stays(i)
    BY <1>5 DEF Running, Stays, EndPhases
  <2>2. Beginnings'
    BY <1>1, <1>5 DEF Faithful, Beginnings, Running, EndPhases, Phases
  <2>3. Tracked'
    BY <1>5, <2>1 DEF Faithful, Tracked, UpToDate, Rewritten, SeenAreKept, KeptAreSeen
  <2>4. ScanFaithful'
    BY <2>1 DEF ScanFaithful
  <2>5. QED
    BY <2>2, <2>3, <2>4 DEF Faithful
<1>6. CASE PurgeDeleteList \/ DeleteThumbnails \/ ListDeleted \/ (EndPool /\ incremental)
  <2>1. /\ Running /\ phase # "unmark" /\ phase' \in EndPhases \ {"unmark"}
        /\ phase = "walk" => \A f \in Files : seen[f] # Unseen
        /\ UNCHANGED <<created, document, marked, incremental, seen, todo, workerVars,
                       failed, modified>>
    BY <1>6 DEF PurgeDeleteList, DeleteThumbnails, ListDeleted, EndPool, EndPhases, Running
  <2>2. ~complete'
    BY <1>6, <2>1 DEF PurgeDeleteList, DeleteThumbnails, ListDeleted, EndPool, Faithful, Beginnings
  <2>3. QED
    BY <1>5, <2>1, <2>2
<1>7. CASE (EndPool /\ ~incremental) \/ EndScan
  <2>1. /\ Running /\ phase' = "idle" /\ todo = {} /\ \A w \in Workers : pc[w] = "idle"
        /\ phase = "unmark" \/ ~incremental
        /\ UNCHANGED <<document, seen, failed, modified, created, workerVars>>
    BY <1>1, <1>7 DEF EndPool, EndScan, Running
  <2>2. \A f \in Files : seen[f] # Unseen
    BY <1>7 DEF EndPool, EndScan, Faithful, Beginnings, EndPhases
  <2>3. ScanFaithful'
    BY <2>1, <2>2, EndIsFaithful
  <2>4. ~Running'
    BY <2>1 DEF Running
  <2>5. Beginnings'
    BY <2>1, <2>4 DEF Faithful, Beginnings, EndPhases
  <2>6. Tracked'
    BY <2>1, <2>4 DEF Tracked, UpToDate, Rewritten, SeenAreKept, KeptAreSeen
  <2>7. QED
    BY <2>3, <2>5, <2>6 DEF Faithful
<1>8. CASE DeleteDocuments
  <2>1. /\ phase = "documents" /\ phase' = "unmark"
        /\ DOMAIN document' = DOMAIN document \ MarkedAs(FALSE)
        /\ \A i \in DOMAIN document' : document'[i] = document[i]
        /\ UNCHANGED <<created, marked, incremental, seen, todo, workerVars, failed, modified,
                       complete>>
    BY <1>8 DEF DeleteDocuments, Restrict
  <2>2. \A i \in DOMAIN document : Stays(i) <=> i \notin MarkedAs(FALSE)
    <3>1. \A i \in DOMAIN marked : marked[i].marked \in BOOLEAN
      BY DEF Typed, DatabaseType
    <3>2. QED
      BY <2>1, <3>1 DEF Stays, MarkedAs
  <2>3. Running /\ Running' /\ \A i \in DOMAIN document' : Stays(i)'
    BY <2>1 DEF Running, Stays
  <2>4. Beginnings'
    BY <2>1, <2>3 DEF Faithful, Beginnings, EndPhases
  <2>5. UpToDate' /\ Rewritten'
    BY <1>1, <2>1, <2>3 DEF Faithful, Tracked, UpToDate, Rewritten
  <2>6. SeenAreKept'
    BY <2>1, <2>2, <2>3 DEF Faithful, Tracked, SeenAreKept
  <2>7. KeptAreSeen'
    BY <2>1, <2>2, <2>3 DEF Faithful, Tracked, KeptAreSeen
  <2>8. ScanFaithful'
    BY <2>3 DEF ScanFaithful
  <2>9. QED
    BY <2>4, <2>5, <2>6, <2>7, <2>8 DEF Faithful, Tracked
<1>9. CASE KillScan
  <2>1. /\ Running /\ phase' = "idle" /\ \A w \in Workers : pc'[w] = "idle"
        /\ UNCHANGED <<created, document, complete>>
    BY <1>9 DEF KillScan
  <2>2. ~Running' /\ ~complete'
    BY <2>1 DEF Faithful, Beginnings, Running
  <2>3. QED
    BY <2>1, <2>2 DEF Faithful, Beginnings, Tracked, UpToDate, Rewritten, SeenAreKept, KeptAreSeen,
                ScanFaithful, EndPhases
<1>10. QED
  BY <1>2, <1>3, <1>4, <1>6, <1>7, <1>8, <1>9 DEF Scan

\* A worker drops a file only when it has failed, or its document is there to stay.
LEMMA WorkerKeepsFaithful ==
    ASSUME Typed, Listed, Written, Marking, Faithful, NEW w \in Workers, Worker(w)
    PROVE  Faithful'
<1> USE DEF dbVars, scanVars, historyVars
<1>1. /\ pc \in [Workers -> WorkerPcs] /\ cur \in [Workers -> Paths \cup {NoPath}]
      /\ file \in [Workers -> Files \cup {NoPath}]
      /\ Holds(w) /\ Files \cap Inner = {} /\ NoPath \notin Files
  BY IndexAssumption DEF Typed, ProcessType, Reading
<1>2. phase = "walk" /\ DOMAIN marked \subseteq DOMAIN document
  BY DEF Worker, StartJob, MarkDocument, CannotRead, WriteStub, NextMember, BreakOffMembers,
         WriteDocument, WriteThumbnail, LoseJob, Typed, Reading, Quiet, Listed, MarkedAreThere
<1>3. /\ phase' = phase /\ created' = created /\ complete' = complete /\ incremental' = incremental
      /\ seen' = seen /\ modified' = modified /\ DOMAIN marked' = DOMAIN marked
      /\ failed \subseteq failed'
  BY DEF Worker, StartJob, MarkDocument, CannotRead, WriteStub, NextMember, BreakOffMembers,
         WriteDocument, WriteThumbnail, LoseJob
<1>4. Running /\ Running' /\ created /\ ~complete /\ (~incremental => DOMAIN marked = {})
  BY <1>2, <1>3 DEF Running, Faithful, Beginnings
<1>5. Beginnings' /\ ScanFaithful'
  BY <1>2, <1>3, <1>4 DEF Beginnings, ScanFaithful, EndPhases
<1>6. \A i : Stays(i) <=> (i \in DOMAIN marked => marked[i].marked)
  BY <1>2 DEF Stays
<1>7. \A i : Stays(i)' <=> (i \in DOMAIN marked => marked'[i].marked)
  BY <1>2, <1>3 DEF Stays
<1>8. ASSUME UNCHANGED <<document, marked>>,
             \A v \in Workers \ {w} : pc'[v] = pc[v] /\ cur'[v] = cur[v] /\ file'[v] = file[v],
             pc'[w] # "idle" /\ ~(pc'[w] = "mark" /\ cur'[w] = file'[w]) /\ file'[w] \notin modified
                => \A i \in DOMAIN marked \cap DOMAIN document : document[i].path # file'[w],
             \A f \in todo : f \in todo' \/ file'[w] = f,
             \/ file'[w] = file[w] \/ file[w] \in failed' \/ file[w] = NoPath
             \/ \E i \in DOMAIN document : document[i].path = file[w] /\ Stays(i)
             \/ file[w] \in modified
      PROVE  Tracked'
  <2>1. \A i : Stays(i)' <=> Stays(i)
    BY <1>6, <1>7, <1>8
  <2>2. UpToDate' /\ KeptAreSeen'
    BY <1>3, <1>4, <1>8, <2>1 DEF Faithful, Tracked, UpToDate, KeptAreSeen
  <2>3. Rewritten'
    BY <1>3, <1>8 DEF Faithful, Tracked, Rewritten
  <2>4. SeenAreKept'
    BY <1>1, <1>3, <1>4, <1>8, <2>1 DEF Faithful, Tracked, SeenAreKept
  <2>5. QED
    BY <2>2, <2>3, <2>4 DEF Tracked
<1>9. CASE StartJob(w)
  <2>1. PICK f \in todo : /\ todo' = todo \ {f}
                          /\ file' = [file EXCEPT ![w] = f] /\ cur' = [cur EXCEPT ![w] = f]
    BY <1>9 DEF StartJob
  <2>2. pc' = [pc EXCEPT ![w] = "mark"] /\ file[w] = NoPath /\ UNCHANGED <<document, marked>>
    BY <1>1, <1>9 DEF StartJob, Holds
  <2>3. Tracked'
    BY <1>1, <1>8, <2>1, <2>2
  <2>4. QED
    BY <1>5, <2>3 DEF Faithful
<1>10. CASE CannotRead(w) \/ LoseJob(w)
  <2>1. /\ UNCHANGED <<document, marked, todo>>
        /\ \A v \in Workers \ {w} : pc'[v] = pc[v] /\ cur'[v] = cur[v] /\ file'[v] = file[v]
    BY <1>1, <1>10 DEF CannotRead, LoseJob, Return
  <2>2. \/ pc'[w] = "idle" /\ file[w] \in failed'
        \/ /\ CannotRead(w) /\ pc[w] # "idle" /\ cur[w] # file[w] /\ file'[w] = file[w]
    BY <1>1, <1>10 DEF CannotRead, LoseJob, Return, Holds, Inside
  <2>3. pc'[w] # "idle" /\ ~(pc'[w] = "mark" /\ cur'[w] = file'[w]) /\ file'[w] \notin modified
           => \A i \in DOMAIN marked \cap DOMAIN document : document[i].path # file'[w]
    BY <2>2 DEF Faithful, Tracked, Rewritten
  <2>4. Tracked'
    BY <1>8, <2>1, <2>2, <2>3
  <2>5. QED
    BY <1>5, <2>4 DEF Faithful
<1>11. CASE NextMember(w) \/ BreakOffMembers(w)
  <2>1. /\ UNCHANGED <<document, marked, todo, file>>
        /\ \A v \in Workers \ {w} : pc'[v] = pc[v] /\ cur'[v] = cur[v]
        /\ pc[w] = "members"
    BY <1>1, <1>11 DEF NextMember, BreakOffMembers
  <2>2. file[w] \notin modified => \A i \in DOMAIN marked \cap DOMAIN document : document[i].path # file[w]
    BY <2>1 DEF Faithful, Tracked, Rewritten
  <2>3. Tracked'
    BY <1>8, <2>1, <2>2
  <2>4. QED
    BY <1>5, <2>3 DEF Faithful
<1>12. CASE WriteThumbnail(w)
  <2>1. /\ UNCHANGED <<document, marked, todo>>
        /\ \A v \in Workers \ {w} : pc'[v] = pc[v] /\ cur'[v] = cur[v] /\ file'[v] = file[v]
        /\ pc[w] = "thumbnail"
        /\ \/ cur[w] \in Inner /\ file'[w] = file[w]
           \/ cur[w] \notin Inner /\ pc'[w] = "idle"
    BY <1>1, <1>12 DEF WriteThumbnail, Return
  <2>2. file[w] \notin modified => \A i \in DOMAIN marked \cap DOMAIN document : document[i].path # file[w]
    BY <2>1 DEF Faithful, Tracked, Rewritten
  <2>3. CASE cur[w] \in Inner /\ file'[w] = file[w]
    BY <1>5, <1>8, <2>1, <2>2, <2>3 DEF Faithful
  <2>4. CASE cur[w] \notin Inner /\ pc'[w] = "idle"
    <3>1. cur[w] = file[w]
      BY <1>1, <2>1, <2>4 DEF Holds, Inside
    <3>2. docId[w] \in DOMAIN document /\ document[docId[w]].path = file[w]
      BY <2>1, <3>1 DEF Written
    <3>3. file[w] \notin modified => Stays(docId[w])
      BY <1>6, <2>2, <3>2
    <3>4. QED
      BY <1>5, <1>8, <2>1, <2>4, <3>2, <3>3 DEF Faithful
  <2>5. QED
    BY <2>1, <2>3, <2>4
<1>13. CASE MarkDocument(w)
  <2>1. /\ UNCHANGED <<document, todo>>
        /\ \A v \in Workers \ {w} : pc'[v] = pc[v] /\ cur'[v] = cur[v] /\ file'[v] = file[v]
        /\ pc[w] = "mark"
    BY <1>1, <1>13 DEF MarkDocument, Return
  <2>2. /\ file[w] \in Files /\ seen[file[w]] \in Mtimes
        /\ cur[w] = file[w] \/ cur[w] \in Inner
        /\ cur[w] \in Files => cur[w] = file[w]
    BY <1>1, <2>1 DEF Holds, Inside
  <2>3. cur[w] \in Files => Mtime(w) = seen[file[w]]
    BY <2>2 DEF Mtime
  <2>4. CASE Matching(cur[w], Mtime(w)) = {}
    <3>1. marked' = marked /\ file' = file /\ cur' = cur
      BY <1>13, <2>4 DEF MarkDocument
    <3>2. file[w] \notin modified
             => \A i \in DOMAIN marked \cap DOMAIN document : document[i].path # file[w]
      <4>1. CASE cur[w] # file[w]
        BY <2>1, <4>1 DEF Faithful, Tracked, Rewritten
      <4>2. CASE cur[w] = file[w]
        <5> SUFFICES ASSUME file[w] \notin modified, NEW i \in DOMAIN marked \cap DOMAIN document,
                            document[i].path = file[w]
                     PROVE  FALSE
          OBVIOUS
        <5>1. marked[i].mtime = document[i].mtime
          BY <1>2 DEF Marking
        <5>2. document[i].mtime = seen[file[w]]
          BY <1>4, <2>2 DEF Faithful, Tracked, UpToDate
        <5>3. i \in Matching(cur[w], Mtime(w))
          BY <2>2, <2>3, <4>2, <5>1, <5>2 DEF Matching, IdOf
        <5>4. QED
          BY <2>4, <5>3
      <4>3. QED
        BY <4>1, <4>2
    <3>3. Tracked'
      BY <1>8, <2>1, <3>1, <3>2
    <3>4. QED
      BY <1>5, <3>3 DEF Faithful
  <2>5. CASE Matching(cur[w], Mtime(w)) # {}
    <3>1. /\ \A i \in Matching(cur[w], Mtime(w)) : marked'[i].marked
          /\ \A i \in DOMAIN marked \ Matching(cur[w], Mtime(w)) : marked'[i] = marked[i]
      <4>1. \A i \in DOMAIN marked : marked[i] \in [marked : BOOLEAN, mtime : Mtimes]
        BY DEF Typed, DatabaseType
      <4>2. QED
        BY <1>13, <2>5, <4>1 DEF MarkDocument, Matching
    <3>2. \A i : Stays(i) => Stays(i)'
      BY <1>6, <1>7, <3>1
    <3>3. \A i \in DOMAIN document : Stays(i)' => Stays(i) \/ document[i].path = cur[w]
      BY <1>6, <1>7, <3>1 DEF Matching, IdOf
    <3>4. \/ cur[w] \in Inner /\ cur[w] # file[w] /\ file'[w] = file[w]
          \/ cur[w] = file[w] /\ pc'[w] = "idle"
      BY <1>1, <1>13, <2>2, <2>5 DEF MarkDocument, Return
    <3>5. UpToDate'
      BY <1>3, <1>4, <2>1 DEF Faithful, Tracked, UpToDate
    <3>6. Rewritten'
      BY <1>3, <2>1, <3>4 DEF Faithful, Tracked, Rewritten
    <3>7. KeptAreSeen'
      BY <1>3, <1>4, <2>1, <2>2, <3>3 DEF Faithful, Tracked, KeptAreSeen
    <3>8. cur[w] = file[w] => \E i \in DOMAIN document : document[i].path = file[w] /\ Stays(i)'
      <4>1. PICK i \in Matching(cur[w], Mtime(w)) : TRUE
        BY <2>5
      <4>2. i \in DOMAIN document /\ document[i].path = cur[w]
        BY <4>1 DEF Matching, IdOf
      <4>3. Stays(i)'
        BY <1>7, <3>1, <4>1
      <4>4. QED
        BY <4>2, <4>3
    <3>9. SeenAreKept'
      BY <1>3, <1>4, <2>1, <3>2, <3>4, <3>8 DEF Faithful, Tracked, SeenAreKept
    <3>10. QED
      BY <1>5, <3>5, <3>6, <3>7, <3>9 DEF Faithful, Tracked
  <2>6. QED
    BY <2>4, <2>5
<1>14. CASE WriteStub(w) \/ WriteDocument(w)
  <2>1. PICK id \in Ids : Upserts(w, id)
    BY <1>14 DEF WriteStub, WriteDocument, Upserts
  <2>2. /\ marked' = marked /\ file' = file /\ cur' = cur /\ todo' = todo /\ failed' = failed
        /\ \A v \in Workers \ {w} : pc'[v] = pc[v]
        /\ pc[w] \in {"stub", "write"}
    BY <1>1, <1>14 DEF WriteStub, WriteDocument
  <2>3. /\ DOMAIN document' = DOMAIN document \cup {id} /\ document'[id].path = cur[w]
        /\ \A i \in DOMAIN document : /\ document'[i].path = document[i].path
                                      /\ document'[i].mtime = document[i].mtime
        /\ id \in DOMAIN document \/ \A i \in DOMAIN document : i < id
    BY <2>1, UpsertWrites DEF Typed
  <2>4. id \notin DOMAIN document => document'[id].mtime = Mtime(w)
    BY <2>1 DEF Upserts, UpsertDocument, IdOf
  <2>5. /\ file[w] \in Files /\ seen[file[w]] \in Mtimes
        /\ cur[w] \in Files => cur[w] = file[w] /\ Mtime(w) = seen[file[w]]
    BY <1>1, <2>2 DEF Holds, Inside, Mtime
  <2>6. \A i \in DOMAIN marked : document'[i].path = document[i].path
    BY <1>2, <2>3
  <2>7. \A i : Stays(i)' <=> Stays(i)
    BY <1>6, <1>7, <2>2
  <2>8. UpToDate'
    BY <1>3, <1>4, <2>3, <2>4, <2>5 DEF Faithful, Tracked, UpToDate
  <2>9. Rewritten'
    BY <1>2, <1>3, <2>2, <2>6 DEF Faithful, Tracked, Rewritten
  <2>10. KeptAreSeen'
    BY <1>3, <1>4, <2>3, <2>5, <2>7 DEF Faithful, Tracked, KeptAreSeen
  <2>11. SeenAreKept'
    BY <1>3, <1>4, <2>2, <2>3, <2>7 DEF Faithful, Tracked, SeenAreKept
  <2>12. QED
    BY <1>5, <2>8, <2>9, <2>10, <2>11 DEF Faithful, Tracked
<1>15. QED
  BY <1>9, <1>10, <1>11, <1>12, <1>13, <1>14 DEF Worker

\* Hence what the walk found is accounted for throughout.
LEMMA FaithfulInvariant == Spec => []Faithful
<1>1. Init => Faithful
  BY DEF Init, Faithful, Beginnings, Tracked, UpToDate, Rewritten, SeenAreKept, KeptAreSeen,
         ScanFaithful, Running, EndPhases
<1>2. Typed /\ Listed /\ Owned /\ Marking /\ Faithful /\ [Next]_vars => Faithful'
  <2> SUFFICES ASSUME Typed, Listed, Owned, Marking, Faithful, [Next]_vars
               PROVE  Faithful'
    OBVIOUS
  <2>1. CASE UNCHANGED vars
    BY <2>1 DEF vars, dbVars, scanVars, workerVars, historyVars, Faithful, Beginnings, Tracked,
                UpToDate, Rewritten, SeenAreKept, KeptAreSeen, Stays, ScanFaithful, Running
  <2>2. QED
    BY <2>1, MainKeepsFaithful, WorkerKeepsFaithful DEF Next, Rest, Owned
<1>3. QED
  BY <1>1, <1>2, TypedInvariant, ListedInvariant, OwnedInvariant, MarkingInvariant, PTL DEF Spec

\* Whatever was lost, killed and repeated before, a scan that runs to its end leaves a
\* document for each file that it saw and did not fail on, and none for one that is gone.
THEOREM ScanCorrect == Spec => []ScanFaithful
<1>1. Faithful => ScanFaithful
  BY DEF Faithful
<1>2. QED
  BY <1>1, FaithfulInvariant, PTL
=============================================================================
