--------------------------- MODULE IndexDatabase ---------------------------
(***************************************************************************)
(* The index file of sist2 (an SQLite database) through successive scans   *)
(* of a directory: sist2_scan, the walk, parse() in the worker processes   *)
(* and the statements of database.c they execute.  Tags, which the web     *)
(* server writes between two scans, are in SearchIndex.                    *)
(*                                                                         *)
(* A step is one statement on the database (the workers serialise them by  *)
(* index_db_mutex), or one visit of the walk.  The queue between the walk  *)
(* and the workers is the set todo: WorkerPool shows that a job is taken   *)
(* at most once and that a job may be lost, to a crash of the worker or to *)
(* the end of the pool; both are LoseJob here.  The content of a file is   *)
(* abstracted to its mtime, which is all an incremental scan looks at.     *)
(***************************************************************************)
EXTENDS Naturals, FiniteSets, Functions

CONSTANTS Files,      \* the paths of regular files below the root
          Inner,      \* the paths of files inside archives (a.zip#/x)
          ArchiveOf,  \* the archive, one of Files, that an inner path is in
          Workers,
          Mtimes,     \* modification times, compared for equality only
          Absent,     \* in place of an mtime: there is no such file
          NoPath,     \* no path
          Unseen,     \* what the walk knows of a file it has not come to
          MaxId,      \* bound on document ids
          MaxScans, MaxEdits, MaxLosses, MaxKills  \* bounds on events

NoId == 0

ASSUME IndexAssumption ==
    /\ Files \cap Inner = {}
    /\ ArchiveOf \in [Inner -> Files]
    /\ Absent \notin Mtimes
    /\ NoPath \notin Files \cup Inner
    /\ Unseen \notin Mtimes \cup {Absent}
    /\ MaxId \in Nat

Paths == Files \cup Inner
Ids == 1 .. MaxId
Archives == {ArchiveOf[m] : m \in Inner}
Members(a) == {m \in Inner : ArchiveOf[m] = a}

VARIABLES
    disk,         \* mtime of each path, or Absent; an inner one counts when its archive is there
    \* --- the index file
    created,      \* has a first scan created it?
    document,     \* id -> path, id of the parent, mtime, is there json_data?
    marked,       \* id -> is it marked, its mtime
    thumbnail,    \* id -> the path the thumbnail was made from
    delete_list,  \* ids of deleted documents
    \* --- the running scan
    phase,
    incremental,
    seen,         \* what the walk read from disk, Unseen where it has not been
    todo,         \* files submitted and not taken
    pc,           \* of each worker
    file,         \* the file of its job
    cur,          \* what it is parsing: that file or a member of it
    rest,         \* the members it has not come to
    docId,        \* id that its write_document got
    \* --- history
    failed,       \* paths whose parse was lost or could not read, in this scan
    modified,     \* files visited whose document had another mtime
    complete,     \* did the last scan run to its end?
    interrupted,  \* archives whose parse was ever cut short
    used,         \* ids ever given to a document
    events        \* how many of the bounded events happened

dbVars == <<created, document, marked, thumbnail, delete_list>>
scanVars == <<phase, incremental, seen, todo>>
workerVars == <<pc, file, cur, rest, docId>>
historyVars == <<failed, modified, complete, interrupted, used>>
vars == <<disk, dbVars, scanVars, workerVars, historyVars, events>>

\* The statements of database_incremental_scan_end, in their order.
EndPhases == {"unlist", "thumbnails", "list", "documents", "unmark"}
Phases == {"idle", "walk"} \cup EndPhases
WorkerPcs == {"idle", "mark", "stub", "members", "write", "thumbnail"}

\* An "edit" is any act of the user on a file.
Kinds == {"scan", "edit", "loss", "kill"}
Bound == [k \in Kinds |-> CASE k = "scan" -> MaxScans [] k = "edit" -> MaxEdits
            [] k = "loss" -> MaxLosses [] k = "kill" -> MaxKills]
Count(k) == events[k] < Bound[k] /\ events' = [events EXCEPT ![k] = @ + 1]

Init ==
    /\ disk \in [Paths -> Mtimes \cup {Absent}]
    /\ created = FALSE
    /\ document = <<>> /\ marked = <<>> /\ thumbnail = <<>>
    /\ delete_list = {}
    /\ phase = "idle"
    /\ incremental = FALSE
    /\ seen = [f \in Files |-> Unseen]
    /\ todo = {}
    /\ pc = [w \in Workers |-> "idle"]
    /\ file = [w \in Workers |-> NoPath]
    /\ cur = [w \in Workers |-> NoPath]
    /\ rest = [w \in Workers |-> {}]
    /\ docId = [w \in Workers |-> NoId]
    /\ failed = {} /\ modified = {} /\ interrupted = {} /\ used = {}
    /\ complete = FALSE
    /\ events = [k \in Kinds |-> 0]

-----------------------------------------------------------------------------
(* The user.                                                               *)

Running == phase # "idle"

\* A file is created, removed, or written.
EditFile ==
    /\ Count("edit")
    /\ \E f \in Files : \E t \in Mtimes \cup {Absent} :
          t # disk[f] /\ disk' = [disk EXCEPT ![f] = t]
    /\ UNCHANGED <<dbVars, scanVars, workerVars, historyVars>>

\* An archive is written anew with one member added, removed or changed. A worker
\* that has opened it reads the old file to its end.
Open(a) == \E w \in Workers : file[w] = a /\ (cur[w] # a \/ pc[w] \notin {"mark", "stub"})

Repack ==
    /\ Count("edit")
    /\ \E m \in Inner : \E t \in Mtimes, u \in Mtimes \cup {Absent} :
          /\ ~Open(ArchiveOf[m])
          /\ t # disk[ArchiveOf[m]]
          /\ u # disk[m]
          /\ disk' = [disk EXCEPT ![ArchiveOf[m]] = t, ![m] = u]
    /\ UNCHANGED <<dbVars, scanVars, workerVars, historyVars>>

-----------------------------------------------------------------------------
(* The main process, up to the end of the pool.                            *)

\* Mutant: the rows of marked start out as marked.
BeginScanAllMarked ==
    /\ ~Running
    /\ Count("scan")
    /\ phase' = "walk"
    /\ created' = TRUE
    /\ incremental' = created
    /\ marked' = [id \in DOMAIN document |-> [marked |-> TRUE, mtime |-> document[id].mtime]]
    /\ seen' = [f \in Files |-> Unseen]
    /\ failed' = {} /\ modified' = {} /\ complete' = FALSE
    /\ UNCHANGED <<disk, document, thumbnail, delete_list, todo, workerVars,
                   interrupted, used>>

\* A scan that is not incremental is refused when the index file exists; one
\* that is has no effect when it does not exist.
BeginScan ==
    /\ ~Running
    /\ Count("scan")
    /\ phase' = "walk"
    /\ created' = TRUE
    /\ incremental' = created
    /\ marked' = [id \in DOMAIN document |-> [marked |-> FALSE, mtime |-> document[id].mtime]]
    /\ seen' = [f \in Files |-> Unseen]
    /\ failed' = {} /\ modified' = {} /\ complete' = FALSE
    /\ UNCHANGED <<disk, document, thumbnail, delete_list, todo, workerVars,
                   interrupted, used>>

Visit(f) ==
    /\ phase = "walk"
    /\ seen[f] = Unseen
    /\ seen' = [seen EXCEPT ![f] = disk[f]]
    /\ todo' = IF disk[f] = Absent THEN todo ELSE todo \cup {f}
    /\ modified' = IF /\ disk[f] # Absent
                      /\ \E id \in DOMAIN document : /\ document[id].path = f
                                                     /\ document[id].mtime # disk[f]
                   THEN modified \cup {f} ELSE modified
    /\ UNCHANGED <<disk, dbVars, phase, incremental, workerVars, failed, complete,
                   interrupted, used, events>>

\* tpool_wait and tpool_destroy return.
EndPool ==
    /\ phase = "walk"
    /\ \A f \in Files : seen[f] # Unseen
    /\ todo = {}
    /\ \A w \in Workers : pc[w] = "idle"
    /\ phase' = IF incremental THEN "unlist" ELSE "idle"
    /\ complete' = ~incremental
    /\ UNCHANGED <<disk, dbVars, incremental, seen, todo, workerVars, failed, modified,
                   interrupted, used, events>>

-----------------------------------------------------------------------------
(* A worker process: parse(), write_document() and parse_archive().        *)

StartJob(w) ==
    /\ pc[w] = "idle"
    /\ \E f \in todo :
          /\ todo' = todo \ {f}
          /\ file' = [file EXCEPT ![w] = f]
          /\ cur' = [cur EXCEPT ![w] = f]
    /\ pc' = [pc EXCEPT ![w] = "mark"]
    /\ UNCHANGED <<disk, dbVars, phase, incremental, seen, rest, docId, historyVars, events>>

\* The mtime of the file is the one the walk read, that of a member the one
\* found in the archive.
Mtime(w) == IF cur[w] \in Files THEN seen[cur[w]] ELSE disk[cur[w]]

\* parse() returns: to the loop over the members, or to that of the worker.
Return(w) ==
    /\ pc' = [pc EXCEPT ![w] = IF cur[w] \in Inner THEN "members" ELSE "idle"]
    /\ cur' = [cur EXCEPT ![w] = IF cur[w] \in Inner THEN file[w] ELSE NoPath]
    /\ file' = [file EXCEPT ![w] = IF cur[w] \in Inner THEN @ ELSE NoPath]
    /\ docId' = [docId EXCEPT ![w] = NoId]

\* The document whose path is p.
IdOf(p) == {id \in DOMAIN document : document[id].path = p}

Matching(p, t) == {id \in IdOf(p) \cap DOMAIN marked : marked[id].mtime = t}

\* Mutant: the row of an unchanged file is found and not marked.
MarkDocumentForgets(w) ==
    /\ pc[w] = "mark"
    /\ \/ Matching(cur[w], Mtime(w)) # {} /\ Return(w)
       \/ /\ Matching(cur[w], Mtime(w)) = {}
          /\ pc' = [pc EXCEPT ![w] = IF cur[w] \in Archives THEN "stub" ELSE "write"]
          /\ UNCHANGED <<cur, file, docId>>
    /\ UNCHANGED <<disk, dbVars, scanVars, rest, historyVars, events>>

MarkDocument(w) ==
    /\ pc[w] = "mark"
    /\ \/ /\ Matching(cur[w], Mtime(w)) # {}
          /\ marked' = [id \in DOMAIN marked |->
                          IF id \in Matching(cur[w], Mtime(w))
                            THEN [marked[id] EXCEPT !.marked = TRUE]
                            ELSE marked[id]]
          /\ Return(w)
       \/ /\ Matching(cur[w], Mtime(w)) = {}
          /\ pc' = [pc EXCEPT ![w] = IF cur[w] \in Archives THEN "stub" ELSE "write"]
          /\ UNCHANGED <<marked, cur, file, docId>>
    /\ UNCHANGED <<disk, created, document, thumbnail, delete_list, scanVars, rest,
                   historyVars, events>>

\* get_mime could not read the file: parse() returns before it marks.
CannotRead(w) ==
    /\ pc[w] = "mark"
    /\ Count("loss")
    /\ failed' = failed \cup {cur[w]}
    /\ Return(w)
    /\ UNCHANGED <<disk, dbVars, scanVars, rest, modified, complete, interrupted, used>>

\* Mutant: the lowest id that is free.
NextIdLowest(id) == id \notin DOMAIN document /\ 1 .. id - 1 \subseteq DOMAIN document

\* The id SQLite gives to a new row: one more than the greatest there is.
NextId(id) ==
    /\ \A k \in DOMAIN document : k < id
    /\ id = 1 \/ id - 1 \in DOMAIN document

\* Mutant: no unique index on the path.
InsertDocument(p, t, json, id) ==
    /\ NextId(id)
    /\ document' = [k \in DOMAIN document \cup {id} |->
           IF k = id THEN [path |-> p, parent |-> NoId, mtime |-> t, json |-> json]
                     ELSE document[k]]
    /\ used' = used \cup {id}

\* INSERT INTO document ... ON CONFLICT (path) DO UPDATE SET json_data: of the
\* row that is there, everything but json_data stays as it was.
UpsertDocument(p, t, json, id) ==
    \/ /\ id \in IdOf(p)
       /\ document' = [document EXCEPT ![id].json = json]
       /\ UNCHANGED used
    \/ /\ IdOf(p) = {}
       /\ NextId(id)
       /\ \E parent \in IF p \in Inner /\ IdOf(ArchiveOf[p]) # {}
                          THEN IdOf(ArchiveOf[p]) ELSE {NoId} :
             document' = [k \in DOMAIN document \cup {id} |->
                 IF k = id THEN [path |-> p, parent |-> parent, mtime |-> t, json |-> json]
                           ELSE document[k]]
       /\ used' = used \cup {id}

\* An archive is inserted, without json_data, before parse_archive is called: so is one
\* that cannot be opened, or that the mode of the scan skips (BreakOffMembers before
\* any member).
WriteStub(w) ==
    /\ pc[w] = "stub"
    /\ \E id \in Ids : UpsertDocument(cur[w], Mtime(w), FALSE, id)
    /\ pc' = [pc EXCEPT ![w] = "members"]
    /\ rest' = [rest EXCEPT ![w] = {m \in Members(cur[w]) : disk[m] # Absent}]
    /\ UNCHANGED <<disk, created, marked, thumbnail, delete_list, scanVars, file, cur,
                   docId, failed, modified, complete, interrupted, events>>

\* Mutant: nothing is written for the archive after its members.
NextMemberNoJson(w) ==
    /\ pc[w] = "members"
    /\ \/ \E m \in rest[w] :
             /\ rest' = [rest EXCEPT ![w] = @ \ {m}]
             /\ cur' = [cur EXCEPT ![w] = m]
             /\ pc' = [pc EXCEPT ![w] = "mark"]
             /\ UNCHANGED <<file, docId>>
       \/ rest[w] = {} /\ Return(w) /\ UNCHANGED rest
    /\ UNCHANGED <<disk, dbVars, scanVars, historyVars, events>>

NextMember(w) ==
    /\ pc[w] = "members"
    /\ \/ \E m \in rest[w] :
             /\ rest' = [rest EXCEPT ![w] = @ \ {m}]
             /\ cur' = [cur EXCEPT ![w] = m]
             /\ pc' = [pc EXCEPT ![w] = "mark"]
       \/ /\ rest[w] = {}
          /\ pc' = [pc EXCEPT ![w] = "write"]
          /\ UNCHANGED <<rest, cur>>
    /\ UNCHANGED <<disk, dbVars, scanVars, file, docId, historyVars, events>>

\* A member that is encrypted or too large, or an archive that is damaged, ends
\* the loop: the members that follow are not parsed. An archive that cannot be opened,
\* or that the mode skips, has none parsed; parse goes on in either case.
BreakOffMembers(w) ==
    /\ pc[w] = "members"
    /\ rest[w] # {}
    /\ Count("loss")
    /\ failed' = failed \cup rest[w]
    /\ rest' = [rest EXCEPT ![w] = {}]
    /\ pc' = [pc EXCEPT ![w] = "write"]
    /\ UNCHANGED <<disk, dbVars, scanVars, file, cur, docId, modified, complete, interrupted,
                   used>>

\* Mutant: the statement does not return the id of a row that was there.
WriteDocumentNoId(w) ==
    /\ pc[w] = "write"
    /\ \E id \in Ids : UpsertDocument(cur[w], Mtime(w), TRUE, id)
    /\ docId' = [docId EXCEPT ![w] = NoId]
    /\ pc' = [pc EXCEPT ![w] = "thumbnail"]
    /\ UNCHANGED <<disk, created, marked, thumbnail, delete_list, scanVars, file, cur,
                   rest, failed, modified, complete, interrupted, events>>

WriteDocument(w) ==
    /\ pc[w] = "write"
    /\ \E id \in Ids :
          /\ UpsertDocument(cur[w], Mtime(w), TRUE, id)
          /\ docId' = [docId EXCEPT ![w] = id]
    /\ pc' = [pc EXCEPT ![w] = "thumbnail"]
    /\ UNCHANGED <<disk, created, marked, thumbnail, delete_list, scanVars, file, cur,
                   rest, failed, modified, complete, interrupted, events>>

\* Every file but an archive has a thumbnail.
WriteThumbnail(w) ==
    /\ pc[w] = "thumbnail"
    /\ thumbnail' = IF cur[w] \in Archives THEN thumbnail
                    ELSE [k \in DOMAIN thumbnail \cup {docId[w]} |->
                            IF k = docId[w] THEN cur[w] ELSE thumbnail[k]]
    /\ Return(w)
    /\ UNCHANGED <<disk, created, document, marked, delete_list, scanVars, rest,
                   historyVars, events>>

\* The process is killed in its job, or leaves with the job in hand.
LoseJob(w) ==
    /\ pc[w] # "idle"
    /\ Count("loss")
    /\ failed' = failed \cup {file[w]} \cup Members(file[w])
    /\ interrupted' = interrupted \cup ({file[w]} \cap Archives)
    /\ pc' = [pc EXCEPT ![w] = "idle"]
    /\ file' = [file EXCEPT ![w] = NoPath]
    /\ cur' = [cur EXCEPT ![w] = NoPath]
    /\ rest' = [rest EXCEPT ![w] = {}]
    /\ docId' = [docId EXCEPT ![w] = NoId]
    /\ UNCHANGED <<disk, dbVars, scanVars, modified, complete, used>>

-----------------------------------------------------------------------------
(* database_incremental_scan_end: five statements, each committed alone.   *)

MarkedAs(b) == {id \in DOMAIN marked : marked[id].marked = b}

PurgeDeleteList ==
    /\ phase = "unlist"
    /\ delete_list' = delete_list \ MarkedAs(TRUE)
    /\ phase' = "thumbnails"
    /\ UNCHANGED <<disk, created, document, marked, thumbnail, incremental, seen, todo,
                   workerVars, historyVars, events>>

\* Mutant: executed after the documents are deleted, the join is empty.
DeleteThumbnailsLate ==
    /\ phase = "thumbnails"
    /\ phase' = "list"
    /\ UNCHANGED <<disk, dbVars, incremental, seen, todo, workerVars, historyVars, events>>

DeleteThumbnails ==
    /\ phase = "thumbnails"
    /\ thumbnail' = Restrict(thumbnail, DOMAIN thumbnail \ (MarkedAs(FALSE) \cap DOMAIN document))
    /\ phase' = "list"
    /\ UNCHANGED <<disk, created, document, marked, delete_list, incremental, seen, todo,
                   workerVars, historyVars, events>>

\* Mutant: the list is emptied first, as the marks are.
ListDeletedAnew ==
    /\ phase = "list"
    /\ delete_list' = MarkedAs(FALSE)
    /\ phase' = "documents"
    /\ UNCHANGED <<disk, created, document, marked, thumbnail, incremental, seen, todo,
                   workerVars, historyVars, events>>

ListDeleted ==
    /\ phase = "list"
    /\ delete_list' = delete_list \cup MarkedAs(FALSE)
    /\ phase' = "documents"
    /\ UNCHANGED <<disk, created, document, marked, thumbnail, incremental, seen, todo,
                   workerVars, historyVars, events>>

DeleteDocuments ==
    /\ phase = "documents"
    /\ document' = Restrict(document, DOMAIN document \ MarkedAs(FALSE))
    /\ phase' = "unmark"
    /\ UNCHANGED <<disk, created, marked, thumbnail, delete_list, incremental, seen, todo,
                   workerVars, historyVars, events>>

EndScan ==
    /\ phase = "unmark"
    /\ marked' = <<>>
    /\ complete' = TRUE
    /\ phase' = "idle"
    /\ UNCHANGED <<disk, created, document, thumbnail, delete_list, incremental, seen, todo,
                   workerVars, failed, modified, interrupted, used, events>>

\* The whole scan is killed: what was committed stays.
KillScan ==
    /\ Running
    /\ Count("kill")
    /\ phase' = "idle"
    /\ todo' = {}
    /\ pc' = [w \in Workers |-> "idle"]
    /\ file' = [w \in Workers |-> NoPath]
    /\ cur' = [w \in Workers |-> NoPath]
    /\ rest' = [w \in Workers |-> {}]
    /\ docId' = [w \in Workers |-> NoId]
    /\ interrupted' = interrupted \cup ({file[w] : w \in Workers} \cap Archives)
    /\ UNCHANGED <<disk, dbVars, incremental, seen, failed, modified, complete, used>>

-----------------------------------------------------------------------------
User == EditFile \/ Repack

Scan ==
    \/ BeginScan \/ (\E f \in Files : Visit(f)) \/ EndPool
    \/ PurgeDeleteList \/ DeleteThumbnails \/ ListDeleted \/ DeleteDocuments \/ EndScan
    \/ KillScan

Worker(w) ==
    \/ StartJob(w) \/ MarkDocument(w) \/ CannotRead(w) \/ WriteStub(w)
    \/ NextMember(w) \/ BreakOffMembers(w) \/ WriteDocument(w) \/ WriteThumbnail(w) \/ LoseJob(w)

\* No scan is running, and none need ever run again.
Rest == ~Running /\ UNCHANGED vars

Next == User \/ Scan \/ (\E w \in Workers : Worker(w)) \/ Rest

Spec == Init /\ [][Next]_vars

-----------------------------------------------------------------------------
(* Properties.                                                             *)

DocumentType == [path : Paths, parent : Ids \cup {NoId}, mtime : Mtimes, json : BOOLEAN]

TypeOK ==
    /\ disk \in [Paths -> Mtimes \cup {Absent}]
    /\ created \in BOOLEAN
    /\ DOMAIN document \subseteq Ids /\ Range(document) \subseteq DocumentType
    /\ DOMAIN marked \subseteq Ids
    /\ Range(marked) \subseteq [marked : BOOLEAN, mtime : Mtimes]
    /\ DOMAIN thumbnail \subseteq Ids /\ Range(thumbnail) \subseteq Paths
    /\ delete_list \subseteq Ids
    /\ phase \in Phases
    /\ incremental \in BOOLEAN
    /\ todo \subseteq Files
    /\ pc \in [Workers -> WorkerPcs]
    /\ file \in [Workers -> Files \cup {NoPath}]
    /\ cur \in [Workers -> Paths \cup {NoPath}]
    /\ rest \in [Workers -> SUBSET Inner]
    /\ docId \in [Workers -> Ids \cup {NoId}]

\* No two documents have the same path, whichever workers wrote them.
PathsUnique ==
    \A i, j \in DOMAIN document : document[i].path = document[j].path => i = j

\* SQLite gives the id of a deleted document to the next one, and nothing ever
\* updates a parent: all the same no document is the parent of what is not one
\* of its members, since a parent's id is below those of its members.
ParentsRight ==
    \A i \in DOMAIN document :
        LET p == document[i].parent IN
        p \in DOMAIN document =>
            document[i].path \in Inner /\ document[p].path = ArchiveOf[document[i].path]

\* A thumbnail is that of a document there is, and was made from its file: the
\* reuse of an id never shows one file with the thumbnail of another.
ThumbnailsOwned ==
    \A i \in DOMAIN thumbnail : i \in DOMAIN document /\ document[i].path = thumbnail[i]

\* Whatever was lost, killed and repeated before, a scan that runs to its end
\* leaves exactly one document for each file it saw, was not interrupted on, and
\* that had not changed since its document was written; it leaves none for
\* a file that is gone.
ScanFaithful ==
    complete /\ ~Running =>
        /\ \A f \in Files \ (failed \cup modified) :
              seen[f] # Absent =>
                  \E i \in DOMAIN document : /\ document[i].path = f
                                             /\ document[i].mtime = seen[f]
        /\ \A i \in DOMAIN document : document[i].path \in Files =>
              seen[document[i].path] # Absent

\* The document of a file that did not change keeps its id: no step removes a
\* document unless its file is gone, changed, or was not parsed; members of
\* archives excepted.
UnchangedKeepIds ==
    [][\A i \in DOMAIN document :
          document[i].path \in Files =>
              \/ i \in DOMAIN document' /\ document'[i].path = document[i].path
              \/ seen[document[i].path] # document[i].mtime
              \/ document[i].path \in failed]_vars

\* A document without json_data is an archive whose parse was cut short, or one
\* that is being parsed: sist2_index stops at the first one it reads.
StubsAreInterrupted ==
    \A i \in DOMAIN document :
        ~document[i].json => \/ document[i].path \in interrupted
                             \/ \E w \in Workers : file[w] = document[i].path

\* An id that was given and is not that of a document is on the delete list,
\* from which the search index is to be told of it.
DeletedAreListed == used \subseteq DOMAIN document \cup delete_list

-----------------------------------------------------------------------------
(* What the documentation and the tests say of a scan, and does not hold.  *)

\* USAGE.md:24: modified files are scanned, so that after a scan in which nothing
\* was lost every file that was seen has a document.
ModifiedFilesAreIndexed ==
    complete /\ ~Running /\ failed = {} =>
        \A f \in Files : seen[f] # Absent => IdOf(f) # {}

\* tests/test_scan.py:109-113: when nothing was touched the index keeps what it
\* had: the members of every archive that is there have their documents.
MembersAreIndexed ==
    complete /\ ~Running /\ failed = {} /\ modified = {} /\ events["edit"] = 0 =>
        \A m \in Inner : disk[m] # Absent /\ seen[ArchiveOf[m]] # Absent => IdOf(m) # {}
=============================================================================
