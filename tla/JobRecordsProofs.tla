-------------------------- MODULE JobRecordsProofs --------------------------
(***************************************************************************)
(* The record of a job and its index files, for any number of pages, runs, *)
(* edits and faults.                                                       *)
(***************************************************************************)
EXTENDS JobRecords, FiniteSetTheorems, TLAPS

-----------------------------------------------------------------------------
(* The inductive invariant.                                                *)

RunObject == [record : Record, scanned : {"not yet", "failed", "ok"}]

RunIds == DOMAIN objects

Items == DOMAIN task_queue

\* Runs read and not yet written, each of which will be one more object.
ToBe == {t \in Threads : held[t].to = "run"}

HeldTypes ==
    {Nothing} \cup [to : {"save", "run"}, value : Record] \cup [to : {"index"}, run : RunIds]

TaskTypes ==
    {NoTask} \cup [kind : {"scan"}, run : RunIds, step : {"process", "remove"}]
             \cup [kind : {"index"}, run : RunIds, step : {"process", "save", "raised"}]

RecordTypes ==
    /\ job \in Record \cup {NoJob}
    /\ listed => job \in Record
    /\ page \in [Pages -> Record \cup {NoJob}]
    /\ held \in [Threads -> HeldTypes]
    /\ objects \in Seq(RunObject \cup {Gone})
    /\ task_queue \in Seq({"scan", "index"} \X RunIds)
    /\ task \in TaskTypes
    /\ DOMAIN made \subseteq RunIds
    /\ completed \subseteq RunIds
    /\ as_shown \in BOOLEAN
    /\ Len(objects) + Cardinality(ToBe) <= MaxJobRuns

Live == {r \in RunIds : objects[r] # Gone}

\* Run r is submitted to the queue, or will be, or its task runs: it has its object.
\* Each of its two tasks comes once, the scan first.
Turns ==
    /\ \A i, k \in Items : task_queue[i] = task_queue[k] => i = k
    /\ \A i, k \in Items :
          task_queue[i][2] = task_queue[k][2] /\ task_queue[i][1] = "index"
              /\ task_queue[k][1] = "scan" => k < i
    /\ \A i \in Items : task_queue[i][2] \in Live
    /\ task # NoTask =>
          /\ task.run \in Live
          /\ \A i \in Items :
                task_queue[i][2] = task.run => task_queue[i][1] = "index" /\ task.kind = "scan"
    /\ \A t \in Threads : held[t].to = "index" =>
          /\ held[t].run \in Live
          /\ \A i \in Items : task_queue[i] # <<"index", held[t].run>>
          /\ task # NoTask => ~(task.kind = "index" /\ task.run = held[t].run)
          /\ \A u \in Threads : held[u].to = "index" /\ held[u].run = held[t].run => u = t

\* An index file is named for a run whose scan was started.
FilesAreScanned ==
    /\ \A p \in completed \cup DOMAIN made : \A i \in Items : task_queue[i] # <<"scan", p>>
    /\ task # NoTask /\ task.kind = "scan" /\ task.step = "process" => task.run \notin completed

\* The copies of the record, those that a task may yet be submitted with included.
AllCopies ==
    ({job} \ {NoJob}) \cup {objects[r].record : r \in Live}
        \cup {held[t].value : t \in {u \in Threads : held[u].to \in {"save", "run"}}}

PathsAreCompleted ==
    /\ \A x \in AllCopies : x.path # NoPath => x.path \in completed
    /\ \A c \in Pages : page[c] # NoJob /\ page[c].path # NoPath => page[c].path \in completed
    /\ frontend # NoPath => frontend \in completed /\ listed

\* As long as no page was saved over a record it had not shown: the copies that call
\* for an incremental scan of a file agree on its options, and the file was made of them.
OptionsAgree == as_shown =>
    /\ \A x \in AllCopies : ~x.full /\ x.path \in DOMAIN made => made[x.path] = {x.options}
    /\ \A x, y \in AllCopies :
          ~x.full /\ ~y.full /\ x.path = y.path /\ x.path # NoPath => x.options = y.options
    /\ task # NoTask /\ task.kind = "scan" /\ task.step = "process" =>
          /\ Output(task.run) \in DOMAIN made
          /\ made[Output(task.run)] = {Mine.record.options}

RecordIInv == RecordTypes /\ Turns /\ FilesAreScanned /\ PathsAreCompleted /\ OptionsAgree

-----------------------------------------------------------------------------
(* What the types say.                                                     *)

LEMMA QueueAndObjects ==
    ASSUME RecordTypes
    PROVE  /\ Len(objects) \in Nat /\ RunIds = 1 .. Len(objects)
           /\ Len(task_queue) \in Nat /\ Items = 1 .. Len(task_queue)
           /\ \A r \in Live : objects[r] \in RunObject
           /\ \A i \in Items : /\ task_queue[i][1] \in {"scan", "index"}
                               /\ task_queue[i][2] \in RunIds
                               /\ task_queue[i] = <<task_queue[i][1], task_queue[i][2]>>
<1>1. /\ Len(objects) \in Nat /\ RunIds = 1 .. Len(objects)
      /\ Len(task_queue) \in Nat /\ Items = 1 .. Len(task_queue)
  BY DEF RecordTypes, RunIds, Items
<1>2. \A r \in Live : objects[r] \in RunObject
  BY <1>1 DEF RecordTypes, Live
<1>3. \A i \in Items : task_queue[i] \in {"scan", "index"} \X RunIds
  BY <1>1 DEF RecordTypes
<1>4. QED
  BY <1>1, <1>2, <1>3

LEMMA TasksAndThreads ==
    ASSUME RecordTypes
    PROVE  /\ \A t \in Threads :
                 /\ held[t].to \in {"nothing", "save", "run", "index"}
                 /\ held[t] = Nothing <=> held[t].to = "nothing"
                 /\ held[t].to \in {"save", "run"} => held[t].value \in Record
                 /\ held[t].to = "index" => held[t].run \in RunIds
           /\ task = NoTask <=> task.kind = "none"
           /\ task # NoTask => task.kind \in {"scan", "index"} /\ task.run \in RunIds
           /\ task # NoTask /\ task.kind = "scan" => task.step \in {"process", "remove"}
           /\ task # NoTask /\ task.kind = "index" => task.step \in {"process", "save", "raised"}
BY DEF RecordTypes, HeldTypes, TaskTypes, Nothing, NoTask

\* A copy is a record.
LEMMA CopiesAreRecords ==
    ASSUME RecordTypes, NEW x \in AllCopies
    PROVE  x \in Record
<1>1. CASE x = job /\ job # NoJob
  BY <1>1 DEF RecordTypes
<1>2. CASE \E r \in Live : x = objects[r].record
  <2>1. PICK r \in Live : x = objects[r].record
    BY <1>2
  <2>2. objects[r] \in RunObject
    BY QueueAndObjects
  <2>3. QED
    BY <2>1, <2>2 DEF RunObject
<1>3. CASE \E t \in Threads : held[t].to \in {"save", "run"} /\ x = held[t].value
  BY <1>3, TasksAndThreads
<1>4. QED
  BY <1>1, <1>2, <1>3 DEF AllCopies

\* A run that is over is never taken for one that is not.
LEMMA GoneIsNoRun == Gone \notin RunObject
BY DEF Gone, RunObject

\* What there is before a record exists.
LEMMA DefaultIsRecord == Default \in Record
BY RecordAssumption DEF Default, Record, NoPath

\* The runs that wait to be written can be counted.
LEMMA ToBeIsFinite ==
    /\ IsFiniteSet(ToBe) /\ Cardinality(ToBe) \in Nat
<1>1. IsFiniteSet({"api", "timer"})
  <2>1. IsFiniteSet({"api"} \cup {"timer"})
    BY FS_Singleton, FS_AddElement
  <2>2. {"api"} \cup {"timer"} = {"api", "timer"}
    OBVIOUS
  <2>3. QED
    BY <2>1, <2>2
<1>2. QED
  BY <1>1, FS_Subset, FS_CardinalityType DEF ToBe, Threads

\* Nobody else begins to wait.
LEMMA ToBeShrinks ==
    ASSUME RecordTypes, ToBe' \subseteq ToBe
    PROVE  Cardinality(ToBe') <= Cardinality(ToBe) /\ Cardinality(ToBe') \in Nat
BY ToBeIsFinite, FS_Subset, FS_CardinalityType

-----------------------------------------------------------------------------
(* Steps that leave the parts of the invariant alone.                      *)

\* The copies after a step follow those before it: they have the paths of those, and
\* call for an incremental scan only where those do, with the same options.
Follows(x, y) == x.path = y.path /\ (~x.full => ~y.full /\ x.options = y.options)

LEMMA CopiesFollow ==
    ASSUME PathsAreCompleted, OptionsAgree,
           \A x \in AllCopies' : x.path = NoPath \/ \E y \in AllCopies : Follows(x, y),
           \A c \in Pages : page'[c] # NoJob /\ page'[c].path # NoPath => page'[c].path \in completed,
           frontend' # NoPath => frontend' \in completed /\ listed,
           completed' = completed, listed' = listed, as_shown' => as_shown,
           DOMAIN made' \subseteq DOMAIN made, \A p \in DOMAIN made' : made'[p] = made[p],
           NoPath \notin DOMAIN made,
           task' # NoTask /\ task'.kind = "scan" /\ task'.step = "process" =>
               made' = made /\ task' = task /\ objects'[task.run] = objects[task.run]
    PROVE  PathsAreCompleted' /\ OptionsAgree'
<1>1. PathsAreCompleted'
  BY DEF PathsAreCompleted, Follows
<1>2. OptionsAgree'
  <2> SUFFICES ASSUME as_shown'
               PROVE  /\ \A x \in AllCopies' :
                            ~x.full /\ x.path \in DOMAIN made' => made'[x.path] = {x.options}
                      /\ \A x, y \in AllCopies' :
                            ~x.full /\ ~y.full /\ x.path = y.path /\ x.path # NoPath
                                => x.options = y.options
                      /\ task' # NoTask /\ task'.kind = "scan" /\ task'.step = "process" =>
                            /\ Output(task.run)' \in DOMAIN made'
                            /\ made'[Output(task.run)'] = {Mine.record.options}'
    BY DEF OptionsAgree
  <2>1. \A x \in AllCopies' : ~x.full /\ x.path \in DOMAIN made' => made'[x.path] = {x.options}
    BY DEF OptionsAgree, Follows
  <2>2. \A x, y \in AllCopies' :
            ~x.full /\ ~y.full /\ x.path = y.path /\ x.path # NoPath => x.options = y.options
    BY DEF OptionsAgree, Follows
  <2>3. task' # NoTask /\ task'.kind = "scan" /\ task'.step = "process" =>
            /\ Output(task.run)' \in DOMAIN made'
            /\ made'[Output(task.run)'] = {Mine.record.options}'
    BY DEF OptionsAgree, Output, Mine
  <2>4. QED
    BY <2>1, <2>2, <2>3
<1>3. QED
  BY <1>1, <1>2

\* The queue stays, and a thread or a task that is left goes on with its run or ends.
LEMMA TurnsStay ==
    ASSUME RecordTypes, Turns,
           task_queue' = task_queue, RunIds' = RunIds, Live' \subseteq Live,
           \A t \in Threads : held'[t].to = "index" => held'[t] = held[t] /\ held[t].run \in Live',
           \A i \in Items : task_queue[i][2] \in Live',
           task' # NoTask =>
               /\ task # NoTask /\ task'.run = task.run /\ task'.kind = task.kind
               /\ task.run \in Live'
    PROVE  Turns'
<1>1. Items' = Items
  BY DEF Items
<1>2. QED
  BY <1>1 DEF Turns

\* A page is loaded.
LEMMA LoadPageKeeps ==
    ASSUME RecordIInv, NEW c \in Pages, LoadPage(c)
    PROVE  RecordIInv'
<1> USE DEF RecordIInv
<1>1. /\ page' = [page EXCEPT ![c] = job] /\ job \in Record
      /\ listed' = listed /\ job' = job /\ held' = held /\ objects' = objects
      /\ task_queue' = task_queue /\ task' = task /\ made' = made /\ frontend' = frontend
      /\ completed' = completed /\ as_shown' = as_shown
  BY DEF LoadPage, recordHistory, RecordTypes
<1>2. /\ RunIds' = RunIds /\ Live' = Live /\ Items' = Items /\ ToBe' = ToBe
      /\ AllCopies' = AllCopies
  BY <1>1 DEF RunIds, Live, Items, ToBe, AllCopies
<1>3. RecordTypes'
  BY <1>1, <1>2 DEF RecordTypes, HeldTypes, TaskTypes
<1>4. Turns' /\ FilesAreScanned'
  BY <1>1, <1>2 DEF Turns, FilesAreScanned
<1>5. PathsAreCompleted'
  <2>1. job # NoJob => job \in AllCopies
    BY DEF AllCopies
  <2>2. \A d \in Pages : page'[d] = IF d = c THEN job ELSE page[d]
    BY <1>1 DEF RecordTypes
  <2>3. QED
    BY <1>1, <1>2, <2>1, <2>2 DEF PathsAreCompleted
<1>6. OptionsAgree'
  BY <1>1, <1>2 DEF OptionsAgree, Output, Mine
<1>7. QED
  BY <1>3, <1>4, <1>5, <1>6

\* What a step that changes the record alone, or what is about to be written to it,
\* has to keep.
LEMMA RecordMoves ==
    ASSUME RecordIInv,
           listed' = listed, objects' = objects, task_queue' = task_queue,
           task' = task, made' = made, frontend' = frontend, completed' = completed,
           as_shown' \in BOOLEAN, as_shown' => as_shown,
           page' \in [Pages -> Record \cup {NoJob}],
           \A d \in Pages : page'[d] # NoJob =>
               page[d] # NoJob /\ page'[d].path = page[d].path,
           job' \in Record \cup {NoJob}, listed => job' \in Record,
           held' \in [Threads -> HeldTypes],
           Len(objects) + Cardinality(ToBe') <= MaxJobRuns,
           \A t \in Threads : held'[t].to = "index" => held'[t] = held[t],
           \A x \in AllCopies' : x.path # NoPath => x.path \in completed,
           as_shown' => \A x \in AllCopies' : x.path = NoPath \/ \E y \in AllCopies : Follows(x, y)
    PROVE  RecordIInv'
<1> USE DEF RecordIInv
<1>1. RunIds' = RunIds /\ Live' = Live /\ Items' = Items
  BY DEF RunIds, Live, Items
<1>2. RecordTypes'
  BY <1>1 DEF RecordTypes, HeldTypes, TaskTypes
<1>3. Turns' /\ FilesAreScanned'
  <2>1. Turns'
    BY <1>1, TurnsStay DEF Turns
  <2>2. FilesAreScanned'
    BY <1>1 DEF FilesAreScanned
  <2>3. QED
    BY <2>1, <2>2
<1>4. PathsAreCompleted'
  BY DEF PathsAreCompleted
<1>5. OptionsAgree'
  <2>1. CASE as_shown'
    <3>1. NoPath \notin DOMAIN made
      BY QueueAndObjects DEF RecordTypes, NoPath
    <3>2. QED
      BY <2>1, <3>1, CopiesFollow DEF PathsAreCompleted
  <2>2. CASE ~as_shown'
    BY <2>2 DEF OptionsAgree
  <2>3. QED
    BY <2>1, <2>2
<1>6. QED
  BY <1>2, <1>3, <1>4, <1>5

\* A thread is about to write x: that is one copy more.
LEMMA HeldCopy ==
    ASSUME RecordTypes, NEW t \in Threads, NEW k \in {"save", "run"}, NEW x \in Record,
           held[t] = Nothing, held' = [held EXCEPT ![t] = [to |-> k, value |-> x]],
           job' = job, objects' = objects
    PROVE  /\ held' \in [Threads -> HeldTypes]
           /\ AllCopies' = AllCopies \cup {x}
           /\ ToBe' = IF k = "run" THEN ToBe \cup {t} ELSE ToBe
           /\ t \notin ToBe
           /\ \A u \in Threads : held'[u].to = "index" => held'[u] = held[u]
<1>1. \A u \in Threads : held'[u] = IF u = t THEN [to |-> k, value |-> x] ELSE held[u]
  BY DEF RecordTypes
<1>2. held' \in [Threads -> HeldTypes]
  BY DEF RecordTypes, HeldTypes
<1>3. Live' = Live
  BY DEF Live, RunIds
<1>4. held[t].to = "nothing"
  BY TasksAndThreads
<1>5. AllCopies' = AllCopies \cup {x}
  <2>1. {held'[u].value : u \in {v \in Threads : held'[v].to \in {"save", "run"}}}
          = {held[u].value : u \in {v \in Threads : held[v].to \in {"save", "run"}}} \cup {x}
    BY <1>1, <1>4
  <2>2. QED
    BY <1>3, <2>1 DEF AllCopies
<1>6. ToBe' = IF k = "run" THEN ToBe \cup {t} ELSE ToBe
  BY <1>1, <1>4 DEF ToBe
<1>7. t \notin ToBe /\ \A u \in Threads : held'[u].to = "index" => held'[u] = held[u]
  BY <1>1, <1>4 DEF ToBe
<1>8. QED
  BY <1>2, <1>5, <1>6, <1>7

\* A page is saved: a full scan is due unless the options are those of the record.
LEMMA SavePageKeeps ==
    ASSUME RecordIInv, NEW c \in Pages, NEW o \in ScanOptions, SavePage(c, o)
    PROVE  RecordIInv'
<1> USE DEF RecordIInv
<1>1. PICK x : x = [page[c] EXCEPT !.options = o]
  OBVIOUS
<1>2. /\ held["api"] = Nothing /\ job # NoJob /\ page[c] # NoJob
      /\ page' = [page EXCEPT ![c] = x]
      /\ held' = [held EXCEPT !["api"] = [to |-> "save", value |-> [x EXCEPT !.full = FullScanDue(x)]]]
      /\ as_shown' = (as_shown /\ page[c] = job)
      /\ listed' = listed /\ job' = job /\ objects' = objects /\ task_queue' = task_queue
      /\ task' = task /\ made' = made /\ frontend' = frontend /\ completed' = completed
  <2>1. page'[c] = x /\ page' = [page EXCEPT ![c] = x]
    BY <1>1 DEF SavePage, RecordTypes
  <2>2. QED
    BY <2>1 DEF SavePage, ApiFree
<1>3. page[c] \in Record /\ job \in Record /\ x \in Record
  BY <1>1, <1>2 DEF RecordTypes, Record
<1>4. PICK v \in Record : v = [x EXCEPT !.full = FullScanDue(x)]
  BY <1>3 DEF Record, FullScanDue
<1>5. /\ v.path = page[c].path /\ v.full = FullScanDue(x) /\ v.options = o
      /\ x.full = page[c].full /\ x.options = o
  BY <1>1, <1>3, <1>4 DEF Record
<1>6. /\ held' \in [Threads -> HeldTypes]
      /\ AllCopies' = AllCopies \cup {v}
      /\ ToBe' = ToBe
      /\ \A u \in Threads : held'[u].to = "index" => held'[u] = held[u]
  <2>1. held' = [held EXCEPT !["api"] = [to |-> "save", value |-> v]]
    BY <1>2, <1>4
  <2>2. QED
    BY <1>2, <2>1, HeldCopy DEF Threads
<1>7. \A d \in Pages : page'[d] # NoJob => page[d] # NoJob /\ page'[d].path = page[d].path
  BY <1>1, <1>2, <1>3 DEF RecordTypes, Record
<1>8. \A z \in AllCopies' : z.path # NoPath => z.path \in completed
  BY <1>2, <1>5, <1>6 DEF PathsAreCompleted
<1>9. as_shown' => Follows(v, job) /\ job \in AllCopies
  BY <1>2, <1>5 DEF FullScanDue, Follows, AllCopies
<1>10. as_shown' => \A z \in AllCopies' : z.path = NoPath \/ \E y \in AllCopies : Follows(z, y)
  BY <1>6, <1>9 DEF Follows
<1>11. page' \in [Pages -> Record \cup {NoJob}] /\ as_shown' \in BOOLEAN
  BY <1>2, <1>3 DEF RecordTypes
<1>12. QED
  BY <1>2, <1>6, <1>7, <1>8, <1>10, <1>11, RecordMoves DEF RecordTypes

\* A job is created again, or deleted.
LEMMA CreateAndDeleteKeep ==
    ASSUME RecordIInv, CreateJob \/ DeleteJob
    PROVE  RecordIInv'
<1> USE DEF RecordIInv
<1>1. /\ listed' = listed /\ objects' = objects /\ task_queue' = task_queue /\ page' = page
      /\ task' = task /\ made' = made /\ frontend' = frontend /\ completed' = completed
      /\ as_shown' = as_shown
  BY DEF CreateJob, DeleteJob, recordHistory
<1>2. \A x : Follows(x, x)
  BY DEF Follows
<1>3. CASE CreateJob
  <2>1. /\ held["api"] = Nothing /\ job' = job
        /\ held' = [held EXCEPT !["api"] = [to |-> "save", value |-> Default]]
    BY <1>3 DEF CreateJob, ApiFree
  <2>2. /\ held' \in [Threads -> HeldTypes]
        /\ AllCopies' = AllCopies \cup {Default}
        /\ ToBe' = ToBe
        /\ \A u \in Threads : held'[u].to = "index" => held'[u] = held[u]
    BY <1>1, <2>1, HeldCopy, DefaultIsRecord DEF Threads
  <2>3. Default.path = NoPath
    BY DEF Default
  <2>4. \A z \in AllCopies' : z.path # NoPath => z.path \in completed
    BY <2>2, <2>3 DEF PathsAreCompleted
  <2>5. \A z \in AllCopies' : z.path = NoPath \/ \E y \in AllCopies : Follows(z, y)
    BY <1>2, <2>2, <2>3
  <2>6. QED
    BY <1>1, <2>1, <2>2, <2>4, <2>5, RecordMoves DEF RecordTypes
<1>4. CASE DeleteJob
  <2>1. job' = NoJob /\ ~listed /\ held' = held
    BY <1>4 DEF DeleteJob
  <2>2. AllCopies' \subseteq AllCopies /\ ToBe' = ToBe
    BY <1>1, <2>1 DEF AllCopies, Live, RunIds, ToBe
  <2>3. QED
    BY <1>1, <1>2, <2>1, <2>2, RecordMoves DEF RecordTypes, PathsAreCompleted
<1>5. QED
  BY <1>3, <1>4

\* The record is read for a run, which has room.
LEMMA ReadForRunKeeps ==
    ASSUME RecordIInv, NEW t \in Threads, NEW full \in BOOLEAN, ReadForRun(t, full)
    PROVE  RecordIInv'
<1> USE DEF RecordIInv
<1>1. /\ held[t] = Nothing /\ job # NoJob
      /\ Len(objects) + Cardinality(ToBe) < MaxJobRuns
      /\ held' = [held EXCEPT ![t] = [to |-> "run", value |-> [job EXCEPT !.full = @ \/ full]]]
      /\ listed' = listed /\ objects' = objects /\ task_queue' = task_queue /\ page' = page
      /\ task' = task /\ made' = made /\ frontend' = frontend /\ completed' = completed
      /\ as_shown' = as_shown /\ job' = job
  BY DEF ReadForRun, recordHistory, ToBe
<1>2. job \in Record /\ job \in AllCopies
  BY <1>1 DEF RecordTypes, AllCopies
<1>3. PICK v \in Record : v = [job EXCEPT !.full = @ \/ full]
  BY <1>2 DEF Record
<1>4. Follows(v, job)
  BY <1>2, <1>3 DEF Follows, Record
<1>5. /\ held' \in [Threads -> HeldTypes]
      /\ AllCopies' = AllCopies \cup {v}
      /\ ToBe' = ToBe \cup {t} /\ t \notin ToBe
      /\ \A u \in Threads : held'[u].to = "index" => held'[u] = held[u]
  <2>1. held' = [held EXCEPT ![t] = [to |-> "run", value |-> v]]
    BY <1>1, <1>3
  <2>2. QED
    BY <1>1, <2>1, HeldCopy
<1>6. Len(objects) + Cardinality(ToBe') <= MaxJobRuns
  <2>1. Cardinality(ToBe') = Cardinality(ToBe) + 1
    BY <1>5, ToBeIsFinite, FS_AddElement
  <2>2. QED
    BY <1>1, <2>1, ToBeIsFinite, QueueAndObjects, RecordAssumption
<1>7. \A z \in AllCopies' : z.path # NoPath => z.path \in completed
  BY <1>2, <1>4, <1>5 DEF PathsAreCompleted, Follows
<1>8. \A z \in AllCopies' : z.path = NoPath \/ \E y \in AllCopies : Follows(z, y)
  BY <1>2, <1>4, <1>5 DEF Follows
<1>9. QED
  BY <1>1, <1>5, <1>6, <1>7, <1>8, RecordMoves DEF RecordTypes

\* A page's version of the record is written.
LEMMA WriteSaveKeeps ==
    ASSUME RecordIInv, NEW t \in Threads, WriteHeld(t), held[t].to = "save"
    PROVE  RecordIInv'
<1> USE DEF RecordIInv
<1>1. /\ job' = held[t].value /\ held' = [held EXCEPT ![t] = Nothing]
      /\ listed' = listed /\ objects' = objects /\ task_queue' = task_queue /\ page' = page
      /\ task' = task /\ made' = made /\ frontend' = frontend /\ completed' = completed
      /\ as_shown' = as_shown
  BY DEF WriteHeld, recordHistory
<1>2. job' \in Record
  BY <1>1, TasksAndThreads
<1>3. \A u \in Threads : held'[u] = IF u = t THEN Nothing ELSE held[u]
  BY <1>1 DEF RecordTypes
<1>4. AllCopies' \subseteq AllCopies
  <2>1. held[t].value \in AllCopies
    BY DEF AllCopies
  <2>2. ({job} \ {NoJob})' \subseteq AllCopies
    BY <1>1, <2>1
  <2>3. {objects[r].record : r \in Live}' \subseteq AllCopies
    BY <1>1 DEF AllCopies, Live, RunIds
  <2>4. \A u \in Threads : held'[u].to \in {"save", "run"} => held'[u].value \in AllCopies
    BY <1>3 DEF AllCopies, Nothing
  <2>5. QED
    BY <2>2, <2>3, <2>4 DEF AllCopies
<1>5. ToBe' = ToBe
  BY <1>3 DEF ToBe, Nothing
<1>6. held' \in [Threads -> HeldTypes]
  BY <1>1 DEF RecordTypes, HeldTypes
<1>7. \A u \in Threads : held'[u].to = "index" => held'[u] = held[u]
  BY <1>3 DEF Nothing
<1>8. \A z \in AllCopies' : z.path # NoPath => z.path \in completed
  BY <1>4 DEF PathsAreCompleted
<1>9. \A z \in AllCopies' : z.path = NoPath \/ \E y \in AllCopies : Follows(z, y)
  BY <1>4 DEF Follows
<1>10. QED
  BY <1>1, <1>2, <1>5, <1>6, <1>7, <1>8, <1>9, RecordMoves DEF RecordTypes

\* The record of a run is written, and its scan is submitted with an object of its own.
LEMMA WriteRunKeeps ==
    ASSUME RecordIInv, NEW t \in Threads, WriteHeld(t), held[t].to = "run"
    PROVE  RecordIInv'
<1> USE DEF RecordIInv
<1>1. PICK v \in Record : v = held[t].value
  BY TasksAndThreads
<1>2. PICK n \in Nat : n = Len(objects) + 1
  BY QueueAndObjects
<1>3. PICK m \in Nat : m = Len(task_queue) + 1
  BY QueueAndObjects
<1>4. /\ Len(objects) \in Nat /\ RunIds = 1 .. Len(objects)
      /\ Len(task_queue) \in Nat /\ Items = 1 .. Len(task_queue)
  BY QueueAndObjects
<1>5. /\ job' = v /\ listed' = listed /\ page' = page
      /\ objects' = Append(objects, [record |-> v, scanned |-> "not yet"])
      /\ task_queue' = Append(task_queue, <<"scan", Len(objects')>>)
      /\ held' = [held EXCEPT ![t] = [to |-> "index", run |-> Len(objects')]]
      /\ task' = task /\ made' = made /\ frontend' = frontend /\ completed' = completed
      /\ as_shown' = as_shown
  BY <1>1 DEF WriteHeld, recordHistory
<1>6. /\ objects' \in Seq(RunObject \cup {Gone}) /\ Len(objects') = n
      /\ objects'[n] = [record |-> v, scanned |-> "not yet"] /\ objects'[n] \in RunObject
      /\ \A r \in RunIds : objects'[r] = objects[r]
  <2>1. PICK ob \in RunObject : ob = [record |-> v, scanned |-> "not yet"]
    BY DEF RunObject
  <2>2. PICK S : S = RunObject \cup {Gone}
    OBVIOUS
  <2>3. objects \in Seq(S) /\ ob \in S /\ objects' = Append(objects, ob)
    BY <1>5, <2>1, <2>2 DEF RecordTypes
  <2>4. /\ objects' \in Seq(S) /\ Len(objects') = n /\ objects'[n] = ob
        /\ \A r \in 1 .. Len(objects) : objects'[r] = objects[r]
    BY <1>2, <1>4, <2>3
  <2>5. QED
    BY <1>4, <2>1, <2>2, <2>4
<1>7. RunIds' = RunIds \cup {n} /\ n \notin RunIds /\ Live' = Live \cup {n}
  <2>1. RunIds' = 1 .. n
    <3>1. PICK S : objects' \in Seq(S)
      BY <1>6
    <3>2. DOMAIN objects' = 1 .. Len(objects')
      BY <3>1
    <3>3. QED
      BY <1>6, <3>2 DEF RunIds
  <2>2. objects'[n] # Gone
    BY <1>6, GoneIsNoRun
  <2>3. RunIds' = RunIds \cup {n} /\ n \notin RunIds
    BY <1>2, <1>4, <2>1
  <2>4. QED
    BY <1>6, <2>2, <2>3 DEF Live
<1>8. /\ task_queue' \in Seq({"scan", "index"} \X RunIds')
      /\ Items' = Items \cup {m} /\ m \notin Items /\ \A i \in Items : i < m
      /\ task_queue'[m] = <<"scan", n>>
      /\ \A i \in Items : task_queue'[i] = task_queue[i]
  <2>1. task_queue \in Seq({"scan", "index"} \X RunIds')
    BY <1>7 DEF RecordTypes
  <2>2. <<"scan", n>> \in {"scan", "index"} \X RunIds'
    BY <1>7
  <2>3. task_queue' = Append(task_queue, <<"scan", n>>)
    BY <1>5, <1>6
  <2>4. /\ task_queue' \in Seq({"scan", "index"} \X RunIds')
        /\ Len(task_queue') = m
        /\ task_queue'[m] = <<"scan", n>>
        /\ \A i \in Items : task_queue'[i] = task_queue[i]
    BY <1>3, <1>4, <2>1, <2>2, <2>3
  <2>5. Items' = 1 .. m
    BY <2>4 DEF Items
  <2>6. QED
    BY <1>3, <1>4, <2>4, <2>5
<1>9. \A u \in Threads : held'[u] = IF u = t THEN [to |-> "index", run |-> n] ELSE held[u]
  BY <1>5, <1>6 DEF RecordTypes
<1>10. Len(objects') + Cardinality(ToBe') <= MaxJobRuns
  <2>1. ToBe' = ToBe \ {t} /\ t \in ToBe
    BY <1>9 DEF ToBe
  <2>2. Cardinality(ToBe') = Cardinality(ToBe) - 1
    BY <2>1, ToBeIsFinite, FS_RemoveElement
  <2>3. Len(objects) + Cardinality(ToBe) <= MaxJobRuns /\ MaxJobRuns \in Nat
    BY RecordAssumption DEF RecordTypes
  <2>4. Cardinality(ToBe) \in Nat /\ Len(objects') = Len(objects) + 1
    BY <1>2, <1>6, ToBeIsFinite
  <2>5. QED
    BY <1>4, <2>2, <2>3, <2>4
<1>11. RecordTypes'
  <2>1. held' \in [Threads -> HeldTypes']
    <3>1. \A u \in Threads : held'[u] \in HeldTypes'
      BY <1>7, <1>9 DEF RecordTypes, HeldTypes
    <3>2. QED
      BY <1>5, <3>1 DEF RecordTypes
  <2>2. task' \in TaskTypes'
    BY <1>5, <1>7 DEF RecordTypes, TaskTypes
  <2>3. QED
    BY <1>5, <1>6, <1>7, <1>8, <1>10, <2>1, <2>2 DEF RecordTypes
<1>12. \A i \in Items : task_queue[i][2] \in RunIds /\ task_queue[i] # <<"scan", n>>
  <2>1. \A i \in Items : task_queue[i][2] \in RunIds
    BY QueueAndObjects
  <2>2. <<"scan", n>>[2] = n
    OBVIOUS
  <2>3. QED
    BY <1>7, <2>1, <2>2
<1>13. Turns'
  <2>1. \A i, k \in Items' : task_queue'[i] = task_queue'[k] => i = k
    BY <1>8, <1>12 DEF Turns
  <2>2. \A i, k \in Items' :
            task_queue'[i][2] = task_queue'[k][2] /\ task_queue'[i][1] = "index"
                /\ task_queue'[k][1] = "scan" => k < i
    <3>1. task_queue'[m][1] = "scan" /\ task_queue'[m][2] = n
      BY <1>8
    <3>2. QED
      BY <1>7, <1>8, <1>12, <3>1 DEF Turns
  <2>3. \A i \in Items' : task_queue'[i][2] \in Live'
    BY <1>7, <1>8 DEF Turns
  <2>4. task' # NoTask =>
          /\ task'.run \in Live'
          /\ \A i \in Items' :
                task_queue'[i][2] = task'.run => task_queue'[i][1] = "index" /\ task'.kind = "scan"
    <3>1. task # NoTask => task.run \in RunIds /\ task.run # n
      BY <1>7, TasksAndThreads
    <3>2. task_queue'[m][2] = n
      BY <1>8
    <3>3. QED
      BY <1>5, <1>7, <1>8, <3>1, <3>2 DEF Turns
  <2>5. ASSUME NEW u \in Threads, held'[u].to = "index"
        PROVE  /\ held'[u].run \in Live'
               /\ \A i \in Items' : task_queue'[i] # <<"index", held'[u].run>>
               /\ task' # NoTask => ~(task'.kind = "index" /\ task'.run = held'[u].run)
               /\ \A w \in Threads : held'[w].to = "index" /\ held'[w].run = held'[u].run => w = u
    <3>1. \A w \in Threads \ {t} : held'[w] = held[w]
                                   /\ (held[w].to = "index" => held[w].run \in RunIds)
      BY <1>9, TasksAndThreads
    <3>2. CASE u = t
      <4>1. held'[u].run = n /\ held'[u].to = "index"
        BY <1>9, <3>2
      <4>2. \A i \in Items : task_queue[i] # <<"index", n>>
        BY <1>7, <1>12
      <4>3. \A i \in Items' : task_queue'[i] # <<"index", n>>
        BY <1>8, <4>2
      <4>4. task' # NoTask => task'.run # n
        BY <1>5, <1>7, TasksAndThreads
      <4>5. \A w \in Threads : held'[w].to = "index" /\ held'[w].run = n => w = t
        BY <1>7, <3>1
      <4>6. QED
        BY <1>7, <3>2, <4>1, <4>3, <4>4, <4>5
    <3>3. CASE u # t
      <4>1. held'[u] = held[u] /\ held[u].to = "index" /\ held[u].run # n
        BY <1>7, <2>5, <3>1, <3>3
      <4>2. task_queue'[m] # <<"index", held[u].run>>
        BY <1>8
      <4>3. \A w \in Threads : held'[w].to = "index" /\ held'[w].run = held[u].run => w = u
        BY <1>9, <3>1, <4>1 DEF Turns
      <4>4. /\ held[u].run \in Live
            /\ \A i \in Items : task_queue[i] # <<"index", held[u].run>>
            /\ task # NoTask => ~(task.kind = "index" /\ task.run = held[u].run)
        BY <4>1 DEF Turns
      <4>5. \A i \in Items' : task_queue'[i] # <<"index", held[u].run>>
        BY <1>8, <4>2, <4>4
      <4>6. task' = task /\ held[u].run \in Live'
        BY <1>5, <1>7, <4>4
      <4>7. QED
        BY <4>1, <4>3, <4>4, <4>5, <4>6
    <3>4. QED
      BY <3>2, <3>3
  <2>6. QED
    BY <2>1, <2>2, <2>3, <2>4, <2>5 DEF Turns
<1>14. FilesAreScanned'
  <2>1. \A p \in completed \cup DOMAIN made : p # n
    BY <1>7 DEF RecordTypes
  <2>2. \A p \in completed \cup DOMAIN made : task_queue'[m] # <<"scan", p>>
    BY <1>8, <2>1
  <2>3. QED
    BY <1>5, <1>8, <2>2 DEF FilesAreScanned
<1>15. AllCopies' \subseteq AllCopies
  <2>1. v \in AllCopies
    BY <1>1 DEF AllCopies
  <2>2. \A r \in Live' : objects'[r].record \in AllCopies
    <3>1. \A r \in Live : objects'[r] = objects[r] /\ objects[r].record \in AllCopies
      BY <1>6 DEF AllCopies, Live
    <3>2. objects'[n].record = v
      <4>1. [record |-> v, scanned |-> "not yet"].record = v
        OBVIOUS
      <4>2. QED
        BY <1>6, <4>1
    <3>3. QED
      BY <1>7, <2>1, <3>1, <3>2
  <2>3. \A u \in Threads : held'[u].to \in {"save", "run"} => held'[u].value \in AllCopies
    BY <1>9 DEF AllCopies
  <2>4. ASSUME NEW x \in AllCopies'
        PROVE  x \in AllCopies
    <3>1. \/ x = job' /\ job' # NoJob
          \/ \E r \in Live' : x = objects'[r].record
          \/ \E u \in Threads : held'[u].to \in {"save", "run"} /\ x = held'[u].value
      BY DEF AllCopies
    <3>2. x = job' /\ job' # NoJob => x \in AllCopies
      BY <1>5, <2>1
    <3>3. (\E r \in Live' : x = objects'[r].record) => x \in AllCopies
      BY <2>2
    <3>4. (\E u \in Threads : held'[u].to \in {"save", "run"} /\ x = held'[u].value)
             => x \in AllCopies
      BY <2>3
    <3>5. QED
      BY <3>1, <3>2, <3>3, <3>4
  <2>5. QED
    BY <2>4
<1>16. PathsAreCompleted' /\ OptionsAgree'
  <2>1. \A x \in AllCopies' : \E y \in AllCopies : Follows(x, y)
    BY <1>15 DEF Follows
  <2>2. NoPath \notin DOMAIN made
    BY <1>4 DEF RecordTypes, NoPath
  <2>3. task # NoTask => objects'[task.run] = objects[task.run]
    BY <1>6, TasksAndThreads
  <2>4. QED
    BY <1>5, <2>1, <2>2, <2>3, CopiesFollow DEF PathsAreCompleted
<1>17. QED
  BY <1>11, <1>13, <1>14, <1>16

\* The index task of a run is submitted.
LEMMA SubmitIndexKeeps ==
    ASSUME RecordIInv, NEW t \in Threads, SubmitIndex(t)
    PROVE  RecordIInv'
<1> USE DEF RecordIInv
<1>1. PICK n \in RunIds : n = held[t].run
  BY TasksAndThreads DEF SubmitIndex
<1>2. PICK m \in Nat : m = Len(task_queue) + 1
  BY QueueAndObjects
<1>3. /\ Len(task_queue) \in Nat /\ Items = 1 .. Len(task_queue)
  BY QueueAndObjects
<1>4. /\ held[t].to = "index"
      /\ task_queue' = Append(task_queue, <<"index", n>>)
      /\ held' = [held EXCEPT ![t] = Nothing]
      /\ job' = job /\ listed' = listed /\ page' = page /\ objects' = objects
      /\ task' = task /\ made' = made /\ frontend' = frontend /\ completed' = completed
      /\ as_shown' = as_shown
  BY <1>1 DEF SubmitIndex, recordHistory
<1>5. RunIds' = RunIds /\ Live' = Live
  BY <1>4 DEF RunIds, Live
<1>6. /\ task_queue' \in Seq({"scan", "index"} \X RunIds)
      /\ Items' = Items \cup {m} /\ m \notin Items /\ \A i \in Items : i < m
      /\ task_queue'[m] = <<"index", n>>
      /\ \A i \in Items : task_queue'[i] = task_queue[i]
  <2>1. <<"index", n>> \in {"scan", "index"} \X RunIds
    OBVIOUS
  <2>2. /\ task_queue' \in Seq({"scan", "index"} \X RunIds)
        /\ Len(task_queue') = m
        /\ task_queue'[m] = <<"index", n>>
        /\ \A i \in Items : task_queue'[i] = task_queue[i]
    BY <1>2, <1>3, <1>4, <2>1 DEF RecordTypes
  <2>3. DOMAIN task_queue' = 1 .. Len(task_queue')
    BY <2>2
  <2>4. QED
    BY <1>2, <1>3, <2>2, <2>3 DEF Items
<1>7. \A u \in Threads : held'[u] = IF u = t THEN Nothing ELSE held[u]
  BY <1>4 DEF RecordTypes
<1>8. RecordTypes'
  <2>1. ToBe' = ToBe
    BY <1>4, <1>7 DEF ToBe, Nothing
  <2>2. held' \in [Threads -> HeldTypes]
    BY <1>4 DEF RecordTypes, HeldTypes
  <2>3. QED
    BY <1>4, <1>5, <1>6, <2>1, <2>2 DEF RecordTypes, HeldTypes, TaskTypes
<1>9. /\ n \in Live
      /\ \A i \in Items : task_queue[i] # <<"index", n>>
      /\ task # NoTask => ~(task.kind = "index" /\ task.run = n)
      /\ \A u \in Threads : held[u].to = "index" /\ held[u].run = n => u = t
  BY <1>1, <1>4 DEF Turns
<1>10. task_queue'[m][1] = "index" /\ task_queue'[m][2] = n
  BY <1>6
<1>11. Turns'
  <2>1. \A i, k \in Items' : task_queue'[i] = task_queue'[k] => i = k
    BY <1>6, <1>9 DEF Turns
  <2>2. \A i, k \in Items' :
            task_queue'[i][2] = task_queue'[k][2] /\ task_queue'[i][1] = "index"
                /\ task_queue'[k][1] = "scan" => k < i
    BY <1>6, <1>10 DEF Turns
  <2>3. \A i \in Items' : task_queue'[i][2] \in Live
    BY <1>6, <1>9, <1>10 DEF Turns
  <2>4. task # NoTask =>
          /\ task.run \in Live
          /\ \A i \in Items' :
                task_queue'[i][2] = task.run => task_queue'[i][1] = "index" /\ task.kind = "scan"
    <3>1. task # NoTask /\ task.run = n => task.kind = "scan"
      BY <1>9, TasksAndThreads
    <3>2. QED
      BY <1>6, <1>10, <3>1 DEF Turns
  <2>5. ASSUME NEW u \in Threads, held'[u].to = "index"
        PROVE  /\ held'[u] = held[u] /\ held[u].to = "index" /\ u # t
               /\ held[u].run # n
    BY <1>7, <1>9, <2>5 DEF Nothing
  <2>6. ASSUME NEW u \in Threads, held'[u].to = "index"
        PROVE  /\ held[u].run \in Live
               /\ \A i \in Items' : task_queue'[i] # <<"index", held[u].run>>
               /\ task # NoTask => ~(task.kind = "index" /\ task.run = held[u].run)
               /\ \A w \in Threads : held'[w].to = "index" /\ held'[w].run = held[u].run => w = u
    <3>1. held[u].to = "index" /\ held[u].run # n
      BY <2>5, <2>6
    <3>2. \A i \in Items : task_queue[i] # <<"index", held[u].run>>
      BY <3>1 DEF Turns
    <3>3. task_queue'[m] # <<"index", held[u].run>>
      BY <1>6, <3>1
    <3>4. QED
      BY <1>6, <2>5, <3>1, <3>2, <3>3 DEF Turns
  <2>7. \A u \in Threads : held'[u].to = "index" =>
            /\ held'[u].run \in Live
            /\ \A i \in Items' : task_queue'[i] # <<"index", held'[u].run>>
            /\ task # NoTask => ~(task.kind = "index" /\ task.run = held'[u].run)
            /\ \A w \in Threads : held'[w].to = "index" /\ held'[w].run = held'[u].run => w = u
    BY <2>5, <2>6
  <2>8. task' = task /\ Live' = Live
    BY <1>4, <1>5
  <2>9. QED
    BY <2>1, <2>2, <2>3, <2>4, <2>7, <2>8 DEF Turns
<1>12. FilesAreScanned'
  <2>1. \A p \in completed \cup DOMAIN made : task_queue'[m] # <<"scan", p>>
    BY <1>6
  <2>2. QED
    BY <1>4, <1>6, <2>1 DEF FilesAreScanned
<1>13. AllCopies' = AllCopies
  <2>1. {u \in Threads : held'[u].to \in {"save", "run"}} = {u \in Threads : held[u].to \in {"save", "run"}}
    BY <1>4, <1>7 DEF Nothing
  <2>2. \A u \in Threads : held'[u].to \in {"save", "run"} => held'[u].value = held[u].value
    BY <1>7 DEF Nothing
  <2>3. QED
    BY <1>4, <1>5, <2>1, <2>2 DEF AllCopies
<1>14. PathsAreCompleted' /\ OptionsAgree'
  BY <1>4, <1>13 DEF PathsAreCompleted, OptionsAgree, Output, Mine
<1>15. QED
  BY <1>8, <1>11, <1>12, <1>14

-----------------------------------------------------------------------------
(* The tasks.                                                              *)

\* The first item is taken off the queue.
LEMMA ItemIsTaken ==
    ASSUME RecordTypes, task_queue # <<>>, task_queue' = Tail(task_queue), RunIds' = RunIds
    PROVE  /\ 1 \in Items /\ Head(task_queue) = task_queue[1]
           /\ task_queue' \in Seq({"scan", "index"} \X RunIds)
           /\ Items' \subseteq Nat \ {0}
           /\ \A i \in Items' : i + 1 \in Items /\ task_queue'[i] = task_queue[i + 1]
<1>1. /\ Len(task_queue) \in Nat /\ Items = 1 .. Len(task_queue) /\ Len(task_queue) >= 1
  BY QueueAndObjects DEF RecordTypes
<1>2. /\ task_queue' \in Seq({"scan", "index"} \X RunIds)
      /\ Len(task_queue') = Len(task_queue) - 1
      /\ \A i \in 1 .. Len(task_queue') : task_queue'[i] = task_queue[i + 1]
      /\ Head(task_queue) = task_queue[1]
  BY <1>1 DEF RecordTypes
<1>3. Items' = 1 .. Len(task_queue')
  BY <1>2 DEF Items
<1>4. QED
  BY <1>1, <1>2, <1>3

\* It was the only one of its kind for its run, and if it is the index task, the last.
LEMMA TakenIsLast ==
    ASSUME RecordTypes, Turns, task_queue # <<>>, task_queue' = Tail(task_queue), RunIds' = RunIds,
           NEW i \in Items', task_queue'[i][2] = task_queue[1][2]
    PROVE  task_queue[1][1] = "scan" /\ task_queue'[i][1] = "index"
<1>1. /\ 1 \in Items /\ i \in Nat /\ i + 1 # 1
      /\ i + 1 \in Items /\ task_queue'[i] = task_queue[i + 1]
  <2>1. /\ 1 \in Items /\ i \in Nat \ {0}
        /\ i + 1 \in Items /\ task_queue'[i] = task_queue[i + 1]
    BY ItemIsTaken
  <2>2. i + 1 # 1
    BY <2>1
  <2>3. QED
    BY <2>1, <2>2
<1>2. task_queue[i + 1] # task_queue[1]
  BY <1>1 DEF Turns
<1>3. /\ task_queue[1] = <<task_queue[1][1], task_queue[1][2]>>
      /\ task_queue[i + 1] = <<task_queue[i + 1][1], task_queue[i + 1][2]>>
      /\ task_queue[1][1] \in {"scan", "index"} /\ task_queue[i + 1][1] \in {"scan", "index"}
  BY <1>1, QueueAndObjects
<1>4. task_queue[1][1] # task_queue[i + 1][1]
  BY <1>1, <1>2, <1>3
<1>5. ~(task_queue[1][1] = "index" /\ task_queue[i + 1][1] = "scan")
  <2>1. ~(i + 1 < 1)
    BY <1>1
  <2>2. QED
    BY <1>1, <2>1 DEF Turns
<1>6. task_queue[1][1] = "scan" /\ task_queue[i + 1][1] = "index"
  BY <1>3, <1>4, <1>5
<1>7. QED
  BY <1>1, <1>6

\* What is left of the queue keeps its turns.
LEMMA TakenTurns ==
    ASSUME RecordTypes, Turns, NEW k \in {"scan", "index"}, NextIs(k),
           task_queue' = Tail(task_queue), RunIds' = RunIds,
           NEW r, r = Head(task_queue)[2]
    PROVE  /\ task = NoTask /\ r \in Live /\ 1 \in Items /\ task_queue[1] = <<k, r>>
           /\ task_queue' \in Seq({"scan", "index"} \X RunIds)
           /\ \A i \in Items' : i + 1 \in Items /\ task_queue'[i] = task_queue[i + 1]
           /\ \A i \in Items' : task_queue'[i][2] = r => k = "scan" /\ task_queue'[i][1] = "index"
           /\ \A i, m \in Items' : task_queue'[i] = task_queue'[m] => i = m
           /\ \A i, m \in Items' :
                 task_queue'[i][2] = task_queue'[m][2] /\ task_queue'[i][1] = "index"
                     /\ task_queue'[m][1] = "scan" => m < i
           /\ \A i \in Items' : task_queue'[i][2] \in Live
           /\ \A t \in Threads : held[t].to = "index" =>
                 /\ held[t].run \in Live
                 /\ ~(k = "index" /\ r = held[t].run)
                 /\ \A i \in Items' : task_queue'[i] # <<"index", held[t].run>>
<1>1. task = NoTask /\ task_queue # <<>>
  BY DEF NextIs
<1>2. /\ 1 \in Items /\ Head(task_queue) = task_queue[1]
      /\ task_queue' \in Seq({"scan", "index"} \X RunIds)
      /\ Items' \subseteq Nat \ {0}
      /\ \A i \in Items' : i + 1 \in Items /\ task_queue'[i] = task_queue[i + 1]
  BY <1>1, ItemIsTaken
<1>3. r \in Live /\ r = task_queue[1][2]
  BY <1>2 DEF Turns
<1>4. task_queue[1] = <<k, r>> /\ task_queue[1][1] = k
  BY <1>2, <1>3, QueueAndObjects DEF NextIs
<1>5. \A i \in Items' : task_queue'[i][2] = r => k = "scan" /\ task_queue'[i][1] = "index"
  BY <1>1, <1>3, <1>4, TakenIsLast
<1>6. \A i, m \in Items' : task_queue'[i] = task_queue'[m] => i = m
  <2> SUFFICES ASSUME NEW i \in Items', NEW m \in Items', task_queue'[i] = task_queue'[m]
               PROVE  i = m
    OBVIOUS
  <2>1. /\ i + 1 \in Items /\ task_queue'[i] = task_queue[i + 1]
        /\ m + 1 \in Items /\ task_queue'[m] = task_queue[m + 1]
    BY <1>2
  <2>2. \A j, l \in Items : task_queue[j] = task_queue[l] => j = l
    BY DEF Turns
  <2>3. i + 1 = m + 1
    BY <2>1, <2>2
  <2>4. i \in Nat /\ m \in Nat
    BY <1>2
  <2>5. QED
    BY <2>3, <2>4
<1>7. \A i, m \in Items' :
          task_queue'[i][2] = task_queue'[m][2] /\ task_queue'[i][1] = "index"
              /\ task_queue'[m][1] = "scan" => m < i
  <2> SUFFICES ASSUME NEW i \in Items', NEW m \in Items',
                      task_queue'[i][2] = task_queue'[m][2], task_queue'[i][1] = "index",
                      task_queue'[m][1] = "scan"
               PROVE  m < i
    OBVIOUS
  <2>1. /\ i + 1 \in Items /\ task_queue'[i] = task_queue[i + 1]
        /\ m + 1 \in Items /\ task_queue'[m] = task_queue[m + 1]
    BY <1>2
  <2>2. \A j, l \in Items :
            task_queue[j][2] = task_queue[l][2] /\ task_queue[j][1] = "index"
                /\ task_queue[l][1] = "scan" => l < j
    BY DEF Turns
  <2>3. m + 1 < i + 1
    BY <2>1, <2>2
  <2>4. i \in Nat /\ m \in Nat
    BY <1>2
  <2>5. QED
    BY <2>3, <2>4
<1>8. \A i \in Items' : task_queue'[i][2] \in Live
  BY <1>2 DEF Turns
<1>9. \A t \in Threads : held[t].to = "index" =>
          held[t].run \in Live /\ ~(k = "index" /\ r = held[t].run)
  BY <1>2, <1>4 DEF Turns
<1>10. \A t \in Threads : held[t].to = "index" =>
           \A i \in Items' : task_queue'[i] # <<"index", held[t].run>>
  <2>1. \A t \in Threads : held[t].to = "index" =>
            \A i \in Items : task_queue[i] # <<"index", held[t].run>>
    BY DEF Turns
  <2>2. QED
    BY <1>2, <2>1
<1>11. QED
  BY <1>1, <1>2, <1>3, <1>4, <1>5, <1>6, <1>7, <1>8, <1>9, <1>10

\* The task that is taken off the queue and run has its turn.
LEMMA StartedTurns ==
    ASSUME RecordTypes, Turns, NEW k \in {"scan", "index"}, Started(k),
           RunIds' = RunIds, Live' = Live, held' = held
    PROVE  /\ Turns'
           /\ task_queue' \in Seq({"scan", "index"} \X RunIds)
           /\ 1 \in Items /\ task_queue[1] = <<k, task'.run>>
           /\ task'.run \in Live /\ task'.kind = k /\ task'.step = "process"
           /\ task' \in TaskTypes /\ task' # NoTask
           /\ \A i \in Items' : i + 1 \in Items /\ task_queue'[i] = task_queue[i + 1]
           /\ \A i \in Items' : task_queue'[i] # <<"scan", task'.run>>
<1>1. PICK r : r = Head(task_queue)[2]
  OBVIOUS
<1>2. /\ NextIs(k) /\ task_queue' = Tail(task_queue)
      /\ task' = [kind |-> k, run |-> r, step |-> "process"]
  BY <1>1 DEF Started
<1>3. /\ r \in Live /\ 1 \in Items /\ task_queue[1] = <<k, r>>
      /\ task_queue' \in Seq({"scan", "index"} \X RunIds)
      /\ \A i \in Items' : i + 1 \in Items /\ task_queue'[i] = task_queue[i + 1]
      /\ \A i \in Items' : task_queue'[i][2] = r => k = "scan" /\ task_queue'[i][1] = "index"
  BY <1>1, <1>2, TakenTurns
<1>4. /\ task'.run = r /\ task'.kind = k /\ task'.step = "process"
      /\ task' \in TaskTypes /\ task' # NoTask
  BY <1>2, <1>3 DEF TaskTypes, NoTask, Live
<1>5. \A i \in Items' : task_queue'[i] # <<"scan", r>>
  <2>1. <<"scan", r>>[1] = "scan" /\ <<"scan", r>>[2] = r
    OBVIOUS
  <2>2. QED
    BY <1>3, <2>1
<1>6. /\ \A i, m \in Items' : task_queue'[i] = task_queue'[m] => i = m
      /\ \A i, m \in Items' :
            task_queue'[i][2] = task_queue'[m][2] /\ task_queue'[i][1] = "index"
                /\ task_queue'[m][1] = "scan" => m < i
      /\ \A i \in Items' : task_queue'[i][2] \in Live
  BY <1>1, <1>2, TakenTurns
<1>7. \A t \in Threads : held[t].to = "index" =>
          /\ held[t].run \in Live
          /\ ~(k = "index" /\ r = held[t].run)
          /\ \A i \in Items' : task_queue'[i] # <<"index", held[t].run>>
  BY <1>1, <1>2, TakenTurns
<1>8. Turns'
  BY <1>3, <1>4, <1>6, <1>7 DEF Turns
<1>9. QED
  BY <1>3, <1>4, <1>5, <1>8

\* The object of one run is exchanged.
LEMMA ObjectChanges ==
    ASSUME RecordTypes, NEW r \in RunIds, NEW ob \in RunObject \cup {Gone},
           objects' = [objects EXCEPT ![r] = ob]
    PROVE  /\ objects' \in Seq(RunObject \cup {Gone}) /\ Len(objects') = Len(objects)
           /\ RunIds' = RunIds
           /\ objects'[r] = ob /\ \A n \in RunIds \ {r} : objects'[n] = objects[n]
<1>1. PICK S : S = RunObject \cup {Gone}
  OBVIOUS
<1>2. objects \in Seq(S) /\ ob \in S /\ r \in 1 .. Len(objects)
  BY <1>1, QueueAndObjects DEF RecordTypes
<1>3. /\ objects' \in Seq(S) /\ Len(objects') = Len(objects)
      /\ objects'[r] = ob /\ \A n \in 1 .. Len(objects) \ {r} : objects'[n] = objects[n]
  BY <1>2
<1>4. DOMAIN objects' = 1 .. Len(objects') /\ DOMAIN objects = 1 .. Len(objects)
  BY <1>2, <1>3
<1>5. QED
  BY <1>1, <1>3, <1>4 DEF RunIds

\* What a step of the task that runs has to keep, when it makes no index file and
\* completes none. The object of its run goes only with the index task.
LEMMA TaskMoves ==
    ASSUME RecordIInv, NEW r \in Live, NEW ob \in RunObject \cup {Gone},
           task # NoTask, task.run = r,
           objects' \in Seq(RunObject \cup {Gone}), Len(objects') = Len(objects), RunIds' = RunIds,
           objects'[r] = ob, \A n \in RunIds \ {r} : objects'[n] = objects[n],
           ob = Gone => task.kind = "index" /\ task' = NoTask,
           ob # Gone => \E y \in AllCopies : Follows(ob.record, y),
           task' = NoTask \/ (/\ task' \in TaskTypes /\ task'.run = r
                              /\ task'.kind = task.kind /\ task'.step # "process"),
           task_queue' = task_queue, held' = held, page' = page, listed' = listed,
           completed' = completed, as_shown' = as_shown,
           DOMAIN made' \subseteq DOMAIN made, \A p \in DOMAIN made' : made'[p] = made[p],
           job' \in Record \cup {NoJob}, listed => job' \in Record,
           job' # NoJob => \E y \in AllCopies : Follows(job', y),
           frontend' # NoPath => frontend' \in completed /\ listed
    PROVE  RecordIInv'
<1> USE DEF RecordIInv
<1>1. Live' = IF ob = Gone THEN Live \ {r} ELSE Live
  BY DEF Live
<1>2. RecordTypes'
  <2>1. task' \in TaskTypes
    BY DEF TaskTypes
  <2>2. ToBe' = ToBe
    BY DEF ToBe
  <2>3. QED
    BY <2>1, <2>2 DEF RecordTypes, HeldTypes, TaskTypes
<1>3. Turns'
  <2>1. \A i \in Items : task_queue[i][2] \in Live'
    BY <1>1 DEF Turns
  <2>2. \A t \in Threads : held'[t].to = "index" => held'[t] = held[t] /\ held[t].run \in Live'
    BY <1>1 DEF Turns
  <2>3. task' # NoTask => task.run \in Live'
    BY <1>1
  <2>4. Live' \subseteq Live
    BY <1>1
  <2>5. QED
    BY <2>1, <2>2, <2>3, <2>4, TurnsStay
<1>4. FilesAreScanned'
  BY DEF FilesAreScanned, Items
<1>5. \A x \in AllCopies' : \E y \in AllCopies : Follows(x, y)
  <2>1. \A x : Follows(x, x)
    BY DEF Follows
  <2>2. \A x \in ({job} \ {NoJob})' : \E y \in AllCopies : Follows(x, y)
    OBVIOUS
  <2>3. \A n \in Live' : \E y \in AllCopies : Follows(objects'[n].record, y)
    <3>1. \A n \in Live' \ {r} : objects'[n] = objects[n] /\ objects[n].record \in AllCopies
      BY <1>1 DEF AllCopies, Live
    <3>2. r \in Live' => \E y \in AllCopies : Follows(objects'[r].record, y)
      BY <1>1
    <3>3. QED
      BY <2>1, <3>1, <3>2
  <2>4. \A t \in Threads : held'[t].to \in {"save", "run"} => held'[t].value \in AllCopies
    BY DEF AllCopies
  <2>5. ASSUME NEW x \in AllCopies'
        PROVE  \E y \in AllCopies : Follows(x, y)
    <3>1. \/ x \in ({job} \ {NoJob})'
          \/ \E n \in Live' : x = objects'[n].record
          \/ \E t \in Threads : held'[t].to \in {"save", "run"} /\ x = held'[t].value
      BY DEF AllCopies
    <3>2. QED
      BY <2>1, <2>2, <2>3, <2>4, <3>1
  <2>6. QED
    BY <2>5
<1>6. NoPath \notin DOMAIN made
  BY QueueAndObjects DEF RecordTypes, NoPath
<1>7. PathsAreCompleted' /\ OptionsAgree'
  BY <1>5, <1>6, CopiesFollow DEF PathsAreCompleted
<1>8. QED
  BY <1>2, <1>3, <1>4, <1>7

\* The run of the task is there, with its object and its copy of the record.
LEMMA RunOfTask ==
    ASSUME RecordTypes, Turns, task # NoTask
    PROVE  /\ task.run \in Live /\ task.run \in RunIds
           /\ objects[task.run] \in RunObject /\ objects[task.run] # Gone
           /\ objects[task.run].record \in AllCopies /\ objects[task.run].record \in Record
           /\ objects[task.run].scanned \in {"not yet", "failed", "ok"}
<1>1. task.run \in Live /\ task.run \in RunIds
  BY TasksAndThreads DEF Turns
<1>2. objects[task.run] \in RunObject
  BY <1>1, QueueAndObjects
<1>3. QED
  BY <1>1, <1>2, GoneIsNoRun DEF AllCopies, RunObject

\* What a scan writes to is a run's file, new or completed.
LEMMA OutputIsKnown ==
    ASSUME RecordTypes, PathsAreCompleted, NEW r \in Live
    PROVE  /\ Output(r) \in RunIds
           /\ \/ Output(r) = r
              \/ /\ Output(r) = objects[r].record.path /\ ~objects[r].record.full
                 /\ Output(r) \in completed
<1>1. objects[r].record \in AllCopies /\ r \in RunIds
  BY DEF AllCopies, Live
<1>2. QED
  BY <1>1 DEF Output, PathsAreCompleted, RecordTypes

\* There are no more runs than the bound.
LEMMA RunsAreBounded ==
    ASSUME RecordTypes
    PROVE  RunIds \subseteq (0 .. MaxJobRuns) \ {NoPath}
<1>1. Len(objects) \in Nat /\ RunIds = 1 .. Len(objects)
  BY QueueAndObjects
<1>2. Len(objects) + Cardinality(ToBe) <= MaxJobRuns /\ MaxJobRuns \in Nat
  BY RecordAssumption DEF RecordTypes
<1>3. QED
  BY <1>1, <1>2, ToBeIsFinite DEF NoPath

\* The process of a scan fails.
LEMMA ScanFailsKeeps ==
    ASSUME RecordIInv, ScanFails
    PROVE  RecordIInv'
<1> USE DEF RecordIInv
<1>1. /\ task # NoTask /\ task.kind = "scan"
      /\ objects' = [objects EXCEPT ![task.run].scanned = "failed"]
      /\ task' = NoTask
      /\ listed' = listed /\ job' = job /\ page' = page /\ held' = held /\ task_queue' = task_queue
      /\ made' = made /\ frontend' = frontend /\ completed' = completed /\ as_shown' = as_shown
  BY DEF ScanFails, Doing, NoTask
<1>2. PICK r : r = task.run
  OBVIOUS
<1>3. r \in Live /\ r \in RunIds /\ objects[r] \in RunObject /\ objects[r].record \in AllCopies
  BY <1>1, <1>2, RunOfTask
<1>4. PICK ob \in RunObject : ob = [objects[r] EXCEPT !.scanned = "failed"]
  BY <1>3 DEF RunObject
<1>5. ob.record = objects[r].record
  BY <1>3, <1>4 DEF RunObject
<1>6. objects' = [objects EXCEPT ![r] = ob]
  BY <1>1, <1>2, <1>4
<1>7. /\ objects' \in Seq(RunObject \cup {Gone}) /\ Len(objects') = Len(objects)
      /\ RunIds' = RunIds
      /\ objects'[r] = ob /\ \A n \in RunIds \ {r} : objects'[n] = objects[n]
  BY <1>3, <1>6, ObjectChanges
<1>8. Follows(ob.record, objects[r].record) /\ (job # NoJob => job \in AllCopies /\ Follows(job, job))
  BY <1>5 DEF Follows, AllCopies
<1>9. ob # Gone
  BY GoneIsNoRun
<1>10. QED
  BY <1>1, <1>2, <1>3, <1>7, <1>8, <1>9, TaskMoves DEF RecordTypes, PathsAreCompleted

\* The old index file is removed and forgotten.
LEMMA RemoveOldIndexKeeps ==
    ASSUME RecordIInv, RemoveOldIndex
    PROVE  RecordIInv'
<1> USE DEF RecordIInv
<1>1. PICK r : r = task.run
  OBVIOUS
<1>2. /\ task # NoTask /\ task.kind = "scan"
      /\ objects' = [objects EXCEPT ![r].record.previous = objects[r].record.path]
      /\ job' = objects'[r].record
      /\ task' = NoTask
      /\ listed' = listed /\ page' = page /\ held' = held /\ task_queue' = task_queue
      /\ frontend' = frontend /\ completed' = completed /\ as_shown' = as_shown
  BY <1>1 DEF RemoveOldIndex, Doing, NoTask, Mine, recordHistory
<1>3. DOMAIN made' \subseteq DOMAIN made /\ \A p \in DOMAIN made' : made'[p] = made[p]
  BY DEF RemoveOldIndex
<1>4. r \in Live /\ r \in RunIds /\ objects[r] \in RunObject /\ objects[r].record \in AllCopies
  BY <1>1, <1>2, RunOfTask
<1>5. PICK w \in Record : w = [objects[r].record EXCEPT !.previous = objects[r].record.path]
  BY <1>4 DEF RunObject, Record
<1>6. w.path = objects[r].record.path /\ w.full = objects[r].record.full
      /\ w.options = objects[r].record.options
  BY <1>4, <1>5 DEF RunObject, Record
<1>7. PICK ob \in RunObject : ob = [objects[r] EXCEPT !.record = w]
  BY <1>4, <1>5 DEF RunObject
<1>8. ob.record = w
  BY <1>4, <1>7 DEF RunObject
<1>9. objects' = [objects EXCEPT ![r] = ob]
  BY <1>2, <1>5, <1>7
<1>10. /\ objects' \in Seq(RunObject \cup {Gone}) /\ Len(objects') = Len(objects)
       /\ RunIds' = RunIds
       /\ objects'[r] = ob /\ \A n \in RunIds \ {r} : objects'[n] = objects[n]
  BY <1>4, <1>9, ObjectChanges
<1>11. Follows(w, objects[r].record) /\ job' = w
  BY <1>2, <1>6, <1>8, <1>10 DEF Follows
<1>12. ob # Gone /\ ob \in RunObject \cup {Gone}
  BY GoneIsNoRun
<1>13. /\ \E y \in AllCopies : Follows(ob.record, y)
       /\ \E y \in AllCopies : Follows(job', y)
       /\ job' \in Record
  BY <1>4, <1>5, <1>8, <1>11
<1>14. frontend' # NoPath => frontend' \in completed /\ listed
  BY <1>2 DEF PathsAreCompleted
<1>15. QED
  BY <1>1, <1>2, <1>3, <1>4, <1>10, <1>12, <1>13, <1>14, TaskMoves

\* The running frontend is started again with the path that the record has now.
LEMMA RestartFrontendKeeps ==
    ASSUME RecordIInv, RestartFrontend
    PROVE  RecordIInv'
<1> USE DEF RecordIInv
<1>1. PICK r : r = task.run
  OBVIOUS
<1>2. /\ task # NoTask /\ task.kind = "index"
      /\ objects' = objects /\ job' = job
      /\ listed' = listed /\ page' = page /\ held' = held /\ task_queue' = task_queue
      /\ made' = made /\ completed' = completed /\ as_shown' = as_shown
  BY DEF RestartFrontend, Doing, NoTask, recordHistory
<1>3. r \in Live /\ r \in RunIds /\ objects[r] \in RunObject /\ objects[r].record \in AllCopies
  BY <1>1, <1>2, RunOfTask
<1>4. objects[r] # Gone /\ RunIds' = RunIds
  BY <1>2, <1>3, GoneIsNoRun DEF RunIds
<1>5. /\ task' \in TaskTypes /\ task'.run = r /\ task'.kind = task.kind /\ task'.step # "process"
  BY <1>1, <1>2 DEF RestartFrontend, RecordTypes, TaskTypes, NoTask
<1>6. job # NoJob => job \in AllCopies /\ Follows(job, job)
  BY DEF AllCopies, Follows
<1>7. frontend' # NoPath => frontend' \in completed /\ listed
  <2>1. frontend # NoPath => listed /\ job \in Record /\ frontend \in completed
    BY DEF PathsAreCompleted, RecordTypes
  <2>2. NoJob \notin Record
    BY DEF NoJob, Record
  <2>3. frontend # NoPath /\ job.path # NoPath => job.path \in completed
    BY <1>6, <2>1, <2>2 DEF PathsAreCompleted
  <2>4. QED
    BY <2>1, <2>3 DEF RestartFrontend
<1>8. Follows(objects[r].record, objects[r].record)
  BY DEF Follows
<1>9. QED
  BY <1>1, <1>2, <1>3, <1>4, <1>5, <1>6, <1>7, <1>8, TaskMoves DEF RecordTypes

\* The process of the index task fails, or there is no such backend.
LEMMA IndexFailsKeeps ==
    ASSUME RecordIInv, IndexFails
    PROVE  RecordIInv'
<1> USE DEF RecordIInv
<1>1. PICK r : r = task.run
  OBVIOUS
<1>2. /\ task # NoTask /\ task.kind = "index"
      /\ job' = job
      /\ listed' = listed /\ page' = page /\ held' = held /\ task_queue' = task_queue
      /\ made' = made /\ completed' = completed /\ as_shown' = as_shown /\ frontend' = frontend
  BY DEF IndexFails, Doing, NoTask
<1>3. r \in Live /\ r \in RunIds /\ objects[r] \in RunObject /\ objects[r].record \in AllCopies
  BY <1>1, <1>2, RunOfTask
<1>4. job # NoJob => job \in AllCopies /\ Follows(job, job)
  BY DEF AllCopies, Follows
<1>5. frontend' # NoPath => frontend' \in completed /\ listed
  BY <1>2 DEF PathsAreCompleted
<1>6. CASE task' = [task EXCEPT !.step = "save"] /\ objects' = objects
  <2>1. objects[r] # Gone /\ RunIds' = RunIds
    BY <1>3, <1>6, GoneIsNoRun DEF RunIds
  <2>2. /\ task' \in TaskTypes /\ task'.run = r /\ task'.kind = task.kind /\ task'.step # "process"
    BY <1>1, <1>2, <1>6 DEF RecordTypes, TaskTypes, NoTask
  <2>3. Follows(objects[r].record, objects[r].record)
    BY DEF Follows
  <2>4. QED
    BY <1>1, <1>2, <1>3, <1>4, <1>5, <1>6, <2>1, <2>2, <2>3, TaskMoves DEF RecordTypes
<1>7. CASE task' = NoTask /\ objects' = [objects EXCEPT ![task.run] = Gone]
  <2>1. objects' = [objects EXCEPT ![r] = Gone] /\ Gone \in RunObject \cup {Gone}
    BY <1>1, <1>7
  <2>2. /\ objects' \in Seq(RunObject \cup {Gone}) /\ Len(objects') = Len(objects)
        /\ RunIds' = RunIds
        /\ objects'[r] = Gone /\ \A n \in RunIds \ {r} : objects'[n] = objects[n]
    BY <1>3, <2>1, ObjectChanges
  <2>3. QED
    BY <1>1, <1>2, <1>3, <1>4, <1>5, <1>7, <2>1, <2>2, TaskMoves DEF RecordTypes
<1>8. QED
  BY <1>6, <1>7 DEF IndexFails

\* The index task writes the record of its run.
LEMMA SaveIndexKeeps ==
    ASSUME RecordIInv, SaveIndex
    PROVE  RecordIInv'
<1> USE DEF RecordIInv
<1>1. PICK r : r = task.run
  OBVIOUS
<1>2. /\ task # NoTask /\ task.kind = "index"
      /\ job' = [objects[r].record EXCEPT !.previous = objects[r].record.path]
      /\ objects' = [objects EXCEPT ![r] = Gone] /\ task' = NoTask
      /\ listed' = listed /\ page' = page /\ held' = held /\ task_queue' = task_queue
      /\ made' = made /\ completed' = completed /\ as_shown' = as_shown /\ frontend' = frontend
  BY <1>1 DEF SaveIndex, Doing, NoTask, Mine, recordHistory
<1>3. r \in Live /\ r \in RunIds /\ objects[r] \in RunObject /\ objects[r].record \in AllCopies
  BY <1>1, <1>2, RunOfTask
<1>4. job' \in Record /\ Follows(job', objects[r].record)
  BY <1>2, <1>3 DEF RunObject, Record, Follows
<1>5. Gone \in RunObject \cup {Gone}
  OBVIOUS
<1>6. /\ objects' \in Seq(RunObject \cup {Gone}) /\ Len(objects') = Len(objects)
      /\ RunIds' = RunIds
      /\ objects'[r] = Gone /\ \A n \in RunIds \ {r} : objects'[n] = objects[n]
  BY <1>2, <1>3, <1>5, ObjectChanges
<1>7. frontend' # NoPath => frontend' \in completed /\ listed
  BY <1>2 DEF PathsAreCompleted
<1>8. QED
  BY <1>1, <1>2, <1>3, <1>4, <1>5, <1>6, <1>7, TaskMoves

\* The index task of a run starts.
LEMMA StartIndexKeeps ==
    ASSUME RecordIInv, StartIndex
    PROVE  RecordIInv'
<1> USE DEF RecordIInv
<1>1. /\ Started("index")
      /\ listed' = listed /\ job' = job /\ page' = page /\ held' = held /\ objects' = objects
      /\ made' = made /\ completed' = completed /\ as_shown' = as_shown /\ frontend' = frontend
  BY DEF StartIndex, recordHistory
<1>2. RunIds' = RunIds /\ Live' = Live /\ AllCopies' = AllCopies /\ ToBe' = ToBe
  BY <1>1 DEF RunIds, Live, AllCopies, ToBe
<1>3. /\ Turns'
      /\ task_queue' \in Seq({"scan", "index"} \X RunIds)
      /\ task'.kind = "index" /\ task' \in TaskTypes
      /\ \A i \in Items' : i + 1 \in Items /\ task_queue'[i] = task_queue[i + 1]
  BY <1>1, <1>2, StartedTurns
<1>4. RecordTypes'
  BY <1>1, <1>2, <1>3 DEF RecordTypes, HeldTypes, TaskTypes
<1>5. FilesAreScanned'
  BY <1>1, <1>3 DEF FilesAreScanned
<1>6. PathsAreCompleted' /\ OptionsAgree'
  BY <1>1, <1>2, <1>3 DEF PathsAreCompleted, OptionsAgree
<1>7. QED
  BY <1>3, <1>4, <1>5, <1>6

\* An index task whose scan failed is passed over, and the object of its run goes.
LEMMA PassOverIndexKeeps ==
    ASSUME RecordIInv, PassOverIndex
    PROVE  RecordIInv'
<1> USE DEF RecordIInv
<1>1. PICK r : r = Head(task_queue)[2]
  OBVIOUS
<1>2. /\ NextIs("index") /\ task_queue' = Tail(task_queue)
      /\ objects' = [objects EXCEPT ![r] = Gone] /\ task' = NoTask
      /\ listed' = listed /\ job' = job /\ page' = page /\ held' = held
      /\ made' = made /\ completed' = completed /\ as_shown' = as_shown /\ frontend' = frontend
  BY <1>1 DEF PassOverIndex, NextIs, recordHistory
<1>3. r \in RunIds
  <2>1. task_queue # <<>>
    BY <1>2 DEF NextIs
  <2>2. Len(task_queue) >= 1 /\ Head(task_queue) = task_queue[1] /\ 1 \in Items
    BY <2>1, QueueAndObjects DEF RecordTypes
  <2>3. QED
    BY <1>1, <2>2, QueueAndObjects
<1>4. /\ objects' \in Seq(RunObject \cup {Gone}) /\ Len(objects') = Len(objects)
      /\ RunIds' = RunIds
      /\ objects'[r] = Gone /\ \A n \in RunIds \ {r} : objects'[n] = objects[n]
  <2>1. Gone \in RunObject \cup {Gone}
    OBVIOUS
  <2>2. QED
    BY <1>2, <1>3, <2>1, ObjectChanges
<1>5. Live' = Live \ {r}
  BY <1>4 DEF Live
<1>6. /\ task_queue' \in Seq({"scan", "index"} \X RunIds)
      /\ \A i \in Items' : i + 1 \in Items /\ task_queue'[i] = task_queue[i + 1]
      /\ \A i \in Items' : task_queue'[i][2] # r
  BY <1>1, <1>2, <1>4, TakenTurns
<1>7. /\ \A i, m \in Items' : task_queue'[i] = task_queue'[m] => i = m
      /\ \A i, m \in Items' :
            task_queue'[i][2] = task_queue'[m][2] /\ task_queue'[i][1] = "index"
                /\ task_queue'[m][1] = "scan" => m < i
      /\ \A i \in Items' : task_queue'[i][2] \in Live
  BY <1>1, <1>2, <1>4, TakenTurns
<1>8. \A t \in Threads : held[t].to = "index" =>
          /\ held[t].run \in Live /\ held[t].run # r
          /\ \A i \in Items' : task_queue'[i] # <<"index", held[t].run>>
  BY <1>1, <1>2, <1>4, TakenTurns
<1>9. Turns'
  <2>1. \A t, u \in Threads :
            held[t].to = "index" /\ held[u].to = "index" /\ held[u].run = held[t].run => u = t
    BY DEF Turns
  <2>2. QED
    BY <1>2, <1>5, <1>6, <1>7, <1>8, <2>1 DEF Turns
<1>10. RecordTypes'
  <2>1. task' \in TaskTypes /\ ToBe' = ToBe
    BY <1>2 DEF TaskTypes, ToBe
  <2>2. QED
    BY <1>2, <1>4, <1>6, <2>1 DEF RecordTypes, HeldTypes, TaskTypes
<1>11. FilesAreScanned'
  BY <1>2, <1>6 DEF FilesAreScanned
<1>12. AllCopies' \subseteq AllCopies
  <2>1. \A n \in Live' : objects'[n].record \in AllCopies
    BY <1>4, <1>5 DEF AllCopies, Live
  <2>2. QED
    BY <1>2, <2>1 DEF AllCopies
<1>13. PathsAreCompleted' /\ OptionsAgree'
  <2>1. \A x \in AllCopies' : \E y \in AllCopies : Follows(x, y)
    BY <1>12 DEF Follows
  <2>2. NoPath \notin DOMAIN made
    BY QueueAndObjects DEF RecordTypes, NoPath
  <2>3. QED
    BY <1>2, <2>1, <2>2, CopiesFollow DEF PathsAreCompleted
<1>14. QED
  BY <1>9, <1>10, <1>11, <1>13

\* The scan of a run starts: its file is there, and is one of its options alone as long
\* as every page was saved over the record that it had shown.
LEMMA StartScanKeeps ==
    ASSUME RecordIInv, StartScan
    PROVE  RecordIInv'
<1> USE DEF RecordIInv
<1>1. /\ Started("scan")
      /\ listed' = listed /\ job' = job /\ page' = page /\ held' = held /\ objects' = objects
      /\ completed' = completed /\ as_shown' = as_shown /\ frontend' = frontend
  BY DEF StartScan, recordHistory
<1>2. RunIds' = RunIds /\ Live' = Live /\ AllCopies' = AllCopies /\ ToBe' = ToBe
  BY <1>1 DEF RunIds, Live, AllCopies, ToBe
<1>3. PICK r : r = task'.run
  OBVIOUS
<1>4. /\ Turns'
      /\ task_queue' \in Seq({"scan", "index"} \X RunIds)
      /\ 1 \in Items /\ task_queue[1] = <<"scan", r>>
      /\ r \in Live /\ task'.kind = "scan" /\ task'.step = "process"
      /\ task' \in TaskTypes /\ task' # NoTask
      /\ \A i \in Items' : i + 1 \in Items /\ task_queue'[i] = task_queue[i + 1]
      /\ \A i \in Items' : task_queue'[i] # <<"scan", r>>
  BY <1>1, <1>2, <1>3, StartedTurns
<1>5. r \in RunIds /\ objects[r].record \in AllCopies
  BY <1>4 DEF Live, AllCopies
<1>6. r \notin completed /\ r \notin DOMAIN made
  BY <1>4 DEF FilesAreScanned
<1>7. PICK p : p = Output(r)
  OBVIOUS
<1>8. /\ p \in RunIds
      /\ p = r \/ (p = objects[r].record.path /\ ~objects[r].record.full /\ p \in completed)
  BY <1>4, <1>7, OutputIsKnown
<1>9. /\ DOMAIN made' = DOMAIN made \cup {p}
      /\ \A f \in DOMAIN made \ {p} : made'[f] = made[f]
      /\ made'[p] = (IF p \in DOMAIN made THEN made[p] ELSE {}) \cup {objects[r].record.options}
  BY <1>3, <1>7 DEF StartScan
<1>10. RecordTypes'
  BY <1>1, <1>2, <1>4, <1>8, <1>9 DEF RecordTypes, HeldTypes, TaskTypes
<1>11. FilesAreScanned'
  <2>1. \A f \in completed \cup DOMAIN made : \A i \in Items' : task_queue'[i] # <<"scan", f>>
    BY <1>4 DEF FilesAreScanned
  <2>2. \A i \in Items' : task_queue'[i] # <<"scan", p>>
    BY <1>4, <1>8, <2>1
  <2>3. QED
    BY <1>1, <1>3, <1>6, <1>9, <2>1, <2>2 DEF FilesAreScanned
<1>12. PathsAreCompleted'
  BY <1>1, <1>2 DEF PathsAreCompleted
<1>13. OptionsAgree'
  <2> SUFFICES ASSUME as_shown
               PROVE  OptionsAgree'
    BY <1>1 DEF OptionsAgree
  <2>1. /\ \A x \in AllCopies : ~x.full /\ x.path \in DOMAIN made => made[x.path] = {x.options}
        /\ \A x, y \in AllCopies :
              ~x.full /\ ~y.full /\ x.path = y.path /\ x.path # NoPath => x.options = y.options
    BY DEF OptionsAgree
  <2>2. p # NoPath
    BY <1>8, RunsAreBounded
  <2>3. made'[p] = {objects[r].record.options}
    BY <1>5, <1>6, <1>8, <1>9, <2>1
  <2>4. \A x \in AllCopies : ~x.full /\ x.path = p => x.options = objects[r].record.options
    BY <1>5, <1>6, <1>8, <2>1, <2>2 DEF PathsAreCompleted
  <2>5. \A x \in AllCopies : ~x.full /\ x.path \in DOMAIN made' => made'[x.path] = {x.options}
    BY <1>9, <2>1, <2>3, <2>4
  <2>6. Output(task.run)' = p /\ Mine' = objects[r]
    BY <1>1, <1>3, <1>7 DEF Output, Mine
  <2>7. QED
    BY <1>2, <1>9, <2>1, <2>3, <2>5, <2>6 DEF OptionsAgree
<1>14. QED
  BY <1>4, <1>10, <1>11, <1>12, <1>13

\* The scan of a run succeeded: the record of the run names its file.
LEMMA SaveScanKeeps ==
    ASSUME RecordIInv, SaveScan
    PROVE  RecordIInv'
<1> USE DEF RecordIInv
<1>1. PICK r : r = task.run
  OBVIOUS
<1>2. PICK p : p = Output(r)
  OBVIOUS
<1>3. /\ task # NoTask /\ task.kind = "scan" /\ task.step = "process"
      /\ objects' = [objects EXCEPT ![r] =
                        [record |-> [@.record EXCEPT !.path = p, !.full = FALSE], scanned |-> "ok"]]
      /\ job' = objects'[r].record
      /\ completed' = completed \cup {p}
      /\ task' = [task EXCEPT !.step = "remove"]
      /\ listed' = listed /\ page' = page /\ held' = held /\ task_queue' = task_queue
      /\ made' = made /\ frontend' = frontend /\ as_shown' = as_shown
  BY <1>1, <1>2 DEF SaveScan, Doing, NoTask
<1>4. /\ r \in Live /\ r \in RunIds /\ objects[r] \in RunObject
      /\ objects[r].record \in AllCopies /\ objects[r].record \in Record
  BY <1>1, <1>3, RunOfTask
<1>5. /\ p \in RunIds
      /\ p = r \/ (p = objects[r].record.path /\ ~objects[r].record.full /\ p \in completed)
  BY <1>2, <1>4, OutputIsKnown
<1>6. p # NoPath /\ p \in 0 .. MaxJobRuns
  BY <1>5, RunsAreBounded
<1>7. PICK w \in Record : w = [objects[r].record EXCEPT !.path = p, !.full = FALSE]
  BY <1>4, <1>6 DEF Record
<1>8. w.path = p /\ w.full = FALSE /\ w.options = objects[r].record.options
  BY <1>4, <1>7 DEF Record
<1>9. PICK ob \in RunObject : ob = [record |-> w, scanned |-> "ok"]
  BY DEF RunObject
<1>10. ob.record = w /\ ob # Gone
  <2>1. [record |-> w, scanned |-> "ok"].record = w
    OBVIOUS
  <2>2. QED
    BY <1>9, <2>1, GoneIsNoRun
<1>11. objects' = [objects EXCEPT ![r] = ob]
  BY <1>3, <1>7, <1>9
<1>12. /\ objects' \in Seq(RunObject \cup {Gone}) /\ Len(objects') = Len(objects)
       /\ RunIds' = RunIds
       /\ objects'[r] = ob /\ \A n \in RunIds \ {r} : objects'[n] = objects[n]
  BY <1>4, <1>11, ObjectChanges
<1>13. job' = w /\ Live' = Live
  BY <1>3, <1>4, <1>10, <1>12 DEF Live
<1>14. task' \in TaskTypes /\ task'.run = r /\ task'.kind = "scan" /\ task'.step = "remove"
  BY <1>1, <1>3 DEF RecordTypes, TaskTypes, NoTask
<1>15. RecordTypes'
  <2>1. ToBe' = ToBe
    BY <1>3 DEF ToBe
  <2>2. QED
    BY <1>3, <1>5, <1>12, <1>13, <1>14, <2>1 DEF RecordTypes, HeldTypes, TaskTypes
<1>16. Turns'
  <2>1. \A i \in Items : task_queue[i][2] \in Live'
    BY <1>13 DEF Turns
  <2>2. \A t \in Threads : held'[t].to = "index" => held'[t] = held[t] /\ held[t].run \in Live'
    BY <1>3, <1>13 DEF Turns
  <2>3. QED
    BY <1>1, <1>3, <1>4, <1>12, <1>13, <1>14, <2>1, <2>2, TurnsStay
<1>17. FilesAreScanned'
  <2>1. \A f \in completed \cup DOMAIN made : \A i \in Items : task_queue[i] # <<"scan", f>>
    BY DEF FilesAreScanned
  <2>2. \A i \in Items : task_queue[i] # <<"scan", r>>
    <3>1. \A i \in Items : task_queue[i][2] = r => task_queue[i][1] = "index"
      BY <1>1, <1>3 DEF Turns
    <3>2. <<"scan", r>>[1] = "scan" /\ <<"scan", r>>[2] = r
      OBVIOUS
    <3>3. QED
      BY <3>1, <3>2
  <2>3. \A i \in Items : task_queue[i] # <<"scan", p>>
    BY <1>5, <2>1, <2>2
  <2>4. Items' = Items
    BY <1>3 DEF Items
  <2>5. QED
    BY <1>3, <1>14, <2>1, <2>3, <2>4 DEF FilesAreScanned
<1>18. AllCopies' \subseteq AllCopies \cup {w}
  <2>1. \A n \in Live' : objects'[n].record \in AllCopies \cup {w}
    BY <1>10, <1>12, <1>13 DEF AllCopies, Live
  <2>2. QED
    BY <1>3, <1>13, <2>1 DEF AllCopies
<1>19. PathsAreCompleted'
  BY <1>3, <1>8, <1>18 DEF PathsAreCompleted
<1>20. OptionsAgree'
  <2> SUFFICES ASSUME as_shown
               PROVE  OptionsAgree'
    BY <1>3 DEF OptionsAgree
  <2>1. /\ \A x \in AllCopies : ~x.full /\ x.path \in DOMAIN made => made[x.path] = {x.options}
        /\ \A x, y \in AllCopies :
              ~x.full /\ ~y.full /\ x.path = y.path /\ x.path # NoPath => x.options = y.options
        /\ made[p] = {w.options}
    BY <1>1, <1>2, <1>3, <1>8 DEF OptionsAgree, Mine
  <2>2. r \notin completed
    BY <1>1, <1>3 DEF FilesAreScanned
  <2>3. \A x \in AllCopies : ~x.full /\ x.path = p => x.options = w.options
    BY <1>4, <1>5, <1>6, <1>8, <2>1, <2>2 DEF PathsAreCompleted
  <2>4. \A x \in AllCopies' : ~x.full /\ x.path \in DOMAIN made => made[x.path] = {x.options}
    BY <1>8, <1>18, <2>1
  <2>5. \A x, y \in AllCopies' :
            ~x.full /\ ~y.full /\ x.path = y.path /\ x.path # NoPath => x.options = y.options
    BY <1>8, <1>18, <2>1, <2>3
  <2>6. QED
    BY <1>3, <1>14, <2>4, <2>5 DEF OptionsAgree
<1>21. QED
  BY <1>15, <1>16, <1>17, <1>19, <1>20

-----------------------------------------------------------------------------
(* The frontend, and a restart of sist2-admin.                             *)

\* A frontend is started with the file that the record names, or stopped.
LEMMA FrontendKeeps ==
    ASSUME RecordIInv, StartFrontend \/ StopFrontend
    PROVE  RecordIInv'
<1> USE DEF RecordIInv
<1>1. /\ listed' = listed /\ job' = job /\ page' = page /\ held' = held /\ objects' = objects
      /\ task_queue' = task_queue /\ task' = task
      /\ made' = made /\ completed' = completed /\ as_shown' = as_shown
  BY DEF StartFrontend, StopFrontend, recordHistory
<1>2. /\ RunIds' = RunIds /\ Live' = Live /\ Items' = Items /\ ToBe' = ToBe
      /\ AllCopies' = AllCopies
  BY <1>1 DEF RunIds, Live, Items, ToBe, AllCopies
<1>3. RecordTypes'
  BY <1>1, <1>2 DEF RecordTypes, HeldTypes, TaskTypes
<1>4. Turns' /\ FilesAreScanned'
  BY <1>1, <1>2 DEF Turns, FilesAreScanned
<1>5. OptionsAgree'
  BY <1>1, <1>2 DEF OptionsAgree, Output, Mine
<1>6. frontend' # NoPath => frontend' \in completed /\ listed
  <2>1. CASE StopFrontend
    BY <2>1 DEF StopFrontend
  <2>2. CASE StartFrontend
    <3>1. listed /\ job.path \in DOMAIN made /\ frontend' = job.path
      BY <2>2 DEF StartFrontend
    <3>2. NoJob \notin Record
      BY DEF NoJob, Record
    <3>3. job \in AllCopies
      BY <3>1, <3>2 DEF RecordTypes, AllCopies
    <3>4. QED
      BY <3>1, <3>3 DEF PathsAreCompleted
  <2>3. QED
    BY <2>1, <2>2
<1>7. PathsAreCompleted'
  BY <1>1, <1>2, <1>6 DEF PathsAreCompleted
<1>8. QED
  BY <1>3, <1>4, <1>5, <1>7

\* What is in memory is lost.
LEMMA RebootKeeps ==
    ASSUME RecordIInv, Reboot
    PROVE  RecordIInv'
<1> USE DEF RecordIInv
<1>1. /\ held' = [t \in Threads |-> Nothing] /\ task_queue' = <<>> /\ task' = NoTask
      /\ objects' = [r \in DOMAIN objects |-> Gone] /\ frontend' = NoPath
      /\ listed' = listed /\ job' = job /\ page' = page
      /\ made' = made /\ completed' = completed /\ as_shown' = as_shown
  BY DEF Reboot
<1>2. /\ objects' \in Seq(RunObject \cup {Gone}) /\ Len(objects') = Len(objects)
      /\ RunIds' = RunIds
  <2>1. PICK n \in Nat : DOMAIN objects = 1 .. n /\ n = Len(objects)
    BY QueueAndObjects DEF RunIds
  <2>2. PICK S : S = RunObject \cup {Gone}
    OBVIOUS
  <2>3. objects' = [r \in 1 .. n |-> Gone] /\ Gone \in S
    BY <1>1, <2>1, <2>2
  <2>4. objects' \in Seq(S) /\ Len(objects') = n /\ DOMAIN objects' = 1 .. n
    BY <2>3
  <2>5. QED
    BY <2>1, <2>2, <2>4 DEF RunIds
<1>3. Live' = {} /\ Items' = {} /\ ToBe' = {}
  BY <1>1, <1>2 DEF Live, RunIds, Items, ToBe, Nothing
<1>4. Len(objects') + Cardinality(ToBe') <= MaxJobRuns
  <2>1. Cardinality(ToBe') = 0
    BY <1>3, FS_EmptySet
  <2>2. QED
    BY <1>2, <2>1, ToBeIsFinite, QueueAndObjects, RecordAssumption DEF RecordTypes
<1>5. RecordTypes'
  <2>1. held' \in [Threads -> HeldTypes'] /\ task' \in TaskTypes'
    BY <1>1 DEF HeldTypes, TaskTypes
  <2>2. task_queue' \in Seq({"scan", "index"} \X RunIds')
    BY <1>1
  <2>3. QED
    BY <1>1, <1>2, <1>4, <2>1, <2>2 DEF RecordTypes
<1>6. Turns' /\ FilesAreScanned'
  BY <1>1, <1>3 DEF Turns, FilesAreScanned, Nothing
<1>7. PathsAreCompleted' /\ OptionsAgree'
  <2>1. AllCopies' \subseteq AllCopies
    BY <1>1, <1>3 DEF AllCopies, Nothing
  <2>2. \A x \in AllCopies' : \E y \in AllCopies : Follows(x, y)
    BY <2>1 DEF Follows
  <2>3. NoPath \notin DOMAIN made
    BY QueueAndObjects DEF RecordTypes, NoPath
  <2>4. QED
    BY <1>1, <2>2, <2>3, CopiesFollow DEF PathsAreCompleted
<1>8. QED
  BY <1>5, <1>6, <1>7

-----------------------------------------------------------------------------
(* The theorems.                                                           *)

LEMMA RecordInitHolds ==
    ASSUME RecordInit
    PROVE  RecordIInv
<1>1. objects = <<>> /\ task_queue = <<>> /\ made = <<>> /\ task = NoTask
  BY DEF RecordInit
<1>2. \A t \in Threads : held[t] = Nothing /\ held[t].to = "nothing"
  BY DEF RecordInit, Nothing
<1>3. RunIds = {} /\ Live = {} /\ Items = {} /\ ToBe = {} /\ DOMAIN made = {}
  BY <1>1, <1>2 DEF RunIds, Live, Items, ToBe
<1>4. RecordTypes
  <2>1. objects \in Seq(RunObject \cup {Gone}) /\ task_queue \in Seq({"scan", "index"} \X RunIds)
    BY <1>1
  <2>2. Len(objects) + Cardinality(ToBe) <= MaxJobRuns
    <3>1. Len(objects) = 0
      BY <1>1
    <3>2. QED
      BY <1>3, <3>1, FS_EmptySet, RecordAssumption
  <2>3. held \in [Threads -> HeldTypes] /\ task \in TaskTypes
    BY DEF RecordInit, HeldTypes, TaskTypes
  <2>4. QED
    BY <1>3, <2>1, <2>2, <2>3, DefaultIsRecord DEF RecordInit, RecordTypes
<1>5. Turns /\ FilesAreScanned
  BY <1>1, <1>2, <1>3 DEF RecordInit, Turns, FilesAreScanned
<1>6. AllCopies \subseteq {Default}
  BY <1>2, <1>3 DEF RecordInit, AllCopies
<1>7. Default.path = NoPath
  BY DEF Default
<1>8. PathsAreCompleted
  BY <1>6, <1>7 DEF RecordInit, PathsAreCompleted
<1>9. OptionsAgree
  BY <1>1, <1>3, <1>6 DEF OptionsAgree
<1>10. QED
  BY <1>4, <1>5, <1>8, <1>9 DEF RecordIInv

LEMMA RecordNextKeeps ==
    ASSUME RecordIInv, [RecordNext]_recordVars
    PROVE  RecordIInv'
<1>1. CASE UNCHANGED recordVars
  <2>1. /\ RunIds' = RunIds /\ Live' = Live /\ Items' = Items /\ ToBe' = ToBe
        /\ AllCopies' = AllCopies
    BY <1>1 DEF recordVars, RunIds, Live, Items, ToBe, AllCopies
  <2>2. QED
    BY <1>1, <2>1 DEF recordVars, recordHistory, RecordIInv, RecordTypes, Turns, FilesAreScanned,
                      PathsAreCompleted, OptionsAgree, HeldTypes, TaskTypes, Output, Mine
<1>2. CASE RecordNext
  <2>1. ASSUME NEW c \in Pages, LoadPage(c) \/ \E o \in ScanOptions : SavePage(c, o)
        PROVE  RecordIInv'
    BY <2>1, LoadPageKeeps, SavePageKeeps
  <2>2. CASE CreateJob \/ DeleteJob
    BY <2>2, CreateAndDeleteKeep
  <2>3. ASSUME NEW t \in Threads,
               WriteHeld(t) \/ SubmitIndex(t) \/ \E full \in BOOLEAN : ReadForRun(t, full)
        PROVE  RecordIInv'
    <3>1. CASE WriteHeld(t)
      BY <3>1, WriteSaveKeeps, WriteRunKeeps DEF WriteHeld
    <3>2. QED
      BY <2>3, <3>1, SubmitIndexKeeps, ReadForRunKeeps
  <2>4. CASE StartScan \/ ScanFails \/ SaveScan \/ RemoveOldIndex
    BY <2>4, StartScanKeeps, ScanFailsKeeps, SaveScanKeeps, RemoveOldIndexKeeps
  <2>5. CASE StartIndex \/ PassOverIndex \/ RestartFrontend \/ IndexFails \/ SaveIndex
    BY <2>5, StartIndexKeeps, PassOverIndexKeeps, RestartFrontendKeeps, IndexFailsKeeps,
       SaveIndexKeeps
  <2>6. CASE StartFrontend \/ StopFrontend \/ Reboot
    BY <2>6, FrontendKeeps, RebootKeeps
  <2>7. QED
    BY <1>2, <2>1, <2>2, <2>3, <2>4, <2>5, <2>6 DEF RecordNext
<1>3. QED
  BY <1>1, <1>2

\* The inductive invariant holds throughout.
THEOREM RecordInvariant == RecordSpec => []RecordIInv
<1>1. RecordInit => RecordIInv
  BY RecordInitHolds
<1>2. RecordIInv /\ [RecordNext]_recordVars => RecordIInv'
  BY RecordNextKeeps
<1>3. QED
  BY <1>1, <1>2, PTL DEF RecordSpec

\* The record, its copies in pages and runs and the queue have their types.
THEOREM RecordTypeCorrect == RecordSpec => []RecordTypeOK
<1>1. RecordIInv => RecordTypeOK
  <2> SUFFICES ASSUME RecordIInv
               PROVE  RecordTypeOK
    OBVIOUS
  <2> USE DEF RecordIInv
  <2>1. \A r \in DOMAIN objects : objects[r] = Gone \/ objects[r].record \in Record
    BY QueueAndObjects DEF Live, RunIds, RunObject
  <2>2. \A n \in DOMAIN task_queue : task_queue[n] \in {"scan", "index"} \X DOMAIN objects
    BY QueueAndObjects DEF RecordTypes, Items, RunIds
  <2>3. DOMAIN made \subseteq 1 .. MaxJobRuns
    BY RunsAreBounded, RecordAssumption DEF RecordTypes, NoPath
  <2>4. \A t \in Threads : held[t].to \in {"nothing", "save", "run", "index"}
    BY TasksAndThreads
  <2>5. QED
    BY <2>1, <2>2, <2>3, <2>4 DEF RecordTypeOK, RecordTypes
<1>2. QED
  BY <1>1, RecordInvariant, PTL

\* Whatever order edits, runs, failures and restarts come in: what a copy of the record
\* names as its index, and what a frontend serves, is a file that a scan completed, and
\* no scan is incremental on a file of other options while pages are saved as shown.
THEOREM IndexCorrect == RecordSpec => []JobsKnowTheirIndex
<1>1. RecordIInv => JobsKnowTheirIndex
  <2> SUFFICES ASSUME RecordIInv
               PROVE  JobsKnowTheirIndex
    OBVIOUS
  <2> USE DEF RecordIInv
  <2>1. Waiting \subseteq Live
    BY DEF Waiting, Turns, Items
  <2>2. Copies \subseteq AllCopies
    BY <2>1 DEF Copies, AllCopies
  <2>3. QED
    BY <2>2 DEF JobsKnowTheirIndex, PathsAreCompleted, OptionsAgree
<1>2. QED
  BY <1>1, RecordInvariant, PTL

=============================================================================
