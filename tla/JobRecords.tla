----------------------------- MODULE JobRecords -----------------------------
(***************************************************************************)
(* The record of a job in sist2-admin and the index files that its runs    *)
(* make.  The record is read and written back whole by the pages of the    *)
(* web interface, by the thread that runs jobs when they are due, and by   *)
(* the tasks of a run, which hold the object they were submitted with;     *)
(* none of them looks whether it changed meanwhile.                        *)
(*                                                                         *)
(* Of a record there are the options that need a full scan when they       *)
(* change, as one value, the two index paths and do_full_scan. The index   *)
(* file of a full scan is named for its run (its name has the date in it). *)
(* Which task runs next is TaskQueue; the tasks of scripts are left out,   *)
(* they write no record.                                                   *)
(***************************************************************************)
EXTENDS Naturals, Sequences, FiniteSets

CONSTANTS Pages,        \* browser pages that show the job
          ScanOptions,  \* values of the options that trigger a full scan
          InDataFolder, \* sist2-admin was started with DATA_FOLDER as its working directory
          MaxJobRuns, MaxSaves,
          MaxFaults     \* bounds on events; faults are tasks that fail and restarts of sist2-admin

ASSUME RecordAssumption == MaxJobRuns \in Nat /\ InDataFolder \in BOOLEAN /\ ScanOptions # {}

VARIABLES
    listed,      \* a frontend lists the job
    job,         \* db["jobs"][name], or NoJob
    page,        \* the job object of each page
    held,        \* what the event loop and the timer have read and are about to write
    objects,     \* the job object of each run and the result of its scan, or Gone with its tasks
    task_queue,  \* tasks to come: <<kind, run>>
    task,        \* the task that runs
    made,        \* index files: path -> options of the scans that wrote to it
    frontend,    \* the index path that the running frontend was started with, or None
    \* --- history
    completed,   \* index paths that a scan succeeded on
    as_shown,    \* no page was saved that had not shown the record as it was
    saves, faults

recordHistory == <<completed, as_shown, saves, faults>>
recordVars == <<listed, job, page, held, objects, task_queue, task, made, frontend, recordHistory>>

NoPath == 0  \* None
Record == [options : ScanOptions, path : 0 .. MaxJobRuns, previous : 0 .. MaxJobRuns, full : BOOLEAN]
NoJob == [options |-> NoPath]
Threads == {"api", "timer"}
Nothing == [to |-> "nothing"]
NoTask == [kind |-> "none"]
Gone == [scanned |-> "gone"]

\* Sist2Job.create_default
Default == [options |-> CHOOSE o \in ScanOptions : TRUE, path |-> NoPath, previous |-> NoPath, full |-> FALSE]

RecordInit ==
    /\ listed \in BOOLEAN
    /\ job = Default /\ page = [c \in Pages |-> NoJob]
    /\ held = [t \in Threads |-> Nothing]
    /\ objects = <<>> /\ task_queue = <<>> /\ task = NoTask
    /\ made = <<>> /\ frontend = NoPath
    /\ completed = {} /\ as_shown = TRUE /\ saves = 0 /\ faults = 0

\* The event loop runs one handler after the other; tasks and timer are threads.
ApiFree == held["api"] = Nothing

-----------------------------------------------------------------------------
(* The pages.                                                              *)

LoadPage(c) ==
    /\ ApiFree /\ job # NoJob /\ page[c] # job /\ saves < MaxSaves
    /\ page' = [page EXCEPT ![c] = job]
    /\ UNCHANGED <<listed, job, held, objects, task_queue, task, made, frontend, recordHistory>>

\* Mutant: options are not compared.
FullScanDueAsSent(new) == new.full

\* update_job: args_that_trigger_full_scan
FullScanDue(new) == new.full \/ new.options # job.options

\* The page sends the whole job it has; do_full_scan is not shown, and what update_job
\* makes of it is not sent back.
SavePage(c, o) ==
    /\ ApiFree /\ job # NoJob /\ page[c] # NoJob
    /\ saves < MaxSaves /\ saves' = saves + 1
    /\ page' = [page EXCEPT ![c].options = o]
    /\ held' = [held EXCEPT !["api"] =
                  [to |-> "save", value |-> [page'[c] EXCEPT !.full = FullScanDue(page'[c])]]]
    /\ as_shown' = (as_shown /\ page[c] = job)
    /\ UNCHANGED <<listed, job, objects, task_queue, task, made, frontend, completed, faults>>

\* The record is written whether a task has written one meanwhile or not.
CreateJob ==
    /\ ApiFree /\ job = NoJob
    /\ held' = [held EXCEPT !["api"] = [to |-> "save", value |-> Default]]
    /\ UNCHANGED <<listed, job, page, objects, task_queue, task, made, frontend, recordHistory>>

\* A field that is never set names the file to remove.
DeleteJob ==
    /\ ApiFree /\ job # NoJob /\ ~listed
    /\ job' = NoJob
    /\ UNCHANGED <<listed, page, held, objects, task_queue, task, made, frontend, recordHistory>>

-----------------------------------------------------------------------------
(* run_job, and the timer.                                                 *)

ReadForRun(t, full) ==
    /\ held[t] = Nothing /\ job # NoJob
    /\ t = "timer" => ~full
    /\ Len(objects) + Cardinality({u \in Threads : held[u].to = "run"}) < MaxJobRuns
    /\ held' = [held EXCEPT ![t] = [to |-> "run", value |-> [job EXCEPT !.full = @ \/ full]]]
    /\ UNCHANGED <<listed, job, page, objects, task_queue, task, made, frontend, recordHistory>>

WriteHeld(t) ==
    /\ held[t].to \in {"save", "run"}
    /\ job' = held[t].value
    /\ IF held[t].to = "save"
       THEN held' = [held EXCEPT ![t] = Nothing] /\ UNCHANGED <<objects, task_queue>>
       ELSE /\ objects' = Append(objects, [record |-> job', scanned |-> "not yet"])
            /\ task_queue' = Append(task_queue, <<"scan", Len(objects')>>)
            /\ held' = [held EXCEPT ![t] = [to |-> "index", run |-> Len(objects')]]
    /\ UNCHANGED <<listed, page, task, made, frontend, recordHistory>>

SubmitIndex(t) ==
    /\ held[t].to = "index"
    /\ task_queue' = Append(task_queue, <<"index", held[t].run>>)
    /\ held' = [held EXCEPT ![t] = Nothing]
    /\ UNCHANGED <<listed, job, page, objects, task, made, frontend, recordHistory>>

-----------------------------------------------------------------------------
(* The tasks.                                                              *)

NextIs(kind) == task = NoTask /\ task_queue # <<>> /\ Head(task_queue)[1] = kind
Started(kind) ==
    /\ NextIs(kind)
    /\ task' = [kind |-> kind, run |-> Head(task_queue)[2], step |-> "process"]
    /\ task_queue' = Tail(task_queue)
Doing(kind, step) == task.kind = kind /\ task.step = step
Mine == objects[task.run]

Output(r) ==
    IF objects[r].record.path # NoPath /\ ~objects[r].record.full THEN objects[r].record.path ELSE r

\* sist2 scan --incremental: a file that is there is scanned into, one that is not is made.
StartScan ==
    /\ Started("scan")
    /\ LET r == task'.run
           earlier == IF Output(r) \in DOMAIN made THEN made[Output(r)] ELSE {}
       IN  made' = [p \in DOMAIN made \cup {Output(r)} |->
                       IF p = Output(r) THEN earlier \cup {objects[r].record.options} ELSE made[p]]
    /\ UNCHANGED <<listed, job, page, held, objects, frontend, recordHistory>>

Fault == faults < MaxFaults /\ faults' = faults + 1

\* The process of a scan fails: nothing of it is kept in the record.
ScanFails ==
    /\ Doing("scan", "process") /\ Fault
    /\ objects' = [objects EXCEPT ![task.run].scanned = "failed"]
    /\ task' = NoTask
    /\ UNCHANGED <<listed, job, page, held, task_queue, made, frontend, completed, as_shown, saves>>

SaveScan ==
    /\ Doing("scan", "process")
    /\ objects' = [objects EXCEPT ![task.run] =
                     [record |-> [@.record EXCEPT !.path = Output(task.run), !.full = FALSE],
                      scanned |-> "ok"]]
    /\ job' = objects'[task.run].record
    /\ completed' = completed \cup {Output(task.run)}
    /\ task' = [task EXCEPT !.step = "remove"]
    /\ UNCHANGED <<listed, page, held, task_queue, made, frontend, as_shown, saves, faults>>

\* "Remove old index": os.remove takes its relative path, of which the other uses have
\* DATA_FOLDER in front.
RemoveOldIndex ==
    /\ Doing("scan", "remove")
    /\ LET old == Mine.record.previous
       IN  made' = [p \in DOMAIN made \ (IF old # Mine.record.path /\ InDataFolder THEN {old} ELSE {}) |->
                       made[p]]
    /\ objects' = [objects EXCEPT ![task.run].record.previous = Mine.record.path]
    /\ job' = objects'[task.run].record
    /\ task' = NoTask
    /\ UNCHANGED <<listed, page, held, task_queue, frontend, recordHistory>>

StartIndex ==
    /\ NextIs("index") /\ objects[Head(task_queue)[2]].scanned = "ok"
    /\ Started("index")
    /\ UNCHANGED <<listed, job, page, held, objects, made, frontend, recordHistory>>

PassOverIndex ==
    /\ NextIs("index") /\ objects[Head(task_queue)[2]].scanned = "failed"
    /\ objects' = [objects EXCEPT ![Head(task_queue)[2]] = Gone]
    /\ task_queue' = Tail(task_queue)
    /\ UNCHANGED <<listed, job, page, held, task, made, frontend, recordHistory>>

\* restart_running_frontends, after an index that succeeded: with the path that the
\* record has now. Without one the task raises, and no task runs after it.
RestartFrontend ==
    /\ Doing("index", "process")
    /\ IF frontend = NoPath THEN task' = [task EXCEPT !.step = "save"] /\ UNCHANGED frontend
       ELSE IF job.path = NoPath THEN task' = [task EXCEPT !.step = "raised"] /\ UNCHANGED frontend
       ELSE task' = [task EXCEPT !.step = "save"] /\ frontend' = job.path
    /\ UNCHANGED <<listed, job, page, held, objects, task_queue, made, recordHistory>>

\* Its process fails, or there is no search backend of that name: then nothing is saved.
IndexFails ==
    /\ Doing("index", "process") /\ Fault
    /\ \/ task' = [task EXCEPT !.step = "save"] /\ UNCHANGED objects
       \/ task' = NoTask /\ objects' = [objects EXCEPT ![task.run] = Gone]
    /\ UNCHANGED <<listed, job, page, held, task_queue, made, frontend, completed, as_shown, saves>>

SaveIndex ==
    /\ Doing("index", "save")
    /\ job' = [Mine.record EXCEPT !.previous = Mine.record.path]
    /\ objects' = [objects EXCEPT ![task.run] = Gone]
    /\ task' = NoTask
    /\ UNCHANGED <<listed, page, held, task_queue, made, frontend, recordHistory>>

-----------------------------------------------------------------------------
\* Starts and stops are single steps. It runs if its index file was there.
StartFrontend ==
    /\ ApiFree /\ listed /\ frontend = NoPath
    /\ job.path \in DOMAIN made
    /\ frontend' = job.path
    /\ UNCHANGED <<listed, job, page, held, objects, task_queue, task, made, recordHistory>>

StopFrontend ==
    /\ ApiFree /\ frontend # NoPath
    /\ frontend' = NoPath
    /\ UNCHANGED <<listed, job, page, held, objects, task_queue, task, made, recordHistory>>

\* The queue and the objects of the tasks are in memory, the pages are not.
Reboot ==
    /\ Fault
    /\ held' = [t \in Threads |-> Nothing]
    /\ task_queue' = <<>> /\ task' = NoTask
    /\ objects' = [r \in DOMAIN objects |-> Gone]
    /\ frontend' = NoPath
    /\ UNCHANGED <<listed, job, page, made, completed, as_shown, saves>>

RecordNext ==
    \/ \E c \in Pages : LoadPage(c) \/ \E o \in ScanOptions : SavePage(c, o)
    \/ CreateJob \/ DeleteJob
    \/ \E t \in Threads : WriteHeld(t) \/ SubmitIndex(t) \/ \E full \in BOOLEAN : ReadForRun(t, full)
    \/ StartScan \/ ScanFails \/ SaveScan \/ RemoveOldIndex
    \/ StartIndex \/ PassOverIndex \/ RestartFrontend \/ IndexFails \/ SaveIndex
    \/ StartFrontend \/ StopFrontend \/ Reboot

RecordSpec == RecordInit /\ [][RecordNext]_recordVars
-----------------------------------------------------------------------------
(* Properties.                                                             *)

RecordTypeOK ==
    /\ job \in Record \cup {NoJob}
    /\ \A c \in Pages : page[c] \in Record \cup {NoJob}
    /\ \A r \in DOMAIN objects : objects[r] = Gone \/ objects[r].record \in Record
    /\ \A t \in Threads : held[t].to \in {"nothing", "save", "run", "index"}
    /\ \A n \in DOMAIN task_queue : task_queue[n] \in {"scan", "index"} \X DOMAIN objects
    /\ DOMAIN made \subseteq 1 .. MaxJobRuns

\* The copies of the record that are there or will be written there.
Waiting == {task_queue[n][2] : n \in DOMAIN task_queue} \cup (IF task = NoTask THEN {} ELSE {task.run})
Copies ==
    ({job} \ {NoJob}) \cup {objects[r].record : r \in Waiting}
        \cup {held[t].value : t \in {u \in Threads : held[u].to \in {"save", "run"}}}

\* However edits, runs and the ends of tasks overwrite each other: what a copy of the
\* record names as its index, and what a frontend serves, is a file that a scan was
\* completed on, and as long as pages are saved that still show the record, no scan is
\* incremental on a file that other options made.
JobsKnowTheirIndex ==
    /\ \A x \in Copies : x.path # NoPath => x.path \in completed
    /\ frontend # NoPath => frontend \in completed
    /\ as_shown => \A x \in Copies :
          ~x.full /\ x.path \in DOMAIN made => made[x.path] = {x.options}
=============================================================================
