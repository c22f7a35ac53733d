---------------------------- MODULE WorkerPool ----------------------------
(***************************************************************************)
(* The worker pool of sist2 (tpool.c) with the job queue it keeps in a     *)
(* temporary SQLite database (database_add_work, database_get_work).       *)
(*                                                                         *)
(* The main process produces jobs; one thread per worker forks a process   *)
(* and waits for it, forking again when a signal killed it.  Everything    *)
(* they share is in the mmap'ed shm structure and in the ipc database.     *)
(* A step of the model is one critical section, or one unlocked read of a  *)
(* shared field, of one process.  The mutex M of shm is held over several  *)
(* steps only by tpool_wait, and for ever by a child that dies with it, so *)
(* that it is free or not is read off the program counters (MFree);        *)
(* data_mutex, ipc_ctx.mutex and db_mutex are held for one step each.      *)
(***************************************************************************)
EXTENDS Integers, Sequences, FiniteSets

CONSTANTS Workers,      \* the threads of the pool, one child process each
          NJobs,        \* the jobs main submits are 1 .. NJobs, in this order
          QueueCap,     \* rows that fit the ipc database (PRAGMA max_page_count)
          JobTypes,     \* job types the caller may submit: PARSE (scan), BULK (index)
          MaxCrashes,   \* bound on the child processes killed by a signal
          CrashPoints   \* where a child may die: "run" in a job, "init" before the
                        \* loop, "cleanup" after it

ASSUME PoolAssumption ==
    /\ IsFiniteSet(Workers)
    /\ Workers # {}
    /\ NJobs \in Nat
    /\ QueueCap \in Nat \ {0}
    /\ JobTypes \subseteq {"PARSE", "BULK"}
    /\ JobTypes # {}
    /\ MaxCrashes \in Nat
    /\ CrashPoints \subseteq {"init", "run", "cleanup"}

Jobs == 1 .. NJobs
NoJob == 0

VARIABLES
    \* --- shm, and the ipc_ctx inside it
    job_type,             \* "UNDEFINED" until the first tpool_add_work
    job_count,            \* rows main counted minus rows workers discounted
    no_more_jobs,
    stop,
    busy_count,
    initialized_count,
    completed_job_count,
    \* --- the ipc database
    rows,                 \* rows of the job table, oldest first
    db_file,              \* does the database file (with its tables) exist?
    \* --- the processes
    mainPc, inserted,     \* main, and how many rows it has inserted
    pc,                   \* each worker thread / its child process
    job,                  \* the job the worker holds
    arg,                  \* the job_type argument of its database_get_work call
    \* --- history
    fate,                 \* what became of each job
    crashes,              \* child processes killed so far
    idleReaps             \* reaped children that had not been counted as busy

shmVars == <<job_type, job_count, no_more_jobs, stop, busy_count,
             initialized_count, completed_job_count>>
dbVars == <<rows, db_file>>
mainVars == <<mainPc, inserted>>
workerVars == <<pc, job, arg>>
poolHistoryVars == <<fate, crashes, idleReaps>>
poolVars == <<shmVars, dbVars, mainVars, workerVars, poolHistoryVars>>

Fates == {"none", "done", "ignored", "dropped", "crashed"}

MainPcs == {"start", "produce", "count", "check", "asleep", "spin",
            "destroy", "join", "done"}

WorkerPcs == {"init", "ready", "loop", "call", "poll", "pop", "popped", "got",
              "claim", "run", "idle", "exit", "exited", "killed", "aborted",
              "fatal", "blocked", "joined"}

\* tpool_wait holds M from its first line to its last, but for pthread_cond_wait; M is
\* not robust, and whoever dies with it ("fatal") never gives it back to the child that is
\* forked instead ("blocked").
MFree == mainPc \notin {"check", "spin"} /\ \A w \in Workers : pc[w] \notin {"fatal", "blocked"}

Goto(w, l) == pc' = [pc EXCEPT ![w] = l]

PoolInit ==
    /\ job_type = "UNDEFINED"
    /\ job_count = 0
    /\ no_more_jobs = FALSE
    /\ stop = FALSE
    /\ busy_count = 0
    /\ initialized_count = 0
    /\ completed_job_count = 0
    /\ rows = <<>>
    /\ db_file = TRUE
    /\ mainPc = "start"
    /\ inserted = 0
    /\ pc = [w \in Workers |-> "init"]
    /\ job = [w \in Workers |-> NoJob]
    /\ arg = [w \in Workers |-> "UNDEFINED"]
    /\ fate = [j \in Jobs |-> "none"]
    /\ crashes = 0
    /\ idleReaps = 0

-----------------------------------------------------------------------------
(* The child process: worker_proc_init and the start of tpool_worker.      *)

\* Opening the ipc database prepares DELETE FROM parse_job: when the file is
\* gone SQLite creates an empty one, the statement has no table and LOG_FATALF
\* raises SIGUSR1, which kills the child while it holds M.
WorkerProcInit(w) ==
    /\ pc[w] = "init"
    /\ MFree
    /\ Goto(w, IF db_file THEN "ready" ELSE "fatal")
    /\ UNCHANGED <<shmVars, dbVars, mainVars, job, arg, poolHistoryVars>>

WorkerInitialized(w) ==
    /\ pc[w] = "ready"
    /\ MFree
    /\ initialized_count' = initialized_count + 1
    /\ Goto(w, "loop")
    /\ UNCHANGED <<job_type, job_count, no_more_jobs, stop, busy_count,
                   completed_job_count, dbVars, mainVars, job, arg, poolHistoryVars>>

-----------------------------------------------------------------------------
(* worker_thread_loop, and database_get_work which it calls.               *)

LoopTop(w) ==
    /\ pc[w] = "loop"
    /\ Goto(w, IF stop THEN "exit" ELSE "call")
    /\ UNCHANGED <<shmVars, dbVars, mainVars, job, arg, poolHistoryVars>>

\* Mutant: job_type is read once, when the pool starts.
CallGetWorkStale(w) ==
    /\ pc[w] = "call"
    /\ job_type = "UNDEFINED" => MFree
    /\ Goto(w, "poll")
    /\ UNCHANGED <<shmVars, dbVars, mainVars, job, arg, poolHistoryVars>>

\* Before the first job the worker sleeps on M for at most a second; whatever
\* job_type is when it wakes up is the argument of its call.
CallGetWork(w) ==
    /\ pc[w] = "call"
    /\ job_type = "UNDEFINED" => MFree
    /\ arg' = [arg EXCEPT ![w] = job_type]
    /\ Goto(w, "poll")
    /\ UNCHANGED <<shmVars, dbVars, mainVars, job, poolHistoryVars>>

\* The wait of database_get_work: it polls every 10 ms, so no wakeup is needed.
AwaitWork(w) ==
    /\ pc[w] = "poll"
    /\ job_count # 0 \/ no_more_jobs
    /\ Goto(w, "pop")
    /\ UNCHANGED <<shmVars, dbVars, mainVars, job, arg, poolHistoryVars>>

\* A PARSE argument pops the parse_job table and any other the index_job table:
\* the rows are all in the table of the pool's job_type.
HasRow(w) ==
    /\ rows # <<>>
    /\ (arg[w] = "PARSE") <=> (job_type = "PARSE")

\* Mutant: the row is read without being deleted.
PopJobKeepsRow(w) ==
    /\ pc[w] = "pop"
    /\ \/ /\ HasRow(w)
          /\ job' = [job EXCEPT ![w] = Head(rows)]
          /\ Goto(w, "popped")
       \/ ~HasRow(w) /\ Goto(w, "idle") /\ UNCHANGED job
    /\ UNCHANGED <<shmVars, dbVars, mainVars, arg, poolHistoryVars>>

\* Mutant: the job is discounted whether there was a row or not.
PopJobAlwaysDiscounts(w) ==
    /\ pc[w] = "pop"
    /\ \/ /\ HasRow(w)
          /\ job' = [job EXCEPT ![w] = Head(rows)]
          /\ rows' = Tail(rows)
       \/ ~HasRow(w) /\ UNCHANGED <<job, rows>>
    /\ Goto(w, "popped")
    /\ UNCHANGED <<shmVars, db_file, mainVars, arg, poolHistoryVars>>

PopJob(w) ==
    /\ pc[w] = "pop"
    /\ \/ /\ HasRow(w)
          /\ job' = [job EXCEPT ![w] = Head(rows)]
          /\ rows' = Tail(rows)
          /\ Goto(w, "popped")
       \/ /\ ~HasRow(w)
          /\ Goto(w, "idle")
          /\ UNCHANGED <<job, rows>>
    /\ UNCHANGED <<shmVars, db_file, mainVars, arg, poolHistoryVars>>

DiscountJob(w) ==
    /\ pc[w] = "popped"
    /\ job_count' = job_count - 1
    /\ Goto(w, "got")
    /\ UNCHANGED <<job_type, no_more_jobs, stop, busy_count, initialized_count,
                   completed_job_count, dbVars, mainVars, job, arg, poolHistoryVars>>

\* Worker w no longer holds its job, whose fate is f.
Discharge(w, f) ==
    /\ fate' = [fate EXCEPT ![job[w]] = f]
    /\ job' = [job EXCEPT ![w] = NoJob]

\* Mutant: the worker leaves as soon as no more jobs are to come.
TestStopTooEarly(w) ==
    /\ pc[w] = "got"
    /\ \/ no_more_jobs /\ Discharge(w, "dropped") /\ Goto(w, "exit")
       \/ ~no_more_jobs /\ Goto(w, "claim") /\ UNCHANGED <<fate, job>>
    /\ UNCHANGED <<shmVars, dbVars, mainVars, arg, crashes, idleReaps>>

\* The loop is left with the job in hand when stop was set meanwhile.
TestStop(w) ==
    /\ pc[w] = "got"
    /\ \/ /\ stop
          /\ Discharge(w, "dropped")
          /\ Goto(w, "exit")
       \/ /\ ~stop
          /\ Goto(w, "claim")
          /\ UNCHANGED <<fate, job>>
    /\ UNCHANGED <<shmVars, dbVars, mainVars, arg, crashes, idleReaps>>

ClaimJob(w) ==
    /\ pc[w] = "claim"
    /\ busy_count' = busy_count + 1
    /\ Goto(w, "run")
    /\ UNCHANGED <<job_type, job_count, no_more_jobs, stop, initialized_count,
                   completed_job_count, dbVars, mainVars, job, arg, poolHistoryVars>>

\* The job carries the argument of the call as its type; neither branch of the
\* dispatch takes an UNDEFINED one.  busy_count and completed_job_count are
\* updated one after the other; nothing but the progress bar reads the latter.
RunJob(w) ==
    /\ pc[w] = "run"
    /\ Discharge(w, IF arg[w] \in {"PARSE", "BULK"} THEN "done" ELSE "ignored")
    /\ busy_count' = busy_count - 1
    /\ completed_job_count' = completed_job_count + 1
    /\ Goto(w, "loop")
    /\ UNCHANGED <<job_type, job_count, no_more_jobs, stop, initialized_count,
                   dbVars, mainVars, arg, crashes, idleReaps>>

\* pthread_cond_signal(done_working_cond), under M.
WakeMain == mainPc' = IF mainPc = "asleep" THEN "check" ELSE mainPc

SignalIdle(w) ==
    /\ pc[w] = "idle"
    /\ MFree
    /\ WakeMain
    /\ Goto(w, "loop")
    /\ UNCHANGED <<shmVars, dbVars, inserted, job, arg, poolHistoryVars>>

WorkerExit(w) ==
    /\ pc[w] = "exit"
    /\ MFree
    /\ WakeMain
    /\ Goto(w, "exited")
    /\ UNCHANGED <<shmVars, dbVars, inserted, job, arg, poolHistoryVars>>

-----------------------------------------------------------------------------
(* A child killed by a signal, and the parent thread that waits for it.    *)

CrashInJob(w) ==
    /\ pc[w] = "run"
    /\ "run" \in CrashPoints
    /\ crashes < MaxCrashes
    /\ crashes' = crashes + 1
    /\ Discharge(w, "crashed")
    /\ Goto(w, "killed")
    /\ UNCHANGED <<shmVars, dbVars, mainVars, arg, idleReaps>>

CrashInInit(w) ==
    /\ pc[w] = "init"
    /\ "init" \in CrashPoints
    /\ crashes < MaxCrashes
    /\ crashes' = crashes + 1
    /\ Goto(w, "aborted")
    /\ UNCHANGED <<shmVars, dbVars, mainVars, job, arg, fate, idleReaps>>

\* The Elasticsearch indexer sends what it still holds from worker_proc_cleanup.
CrashInCleanup(w) ==
    /\ pc[w] = "exited"
    /\ "cleanup" \in CrashPoints
    /\ crashes < MaxCrashes
    /\ crashes' = crashes + 1
    /\ Goto(w, "aborted")
    /\ UNCHANGED <<shmVars, dbVars, mainVars, job, arg, fate, idleReaps>>

\* Children that a signal killed, and what becomes of those forked instead of them.
DeadPcs == {"killed", "aborted", "fatal"}
Fork(w) == Goto(w, IF pc[w] = "fatal" THEN "blocked" ELSE "init")

\* Mutant: the share of the dead child in busy_count is not given back.
ReapKilledStaysBusy(w) ==
    /\ pc[w] \in DeadPcs
    /\ completed_job_count' = completed_job_count + 1
    /\ idleReaps' = idleReaps + (IF pc[w] = "killed" THEN 0 ELSE 1)
    /\ Fork(w)
    /\ UNCHANGED <<job_type, job_count, no_more_jobs, stop, busy_count,
                   initialized_count, dbVars, mainVars, job, arg, fate, crashes>>

\* Mutant: the job of the dead child is taken off the completed ones.
ReapKilledUncompletes(w) ==
    /\ pc[w] \in DeadPcs
    /\ completed_job_count' = completed_job_count - 1
    /\ busy_count' = busy_count - 1
    /\ idleReaps' = idleReaps + (IF pc[w] = "killed" THEN 0 ELSE 1)
    /\ Fork(w)
    /\ UNCHANGED <<job_type, job_count, no_more_jobs, stop, initialized_count,
                   dbVars, mainVars, job, arg, fate, crashes>>

\* busy_count is decremented whatever the child was doing when it died. A child
\* forked after CloseDatabase dies in its turn, and the one after it waits for M.
ReapKilled(w) ==
    /\ pc[w] \in DeadPcs
    /\ completed_job_count' = completed_job_count + 1
    /\ busy_count' = busy_count - 1
    /\ idleReaps' = idleReaps + (IF pc[w] = "killed" THEN 0 ELSE 1)
    /\ Fork(w)
    /\ UNCHANGED <<job_type, job_count, no_more_jobs, stop, initialized_count,
                   dbVars, mainVars, job, arg, fate, crashes>>

ReapExited(w) ==
    /\ pc[w] = "exited"
    /\ completed_job_count' = completed_job_count + 1
    /\ Goto(w, "joined")
    /\ UNCHANGED <<job_type, job_count, no_more_jobs, stop, busy_count,
                   initialized_count, dbVars, mainVars, job, arg, poolHistoryVars>>

-----------------------------------------------------------------------------
(* The main process: tpool_start, tpool_add_work, tpool_wait, tpool_destroy. *)

PoolStarted ==
    /\ mainPc = "start"
    /\ initialized_count = Cardinality(Workers)
    /\ mainPc' = "produce"
    /\ UNCHANGED <<shmVars, dbVars, inserted, workerVars, poolHistoryVars>>

\* The row is inserted, after waiting for room, before it is counted.
InsertJob ==
    /\ mainPc = "produce"
    /\ inserted < NJobs
    /\ Len(rows) < QueueCap
    /\ \E t \in JobTypes : /\ job_type \in {"UNDEFINED", t}
                           /\ job_type' = t
    /\ inserted' = inserted + 1
    /\ rows' = Append(rows, inserted + 1)
    /\ mainPc' = "count"
    /\ UNCHANGED <<job_count, no_more_jobs, stop, busy_count, initialized_count,
                   completed_job_count, db_file, workerVars, poolHistoryVars>>

CountJob ==
    /\ mainPc = "count"
    /\ job_count' = job_count + 1
    /\ mainPc' = "produce"
    /\ UNCHANGED <<job_type, no_more_jobs, stop, busy_count, initialized_count,
                   completed_job_count, dbVars, inserted, workerVars, poolHistoryVars>>

BeginWait ==
    /\ mainPc = "produce"
    /\ inserted = NJobs
    /\ no_more_jobs' = TRUE
    /\ mainPc' = "check"
    /\ UNCHANGED <<job_type, job_count, stop, busy_count, initialized_count,
                   completed_job_count, dbVars, inserted, workerVars, poolHistoryVars>>

\* Mutant: main waits for the workers only, not for the rows.
CheckJobCountSkipped ==
    /\ mainPc = "check"
    /\ mainPc' = "spin"
    /\ UNCHANGED <<shmVars, dbVars, inserted, workerVars, poolHistoryVars>>

\* The reads of job_count and busy_count are not synchronised with the writers
\* and are two steps.  With the release flags (-Ofast) the compiled loop does
\* not read job_count again while it waits for busy_count; nothing increments
\* job_count any more, so reading it again would make no difference.
CheckJobCount ==
    /\ mainPc = "check"
    /\ \/ job_count > 0 /\ mainPc' = "asleep"
       \/ job_count = 0 /\ mainPc' = "spin"
    /\ UNCHANGED <<shmVars, dbVars, inserted, workerVars, poolHistoryVars>>

\* Mutant: main leaves its wait without telling the workers to stop.
CheckBusyCountForgetsStop ==
    /\ mainPc = "spin"
    /\ busy_count <= 0
    /\ mainPc' = "destroy"
    /\ UNCHANGED <<shmVars, dbVars, inserted, workerVars, poolHistoryVars>>

CheckBusyCount ==
    /\ mainPc = "spin"
    /\ busy_count <= 0
    /\ stop' = TRUE
    /\ mainPc' = "destroy"
    /\ UNCHANGED <<job_type, job_count, no_more_jobs, busy_count, initialized_count,
                   completed_job_count, dbVars, inserted, workerVars, poolHistoryVars>>

\* database_close of the producer's connection removes the file.  The broadcast
\* that follows, under M, wakes no one who would not wake by himself: every wait on
\* has_work_cond is timed.  Main waits there and not in the join where a child died with
\* M in between, for as long.
CloseDatabase ==
    /\ mainPc = "destroy"
    /\ db_file' = FALSE
    /\ mainPc' = "join"
    /\ UNCHANGED <<shmVars, rows, inserted, workerVars, poolHistoryVars>>

\* Mutant: tpool_destroy returns without joining the threads.
JoinWorkersSkipped ==
    /\ mainPc = "join"
    /\ mainPc' = "done"
    /\ UNCHANGED <<shmVars, dbVars, inserted, workerVars, poolHistoryVars>>

JoinWorkers ==
    /\ mainPc = "join"
    /\ \A w \in Workers : pc[w] = "joined"
    /\ mainPc' = "done"
    /\ UNCHANGED <<shmVars, dbVars, inserted, workerVars, poolHistoryVars>>

-----------------------------------------------------------------------------
Main ==
    \/ PoolStarted \/ InsertJob \/ CountJob \/ BeginWait
    \/ CheckJobCount \/ CheckBusyCount \/ CloseDatabase \/ JoinWorkers

Worker(w) ==
    \/ WorkerProcInit(w) \/ WorkerInitialized(w)
    \/ LoopTop(w) \/ CallGetWork(w) \/ AwaitWork(w) \/ PopJob(w) \/ DiscountJob(w)
    \/ TestStop(w) \/ ClaimJob(w) \/ RunJob(w) \/ SignalIdle(w) \/ WorkerExit(w)
    \/ ReapKilled(w) \/ ReapExited(w)

Crash(w) == CrashInJob(w) \/ CrashInInit(w) \/ CrashInCleanup(w)

\* main spins on busy_count or is done, or everyone waits for the M of a dead child.
Stutter == /\ \/ mainPc = "spin" /\ busy_count > 0
              \/ mainPc = "done"
              \/ \E w \in Workers : pc[w] = "blocked"
           /\ UNCHANGED poolVars

PoolNext == Main \/ (\E w \in Workers : Worker(w) \/ Crash(w)) \/ Stutter

PoolSpec == PoolInit /\ [][PoolNext]_poolVars

-----------------------------------------------------------------------------
(* Properties.                                                             *)

PoolTypeOK ==
    /\ job_type \in {"UNDEFINED", "PARSE", "BULK"}
    /\ job_count \in Int
    /\ no_more_jobs \in BOOLEAN
    /\ stop \in BOOLEAN
    /\ busy_count \in Int
    /\ initialized_count \in Nat
    /\ completed_job_count \in Nat
    /\ rows \in Seq(Jobs)
    /\ db_file \in BOOLEAN
    /\ mainPc \in MainPcs
    /\ inserted \in 0 .. NJobs
    /\ pc \in [Workers -> WorkerPcs]
    /\ job \in [Workers -> Jobs \cup {NoJob}]
    /\ arg \in [Workers -> {"UNDEFINED", "PARSE", "BULK"}]
    /\ fate \in [Jobs -> Fates]
    /\ crashes \in 0 .. MaxCrashes
    /\ idleReaps \in Nat

\* The workers that program counters f place at a label of L.
At(f, L) == {w \in Workers : f[w] \in L}

\* Workers that popped a row and have not discounted it.
Undiscounted == At(pc, {"popped"})

\* Child processes that busy_count counts: in a job, or killed in one and not
\* yet reaped by the parent thread.
Busy == At(pc, {"run", "killed"})

Holders == At(pc, {"popped", "got", "claim", "run"})

\* Where a worker pops no row any more once stop is set.
Parked == {"init", "ready", "loop", "exit", "exited", "aborted", "fatal", "blocked", "joined"}

Left == At(pc, Parked)

Dropped == {j \in Jobs : fate[j] = "dropped"}

\* job_count is kept apart from the table it counts: main counts a row after it
\* is visible, a worker discounts one after it is gone. Whatever the order of the
\* three, the counter differs from the rows by the steps under way and no more,
\* so a worker may find it 0 over a row or even -1, but main reads a
\* count that bounds the rows from above once it waits (tpool.c:265).
JobCountExact ==
    job_count + (IF mainPc = "count" THEN 1 ELSE 0)
        = Len(rows) + Cardinality(Undiscounted)

\* busy_count is the number of children in a job, less one for each child that
\* died outside a job: ReapKilled decrements it all the same (tpool.c:203-206).
BusyCountExact == busy_count + idleReaps = Cardinality(Busy)

\* A worker has a job exactly while it is between the pop and the end of the job,
\* no two workers have the same one and none has one that already ended.
HeldJobs ==
    /\ \A w \in Workers : (job[w] # NoJob) <=> (w \in Holders)
    /\ \A w \in Holders : job[w] <= inserted /\ fate[job[w]] = "none"
    /\ \A v, w \in Holders : job[v] = job[w] => v = w

\* The rows are jobs not yet taken, in the order of submission.
QueuedJobs ==
    \A i \in 1 .. Len(rows) :
        /\ rows[i] <= inserted
        /\ fate[rows[i]] = "none"
        /\ \A w \in Holders : job[w] # rows[i]
        /\ \A k \in 1 .. Len(rows) : i < k => rows[i] < rows[k]

\* Every job is to be submitted, or in the table, or held, or has ended.
Accounted ==
    \A j \in Jobs :
        \/ fate[j] # "none" /\ j <= inserted
        \/ fate[j] = "none" /\ j > inserted
        \/ \E i \in 1 .. Len(rows) : rows[i] = j
        \/ \E w \in Holders : job[w] = j

\* A submitted job is in exactly one place: in the table, in the hands of one
\* worker, or ended; a crash or the stop flag loses a job only from the hands
\* of a worker, and the table holds the rest in the order of submission.
JobsConserved == HeldJobs /\ QueuedJobs /\ Accounted

\* When tpool_wait sets stop, every row has been popped and discounted: what the
\* workers may still drop is at most the job each of them has in hand.
StopIsDrained == stop => rows = <<>> /\ Undiscounted = {} /\ job_count = 0

\* A job is dropped because of stop only: the loss tpool_wait can cause is at
\* most one job per worker, however many were submitted, for a worker that dropped
\* one pops no other, not even in the child that replaces one killed in its cleanup.
DroppedAtMostOnePerWorker ==
    /\ Dropped # {} => stop
    /\ Cardinality(Dropped) <= Cardinality(Left)

\* The pool as its callers see it.
Place(j) ==
    CASE j > inserted -> "new"
      [] fate[j] = "done" -> "done"
      [] fate[j] \in {"ignored", "dropped", "crashed"} -> "lost"
      [] j <= inserted /\ fate[j] = "none" ->
            IF \E i \in 1 .. Len(rows) : rows[i] = j THEN "queued" ELSE "taken"

Abstract == INSTANCE WorkQueue
    WITH MaxTaken <- Cardinality(Workers),
         place <- [j \in Jobs |-> Place(j)],
         closed <- (mainPc = "done")

\* The pool implements the queue it is used as: jobs are taken first in first
\* out and once, no more are in hand than there are workers, and
\* tpool_destroy returns only when every job has ended or is lost.
ImplementsWorkQueue == Abstract!Spec

\* The scheduler runs every process: main and each worker thread with its child
\* take a step when they can. Crashes are never forced.
PoolFairness == WF_poolVars(Main) /\ \A w \in Workers : WF_poolVars(Worker(w))

\* Once main has begun, tpool_wait returns, whatever child dies in a job: the dead child's
\* share of busy_count is given back and main's wakeup does not depend on that child.
WaitReturns == mainPc # "start" ~> stop

\* tpool_destroy returns too, unless a child has to be forked after it removed the
\* ipc file, which dies with M: deaths before that, and the exits of the others, do not
\* stop it.
PoolReturns ==
    [](~db_file => \A w \in Workers : pc[w] \notin {"init", "killed", "aborted"})
        => (mainPc # "start" ~> mainPc = "done")

\* In the end every row that was inserted has been taken: a worker that is killed is
\* replaced by a new child.
RowsAreTaken == <>[](\A j \in 1 .. inserted : fate[j] # "none" \/ \E w \in Holders : job[w] = j)

\* What tests/test_scan.py:106 takes for granted: a scan in which nothing dies
\* processes every file that was submitted.
EveryJobIsProcessed ==
    mainPc = "done" /\ crashes = 0 => \A j \in Jobs : fate[j] = "done"

=============================================================================
