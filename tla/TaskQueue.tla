----------------------------- MODULE TaskQueue -----------------------------
(***************************************************************************)
(* The task queue of sist2-admin (jobs.py, TaskQueue) and what fills it    *)
(* (_run_job and run_user_script of app.py).                               *)
(*                                                                         *)
(* A run of a job submits a scan, the user scripts of the job and an index *)
(* task; a thread polls the queue every second and runs one task at a time *)
(* in a thread of its own, which records the return code in the table      *)
(* task_done.  Each step is one critical section of TaskQueue._lock.       *)
(* Everything but task_done is lost when the process restarts.             *)
(***************************************************************************)
EXTENDS Integers, Sequences, FiniteSets

CONSTANTS Runs,         \* runs of jobs: by a user, by cron, or of a lone script
          Lone,         \* those that are one user script by itself
          Scripts,      \* how many user scripts the job of a run has
          MaxRaises,    \* bound on tasks whose run() raises
          MaxRestarts   \* bound on restarts of sist2-admin

ASSUME QueueAssumption ==
    /\ Lone \subseteq Runs
    /\ Scripts \in [Runs -> Nat]
    /\ \A r \in Lone : Scripts[r] = 0

\* The steps of run r, in the order _run_job submits them: 0 is the scan (or the
\* lone script), then come the scripts, and the index task is the last.
LastStep(r) == IF r \in Lone THEN 0 ELSE Scripts[r] + 1
Tasks == UNION {{[run |-> r, step |-> s] : s \in 0 .. LastStep(r)} : r \in Runs}

IsScan(t) == t.step = 0 /\ t.run \notin Lone
IsScript(t) == t.run \in Lone \/ t.step \in 1 .. Scripts[t.run]
IsIndex(t) == t.run \notin Lone /\ t.step = LastStep(t.run)

\* Scripts depend on the scan, the index task on the last script or the scan.
Dependency(t) == [t EXCEPT !.step = IF IsIndex(t) THEN Scripts[t.run] ELSE 0]
Depends(t) == t.step > 0

VARIABLES
    submitted,   \* how many tasks of each run were submitted
    queue,       \* _queue
    sem,         \* _sem
    running,     \* the keys of _tasks
    raised,      \* those whose thread died of an exception
    task_done,   \* the table: task -> return code, 0 is success
    \* --- history
    started,     \* tasks that were run
    passed,      \* tasks taken off the queue because what they depend on failed
    lost,        \* tasks a restart took off the queue
    restarts

taskHistoryVars == <<started, passed, lost, restarts>>
taskVars == <<submitted, queue, sem, running, raised, task_done, taskHistoryVars>>

Codes == {0, 1}

TaskInit ==
    /\ submitted = [r \in Runs |-> 0]
    /\ queue = <<>>
    /\ sem = 0
    /\ running = {} /\ raised = {}
    /\ task_done = <<>>
    /\ started = {} /\ passed = {} /\ lost = {}
    /\ restarts = 0

-----------------------------------------------------------------------------
\* Submissions of different runs mix: the cron thread, the event loop and the
\* thread pool of the web framework all call submit.
Submit(r) ==
    /\ submitted[r] <= LastStep(r)
    /\ queue' = Append(queue, [run |-> r, step |-> submitted[r]])
    /\ submitted' = [submitted EXCEPT ![r] = @ + 1]
    /\ UNCHANGED <<sem, running, raised, task_done, taskHistoryVars>>

\* Mutant: a task waits until what it depends on has succeeded.
ReadyAfterSuccess(t) ==
    Depends(t) => Dependency(t) \in DOMAIN task_done /\ task_done[Dependency(t)] = 0

Ready(t) == Depends(t) => Dependency(t) \in DOMAIN task_done

\* Mutant: only a process that could not be started has failed.
FailedWhenNegative(t) ==
    Depends(t) /\ Dependency(t) \in DOMAIN task_done /\ task_done[Dependency(t)] < 0

Failed(t) == Depends(t) /\ Dependency(t) \in DOMAIN task_done /\ task_done[Dependency(t)] # 0

\* Mutant: a task is started whether another is running or not.
PassOverAnyway(k) ==
    /\ sem < 2
    /\ \A i \in 1 .. k : Ready(queue[i]) /\ Failed(queue[i])
    /\ passed' = passed \cup {queue[i] : i \in 1 .. k}

\* One pass of _check_new_task over the queue passes over the tasks at its head
\* whose dependency failed, here the first k, and starts the next one if it is
\* ready; one that is not ends the pass.
PassOver(k) ==
    /\ sem < 1
    /\ \A i \in 1 .. k : Ready(queue[i]) /\ Failed(queue[i])
    /\ passed' = passed \cup {queue[i] : i \in 1 .. k}

StartTask ==
    \E k \in 0 .. Len(queue) - 1 :
        LET t == queue[k + 1] IN
        /\ PassOver(k)
        /\ Ready(t) /\ ~Failed(t)
        /\ queue' = SubSeq(queue, k + 2, Len(queue))
        /\ sem' = sem + 1
        /\ running' = running \cup {t}
        /\ started' = started \cup {t}
        /\ UNCHANGED <<submitted, raised, task_done, lost, restarts>>

\* Mutant: a task that is passed over stays in the queue.
StartNothingKeepsIt ==
    \E k \in 1 .. Len(queue) :
        /\ PassOver(k)
        /\ k < Len(queue) => ~Ready(queue[k + 1])
        /\ UNCHANGED <<submitted, queue, sem, running, raised, task_done, started, lost,
           restarts>>

StartNothing ==
    \E k \in 1 .. Len(queue) :
        /\ PassOver(k)
        /\ k < Len(queue) => ~Ready(queue[k + 1])
        /\ queue' = SubSeq(queue, k + 1, Len(queue))
        /\ UNCHANGED <<submitted, sem, running, raised, task_done, started, lost, restarts>>

CheckNewTask == StartTask \/ StartNothing

\* _run_task, when run() returns.  A script fails only when it cannot be set up:
\* the return code of its process is not looked at.
EndTask(t) ==
    /\ t \in running \ raised
    /\ running' = running \ {t}
    /\ sem' = sem - 1
    /\ \E c \in Codes : task_done' = [u \in DOMAIN task_done \cup {t} |->
                                         IF u = t THEN c ELSE task_done[u]]
    /\ UNCHANGED <<submitted, queue, raised, taskHistoryVars>>

\* run() raises: a search backend that is gone, a job that was never scanned, a
\* script that cannot be executed.  The thread dies and _sem stays as it is.
RunRaises(t) ==
    /\ t \in running \ raised
    /\ Cardinality(raised) < MaxRaises
    /\ raised' = raised \cup {t}
    /\ UNCHANGED <<submitted, queue, sem, running, task_done, taskHistoryVars>>

Restart ==
    /\ restarts < MaxRestarts
    /\ restarts' = restarts + 1
    /\ lost' = lost \cup running \cup {queue[i] : i \in 1 .. Len(queue)}
                    \cup {t \in Tasks : submitted[t.run] \in 1 .. t.step}
    /\ submitted' = [r \in Runs |-> IF submitted[r] = 0 THEN 0 ELSE LastStep(r) + 1]
    /\ queue' = <<>>
    /\ sem' = 0
    /\ running' = {} /\ raised' = {}
    /\ UNCHANGED <<task_done, started, passed>>

\* Nothing is left to do, or the queue is stuck: the polling goes on.
Idle == UNCHANGED taskVars

TaskNext ==
    \/ \E r \in Runs : Submit(r)
    \/ CheckNewTask
    \/ \E t \in Tasks : EndTask(t) \/ RunRaises(t)
    \/ Restart
    \/ Idle

TaskSpec == TaskInit /\ [][TaskNext]_taskVars

-----------------------------------------------------------------------------
TaskTypeOK ==
    /\ submitted \in [Runs -> Nat]
    /\ queue \in Seq(Tasks)
    /\ sem \in 0 .. 1
    /\ running \subseteq Tasks /\ raised \subseteq running
    /\ DOMAIN task_done \subseteq Tasks
    /\ \A t \in DOMAIN task_done : task_done[t] \in Codes
    /\ started \subseteq Tasks /\ passed \subseteq Tasks /\ lost \subseteq Tasks

Queued == {queue[i] : i \in 1 .. Len(queue)}

Submitted == {t \in Tasks : t.step < submitted[t.run]}

\* A submitted task is in one place only: queued, running, ended, passed over or
\* lost in a restart; none runs twice. _sem counts the threads in _tasks, those that
\* died included, and never passes 1: in one life of sist2-admin one process at a time
\* works on the index files.
TasksConserved ==
    /\ Submitted = Queued \cup running \cup DOMAIN task_done \cup passed \cup lost
    /\ Cardinality(Submitted) = Len(queue) + Cardinality(running)
           + Cardinality(DOMAIN task_done) + Cardinality(passed) + Cardinality(lost)
    /\ sem = Cardinality(running) /\ sem <= 1

\* The index task depends on the last script alone, and the scripts on the scan:
\* all the same the steps of a run are run in their order, each after the end of
\* the ones before it and the success of its dependency, however the submissions
\* of several runs mix.
StepsInOrder ==
    \A t \in started :
        /\ \A u \in Tasks : u.run = t.run /\ u.step < t.step => u \in DOMAIN task_done
        /\ Depends(t) => task_done[Dependency(t)] = 0

-----------------------------------------------------------------------------
\* The polling thread runs, and the processes it starts end.
TaskFairness == WF_taskVars(CheckNewTask) /\ \A t \in Tasks : WF_taskVars(EndTask(t))

Settled(t) == t \in DOMAIN task_done \cup passed \cup lost

\* No task raised, and no task failed on which a script depends.
Benign ==
    /\ raised = {}
    /\ \A t \in passed : ~IsScript(t)

\* Every task that is submitted ends, or is passed over because of a failure,
\* unless a thread died or a script was passed over.
TasksSettle ==
    []Benign => <>[](\A t \in Submitted : Settled(t))

\* What the comment at jobs.py:350 says of a failed dependency: the queue continues.
QueueMovesOn ==
    [](raised = {}) => <>[](\A t \in Submitted : Settled(t))
=============================================================================
