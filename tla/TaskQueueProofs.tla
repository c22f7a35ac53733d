-------------------------- MODULE TaskQueueProofs --------------------------
(***************************************************************************)
(* The task queue of sist2-admin, for any number of runs, scripts, tasks   *)
(* that raise and restarts.  Runs may be infinite: what was submitted so   *)
(* far is finite all the same.                                             *)
(***************************************************************************)
EXTENDS TaskQueue, FiniteSetTheorems, TLAPS

-----------------------------------------------------------------------------
(* The inductive invariant.                                                *)

Done == DOMAIN task_done

Begun == {r \in Runs : submitted[r] > 0}

\* Every submitted task is in one place.
OnePlace ==
    /\ Submitted = Queued \cup running \cup Done \cup passed \cup lost
    /\ Queued \cap (running \cup Done \cup passed \cup lost) = {}
    /\ running \cap (Done \cup passed \cup lost) = {}
    /\ Done \cap (passed \cup lost) = {}
    /\ passed \cap lost = {}
    /\ \A i, k \in 1 .. Len(queue) : queue[i] = queue[k] => i = k

\* _sem counts the threads.
OneRuns == IsFiniteSet(running) /\ sem = Cardinality(running)

\* Within a run the tasks leave the queue in the order of their steps, and what a
\* restart loses is the rest of the run.
Fifo ==
    /\ \A i, k \in 1 .. Len(queue) :
          queue[i].run = queue[k].run /\ queue[i].step < queue[k].step => i < k
    /\ \A t \in running \cup Done \cup passed : \A u \in Tasks :
          u.run = t.run /\ u.step < t.step => u \in Done \cup passed
    /\ \A t \in lost : \A u \in Tasks : u.run = t.run /\ t.step < u.step => u \in lost

\* What was run and why the others were not.
Reasons ==
    /\ running \cup Done \subseteq started
    /\ \A t \in passed : /\ Depends(t)
                         /\ Dependency(t) \in Done
                         /\ task_done[Dependency(t)] # 0

IInv ==
    /\ TaskTypeOK
    /\ IsFiniteSet(Begun)
    /\ OnePlace
    /\ OneRuns
    /\ Fifo
    /\ Reasons
    /\ StepsInOrder

-----------------------------------------------------------------------------
(* The tasks and the queue.                                                *)

\* A task is the pair of its run and its step.
LEMMA TasksAre ==
    /\ \A r \in Runs : /\ LastStep(r) \in Nat
                       /\ \A s \in 0 .. LastStep(r) : [run |-> r, step |-> s] \in Tasks
    /\ \A t \in Tasks : /\ t.run \in Runs
                        /\ t.step \in Nat
                        /\ t.step <= LastStep(t.run)
                        /\ t = [run |-> t.run, step |-> t.step]
<1>1. \A r \in Runs : LastStep(r) \in Nat
  BY QueueAssumption DEF LastStep
<1>2. \A r \in Runs : \A s \in 0 .. LastStep(r) : [run |-> r, step |-> s] \in Tasks
  BY DEF Tasks
<1>3. ASSUME NEW t \in Tasks
      PROVE  /\ t.run \in Runs
             /\ t.step \in Nat
             /\ t.step <= LastStep(t.run)
             /\ t = [run |-> t.run, step |-> t.step]
  <2>1. PICK r \in Runs : \E s \in 0 .. LastStep(r) : t = [run |-> r, step |-> s]
    BY <1>3 DEF Tasks
  <2>2. QED
    BY <1>1, <2>1
<1>4. QED
  BY <1>1, <1>2, <1>3

\* What a task depends on is an earlier task of its run: the scan for a script,
\* the last script or the scan for the index task.
LEMMA DependencyIs ==
    ASSUME NEW t \in Tasks, Depends(t)
    PROVE  /\ Dependency(t) \in Tasks
           /\ Dependency(t).run = t.run
           /\ Dependency(t).step < t.step
           /\ \/ Dependency(t).step = 0
              \/ t.step = Dependency(t).step + 1
<1>1. /\ t.run \in Runs /\ t.step \in Nat /\ t.step <= LastStep(t.run)
      /\ t = [run |-> t.run, step |-> t.step] /\ LastStep(t.run) \in Nat
  BY TasksAre
<1>2. /\ t.step > 0 /\ Scripts[t.run] \in Nat
  BY <1>1, QueueAssumption DEF Depends
<1>3. t.run \notin Lone /\ LastStep(t.run) = Scripts[t.run] + 1
  BY <1>1, <1>2 DEF LastStep
<1>4. PICK s \in Nat : /\ s = IF IsIndex(t) THEN Scripts[t.run] ELSE 0
                       /\ Dependency(t) = [run |-> t.run, step |-> s]
  BY <1>1, <1>2 DEF Dependency
<1>5. s \in 0 .. LastStep(t.run) /\ s < t.step /\ (s = 0 \/ t.step = s + 1)
  BY <1>2, <1>3, <1>4 DEF IsIndex
<1>6. [run |-> t.run, step |-> s] \in Tasks
  BY <1>1, <1>5, TasksAre
<1>7. QED
  BY <1>4, <1>5, <1>6

\* A task before another one that does not come right after what it depends on
\* has the same dependency, or is that dependency.
LEMMA EarlierSteps ==
    ASSUME NEW t \in Tasks, Depends(t), Dependency(t).step = 0,
           NEW u \in Tasks, u.run = t.run, u.step < t.step
    PROVE  \/ u = Dependency(t)
           \/ Depends(u) /\ Dependency(u) = Dependency(t)
<1>1. /\ u.run \in Runs /\ u.step \in Nat /\ t.step \in Nat
      /\ u.step < LastStep(u.run)
      /\ u = [run |-> t.run, step |-> u.step]
      /\ t = [run |-> t.run, step |-> t.step]
      /\ LastStep(u.run) \in Nat
      /\ t.step <= LastStep(u.run)
  BY TasksAre
<1>2. CASE u.step = 0
  <2>1. Dependency(t) = [run |-> t.run, step |-> 0]
    BY <1>1, DependencyIs, TasksAre
  <2>2. QED
    BY <1>1, <1>2, <2>1
<1>3. CASE u.step # 0
  <2>1. Depends(u) /\ ~IsIndex(u)
    BY <1>1, <1>3 DEF Depends, IsIndex
  <2>2. Dependency(u) = [run |-> t.run, step |-> 0]
    BY <1>1, <2>1 DEF Dependency
  <2>3. Dependency(t) = [run |-> t.run, step |-> 0]
    BY DependencyIs, TasksAre
  <2>4. QED
    BY <2>1, <2>2, <2>3
<1>4. QED
  BY <1>2, <1>3

\* The queue without its first k tasks.
LEMMA QueueDrops ==
    ASSUME queue \in Seq(Tasks), NEW k \in 0 .. Len(queue),
           queue' = SubSeq(queue, k + 1, Len(queue)),
           \A i, m \in 1 .. Len(queue) : queue[i] = queue[m] => i = m
    PROVE  /\ queue' \in Seq(Tasks)
           /\ Len(queue') = Len(queue) - k
           /\ \A i \in 1 .. Len(queue') : i + k \in 1 .. Len(queue) /\ queue'[i] = queue[i + k]
           /\ Queued' = Queued \ {queue[i] : i \in 1 .. k}
<1>1. /\ queue' \in Seq(Tasks)
      /\ Len(queue') = Len(queue) - k
      /\ \A i \in 1 .. Len(queue') : queue'[i] = queue[i + k]
  BY SMTT(30)
<1>2. Len(queue) \in Nat /\ \A i \in 1 .. Len(queue') : i + k \in 1 .. Len(queue)
  BY <1>1
<1>3. ASSUME NEW i \in 1 .. Len(queue), i \notin 1 .. k
      PROVE  i - k \in 1 .. Len(queue') /\ queue'[i - k] = queue[i]
  BY <1>1, <1>2, <1>3
<1>4. ASSUME NEW i \in 1 .. Len(queue')
      PROVE  queue'[i] \in Queued /\ \A m \in 1 .. k : queue'[i] # queue[m]
  <2>1. queue'[i] = queue[i + k] /\ i + k \in 1 .. Len(queue)
    BY <1>1, <1>2
  <2>2. \A m \in 1 .. k : m \in 1 .. Len(queue) /\ m # i + k
    BY <1>2
  <2>3. QED
    BY <2>1, <2>2 DEF Queued
<1>5. Queued' \subseteq Queued \ {queue[i] : i \in 1 .. k}
  BY <1>4 DEF Queued
<1>6. Queued \ {queue[i] : i \in 1 .. k} \subseteq Queued'
  <2> SUFFICES ASSUME NEW x \in Queued, x \notin {queue[i] : i \in 1 .. k}
               PROVE  x \in Queued'
    OBVIOUS
  <2>1. PICK i \in 1 .. Len(queue) : x = queue[i]
    BY DEF Queued
  <2>2. i \notin 1 .. k
    BY <2>1
  <2>3. QED
    BY <1>3, <2>1, <2>2 DEF Queued
<1>7. QED
  BY <1>1, <1>2, <1>5, <1>6

-----------------------------------------------------------------------------
(* Each action keeps the invariant.                                        *)

\* The task a submission adds is the next step of its run.
LEMMA NextStep ==
    ASSUME TaskTypeOK, NEW r \in Runs, Submit(r)
    PROVE  \E t \in Tasks :
               /\ t.run = r /\ t.step = submitted[r] /\ t \notin Submitted
               /\ queue' = Append(queue, t)
               /\ submitted' = [submitted EXCEPT ![r] = @ + 1]
               /\ Submitted' = Submitted \cup {t}
               /\ \A u \in Submitted : u.run = r => u.step < t.step
<1> DEFINE t == [run |-> r, step |-> submitted[r]]
<1>1. submitted[r] \in Nat /\ submitted[r] <= LastStep(r) /\ LastStep(r) \in Nat
  BY TasksAre DEF TaskTypeOK, Submit
<1>2. t \in Tasks
  BY <1>1, TasksAre
<1>3. \A u \in Tasks : submitted'[u.run] = IF u.run = r THEN submitted[r] + 1 ELSE submitted[u.run]
  BY <1>1, TasksAre DEF TaskTypeOK, Submit
<1>4. Submitted' = Submitted \cup {t}
  <2>1. ASSUME NEW u \in Tasks
        PROVE  u.step < submitted'[u.run] <=> u.step < submitted[u.run] \/ u = t
    <3>1. u.run \in Runs /\ u.step \in Nat /\ u = [run |-> u.run, step |-> u.step]
      BY TasksAre
    <3>2. CASE u.run = r
      BY <1>1, <1>3, <3>1, <3>2
    <3>3. CASE u.run # r
      BY <1>3, <3>1, <3>3
    <3>4. QED
      BY <3>2, <3>3
  <2>2. QED
    BY <1>2, <2>1 DEF Submitted
<1>5. t \notin Submitted /\ \A u \in Submitted : u.run = r => u.step < t.step
  BY <1>1, TasksAre DEF Submitted
<1>6. QED
  BY <1>2, <1>4, <1>5 DEF Submit

\* One more row in the queue.
LEMMA QueueGrows ==
    ASSUME queue \in Seq(Tasks), NEW t \in Tasks, queue' = Append(queue, t)
    PROVE  /\ queue' \in Seq(Tasks)
           /\ Len(queue) \in Nat
           /\ Len(queue') = Len(queue) + 1
           /\ \A i \in 1 .. Len(queue) : queue'[i] = queue[i] /\ queue[i] \in Queued
           /\ queue'[Len(queue) + 1] = t
           /\ Queued' = Queued \cup {t}
<1>1. /\ queue' \in Seq(Tasks)
      /\ Len(queue) \in Nat
      /\ Len(queue') = Len(queue) + 1
      /\ \A i \in 1 .. Len(queue) : queue'[i] = queue[i] /\ queue[i] \in Queued
      /\ queue'[Len(queue) + 1] = t
  BY DEF Queued
<1>2. Queued' = Queued \cup {t}
  BY <1>1 DEF Queued
<1>3. QED
  BY <1>1, <1>2

\* A submission.
LEMMA SubmitKeeps ==
    ASSUME IInv, NEW r \in Runs, Submit(r)
    PROVE  IInv'
<1> USE DEF IInv
<1>1. PICK t \in Tasks :
          /\ t.run = r /\ t.step = submitted[r] /\ t \notin Submitted
          /\ queue' = Append(queue, t)
          /\ submitted' = [submitted EXCEPT ![r] = @ + 1]
          /\ Submitted' = Submitted \cup {t}
          /\ \A u \in Submitted : u.run = r => u.step < t.step
  BY NextStep
<1>2. /\ queue' \in Seq(Tasks)
      /\ Len(queue) \in Nat
      /\ Len(queue') = Len(queue) + 1
      /\ \A i \in 1 .. Len(queue) : queue'[i] = queue[i] /\ queue[i] \in Queued
      /\ queue'[Len(queue) + 1] = t
      /\ Queued' = Queued \cup {t}
  BY <1>1, QueueGrows DEF TaskTypeOK
<1>3. /\ sem' = sem /\ running' = running /\ raised' = raised /\ task_done' = task_done
      /\ started' = started /\ passed' = passed /\ lost' = lost
  BY DEF Submit, taskHistoryVars
<1>4. t \notin Queued \cup running \cup Done \cup passed \cup lost
  BY <1>1 DEF OnePlace
<1>5. TaskTypeOK'
  <2>1. submitted' \in [Runs -> Nat]
    BY <1>1 DEF TaskTypeOK
  <2>2. QED
    BY <1>2, <1>3, <2>1 DEF TaskTypeOK
<1>6. IsFiniteSet(Begun)'
  <2>1. Begun' = Begun \cup {r}
    BY <1>1 DEF TaskTypeOK, Begun
  <2>2. QED
    BY <2>1, FS_AddElement
<1>7. OnePlace'
  <2>1. \A i, k \in 1 .. Len(queue') : queue'[i] = queue'[k] => i = k
    <3>1. \A i \in 1 .. Len(queue) : queue[i] # t
      BY <1>2, <1>4
    <3>2. QED
      BY <1>2, <3>1 DEF OnePlace
  <2>2. QED
    BY <1>1, <1>2, <1>3, <1>4, <2>1 DEF OnePlace, Done
<1>8. Fifo'
  <2>1. \A i, k \in 1 .. Len(queue') :
            queue'[i].run = queue'[k].run /\ queue'[i].step < queue'[k].step => i < k
    <3>1. \A i \in 1 .. Len(queue) : queue[i].run = t.run => ~(t.step < queue[i].step)
      <4>1. \A i \in 1 .. Len(queue) : queue[i] \in Submitted /\ queue[i] \in Tasks
        BY <1>2 DEF OnePlace, Submitted
      <4>2. QED
        BY <1>1, <4>1, TasksAre
    <3>2. ~(t.step < t.step)
      BY TasksAre
    <3> SUFFICES ASSUME NEW i \in 1 .. Len(queue'), NEW k \in 1 .. Len(queue'),
                        queue'[i].run = queue'[k].run, queue'[i].step < queue'[k].step
                 PROVE  i < k
      OBVIOUS
    <3>3. CASE i \in 1 .. Len(queue) /\ k \in 1 .. Len(queue)
      BY <1>2, <3>3 DEF Fifo
    <3>4. CASE i = Len(queue) + 1
      BY <1>2, <3>1, <3>2, <3>4
    <3>5. QED
      BY <1>2, <3>3, <3>4
  <2>2. QED
    BY <1>3, <2>1 DEF Fifo, Done
<1>9. QED
  BY <1>3, <1>5, <1>6, <1>7, <1>8 DEF OneRuns, Reasons, StepsInOrder, Done

\* No task is running when _sem is 0.
LEMMA NobodyRuns ==
    ASSUME IInv, sem < 1
    PROVE  sem = 0 /\ running = {} /\ raised = {}
<1>1. sem = 0
  BY DEF IInv, TaskTypeOK
<1>2. running = {}
  BY <1>1, FS_EmptySet DEF IInv, OneRuns
<1>3. QED
  BY <1>1, <1>2 DEF IInv, TaskTypeOK

\* The steps of a run before a queued one have ended, or are queued before it.
LEMMA EarlierAreAhead ==
    ASSUME IInv, sem < 1, NEW k \in 1 .. Len(queue),
           NEW u \in Tasks, u.run = queue[k].run, u.step < queue[k].step
    PROVE  u \in Done \cup passed \cup {queue[i] : i \in 1 .. k - 1}
<1> USE DEF IInv
<1>1. Len(queue) \in Nat /\ queue[k] \in Queued /\ queue[k] \in Submitted
  BY DEF TaskTypeOK, Queued, OnePlace
<1>2. u \in Submitted
  BY <1>1, TasksAre DEF Submitted, TaskTypeOK
<1>3. queue[k] \in Tasks /\ queue[k] \notin lost
  BY <1>1 DEF OnePlace, Submitted
<1>4. u \notin lost
  BY <1>3 DEF Fifo
<1>5. ASSUME u \in Queued
      PROVE  u \in {queue[i] : i \in 1 .. k - 1}
  <2>1. PICK i \in 1 .. Len(queue) : u = queue[i]
    BY <1>5 DEF Queued
  <2>2. i < k
    BY <2>1 DEF Fifo
  <2>3. i \in 1 .. k - 1
    BY <1>1, <2>2
  <2>4. QED
    BY <2>1, <2>3
<1>6. running = {}
  BY NobodyRuns
<1>7. QED
  BY <1>2, <1>4, <1>5, <1>6 DEF OnePlace

\* A task that is started finds every earlier step of its run ended and what it
\* depends on a success: had one been passed over, so would this one be.
LEMMA StartedInOrder ==
    ASSUME IInv, NEW k \in 0 .. Len(queue) - 1, PassOver(k),
           Ready(queue[k + 1]), ~Failed(queue[k + 1])
    PROVE  /\ \A u \in Tasks : u.run = queue[k + 1].run /\ u.step < queue[k + 1].step => u \in Done
           /\ Depends(queue[k + 1]) => task_done[Dependency(queue[k + 1])] = 0
<1> USE DEF IInv
<1>1. Len(queue) \in Nat /\ k + 1 \in 1 .. Len(queue) /\ (k + 1) - 1 = k /\ sem < 1
  BY DEF TaskTypeOK, PassOver
<1>2. PICK t \in Tasks : t = queue[k + 1]
  BY <1>1 DEF TaskTypeOK
<1>3. CASE ~Depends(t)
  BY <1>2, <1>3, TasksAre DEF Depends
<1>4. CASE Depends(t)
  <2>1. PICK d \in Tasks : d = Dependency(t)
    BY <1>4, DependencyIs
  <2>2. d \in Done /\ task_done[d] = 0
    BY <1>2, <1>4, <2>1 DEF Ready, Failed, Done
  <2>3. /\ d.run = t.run /\ d.step < t.step
        /\ d.step = 0 \/ t.step = d.step + 1
    BY <1>4, <2>1, DependencyIs
  <2> SUFFICES ASSUME NEW u \in Tasks, u.run = t.run, u.step < t.step
               PROVE  u \in Done
    BY <1>2, <2>1, <2>2
  <2>4. CASE d.step = 0
    <3>1. CASE u = d
      BY <2>2, <3>1
    <3>2. CASE Depends(u) /\ Dependency(u) = d
      <4>1. u \notin passed
        BY <2>2, <3>2 DEF Reasons
      <4>2. ~Failed(u)
        BY <2>2, <3>2 DEF Failed
      <4>3. u \notin {queue[i] : i \in 1 .. k}
        BY <4>2 DEF PassOver
      <4>4. u \in Done \cup passed \cup {queue[i] : i \in 1 .. k}
        BY <1>1, <1>2, EarlierAreAhead
      <4>5. QED
        BY <4>1, <4>3, <4>4
    <3>3. QED
      BY <1>4, <2>1, <2>4, <3>1, <3>2, EarlierSteps
  <2>5. CASE t.step = d.step + 1
    <3>1. d \in started
      BY <2>2 DEF Reasons
    <3>2. CASE u.step < d.step
      BY <2>3, <3>1, <3>2 DEF StepsInOrder, Done
    <3>3. CASE u.step = d.step
      BY <2>2, <2>3, <3>3, TasksAre
    <3>4. QED
      BY <2>5, <3>2, <3>3, TasksAre
  <2>6. QED
    BY <2>3, <2>4, <2>5
<1>5. QED
  BY <1>3, <1>4

\* What is left of the queue is in order.
LEMMA RestInOrder ==
    ASSUME IInv, NEW k \in 0 .. Len(queue), queue' = SubSeq(queue, k + 1, Len(queue))
    PROVE  /\ queue' \in Seq(Tasks)
           /\ Queued' = Queued \ {queue[i] : i \in 1 .. k}
           /\ \A i, m \in 1 .. Len(queue') : queue'[i] = queue'[m] => i = m
           /\ \A i, m \in 1 .. Len(queue') :
                 queue'[i].run = queue'[m].run /\ queue'[i].step < queue'[m].step => i < m
<1>1. /\ queue' \in Seq(Tasks)
      /\ Len(queue') = Len(queue) - k
      /\ \A i \in 1 .. Len(queue') : i + k \in 1 .. Len(queue) /\ queue'[i] = queue[i + k]
      /\ Queued' = Queued \ {queue[i] : i \in 1 .. k}
  BY QueueDrops DEF IInv, TaskTypeOK, OnePlace
<1>2. k \in Nat /\ Len(queue') \in Nat
  BY <1>1 DEF IInv, TaskTypeOK
<1>3. ASSUME NEW i \in 1 .. Len(queue'), NEW m \in 1 .. Len(queue')
      PROVE  /\ queue'[i] = queue'[m] => i = m
             /\ queue'[i].run = queue'[m].run /\ queue'[i].step < queue'[m].step => i < m
  <2>1. /\ i + k \in 1 .. Len(queue) /\ queue'[i] = queue[i + k]
        /\ m + k \in 1 .. Len(queue) /\ queue'[m] = queue[m + k]
    BY <1>1
  <2>2. queue'[i] = queue'[m] => i + k = m + k
    BY <2>1 DEF IInv, OnePlace
  <2>3. queue'[i].run = queue'[m].run /\ queue'[i].step < queue'[m].step => i + k < m + k
    BY <2>1 DEF IInv, Fifo
  <2>4. QED
    BY <1>2, <2>2, <2>3
<1>4. QED
  BY <1>1, <1>3

\* The tasks passed over end in the order of their steps, each for a reason.
LEMMA PassedInOrder ==
    ASSUME IInv, NEW k \in 0 .. Len(queue), PassOver(k),
           NEW P, P = {queue[i] : i \in 1 .. k}
    PROVE  /\ P \subseteq Queued
           /\ P \subseteq Tasks
           /\ passed' = passed \cup P
           /\ \A t \in P : \A u \in Tasks :
                 u.run = t.run /\ u.step < t.step => u \in Done \cup passed \cup P
           /\ \A t \in P : /\ Depends(t)
                           /\ Dependency(t) \in Done
                           /\ task_done[Dependency(t)] # 0
<1>1. Len(queue) \in Nat /\ k \in Nat /\ sem < 1
  BY DEF IInv, TaskTypeOK, PassOver
<1>2. \A i \in 1 .. k : i \in 1 .. Len(queue) /\ queue[i] \in Queued /\ queue[i] \in Tasks
  BY <1>1 DEF IInv, TaskTypeOK, Queued
<1>3. ASSUME NEW i \in 1 .. k, NEW u \in Tasks, u.run = queue[i].run, u.step < queue[i].step
      PROVE  u \in Done \cup passed \cup P
  <2>1. u \in Done \cup passed \cup {queue[m] : m \in 1 .. i - 1}
    BY <1>1, <1>2, <1>3, EarlierAreAhead
  <2>2. \A m \in 1 .. i - 1 : m \in 1 .. k
    BY <1>1
  <2>3. QED
    BY <2>1, <2>2
<1>4. QED
  BY <1>2, <1>3 DEF PassOver, Failed, Done

\* A pass over the queue that starts a task.
LEMMA StartTaskKeeps ==
    ASSUME IInv, StartTask
    PROVE  IInv'
<1>1. PICK k \in 0 .. Len(queue) - 1 :
          /\ PassOver(k)
          /\ Ready(queue[k + 1]) /\ ~Failed(queue[k + 1])
          /\ queue' = SubSeq(queue, k + 2, Len(queue))
          /\ sem' = sem + 1
          /\ running' = running \cup {queue[k + 1]}
          /\ started' = started \cup {queue[k + 1]}
          /\ UNCHANGED <<submitted, raised, task_done, lost, restarts>>
  BY DEF StartTask
<1>2. /\ Len(queue) \in Nat /\ k \in Nat /\ k + 1 \in 1 .. Len(queue)
      /\ k + 1 \in 0 .. Len(queue) /\ (k + 1) + 1 = k + 2 /\ k \in 0 .. Len(queue)
  BY DEF IInv, TaskTypeOK
<1>3. PICK t \in Tasks : t = queue[k + 1]
  BY <1>2 DEF IInv, TaskTypeOK
<1>4. PICK P : P = {queue[i] : i \in 1 .. k}
  OBVIOUS
<1>5. /\ P \subseteq Queued
      /\ P \subseteq Tasks
      /\ passed' = passed \cup P
      /\ \A v \in P : \A u \in Tasks :
            u.run = v.run /\ u.step < v.step => u \in Done \cup passed \cup P
      /\ \A v \in P : /\ Depends(v)
                      /\ Dependency(v) \in Done
                      /\ task_done[Dependency(v)] # 0
  BY <1>1, <1>2, <1>4, PassedInOrder
<1>6. /\ queue' \in Seq(Tasks)
      /\ Queued' = Queued \ {queue[i] : i \in 1 .. k + 1}
      /\ \A i, m \in 1 .. Len(queue') : queue'[i] = queue'[m] => i = m
      /\ \A i, m \in 1 .. Len(queue') :
            queue'[i].run = queue'[m].run /\ queue'[i].step < queue'[m].step => i < m
  BY <1>1, <1>2, RestInOrder
<1>7. {queue[i] : i \in 1 .. k + 1} = P \cup {t}
  BY <1>2, <1>3, <1>4
<1>8. t \in Queued /\ t \notin P
  <2>1. \A i \in 1 .. k : queue[i] # queue[k + 1]
    BY <1>2 DEF IInv, OnePlace
  <2>2. QED
    BY <1>2, <1>3, <1>4, <2>1 DEF Queued
<1>9. sem = 0 /\ running = {} /\ raised = {}
  BY <1>1, NobodyRuns DEF PassOver
<1>10. /\ \A u \in Tasks : u.run = t.run /\ u.step < t.step => u \in Done
       /\ Depends(t) => task_done[Dependency(t)] = 0
  BY <1>1, <1>3, StartedInOrder
<1>11. /\ running' = {t} /\ sem' = 1 /\ started' = started \cup {t}
       /\ submitted' = submitted /\ raised' = {} /\ task_done' = task_done /\ lost' = lost
  BY <1>1, <1>3, <1>9
<1> USE DEF IInv
<1>12. TaskTypeOK'
  BY <1>5, <1>6, <1>11 DEF TaskTypeOK
<1>13. IsFiniteSet(Begun)'
  BY <1>11 DEF Begun
<1>14. OnePlace'
  <2>1. Queued' = Queued \ (P \cup {t})
    BY <1>6, <1>7
  <2>2. Submitted' = Submitted
    BY <1>11 DEF Submitted
  <2>3. QED
    BY <1>5, <1>6, <1>8, <1>9, <1>11, <2>1, <2>2 DEF OnePlace, Done
<1>15. OneRuns'
  BY <1>11, FS_Singleton DEF OneRuns
<1>16. Fifo'
  BY <1>5, <1>6, <1>10, <1>11 DEF Fifo, Done
<1>17. Reasons'
  BY <1>5, <1>11 DEF Reasons, Done
<1>18. StepsInOrder'
  BY <1>10, <1>11 DEF StepsInOrder, Done
<1>19. QED
  BY <1>12, <1>13, <1>14, <1>15, <1>16, <1>17, <1>18

\* A pass over the queue that only takes tasks off it.
LEMMA StartNothingKeeps ==
    ASSUME IInv, StartNothing
    PROVE  IInv'
<1>1. PICK k \in 1 .. Len(queue) :
          /\ PassOver(k)
          /\ queue' = SubSeq(queue, k + 1, Len(queue))
          /\ UNCHANGED <<submitted, sem, running, raised, task_done, started, lost, restarts>>
  BY DEF StartNothing
<1>2. k \in 0 .. Len(queue)
  BY DEF IInv, TaskTypeOK
<1>3. PICK P : P = {queue[i] : i \in 1 .. k}
  OBVIOUS
<1>4. /\ P \subseteq Queued
      /\ P \subseteq Tasks
      /\ passed' = passed \cup P
      /\ \A v \in P : \A u \in Tasks :
            u.run = v.run /\ u.step < v.step => u \in Done \cup passed \cup P
      /\ \A v \in P : /\ Depends(v)
                      /\ Dependency(v) \in Done
                      /\ task_done[Dependency(v)] # 0
  BY <1>1, <1>2, <1>3, PassedInOrder
<1>5. /\ queue' \in Seq(Tasks)
      /\ Queued' = Queued \ P
      /\ \A i, m \in 1 .. Len(queue') : queue'[i] = queue'[m] => i = m
      /\ \A i, m \in 1 .. Len(queue') :
            queue'[i].run = queue'[m].run /\ queue'[i].step < queue'[m].step => i < m
  BY <1>1, <1>2, <1>3, RestInOrder
<1>6. /\ running' = running /\ sem' = sem /\ started' = started /\ raised' = raised
      /\ submitted' = submitted /\ task_done' = task_done /\ lost' = lost
  BY <1>1
<1> USE DEF IInv
<1>7. TaskTypeOK'
  BY <1>4, <1>5, <1>6 DEF TaskTypeOK
<1>8. OnePlace'
  BY <1>4, <1>5, <1>6 DEF OnePlace, Done, Submitted
<1>9. Fifo'
  BY <1>4, <1>5, <1>6 DEF Fifo, Done
<1>10. Reasons'
  BY <1>4, <1>6 DEF Reasons, Done
<1>11. QED
  BY <1>6, <1>7, <1>8, <1>9, <1>10 DEF Begun, OneRuns, StepsInOrder, Done

\* A task ends and its return code is recorded.
LEMMA EndTaskKeeps ==
    ASSUME IInv, NEW t \in Tasks, EndTask(t)
    PROVE  IInv'
<1> USE DEF IInv
<1>1. PICK c \in Codes : task_done' = [u \in DOMAIN task_done \cup {t} |->
                                          IF u = t THEN c ELSE task_done[u]]
  BY DEF EndTask
<1>2. /\ t \in running /\ t \notin raised
      /\ running' = running \ {t} /\ sem' = sem - 1
      /\ queue' = queue /\ submitted' = submitted /\ raised' = raised
      /\ started' = started /\ passed' = passed /\ lost' = lost
  BY DEF EndTask, taskHistoryVars
<1>3. /\ Done' = Done \cup {t}
      /\ \A u \in Done : task_done'[u] = task_done[u]
      /\ task_done'[t] = c /\ t \notin Done
  BY <1>1, <1>2 DEF Done, OnePlace
<1>4. Cardinality(running') = Cardinality(running) - 1 /\ IsFiniteSet(running')
  BY <1>2, FS_RemoveElement DEF OneRuns
<1>5. sem' \in 0 .. 1
  <2>1. sem # 0
    BY <1>2, FS_EmptySet DEF OneRuns
  <2>2. QED
    BY <1>2, <2>1 DEF TaskTypeOK
<1>6. TaskTypeOK'
  <2>1. \A u \in Done' : task_done'[u] \in Codes
    BY <1>1, <1>3 DEF TaskTypeOK, Done
  <2>2. QED
    BY <1>2, <1>3, <1>5, <2>1 DEF TaskTypeOK, Done
<1>7. OnePlace'
  <2>1. Queued' = Queued /\ Submitted' = Submitted
    BY <1>2 DEF Queued, Submitted
  <2>2. QED
    BY <1>2, <1>3, <2>1 DEF OnePlace
<1>8. OneRuns'
  BY <1>2, <1>4 DEF OneRuns
<1>9. Fifo'
  BY <1>2, <1>3 DEF Fifo
<1>10. Reasons'
  BY <1>2, <1>3 DEF Reasons
<1>11. StepsInOrder'
  <2> SUFFICES ASSUME NEW v \in started
               PROVE  /\ \A u \in Tasks : u.run = v.run /\ u.step < v.step => u \in Done'
                      /\ Depends(v) => task_done'[Dependency(v)] = 0
    BY <1>2 DEF StepsInOrder, Done
  <2>1. v \in Tasks /\ \A u \in Tasks : u.run = v.run /\ u.step < v.step => u \in Done
    BY DEF TaskTypeOK, StepsInOrder, Done
  <2>2. Depends(v) => Dependency(v) \in Done /\ task_done[Dependency(v)] = 0
    BY <2>1, DependencyIs DEF StepsInOrder, Done
  <2>3. QED
    BY <1>3, <2>1, <2>2
<1>12. QED
  BY <1>2, <1>6, <1>7, <1>8, <1>9, <1>10, <1>11 DEF Begun

\* A thread dies and leaves its task in _tasks.
LEMMA RunRaisesKeeps ==
    ASSUME IInv, NEW t \in Tasks, RunRaises(t)
    PROVE  IInv'
<1> USE DEF IInv
<1>1. /\ raised' = raised \cup {t} /\ t \in running
      /\ running' = running /\ sem' = sem /\ task_done' = task_done
      /\ queue' = queue /\ submitted' = submitted
      /\ started' = started /\ passed' = passed /\ lost' = lost
  BY DEF RunRaises, taskHistoryVars
<1>2. TaskTypeOK'
  BY <1>1 DEF TaskTypeOK
<1>3. OnePlace' /\ OneRuns' /\ Fifo' /\ Reasons' /\ StepsInOrder'
  BY <1>1 DEF OnePlace, OneRuns, Fifo, Reasons, StepsInOrder, Done, Queued, Submitted
<1>4. QED
  BY <1>1, <1>2, <1>3 DEF Begun

\* A restart loses what is queued or running, and the steps of the runs begun that
\* are not submitted yet.
LEMMA RestartKeeps ==
    ASSUME IInv, Restart
    PROVE  IInv'
<1> USE DEF IInv
<1>1. PICK rest \in SUBSET Tasks : rest = {t \in Tasks : submitted[t.run] \in 1 .. t.step}
  OBVIOUS
<1>2. /\ lost' = lost \cup running \cup Queued \cup rest
      /\ submitted' = [r \in Runs |-> IF submitted[r] = 0 THEN 0 ELSE LastStep(r) + 1]
      /\ queue' = <<>> /\ sem' = 0 /\ running' = {} /\ raised' = {}
      /\ task_done' = task_done /\ started' = started /\ passed' = passed
  BY <1>1 DEF Restart, Queued
<1>3. Queued' = {} /\ queue' \in Seq(Tasks) /\ Len(queue') = 0
  BY <1>2 DEF Queued
<1>4. \A t \in Tasks : /\ submitted[t.run] \in Nat /\ t.step \in Nat
                       /\ submitted'[t.run] = IF submitted[t.run] = 0 THEN 0 ELSE LastStep(t.run) + 1
  BY <1>2, TasksAre DEF TaskTypeOK
<1>5. Submitted' = Submitted \cup rest /\ Submitted \cap rest = {}
  <2>1. ASSUME NEW t \in Tasks
        PROVE  /\ t.step < submitted'[t.run] <=> t.step < submitted[t.run] \/ t \in rest
               /\ ~(t.step < submitted[t.run] /\ t \in rest)
    BY <1>1, <1>4, TasksAre
  <2>2. QED
    BY <2>1 DEF Submitted
<1>6. TaskTypeOK'
  <2>1. submitted' \in [Runs -> Nat]
    BY <1>2, TasksAre DEF TaskTypeOK
  <2>2. lost' \subseteq Tasks
    BY <1>1, <1>2 DEF TaskTypeOK, OnePlace, Submitted
  <2>3. QED
    BY <1>2, <1>3, <2>1, <2>2 DEF TaskTypeOK
<1>7. IsFiniteSet(Begun)'
  <2>1. Begun' = Begun
    BY <1>2, TasksAre DEF TaskTypeOK, Begun
  <2>2. QED
    BY <2>1
<1>8. OnePlace'
  BY <1>2, <1>3, <1>5 DEF OnePlace, Done
<1>9. OneRuns'
  BY <1>2, FS_EmptySet DEF OneRuns
<1>10. Fifo'
  <2>1. ASSUME NEW t \in lost', NEW u \in Tasks, u.run = t.run, t.step < u.step
        PROVE  u \in lost'
    <3>1. t \in Tasks /\ t.step \in Nat /\ u.step \in Nat
      BY <1>6, TasksAre DEF TaskTypeOK
    <3>2. CASE t \in lost
      BY <1>2, <2>1, <3>2 DEF Fifo
    <3>3. CASE t \in rest
      BY <1>1, <1>2, <1>4, <2>1, <3>1, <3>3
    <3>4. CASE t \in running \cup Queued
      <4>1. t \notin Done \cup passed /\ t \in Submitted
        BY <3>4 DEF OnePlace
      <4>2. u \notin running \cup Done \cup passed
        BY <2>1, <3>1, <4>1 DEF Fifo
      <4>3. CASE u \in Submitted
        BY <1>2, <4>2, <4>3 DEF OnePlace
      <4>4. CASE u \notin Submitted
        <5>1. submitted[u.run] \in 1 .. u.step
          BY <1>4, <2>1, <3>1, <4>1, <4>4 DEF Submitted
        <5>2. QED
          BY <1>1, <1>2, <5>1
      <4>5. QED
        BY <4>3, <4>4
    <3>5. QED
      BY <1>2, <3>2, <3>3, <3>4
  <2>2. QED
    BY <1>2, <1>3, <2>1 DEF Fifo, Done
<1>11. Reasons' /\ StepsInOrder'
  BY <1>2 DEF Reasons, StepsInOrder, Done
<1>12. QED
  BY <1>6, <1>7, <1>8, <1>9, <1>10, <1>11

LEMMA Invariant == TaskSpec => []IInv
<1>1. TaskInit => IInv
  <2> SUFFICES ASSUME TaskInit
               PROVE  IInv
    OBVIOUS
  <2>1. /\ queue = <<>> /\ queue \in Seq(Tasks) /\ Len(queue) = 0 /\ Queued = {}
        /\ Done = {} /\ running = {} /\ raised = {} /\ sem = 0
        /\ started = {} /\ passed = {} /\ lost = {}
    BY DEF TaskInit, Queued, Done
  <2>2. submitted \in [Runs -> Nat] /\ \A t \in Tasks : submitted[t.run] = 0 /\ t.step \in Nat
    BY TasksAre DEF TaskInit
  <2>3. Begun = {} /\ Submitted = {}
    BY <2>2 DEF TaskInit, Begun, Submitted
  <2>4. TaskTypeOK
    BY <2>1, <2>2 DEF TaskTypeOK, Done
  <2>5. OnePlace /\ OneRuns /\ Fifo /\ Reasons /\ StepsInOrder
    BY <2>1, <2>3, FS_EmptySet DEF OnePlace, OneRuns, Fifo, Reasons, StepsInOrder
  <2>6. QED
    BY <2>3, <2>4, <2>5, FS_EmptySet DEF IInv
<1>2. IInv /\ [TaskNext]_taskVars => IInv'
  <2> SUFFICES ASSUME IInv, [TaskNext]_taskVars
               PROVE  IInv'
    OBVIOUS
  <2>1. ASSUME NEW r \in Runs, Submit(r)
        PROVE  IInv'
    BY <2>1, SubmitKeeps
  <2>2. CASE CheckNewTask
    BY <2>2, StartTaskKeeps, StartNothingKeeps DEF CheckNewTask
  <2>3. ASSUME NEW t \in Tasks, EndTask(t) \/ RunRaises(t)
        PROVE  IInv'
    BY <2>3, EndTaskKeeps, RunRaisesKeeps
  <2>4. CASE Restart
    BY <2>4, RestartKeeps
  <2>5. CASE UNCHANGED taskVars
    BY <2>5 DEF taskVars, taskHistoryVars, IInv, TaskTypeOK, OnePlace, OneRuns, Fifo, Reasons,
                StepsInOrder,
       Done, Begun, Queued, Submitted
  <2>6. QED
    BY <2>1, <2>2, <2>3, <2>4, <2>5 DEF TaskNext, Idle
<1>3. QED
  BY <1>1, <1>2, PTL DEF TaskSpec

-----------------------------------------------------------------------------
(* Counting the tasks.                                                     *)

\* Finitely many tasks are submitted at any time, even of infinitely many runs.
LEMMA SubmittedIsFinite ==
    ASSUME TaskTypeOK, IsFiniteSet(Begun)
    PROVE  IsFiniteSet(Submitted)
<1> DEFINE Of(r) == {[run |-> r, step |-> s] : s \in 0 .. LastStep(r)}
           all == {Of(r) : r \in Begun}
           f == [r \in Begun |-> Of(r)]
<1>1. IsFiniteSet(all)
  <2>1. f \in Surjection(Begun, all)
    BY DEF Surjection
  <2>2. QED
    BY <2>1, FS_Surjection
<1>2. ASSUME NEW r \in Begun
      PROVE  IsFiniteSet(Of(r))
  <2> DEFINE g == [s \in 0 .. LastStep(r) |-> [run |-> r, step |-> s]]
  <2>1. g \in Surjection(0 .. LastStep(r), Of(r))
    BY DEF Surjection
  <2>2. LastStep(r) \in Int /\ 0 \in Int
    BY TasksAre DEF Begun
  <2>3. IsFiniteSet(0 .. LastStep(r))
    BY <2>2, FS_Interval
  <2>4. QED
    BY <2>1, <2>3, FS_Surjection
<1>3. IsFiniteSet(UNION all)
  BY <1>1, <1>2, FS_UNION
<1>4. ASSUME NEW t \in Submitted
      PROVE  t \in UNION all
  <2>1. /\ t \in Tasks /\ t.run \in Runs /\ t.step \in 0 .. LastStep(t.run)
        /\ t = [run |-> t.run, step |-> t.step]
    BY TasksAre DEF Submitted
  <2>2. t.run \in Begun
    BY <2>1 DEF Submitted, Begun, TaskTypeOK
  <2>3. t \in Of(t.run)
    BY <2>1
  <2>4. QED
    BY <2>2, <2>3
<1>5. QED
  BY <1>3, <1>4, FS_Subset

\* Disjoint finite sets add up.
LEMMA DisjointUnion ==
    ASSUME NEW S, NEW T, IsFiniteSet(S), IsFiniteSet(T), S \cap T = {}
    PROVE  /\ IsFiniteSet(S \cup T)
           /\ Cardinality(S \cup T) = Cardinality(S) + Cardinality(T)
<1>1. Cardinality(S) \in Nat /\ Cardinality(T) \in Nat
  BY FS_CardinalityType
<1>2. /\ IsFiniteSet(S \cup T)
      /\ Cardinality(S \cup T) = Cardinality(S) + Cardinality(T) - Cardinality(S \cap T)
  BY FS_Union
<1>3. QED
  BY <1>1, <1>2, FS_EmptySet

\* No task is queued twice, so the queue is as long as its tasks are many.
LEMMA QueueLength ==
    ASSUME queue \in Seq(Tasks), \A i, k \in 1 .. Len(queue) : queue[i] = queue[k] => i = k
    PROVE  IsFiniteSet(Queued) /\ Cardinality(Queued) = Len(queue)
<1> DEFINE f == [i \in 1 .. Len(queue) |-> queue[i]]
<1>1. f \in [1 .. Len(queue) -> Queued] /\ \A i \in 1 .. Len(queue) : f[i] = queue[i]
  BY DEF Queued
<1> HIDE DEF f
<1>2. ExistsBijection(1 .. Len(queue), Queued)
  <2>1. \A t \in Queued : \E i \in 1 .. Len(queue) : f[i] = t
    BY <1>1 DEF Queued
  <2>2. \A i, k \in 1 .. Len(queue) : f[i] = f[k] => i = k
    BY <1>1
  <2>3. f \in Surjection(1 .. Len(queue), Queued) /\ f \in Injection(1 .. Len(queue), Queued)
    BY <1>1, <2>1, <2>2 DEF Surjection, Injection, IsInjective
  <2>4. QED
    BY <2>3 DEF ExistsBijection, Bijection
<1>3. Len(queue) \in Nat /\ Len(queue) \in Int /\ 1 \in Int
  OBVIOUS
<1>4. IsFiniteSet(1 .. Len(queue)) /\ Cardinality(1 .. Len(queue)) = Len(queue)
  <2>1. /\ IsFiniteSet(1 .. Len(queue))
        /\ Cardinality(1 .. Len(queue))
               = IF 1 > Len(queue) THEN 0 ELSE Len(queue) - 1 + 1
    BY <1>3, FS_Interval
  <2>2. QED
    BY <1>3, <2>1
<1>5. QED
  BY <1>2, <1>4, FS_Bijection

-----------------------------------------------------------------------------
(* The theorems.                                                           *)

\* Type correctness; that _sem is 0 or 1 needs the whole invariant.
THEOREM TypeCorrect == TaskSpec => []TaskTypeOK
<1>1. IInv => TaskTypeOK
  BY DEF IInv
<1>2. QED
  BY <1>1, Invariant, PTL

\* No task is run twice and none disappears but those a restart loses: however
\* submissions, passes over the queue, failures and restarts mix, each submitted task
\* is in one place, the places add up to what was submitted, and one task at most runs.
THEOREM TasksCorrect == TaskSpec => []TasksConserved
<1>1. IInv => TasksConserved
  <2> SUFFICES ASSUME IInv
               PROVE  TasksConserved
    OBVIOUS
  <2> USE DEF IInv
  <2>1. IsFiniteSet(Submitted)
    BY SubmittedIsFinite
  <2>2. IsFiniteSet(Queued) /\ Cardinality(Queued) = Len(queue)
    BY QueueLength DEF TaskTypeOK, OnePlace
  <2>3. /\ IsFiniteSet(running) /\ IsFiniteSet(Done) /\ IsFiniteSet(passed) /\ IsFiniteSet(lost)
    <3>1. running \subseteq Submitted /\ Done \subseteq Submitted
      BY DEF OnePlace
    <3>2. passed \subseteq Submitted /\ lost \subseteq Submitted
      BY DEF OnePlace
    <3>3. QED
      BY <2>1, <3>1, <3>2, FS_Subset
  <2>4. /\ IsFiniteSet(Queued \cup running)
        /\ Cardinality(Queued \cup running) = Len(queue) + Cardinality(running)
    BY <2>2, <2>3, DisjointUnion DEF OnePlace
  <2>5. /\ IsFiniteSet(Queued \cup running \cup Done)
        /\ Cardinality(Queued \cup running \cup Done)
              = Len(queue) + Cardinality(running) + Cardinality(Done)
    <3>1. (Queued \cup running) \cap Done = {}
      BY DEF OnePlace
    <3>2. QED
      BY <2>3, <2>4, <3>1, DisjointUnion
  <2>6. /\ IsFiniteSet(Queued \cup running \cup Done \cup passed)
        /\ Cardinality(Queued \cup running \cup Done \cup passed)
              = Len(queue) + Cardinality(running) + Cardinality(Done) + Cardinality(passed)
    <3>1. (Queued \cup running \cup Done) \cap passed = {}
      BY DEF OnePlace
    <3>2. QED
      BY <2>3, <2>5, <3>1, DisjointUnion
  <2>7. Cardinality(Queued \cup running \cup Done \cup passed \cup lost)
            = Len(queue) + Cardinality(running) + Cardinality(Done) + Cardinality(passed)
                  + Cardinality(lost)
    <3>1. (Queued \cup running \cup Done \cup passed) \cap lost = {}
      BY DEF OnePlace
    <3>2. QED
      BY <2>3, <2>6, <3>1, DisjointUnion
  <2>8. Submitted = Queued \cup running \cup Done \cup passed \cup lost
    BY DEF OnePlace
  <2>9. sem = Cardinality(running) /\ sem <= 1
    BY DEF OneRuns, TaskTypeOK
  <2>10. QED
    BY <2>7, <2>8, <2>9 DEF TasksConserved, Done
<1>2. QED
  BY <1>1, Invariant, PTL

\* A task of a run is never started before every earlier step of the run has ended
\* and the one it depends on has succeeded.
THEOREM OrderCorrect == TaskSpec => []StepsInOrder
<1>1. IInv => StepsInOrder
  BY DEF IInv
<1>2. QED
  BY <1>1, Invariant, PTL

=============================================================================
