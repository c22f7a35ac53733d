------------------------- MODULE WorkerPoolProofs -------------------------
(***************************************************************************)
(* The counters and the queue of the worker pool, for every number of      *)
(* workers, jobs, crashes and every capacity of the queue.                 *)
(***************************************************************************)
EXTENDS WorkerPool, FiniteSetTheorems, TLAPS

-----------------------------------------------------------------------------
(* Counting the workers at a set of labels when one of them moves.         *)

Bit(b) == IF b THEN 1 ELSE 0

\* A set of workers is finite.
LEMMA WorkersAt ==
    ASSUME NEW f, NEW L
    PROVE  /\ IsFiniteSet(At(f, L))
           /\ Cardinality(At(f, L)) \in Nat
BY PoolAssumption, FS_Subset, FS_CardinalityType DEF At

\* When w goes to label l the workers at the labels L change by w alone.
LEMMA WorkerMoves ==
    ASSUME NEW f \in [Workers -> WorkerPcs],
           NEW w \in Workers, NEW l \in WorkerPcs, NEW L
    PROVE  Cardinality(At([f EXCEPT ![w] = l], L))
               = Cardinality(At(f, L)) + Bit(l \in L) - Bit(f[w] \in L)
<1> DEFINE g == [f EXCEPT ![w] = l]
<1>1. /\ IsFiniteSet(At(f, L)) /\ Cardinality(At(f, L)) \in Nat
      /\ IsFiniteSet(At(g, L)) /\ Cardinality(At(g, L)) \in Nat
  BY WorkersAt
<1>2. CASE l \in L /\ f[w] \in L
  <2>1. At(g, L) = At(f, L)
    BY <1>2 DEF At
  <2>2. QED
    BY <1>1, <1>2, <2>1 DEF Bit
<1>3. CASE l \in L /\ f[w] \notin L
  <2>1. At(g, L) = At(f, L) \cup {w} /\ w \notin At(f, L)
    BY <1>3 DEF At
  <2>2. Cardinality(At(g, L)) = Cardinality(At(f, L)) + 1
    BY <1>1, <2>1, FS_AddElement
  <2>3. QED
    BY <1>1, <1>3, <2>2 DEF Bit
<1>4. CASE l \notin L /\ f[w] \in L
  <2>1. At(g, L) = At(f, L) \ {w} /\ w \in At(f, L)
    BY <1>4 DEF At
  <2>2. Cardinality(At(g, L)) = Cardinality(At(f, L)) - 1
    BY <1>1, <2>1, FS_RemoveElement
  <2>3. QED
    BY <1>1, <1>4, <2>2 DEF Bit
<1>5. CASE l \notin L /\ f[w] \notin L
  <2>1. At(g, L) = At(f, L)
    BY <1>5 DEF At
  <2>2. QED
    BY <1>1, <1>5, <2>1 DEF Bit
<1>6. QED
  BY <1>2, <1>3, <1>4, <1>5

-----------------------------------------------------------------------------
(* Type correctness.                                                       *)

\* The end of a job keeps the types of fate and job.
LEMMA DischargeType ==
    ASSUME PoolTypeOK, NEW w \in Workers, NEW f \in Fates, Discharge(w, f)
    PROVE  /\ fate' \in [Jobs -> Fates]
           /\ job' \in [Workers -> Jobs \cup {NoJob}]
BY DEF PoolTypeOK, Discharge

\* Every variable of the pool keeps its range: in particular the counters stay
\* numbers, completed_job_count and initialized_count natural ones.
THEOREM TypeCorrect == PoolSpec => []PoolTypeOK
<1>1. PoolInit => PoolTypeOK
  <2> SUFFICES ASSUME PoolInit
               PROVE  PoolTypeOK
    OBVIOUS
  <2>1. rows \in Seq(Jobs) /\ inserted \in 0 .. NJobs /\ crashes \in 0 .. MaxCrashes
    BY PoolAssumption DEF PoolInit
  <2>2. /\ pc \in [Workers -> WorkerPcs]
        /\ job \in [Workers -> Jobs \cup {NoJob}]
        /\ arg \in [Workers -> {"UNDEFINED", "PARSE", "BULK"}]
        /\ fate \in [Jobs -> Fates]
    BY DEF PoolInit, WorkerPcs, Fates
  <2>3. no_more_jobs \in BOOLEAN /\ stop \in BOOLEAN /\ db_file \in BOOLEAN
    BY DEF PoolInit
  <2>4. /\ job_type \in {"UNDEFINED", "PARSE", "BULK"}
        /\ mainPc \in MainPcs
        /\ job_count \in Int /\ busy_count \in Int
        /\ initialized_count \in Nat /\ completed_job_count \in Nat /\ idleReaps \in Nat
    BY DEF PoolInit, MainPcs
  <2>5. QED
    BY <2>1, <2>2, <2>3, <2>4 DEF PoolTypeOK
<1>2. PoolTypeOK /\ [PoolNext]_poolVars => PoolTypeOK'
  <2> SUFFICES ASSUME PoolTypeOK, [PoolNext]_poolVars
               PROVE  PoolTypeOK'
    OBVIOUS
  <2> USE PoolAssumption DEF PoolTypeOK, Jobs, NoJob, Fates, MainPcs, WorkerPcs, Goto,
        shmVars, dbVars, mainVars, workerVars, poolHistoryVars
  <2>1. CASE Main
    <3>1. CASE PoolStarted    BY <3>1 DEF PoolStarted
    <3>2. CASE InsertJob      BY <3>2 DEF InsertJob
    <3>3. CASE CountJob       BY <3>3 DEF CountJob
    <3>4. CASE BeginWait      BY <3>4 DEF BeginWait
    <3>5. CASE CheckJobCount  BY <3>5 DEF CheckJobCount
    <3>6. CASE CheckBusyCount BY <3>6 DEF CheckBusyCount
    <3>7. CASE CloseDatabase  BY <3>7 DEF CloseDatabase
    <3>8. CASE JoinWorkers    BY <3>8 DEF JoinWorkers
    <3>9. QED
      BY <2>1, <3>1, <3>2, <3>3, <3>4, <3>5, <3>6, <3>7, <3>8 DEF Main
  <2>2. ASSUME NEW w \in Workers, Worker(w)
        PROVE  PoolTypeOK'
    <3>1. CASE WorkerProcInit(w)    BY <3>1 DEF WorkerProcInit
    <3>2. CASE WorkerInitialized(w) BY <3>2 DEF WorkerInitialized
    <3>3. CASE LoopTop(w)           BY <3>3 DEF LoopTop
    <3>4. CASE CallGetWork(w)       BY <3>4 DEF CallGetWork
    <3>5. CASE AwaitWork(w)         BY <3>5 DEF AwaitWork
    <3>6. CASE PopJob(w)
      <4>1. CASE HasRow(w)
        <5>1. Head(rows) \in Jobs /\ Tail(rows) \in Seq(Jobs)
          BY <4>1 DEF HasRow
        <5>2. job' \in [Workers -> Jobs \cup {NoJob}] /\ rows' \in Seq(Jobs)
          <6>1. job' = [job EXCEPT ![w] = Head(rows)] /\ rows' = Tail(rows)
            BY <3>6, <4>1 DEF PopJob
          <6>2. QED
            BY <5>1, <6>1
        <5>3. QED
          BY <3>6, <4>1, <5>2 DEF PopJob
      <4>2. CASE ~HasRow(w)
        BY <3>6, <4>2 DEF PopJob
      <4>3. QED
        BY <4>1, <4>2
    <3>7. CASE DiscountJob(w)       BY <3>7 DEF DiscountJob
    <3>8. CASE TestStop(w)          BY <3>8, DischargeType DEF TestStop
    <3>9. CASE ClaimJob(w)          BY <3>9 DEF ClaimJob
    <3>10. CASE RunJob(w)           BY <3>10, DischargeType DEF RunJob
    <3>11. CASE SignalIdle(w)       BY <3>11 DEF SignalIdle, WakeMain
    <3>12. CASE WorkerExit(w)       BY <3>12 DEF WorkerExit, WakeMain
    <3>13. CASE ReapKilled(w)       BY <3>13 DEF ReapKilled, DeadPcs, Fork
    <3>14. CASE ReapExited(w)       BY <3>14 DEF ReapExited
    <3>15. QED
      BY <2>2, <3>1, <3>2, <3>3, <3>4, <3>5, <3>6, <3>7, <3>8, <3>9, <3>10,
         <3>11, <3>12, <3>13, <3>14 DEF Worker
  <2>3. ASSUME NEW w \in Workers, Crash(w)
        PROVE  PoolTypeOK'
    <3>1. CASE CrashInJob(w)  BY <3>1, DischargeType DEF CrashInJob
    <3>2. CASE CrashInInit(w) BY <3>2 DEF CrashInInit
    <3>3. CASE CrashInCleanup(w) BY <3>3 DEF CrashInCleanup
    <3>4. QED
      BY <2>3, <3>1, <3>2, <3>3 DEF Crash
  <2>4. CASE UNCHANGED poolVars
    BY <2>4 DEF poolVars
  <2>5. QED
    BY <2>1, <2>2, <2>3, <2>4 DEF PoolNext, Stutter
<1>3. QED
  BY <1>1, <1>2, PTL DEF PoolSpec

-----------------------------------------------------------------------------
(* The two counters.                                                       *)

\* The counts are numbers.
LEMMA CountsAreNat ==
    /\ Cardinality(Undiscounted) \in Nat
    /\ Cardinality(Busy) \in Nat
BY WorkersAt DEF Undiscounted, Busy

\* What a move of worker w to label l does to the sets the counters count.
LEMMA CountsMove ==
    ASSUME PoolTypeOK, NEW w \in Workers, NEW l \in WorkerPcs, Goto(w, l)
    PROVE  /\ Cardinality(Undiscounted')
                  = Cardinality(Undiscounted) + Bit(l = "popped") - Bit(pc[w] = "popped")
           /\ Cardinality(Busy')
                  = Cardinality(Busy) + Bit(l \in {"run", "killed"})
                                      - Bit(pc[w] \in {"run", "killed"})
<1>1. pc \in [Workers -> WorkerPcs]
  BY DEF PoolTypeOK
<1>2. /\ Undiscounted' = At([pc EXCEPT ![w] = l], {"popped"})
      /\ Busy' = At([pc EXCEPT ![w] = l], {"run", "killed"})
  BY DEF Goto, Undiscounted, Busy, At
<1>3. Cardinality(At([pc EXCEPT ![w] = l], {"popped"}))
        = Cardinality(At(pc, {"popped"})) + Bit(l \in {"popped"}) - Bit(pc[w] \in {"popped"})
  BY <1>1, WorkerMoves
<1>4. Cardinality(At([pc EXCEPT ![w] = l], {"run", "killed"}))
        = Cardinality(At(pc, {"run", "killed"})) + Bit(l \in {"run", "killed"})
              - Bit(pc[w] \in {"run", "killed"})
  BY <1>1, WorkerMoves
<1>5. QED
  BY <1>2, <1>3, <1>4 DEF Undiscounted, Busy, Bit

Counters == JobCountExact /\ BusyCountExact

\* Main keeps the counters exact.
LEMMA MainKeepsCounters ==
    ASSUME PoolTypeOK, Counters, Main
    PROVE  Counters'
<1> USE DEF PoolTypeOK, workerVars
<1>1. Cardinality(Undiscounted) \in Nat /\ Cardinality(Busy) \in Nat
  BY CountsAreNat
<1>2. pc' = pc => Undiscounted' = Undiscounted /\ Busy' = Busy
  BY DEF Undiscounted, Busy, At
<1>3. BusyCountExact'
  <2>1. busy_count' = busy_count /\ idleReaps' = idleReaps /\ pc' = pc
    BY DEF Main, PoolStarted, InsertJob, CountJob, BeginWait, CheckJobCount,
           CheckBusyCount, CloseDatabase, JoinWorkers, shmVars, poolHistoryVars
  <2>2. QED
    BY <1>2, <2>1 DEF Counters, BusyCountExact
<1>4. JobCountExact'
  <2> USE <1>1, <1>2 DEF Counters, JobCountExact
  <2>1. CASE InsertJob
    <3>1. Len(rows') = Len(rows) + 1
      BY <2>1, PoolAssumption DEF InsertJob, Jobs
    <3>2. QED
      BY <2>1, <3>1 DEF InsertJob
  <2>2. CASE CountJob
    BY <2>2 DEF CountJob, dbVars
  <2>3. CASE ~InsertJob /\ ~CountJob
    <3>1. /\ job_count' = job_count /\ rows' = rows /\ pc' = pc
          /\ mainPc # "count" /\ mainPc' # "count"
      BY <2>3 DEF Main, PoolStarted, BeginWait, CheckJobCount,
           CheckBusyCount, CloseDatabase, JoinWorkers, shmVars, dbVars
    <3>2. QED
      BY <3>1
  <2>4. QED
    BY <2>1, <2>2, <2>3
<1>5. QED
  BY <1>3, <1>4 DEF Counters

\* A worker, its crash and its reaping keep the counters exact.
LEMMA WorkerKeepsCounters ==
    ASSUME PoolTypeOK, Counters, NEW w \in Workers, Worker(w) \/ Crash(w)
    PROVE  Counters'
<1>1. /\ Cardinality(Undiscounted) \in Nat /\ Cardinality(Busy) \in Nat
      /\ job_count \in Int /\ busy_count \in Int /\ idleReaps \in Nat
      /\ Len(rows) \in Nat
  BY CountsAreNat DEF PoolTypeOK
<1>2. ASSUME NEW l \in WorkerPcs, Goto(w, l),
             l \notin {"popped", "run", "killed"},
             pc[w] \notin {"popped", "run", "killed"},
             mainPc' = mainPc \/ (mainPc # "count" /\ mainPc' # "count"),
             job_count' = job_count, rows' = rows,
             busy_count' = busy_count, idleReaps' = idleReaps
      PROVE  Counters'
  BY <1>1, <1>2, CountsMove DEF Counters, JobCountExact, BusyCountExact, Bit
<1> USE <1>1 DEF shmVars, dbVars, mainVars, poolHistoryVars, Counters, Bit
<1>3. CASE WorkerProcInit(w)
  BY <1>2, <1>3 DEF WorkerProcInit, WorkerPcs
<1>4. CASE WorkerInitialized(w)
  BY <1>2, <1>4 DEF WorkerInitialized, WorkerPcs
<1>5. CASE LoopTop(w)
  BY <1>2, <1>5 DEF LoopTop, WorkerPcs
<1>6. CASE CallGetWork(w)
  BY <1>2, <1>6 DEF CallGetWork, WorkerPcs
<1>7. CASE AwaitWork(w)
  BY <1>2, <1>7 DEF AwaitWork, WorkerPcs
<1>8. CASE PopJob(w)
  <2>1. CASE HasRow(w)
    <3>1. Goto(w, "popped") /\ pc[w] = "pop" /\ rows' = Tail(rows) /\ rows # <<>>
      BY <1>8, <2>1 DEF PopJob, HasRow
    <3>2. Len(rows') = Len(rows) - 1
      BY <3>1 DEF PoolTypeOK
    <3>3. /\ Cardinality(Undiscounted') = Cardinality(Undiscounted) + 1
          /\ Cardinality(Busy') = Cardinality(Busy)
      BY <3>1, CountsMove DEF WorkerPcs
    <3>4. /\ mainPc' = mainPc /\ job_count' = job_count
          /\ busy_count' = busy_count /\ idleReaps' = idleReaps
      BY <1>8 DEF PopJob, poolHistoryVars
    <3>5. QED
      BY <3>2, <3>3, <3>4 DEF JobCountExact, BusyCountExact
  <2>2. CASE ~HasRow(w)
    BY <1>2, <1>8, <2>2 DEF PopJob, WorkerPcs
  <2>3. QED
    BY <2>1, <2>2
<1>9. CASE DiscountJob(w)
  BY <1>9, CountsMove, SMTT(60) DEF DiscountJob, WorkerPcs, JobCountExact, BusyCountExact
<1>10. CASE TestStop(w)
  BY <1>2, <1>10 DEF TestStop, WorkerPcs
<1>11. CASE ClaimJob(w)
  BY <1>11, CountsMove DEF ClaimJob, WorkerPcs, JobCountExact, BusyCountExact
<1>12. CASE RunJob(w)
  BY <1>12, CountsMove DEF RunJob, WorkerPcs, JobCountExact, BusyCountExact
<1>13. CASE SignalIdle(w)
  BY <1>2, <1>13 DEF SignalIdle, WakeMain, WorkerPcs
<1>14. CASE WorkerExit(w)
  BY <1>2, <1>14 DEF WorkerExit, WakeMain, WorkerPcs
<1>15. CASE ReapKilled(w)
  BY <1>15, CountsMove DEF ReapKilled, DeadPcs, Fork, WorkerPcs, JobCountExact, BusyCountExact
<1>16. CASE ReapExited(w)
  BY <1>2, <1>16 DEF ReapExited, WorkerPcs
<1>17. CASE CrashInJob(w)
  BY <1>17, CountsMove DEF CrashInJob, WorkerPcs, JobCountExact, BusyCountExact
<1>18. CASE CrashInInit(w) \/ CrashInCleanup(w)
  BY <1>2, <1>18 DEF CrashInInit, CrashInCleanup, WorkerPcs
<1>19. QED
  BY <1>3, <1>4, <1>5, <1>6, <1>7, <1>8, <1>9, <1>10, <1>11, <1>12, <1>13,
     <1>14, <1>15, <1>16, <1>17, <1>18 DEF Worker, Crash

\* Hence the counters are exact after every step.
LEMMA CountersInvariant == PoolSpec => []Counters
<1>1. PoolInit => Counters
  <2> SUFFICES ASSUME PoolInit
               PROVE  Counters
    OBVIOUS
  <2>1. Undiscounted = {} /\ Busy = {}
    BY DEF PoolInit, Undiscounted, Busy, At
  <2>2. Cardinality(Undiscounted) = 0 /\ Cardinality(Busy) = 0
    BY <2>1, FS_EmptySet
  <2>3. QED
    BY <2>2 DEF PoolInit, Counters, JobCountExact, BusyCountExact
<1>2. PoolTypeOK /\ Counters /\ [PoolNext]_poolVars => Counters'
  <2> SUFFICES ASSUME PoolTypeOK, Counters, [PoolNext]_poolVars
               PROVE  Counters'
    OBVIOUS
  <2>1. CASE Main
    BY <2>1, MainKeepsCounters
  <2>2. ASSUME NEW w \in Workers, Worker(w) \/ Crash(w)
        PROVE  Counters'
    BY <2>2, WorkerKeepsCounters
  <2>3. CASE UNCHANGED poolVars
    BY <2>3 DEF poolVars, shmVars, dbVars, mainVars, workerVars, poolHistoryVars, Counters,
                JobCountExact, BusyCountExact, Undiscounted, Busy, At
  <2>4. QED
    BY <2>1, <2>2, <2>3 DEF PoolNext, Stutter
<1>3. QED
  BY <1>1, <1>2, TypeCorrect, PTL DEF PoolSpec

\* job_count, which is updated apart from the table, never drifts from it.
THEOREM JobCountCorrect == PoolSpec => []JobCountExact
<1>1. Counters => JobCountExact
  BY DEF Counters
<1>2. QED
  BY <1>1, CountersInvariant, PTL

\* busy_count is the number of children in a job, but for those that died
\* outside one.
THEOREM BusyCountCorrect == PoolSpec => []BusyCountExact
<1>1. Counters => BusyCountExact
  BY DEF Counters
<1>2. QED
  BY <1>1, CountersInvariant, PTL

-----------------------------------------------------------------------------
(* What holds when tpool_wait sets stop.                                   *)

\* StopIsDrained from the moment main has seen a job_count of 0 on, which is
\* what every later step of main preserves.
Drained ==
    /\ stop => mainPc \in {"destroy", "join", "done"}
    /\ mainPc \in {"spin", "destroy", "join", "done"} =>
          rows = <<>> /\ Undiscounted = {} /\ job_count = 0

\* Main sets stop only over an empty table.
LEMMA MainKeepsDrained ==
    ASSUME PoolTypeOK, Counters, Drained, Main
    PROVE  Drained'
<1> USE DEF Drained, workerVars
<1>1. pc' = pc /\ Undiscounted' = Undiscounted
  BY DEF Main, PoolStarted, InsertJob, CountJob, BeginWait, CheckJobCount,
         CheckBusyCount, CloseDatabase, JoinWorkers, Undiscounted, At
<1>2. CASE CheckJobCount
  <2>1. mainPc' = "spin" => job_count = 0 /\ mainPc = "check"
    BY <1>2 DEF CheckJobCount
  <2>2. mainPc' = "spin" => Len(rows) + Cardinality(Undiscounted) = 0
    BY <2>1 DEF Counters, JobCountExact, PoolTypeOK
  <2>3. Len(rows) \in Nat /\ Cardinality(Undiscounted) \in Nat
    BY CountsAreNat DEF PoolTypeOK
  <2>4. mainPc' = "spin" => Len(rows) = 0 /\ Cardinality(Undiscounted) = 0
    BY <2>2, <2>3
  <2>5. Cardinality(Undiscounted) = 0 => Undiscounted = {}
    BY WorkersAt, FS_EmptySet DEF Undiscounted
  <2>6. Len(rows) = 0 => rows = <<>>
    BY DEF PoolTypeOK
  <2>7. /\ mainPc' \in {"asleep", "spin"} /\ mainPc = "check"
        /\ rows' = rows /\ job_count' = job_count /\ stop' = stop
    BY <1>2 DEF CheckJobCount, shmVars, dbVars
  <2>8. QED
    BY <1>1, <2>1, <2>4, <2>5, <2>6, <2>7
<1>3. CASE ~CheckJobCount
  BY <1>1, <1>3 DEF Main, PoolStarted, InsertJob, CountJob, BeginWait,
     CheckBusyCount, CloseDatabase, JoinWorkers, shmVars, dbVars
<1>4. QED
  BY <1>2, <1>3

\* A worker does not fill the table again.
LEMMA WorkerKeepsDrained ==
    ASSUME PoolTypeOK, Drained, NEW w \in Workers, Worker(w) \/ Crash(w)
    PROVE  Drained'
<1> USE DEF Drained, Worker, Crash, WorkerProcInit, WorkerInitialized, LoopTop, CallGetWork,
      AwaitWork, PopJob, HasRow, DiscountJob, TestStop, ClaimJob, RunJob, SignalIdle,
      WorkerExit, WakeMain, ReapKilled, DeadPcs, Fork, ReapExited, CrashInJob, CrashInInit,
         CrashInCleanup,
      shmVars, dbVars, mainVars
<1>1. /\ stop' = stop
      /\ mainPc' = mainPc \/ (mainPc = "asleep" /\ mainPc' = "check")
  OBVIOUS
<1>2. ASSUME mainPc \in {"spin", "destroy", "join", "done"}
      PROVE  rows' = <<>> /\ job_count' = 0 /\ Undiscounted' = {}
  <2>1. pc[w] # "popped" /\ rows = <<>>
    BY <1>2 DEF Undiscounted, At
  <2>2. rows' = rows /\ job_count' = job_count
    BY <2>1
  <2>3. pc \in [Workers -> WorkerPcs] /\ \E l \in WorkerPcs \ {"popped"} : Goto(w, l)
    BY <2>1 DEF PoolTypeOK, WorkerPcs
  <2>4. Undiscounted' = {}
    BY <1>2, <2>3 DEF Goto, Undiscounted, At
  <2>5. QED
    BY <1>2, <2>2, <2>4
<1>3. QED
  BY <1>1, <1>2

\* Hence a stopped pool is drained after every step.
LEMMA DrainedInvariant == PoolSpec => []Drained
<1>1. PoolInit => Drained
  BY DEF PoolInit, Drained
<1>2. PoolTypeOK /\ Counters /\ Drained /\ [PoolNext]_poolVars => Drained'
  <2> SUFFICES ASSUME PoolTypeOK, Counters, Drained, [PoolNext]_poolVars
               PROVE  Drained'
    OBVIOUS
  <2>1. CASE Main
    BY <2>1, MainKeepsDrained
  <2>2. ASSUME NEW w \in Workers, Worker(w) \/ Crash(w)
        PROVE  Drained'
    BY <2>2, WorkerKeepsDrained
  <2>3. CASE UNCHANGED poolVars
    BY <2>3 DEF poolVars, shmVars, dbVars, mainVars, workerVars, Drained, Undiscounted, At
  <2>4. QED
    BY <2>1, <2>2, <2>3 DEF PoolNext, Stutter
<1>3. QED
  BY <1>1, <1>2, TypeCorrect, CountersInvariant, PTL DEF PoolSpec

\* When stop is set the table is empty and every row was discounted: no job is
\* left behind in the queue, whatever the workers were doing.
THEOREM StopCorrect == PoolSpec => []StopIsDrained
<1>1. Drained => StopIsDrained
  BY DEF Drained, StopIsDrained
<1>2. QED
  BY <1>1, DrainedInvariant, PTL

-----------------------------------------------------------------------------
(* No job is in two places, none is in no place.                           *)

\* What it is to hold a job, in terms of pc.
LEMMA HoldersAre ==
    ASSUME NEW w
    PROVE  w \in Holders <=> w \in Workers /\ pc[w] \in {"popped", "got", "claim", "run"}
BY DEF Holders, At

\* Workers change hands on a step that moves nobody in or out of Holders.
LEMMA NothingHandedOver ==
    ASSUME JobsConserved, Holders' = Holders,
           job' = job, fate' = fate, rows' = rows, inserted' = inserted
    PROVE  JobsConserved'
BY DEF JobsConserved, HeldJobs, QueuedJobs, Accounted

\* A move that neither takes a job nor ends one leaves the holders alone.
LEMMA SameHolders ==
    ASSUME PoolTypeOK, NEW w \in Workers, NEW l \in WorkerPcs, Goto(w, l),
           (l \in {"popped", "got", "claim", "run"}) <=> (w \in Holders)
    PROVE  Holders' = Holders
BY DEF PoolTypeOK, Goto, Holders, At

\* A worker's job ends with a fate.
LEMMA JobEnds ==
    ASSUME PoolTypeOK, JobsConserved, NEW w \in Holders, NEW f \in Fates \ {"none"},
           NEW l \in WorkerPcs \ {"popped", "got", "claim", "run"}, Goto(w, l),
           Discharge(w, f), rows' = rows, inserted' = inserted
    PROVE  JobsConserved'
<1>1. w \in Workers /\ job[w] \in Jobs /\ job[w] <= inserted /\ fate[job[w]] = "none"
  BY HoldersAre DEF JobsConserved, HeldJobs, PoolTypeOK
<1>2. Holders' = Holders \ {w}
  BY <1>1 DEF PoolTypeOK, Goto, Holders, At
<1>3. \A v \in Workers : job'[v] = IF v = w THEN NoJob ELSE job[v]
  BY <1>1 DEF Discharge, PoolTypeOK
<1>4. \A j \in Jobs : fate'[j] = IF j = job[w] THEN f ELSE fate[j]
  BY <1>1 DEF Discharge, PoolTypeOK
<1>5. \A v \in Holders \ {w} : v \in Workers /\ job[v] \in Jobs /\ job[v] # job[w]
  BY HoldersAre DEF JobsConserved, HeldJobs, PoolTypeOK, Jobs, NoJob
<1>6. HeldJobs'
  BY <1>1, <1>2, <1>3, <1>4, <1>5 DEF JobsConserved, HeldJobs
<1>7. QueuedJobs'
  <2>1. \A i \in 1 .. Len(rows) : rows[i] \in Jobs /\ rows[i] # job[w]
    BY DEF JobsConserved, QueuedJobs, PoolTypeOK
  <2>2. QED
    BY <1>2, <1>3, <1>4, <1>5, <2>1 DEF JobsConserved, QueuedJobs
<1>8. Accounted'
  <2> SUFFICES ASSUME NEW j \in Jobs
               PROVE  \/ fate'[j] # "none" /\ j <= inserted
                      \/ fate'[j] = "none" /\ j > inserted
                      \/ \E i \in 1 .. Len(rows) : rows[i] = j
                      \/ \E v \in Holders' : job'[v] = j
    BY DEF Accounted
  <2>1. CASE j = job[w]
    BY <1>1, <1>4, <2>1
  <2>2. CASE j # job[w]
    <3>1. fate'[j] = fate[j]
      BY <1>4, <2>2
    <3>2. ASSUME NEW v \in Holders, job[v] = j
          PROVE  v \in Holders' /\ job'[v] = j
      BY <1>2, <1>3, <1>5, <2>2, <3>2
    <3>3. QED
      BY <3>1, <3>2 DEF JobsConserved, Accounted
  <2>3. QED
    BY <2>1, <2>2
<1>9. QED
  BY <1>6, <1>7, <1>8 DEF JobsConserved

\* The oldest row is popped by worker w.
LEMMA RowIsPopped ==
    ASSUME PoolTypeOK, JobsConserved, NEW w \in Workers, w \notin Holders, rows # <<>>,
           job' = [job EXCEPT ![w] = Head(rows)], rows' = Tail(rows),
           Goto(w, "popped"), fate' = fate, inserted' = inserted
    PROVE  JobsConserved'
<1>1. Holders' = Holders \cup {w}
  BY DEF PoolTypeOK, Goto, Holders, At, WorkerPcs
<1>2. \A v \in Workers : job'[v] = IF v = w THEN rows[1] ELSE job[v]
  BY DEF PoolTypeOK
<1>3. /\ Len(rows) \in Nat /\ Len(rows) >= 1
      /\ Len(rows') = Len(rows) - 1
      /\ \A i \in 1 .. Len(rows') : rows'[i] = rows[i + 1]
      /\ \A i \in 1 .. Len(rows) : rows[i] \in Jobs
  BY DEF PoolTypeOK
<1>4. /\ rows[1] \in Jobs /\ rows[1] # NoJob
      /\ rows[1] <= inserted /\ fate[rows[1]] = "none"
      /\ \A v \in Holders : job[v] # rows[1]
      /\ \A i \in 2 .. Len(rows) : rows[1] < rows[i]
  BY <1>3 DEF JobsConserved, QueuedJobs, Jobs, NoJob
<1>5. \A v \in Holders : v \in Workers /\ v # w
  BY HoldersAre
<1>6. HeldJobs'
  <2>1. \A v \in Workers : (job'[v] # NoJob) <=> (v \in Holders')
    BY <1>1, <1>2, <1>4 DEF JobsConserved, HeldJobs
  <2>2. \A v \in Holders' : job'[v] <= inserted /\ fate[job'[v]] = "none"
    BY <1>1, <1>2, <1>4, <1>5 DEF JobsConserved, HeldJobs
  <2>3. \A u, v \in Holders' : job'[u] = job'[v] => u = v
    BY <1>1, <1>2, <1>4, <1>5 DEF JobsConserved, HeldJobs
  <2>4. QED
    BY <2>1, <2>2, <2>3 DEF HeldJobs
<1>7. QueuedJobs'
  <2> SUFFICES ASSUME NEW i \in 1 .. Len(rows')
               PROVE  /\ rows'[i] <= inserted
                      /\ fate[rows'[i]] = "none"
                      /\ \A v \in Holders' : job'[v] # rows'[i]
                      /\ \A k \in 1 .. Len(rows') : i < k => rows'[i] < rows'[k]
    BY DEF QueuedJobs
  <2>1. i + 1 \in 2 .. Len(rows) /\ rows'[i] = rows[i + 1]
    BY <1>3
  <2>2. rows[i + 1] # rows[1]
    BY <1>3, <1>4, <2>1 DEF Jobs
  <2>3. \A v \in Holders' : job'[v] # rows'[i]
    BY <1>1, <1>2, <1>5, <2>1, <2>2 DEF JobsConserved, QueuedJobs
  <2>4. \A k \in 1 .. Len(rows') : i < k => rows'[i] < rows'[k]
    BY <1>3, <2>1 DEF JobsConserved, QueuedJobs
  <2>5. QED
    BY <1>3, <2>1, <2>3, <2>4 DEF JobsConserved, QueuedJobs
<1>8. Accounted'
  <2> SUFFICES ASSUME NEW j \in Jobs
               PROVE  \/ fate[j] # "none" /\ j <= inserted
                      \/ fate[j] = "none" /\ j > inserted
                      \/ \E i \in 1 .. Len(rows') : rows'[i] = j
                      \/ \E v \in Holders' : job'[v] = j
    BY DEF Accounted
  <2>1. ASSUME NEW i \in 1 .. Len(rows), rows[i] = j
        PROVE  \/ \E k \in 1 .. Len(rows') : rows'[k] = j
               \/ \E v \in Holders' : job'[v] = j
    <3>1. CASE i = 1
      BY <1>1, <1>2, <2>1, <3>1
    <3>2. CASE i # 1
      <4>1. i - 1 \in 1 .. Len(rows') /\ rows'[i - 1] = rows[i]
        BY <1>3, <3>2
      <4>2. QED
        BY <2>1, <4>1
    <3>3. QED
      BY <3>1, <3>2
  <2>2. ASSUME NEW v \in Holders, job[v] = j
        PROVE  \E u \in Holders' : job'[u] = j
    BY <1>1, <1>2, <1>5, <2>2
  <2>3. QED
    BY <2>1, <2>2 DEF JobsConserved, Accounted
<1>9. QED
  BY <1>6, <1>7, <1>8 DEF JobsConserved

\* The row main inserts is a job that is in no other place, behind all rows.
LEMMA RowIsInserted ==
    ASSUME PoolTypeOK, JobsConserved, InsertJob
    PROVE  JobsConserved'
<1>1. /\ inserted < NJobs /\ inserted' = inserted + 1
      /\ rows' = Append(rows, inserted + 1)
      /\ Holders' = Holders /\ job' = job /\ fate' = fate
  BY DEF InsertJob, workerVars, poolHistoryVars, Holders, At
<1>2. /\ NJobs \in Nat /\ inserted \in Nat /\ inserted + 1 \in Jobs
      /\ Len(rows) \in Nat
      /\ Len(rows') = Len(rows) + 1
      /\ \A i \in 1 .. Len(rows) : rows'[i] = rows[i] /\ rows[i] \in Jobs
      /\ rows'[Len(rows) + 1] = inserted + 1
  BY <1>1, PoolAssumption DEF PoolTypeOK, Jobs
<1>3. fate[inserted + 1] = "none" /\ \A w \in Holders : job[w] # inserted + 1
  <2>1. \A w \in Holders : job[w] \in Int /\ job[w] <= inserted
    BY HoldersAre, PoolAssumption DEF JobsConserved, HeldJobs, PoolTypeOK, Jobs, NoJob
  <2>2. \A i \in 1 .. Len(rows) : rows[i] # inserted + 1
    BY <1>2 DEF JobsConserved, QueuedJobs, Jobs
  <2>3. \A w \in Holders : job[w] # inserted + 1
    BY <1>2, <2>1
  <2>4. QED
    BY <1>2, <2>2, <2>3 DEF JobsConserved, Accounted
<1>4. HeldJobs'
  <2>1. \A w \in Holders : job[w] \in Int /\ job[w] <= inserted
    BY HoldersAre, PoolAssumption DEF JobsConserved, HeldJobs, PoolTypeOK, Jobs, NoJob
  <2>2. \A w \in Holders : job[w] <= inserted + 1
    BY <1>2, <2>1
  <2>3. QED
    BY <1>1, <2>2 DEF JobsConserved, HeldJobs
<1>5. QueuedJobs'
  <2> SUFFICES ASSUME NEW i \in 1 .. Len(rows')
               PROVE  /\ rows'[i] <= inserted'
                      /\ fate[rows'[i]] = "none"
                      /\ \A w \in Holders : job[w] # rows'[i]
                      /\ \A k \in 1 .. Len(rows') : i < k => rows'[i] < rows'[k]
    BY <1>1 DEF QueuedJobs
  <2>1. CASE i = Len(rows) + 1
    BY <1>1, <1>2, <1>3, <2>1
  <2>2. CASE i \in 1 .. Len(rows)
    <3>1. rows'[i] = rows[i] /\ rows[i] <= inserted /\ rows[i] \in Int
      BY <1>2, <2>2 DEF JobsConserved, QueuedJobs, Jobs
    <3>2. \A k \in 1 .. Len(rows') : i < k => rows'[i] < rows'[k]
      BY <1>2, <2>2, <3>1 DEF JobsConserved, QueuedJobs
    <3>3. QED
      BY <1>1, <1>2, <2>2, <3>1, <3>2 DEF JobsConserved, QueuedJobs
  <2>3. QED
    BY <1>2, <2>1, <2>2
<1>6. Accounted'
  <2> SUFFICES ASSUME NEW j \in Jobs
               PROVE  \/ fate[j] # "none" /\ j <= inserted + 1
                      \/ fate[j] = "none" /\ j > inserted + 1
                      \/ \E i \in 1 .. Len(rows') : rows'[i] = j
                      \/ \E w \in Holders : job[w] = j
    BY <1>1 DEF Accounted
  <2>1. CASE j = inserted + 1
    BY <1>2, <2>1
  <2>2. CASE j # inserted + 1
    <3>1. j \in Int
      BY DEF Jobs
    <3>2. ASSUME NEW i \in 1 .. Len(rows), rows[i] = j
          PROVE  \E k \in 1 .. Len(rows') : rows'[k] = j
      BY <1>2, <3>2
    <3>3. QED
      BY <1>2, <2>2, <3>1, <3>2 DEF JobsConserved, Accounted
  <2>3. QED
    BY <2>1, <2>2
<1>7. QED
  BY <1>4, <1>5, <1>6 DEF JobsConserved

\* Main keeps every job in one place.
LEMMA MainKeepsJobs ==
    ASSUME PoolTypeOK, JobsConserved, Main
    PROVE  JobsConserved'
<1>1. CASE InsertJob
  BY <1>1, RowIsInserted
<1>2. CASE ~InsertJob
  <2>1. /\ pc' = pc /\ job' = job /\ fate' = fate
        /\ rows' = rows /\ inserted' = inserted
    BY <1>2 DEF Main, PoolStarted, CountJob, BeginWait, CheckJobCount, CheckBusyCount,
       CloseDatabase, JoinWorkers, workerVars, poolHistoryVars, dbVars
  <2>2. Holders' = Holders
    BY <2>1 DEF Holders, At
  <2>3. QED
    BY <2>1, <2>2, NothingHandedOver
<1>3. QED
  BY <1>1, <1>2

\* So does a worker, and its crash.
LEMMA WorkerKeepsJobs ==
    ASSUME PoolTypeOK, JobsConserved, NEW w \in Workers, Worker(w) \/ Crash(w)
    PROVE  JobsConserved'
<1> USE DEF dbVars, mainVars, poolHistoryVars
<1>1. ASSUME NEW l \in WorkerPcs, Goto(w, l),
             (l \in {"popped", "got", "claim", "run"})
                 <=> (pc[w] \in {"popped", "got", "claim", "run"}),
             job' = job, fate' = fate, rows' = rows, inserted' = inserted
      PROVE  JobsConserved'
  BY <1>1, HoldersAre, SameHolders, NothingHandedOver
<1>2. CASE WorkerProcInit(w)
  BY <1>1, <1>2 DEF WorkerProcInit, WorkerPcs
<1>3. CASE WorkerInitialized(w)
  BY <1>1, <1>3 DEF WorkerInitialized, WorkerPcs
<1>4. CASE LoopTop(w)
  BY <1>1, <1>4 DEF LoopTop, WorkerPcs
<1>5. CASE CallGetWork(w)
  BY <1>1, <1>5 DEF CallGetWork, WorkerPcs
<1>6. CASE AwaitWork(w)
  BY <1>1, <1>6 DEF AwaitWork, WorkerPcs
<1>7. CASE PopJob(w)
  <2>1. CASE HasRow(w)
    BY <1>7, <2>1, HoldersAre, RowIsPopped DEF PopJob, HasRow
  <2>2. CASE ~HasRow(w)
    BY <1>1, <1>7, <2>2 DEF PopJob, WorkerPcs
  <2>3. QED
    BY <2>1, <2>2
<1>8. CASE DiscountJob(w)
  BY <1>1, <1>8 DEF DiscountJob, WorkerPcs
<1>9. CASE TestStop(w)
  <2>1. CASE stop
    BY <1>9, <2>1, HoldersAre, JobEnds DEF TestStop, WorkerPcs, Fates
  <2>2. CASE ~stop
    BY <1>1, <1>9, <2>2 DEF TestStop, WorkerPcs
  <2>3. QED
    BY <2>1, <2>2
<1>10. CASE ClaimJob(w)
  BY <1>1, <1>10 DEF ClaimJob, WorkerPcs
<1>11. CASE RunJob(w)
  BY <1>11, HoldersAre, JobEnds DEF RunJob, WorkerPcs, Fates
<1>12. CASE SignalIdle(w)
  BY <1>1, <1>12 DEF SignalIdle, WorkerPcs
<1>13. CASE WorkerExit(w)
  BY <1>1, <1>13 DEF WorkerExit, WorkerPcs
<1>14. CASE ReapKilled(w)
  BY <1>1, <1>14 DEF ReapKilled, DeadPcs, Fork, WorkerPcs
<1>15. CASE ReapExited(w)
  BY <1>1, <1>15 DEF ReapExited, WorkerPcs
<1>16. CASE CrashInJob(w)
  BY <1>16, HoldersAre, JobEnds DEF CrashInJob, WorkerPcs, Fates
<1>17. CASE CrashInInit(w) \/ CrashInCleanup(w)
  BY <1>1, <1>17 DEF CrashInInit, CrashInCleanup, WorkerPcs
<1>18. QED
  BY <1>2, <1>3, <1>4, <1>5, <1>6, <1>7, <1>8, <1>9, <1>10, <1>11, <1>12,
     <1>13, <1>14, <1>15, <1>16, <1>17 DEF Worker, Crash

\* No job is run twice, none disappears: each is still to come, in the table, in
\* the hands of one worker, or has ended.
THEOREM JobsCorrect == PoolSpec => []JobsConserved
<1>1. PoolInit => JobsConserved
  BY PoolAssumption DEF PoolInit, JobsConserved, HeldJobs, QueuedJobs, Accounted, Holders, At,
                        Jobs
<1>2. PoolTypeOK /\ JobsConserved /\ [PoolNext]_poolVars => JobsConserved'
  <2> SUFFICES ASSUME PoolTypeOK, JobsConserved, [PoolNext]_poolVars
               PROVE  JobsConserved'
    OBVIOUS
  <2>1. CASE Main
    BY <2>1, MainKeepsJobs
  <2>2. ASSUME NEW w \in Workers, Worker(w) \/ Crash(w)
        PROVE  JobsConserved'
    BY <2>2, WorkerKeepsJobs
  <2>3. CASE UNCHANGED poolVars
    <3>1. Holders' = Holders
      BY <2>3 DEF poolVars, workerVars, Holders, At
    <3>2. QED
      BY <2>3, <3>1, NothingHandedOver DEF poolVars, dbVars, mainVars, workerVars, poolHistoryVars
  <2>4. QED
    BY <2>1, <2>2, <2>3 DEF PoolNext, Stutter
<1>3. QED
  BY <1>1, <1>2, TypeCorrect, PTL DEF PoolSpec

-----------------------------------------------------------------------------
(* What stop may lose.                                                     *)

\* The dropped jobs can be counted.
LEMMA DroppedIsFinite == IsFiniteSet(Dropped) /\ Cardinality(Dropped) \in Nat
<1>1. IsFiniteSet(Jobs)
  BY PoolAssumption, FS_Interval DEF Jobs
<1>2. QED
  BY <1>1, FS_Subset, FS_CardinalityType DEF Dropped

\* The workers that are parked change by the worker that moves.
LEMMA LeftMoves ==
    ASSUME PoolTypeOK, NEW w \in Workers, NEW l \in WorkerPcs, Goto(w, l)
    PROVE  Cardinality(Left')
               = Cardinality(Left) + Bit(l \in Parked)
                                   - Bit(pc[w] \in Parked)
<1>1. pc \in [Workers -> WorkerPcs]
  BY DEF PoolTypeOK
<1>2. Left' = At([pc EXCEPT ![w] = l], Parked)
  BY DEF Goto, Left, At
<1>3. Cardinality(At([pc EXCEPT ![w] = l], Parked))
        = Cardinality(At(pc, Parked))
              + Bit(l \in Parked)
              - Bit(pc[w] \in Parked)
  BY <1>1, WorkerMoves
<1>4. QED
  BY <1>2, <1>3 DEF Left

\* A step that drops nothing keeps the bound.
LEMMA NothingDropped ==
    ASSUME PoolTypeOK, DroppedAtMostOnePerWorker, Dropped' = Dropped, stop => stop',
           Cardinality(Left') \in Nat, Cardinality(Left') >= Cardinality(Left)
    PROVE  DroppedAtMostOnePerWorker'
<1>1. Cardinality(Left) \in Nat /\ Cardinality(Dropped) \in Nat
  BY WorkersAt, DroppedIsFinite DEF Left
<1>2. QED
  BY <1>1 DEF DroppedAtMostOnePerWorker

\* A worker that drops its job is parked, and once stop is set it remains so.
LEMMA WorkerDrops ==
    ASSUME PoolTypeOK, JobsConserved, DroppedAtMostOnePerWorker,
           NEW w \in Workers, Worker(w) \/ Crash(w)
    PROVE  DroppedAtMostOnePerWorker'
<1>1. Cardinality(Left) \in Nat /\ Cardinality(Left') \in Nat
  <2>1. \A f : Cardinality(At(f, Parked)) \in Nat
    BY WorkersAt
  <2>2. Left' = At(pc', Parked)
    BY DEF Left, At
  <2>3. QED
    BY <2>1, <2>2 DEF Left
<1>2. ASSUME NEW l \in WorkerPcs, Goto(w, l), stop /\ pc[w] \in Parked => l \in Parked,
             Dropped' = Dropped, stop' = stop
      PROVE  DroppedAtMostOnePerWorker'
  <2>1. CASE stop
    <3>1. Cardinality(Left') >= Cardinality(Left)
      BY <1>1, <1>2, <2>1, LeftMoves DEF Bit
    <3>2. QED
      BY <1>1, <1>2, <3>1, NothingDropped
  <2>2. CASE ~stop
    <3>1. Dropped' = {}
      BY <1>2, <2>2 DEF DroppedAtMostOnePerWorker
    <3>2. Cardinality(Dropped') = 0
      BY <3>1, FS_EmptySet
    <3>3. QED
      BY <1>1, <3>1, <3>2 DEF DroppedAtMostOnePerWorker
  <2>3. QED
    BY <2>1, <2>2
<1>3. ASSUME NEW f \in Fates, Discharge(w, f), w \in Holders
      PROVE  Dropped' = IF f = "dropped" THEN Dropped \cup {job[w]} ELSE Dropped
  <2>1. job[w] \in Jobs /\ fate[job[w]] = "none"
    BY <1>3, HoldersAre DEF JobsConserved, HeldJobs, PoolTypeOK
  <2>2. QED
    BY <1>3, <2>1 DEF Discharge, Dropped, PoolTypeOK
<1>4. fate' = fate => Dropped' = Dropped
  BY DEF Dropped
<1> USE DEF shmVars, poolHistoryVars
<1>5. CASE TestStop(w) /\ stop
  <2>1. /\ Goto(w, "exit") /\ Discharge(w, "dropped") /\ pc[w] = "got" /\ stop' = stop
    BY <1>5 DEF TestStop
  <2>2. /\ w \in Holders /\ job[w] \in Jobs /\ fate[job[w]] = "none"
    BY <2>1, HoldersAre DEF JobsConserved, HeldJobs, PoolTypeOK
  <2>3. Dropped' = Dropped \cup {job[w]} /\ job[w] \notin Dropped
    BY <1>3, <2>1, <2>2 DEF Dropped, Fates
  <2>4. Cardinality(Dropped') = Cardinality(Dropped) + 1
    BY <2>3, DroppedIsFinite, FS_AddElement
  <2>5. Cardinality(Left') = Cardinality(Left) + 1
    BY <1>1, <2>1, LeftMoves DEF Bit, WorkerPcs, Parked
  <2>6. QED
    BY <1>1, <1>5, <2>1, <2>4, <2>5, DroppedIsFinite DEF DroppedAtMostOnePerWorker
<1>6. CASE TestStop(w) /\ ~stop
  BY <1>2, <1>4, <1>6 DEF TestStop, WorkerPcs, Parked
<1>7. CASE RunJob(w)
  <2>1. Dropped' = Dropped
    BY <1>3, <1>7, HoldersAre DEF RunJob, Fates
  <2>2. QED
    BY <1>2, <1>7, <2>1 DEF RunJob, WorkerPcs, Parked
<1>8. CASE CrashInJob(w)
  <2>1. Dropped' = Dropped
    BY <1>3, <1>8, HoldersAre DEF CrashInJob, Fates
  <2>2. QED
    BY <1>2, <1>8, <2>1 DEF CrashInJob, WorkerPcs, Parked
<1>9. CASE ~(TestStop(w) \/ RunJob(w) \/ CrashInJob(w))
  <2>1. fate' = fate /\ stop' = stop
    BY <1>9 DEF Worker, Crash, WorkerProcInit, WorkerInitialized, LoopTop, CallGetWork,
       AwaitWork, PopJob, DiscountJob, ClaimJob, SignalIdle, WorkerExit, ReapKilled, DeadPcs,
          Fork,
       ReapExited, CrashInInit, CrashInCleanup
  <2>2. \E l \in WorkerPcs :
            /\ Goto(w, l)
            /\ stop /\ pc[w] \in Parked => l \in Parked
    BY <1>9 DEF Worker, Crash, WorkerProcInit, WorkerInitialized, LoopTop, CallGetWork,
       AwaitWork, PopJob, DiscountJob, ClaimJob, SignalIdle, WorkerExit, ReapKilled, DeadPcs,
          Fork,
       ReapExited, CrashInInit, CrashInCleanup, WorkerPcs, Parked
  <2>3. QED
    BY <1>2, <1>4, <2>1, <2>2
<1>10. QED
  BY <1>5, <1>6, <1>7, <1>8, <1>9

\* tpool_wait can lose jobs, but no more than one per worker.
THEOREM DroppedCorrect == PoolSpec => []DroppedAtMostOnePerWorker
<1>1. PoolInit => DroppedAtMostOnePerWorker
  <2> SUFFICES ASSUME PoolInit
               PROVE  DroppedAtMostOnePerWorker
    OBVIOUS
  <2>1. Dropped = {}
    BY DEF PoolInit, Dropped
  <2>2. Cardinality(Left) \in Nat
    BY WorkersAt DEF Left
  <2>3. QED
    BY <2>1, <2>2, FS_EmptySet DEF DroppedAtMostOnePerWorker
<1>2. PoolTypeOK /\ JobsConserved /\ DroppedAtMostOnePerWorker /\ [PoolNext]_poolVars
          => DroppedAtMostOnePerWorker'
  <2> SUFFICES ASSUME PoolTypeOK, JobsConserved, DroppedAtMostOnePerWorker, [PoolNext]_poolVars
               PROVE  DroppedAtMostOnePerWorker'
    OBVIOUS
  <2>1. CASE Main \/ UNCHANGED poolVars
    <3>1. pc' = pc /\ fate' = fate /\ (stop => stop')
      BY <2>1 DEF Main, PoolStarted, InsertJob, CountJob, BeginWait, CheckJobCount,
         CheckBusyCount, CloseDatabase, JoinWorkers, poolVars, shmVars, workerVars,
            poolHistoryVars
    <3>2. Dropped' = Dropped /\ Left' = Left
      BY <3>1 DEF Dropped, Left, At
    <3>3. QED
      BY <3>1, <3>2 DEF DroppedAtMostOnePerWorker
  <2>2. ASSUME NEW w \in Workers, Worker(w) \/ Crash(w)
        PROVE  DroppedAtMostOnePerWorker'
    BY <2>2, WorkerDrops
  <2>3. QED
    BY <2>1, <2>2 DEF PoolNext, Stutter
<1>3. QED
  BY <1>1, <1>2, TypeCorrect, JobsCorrect, PTL DEF PoolSpec

-----------------------------------------------------------------------------
(* The pool implements WorkQueue.                                          *)

InTable(j) == \E i \in 1 .. Len(rows) : rows[i] = j

Held(j) == \E w \in Holders : job[w] = j

\* The place of a job, read off the state that JobsConserved keeps in order.
Placed ==
    \A j \in Jobs :
        /\ Place(j) \in {"new", "queued", "taken", "done", "lost"}
        /\ Place(j) = "new" <=> j > inserted
        /\ Place(j) = "queued" <=> InTable(j)
        /\ Place(j) = "taken" <=> Held(j)
        /\ Place(j) = "done" <=> fate[j] = "done"
        /\ Place(j) = "lost" <=> fate[j] \in {"ignored", "dropped", "crashed"}

\* Every job has one of the five places of WorkQueue.
LEMMA PlacesAre == PoolTypeOK /\ JobsConserved => Placed
<1> SUFFICES ASSUME PoolTypeOK, JobsConserved, NEW j \in Jobs
             PROVE  /\ Place(j) \in {"new", "queued", "taken", "done", "lost"}
                    /\ Place(j) = "new" <=> j > inserted
                    /\ Place(j) = "queued" <=> InTable(j)
                    /\ Place(j) = "taken" <=> Held(j)
                    /\ Place(j) = "done" <=> fate[j] = "done"
                    /\ Place(j) = "lost" <=> fate[j] \in {"ignored", "dropped", "crashed"}
  BY DEF Placed
<1>1. j \in Int /\ inserted \in Int /\ NJobs \in Nat
  BY PoolAssumption DEF Jobs, PoolTypeOK
<1>2. fate[j] \in {"none", "done", "ignored", "dropped", "crashed"}
  BY DEF PoolTypeOK, Fates
<1>3. InTable(j) => j <= inserted /\ fate[j] = "none" /\ ~Held(j)
  BY DEF InTable, Held, JobsConserved, QueuedJobs
<1>4. Held(j) => j <= inserted /\ fate[j] = "none"
  BY DEF Held, JobsConserved, HeldJobs
<1>5. \/ fate[j] # "none" /\ j <= inserted
      \/ fate[j] = "none" /\ j > inserted
      \/ InTable(j)
      \/ Held(j)
  BY DEF JobsConserved, Accounted, InTable, Held
<1>6. CASE j > inserted
  <2>1. fate[j] = "none" /\ ~InTable(j) /\ ~Held(j)
    BY <1>1, <1>3, <1>4, <1>5, <1>6
  <2>2. Place(j) = "new"
    BY <1>1, <1>6, <2>1 DEF Place
  <2>3. QED
    BY <1>6, <2>1, <2>2
<1>7. CASE j <= inserted /\ fate[j] # "none"
  <2>1. ~InTable(j) /\ ~Held(j) /\ ~(j > inserted)
    BY <1>1, <1>3, <1>4, <1>7
  <2>2. CASE fate[j] = "done"
    <3>1. Place(j) = "done"
      BY <2>1, <2>2 DEF Place
    <3>2. QED
      BY <2>1, <2>2, <3>1
  <2>3. CASE fate[j] # "done"
    <3>1. fate[j] \in {"ignored", "dropped", "crashed"}
      BY <1>2, <1>7, <2>3
    <3>2. Place(j) = "lost"
      BY <2>1, <3>1 DEF Place
    <3>3. QED
      BY <2>1, <3>1, <3>2
  <2>4. QED
    BY <2>2, <2>3
<1>8. CASE j <= inserted /\ fate[j] = "none"
  <2>1. ~(j > inserted)
    BY <1>1, <1>8
  <2>2. Place(j) = IF InTable(j) THEN "queued" ELSE "taken"
    BY <1>8, <2>1 DEF Place, InTable
  <2>3. Held(j) <=> ~InTable(j)
    BY <1>3, <1>5, <1>8, <2>1
  <2>4. QED
    BY <1>8, <2>1, <2>2, <2>3
<1>9. QED
  BY <1>1, <1>6, <1>7, <1>8

\* A job stays where it is when what its place is read off is kept.
Stays(j) ==
    /\ j > inserted => j > inserted'
    /\ InTable(j) => InTable(j)'
    /\ Held(j) => Held(j)'
    /\ fate[j] # "none" => fate'[j] = fate[j]

LEMMA StaysInPlace ==
    ASSUME Placed, Placed', NEW j \in Jobs, Stays(j)
    PROVE  Place(j)' = Place(j)
BY DEF Placed, Stays

\* A step that moves one job is a Move of WorkQueue, when the pool is not closed by it.
LEMMA JobMoves ==
    ASSUME Placed, Placed', NEW j \in Jobs, NEW p, Place(j)' = p,
           \A i \in Jobs \ {j} : Stays(i),
           (mainPc = "done")' <=> (mainPc = "done")
    PROVE  Abstract!Move(j, p)
<1>1. \A i \in Jobs \ {j} : Place(i)' = Place(i)
  BY StaysInPlace
<1>2. [i \in Jobs |-> Place(i)]' = [[i \in Jobs |-> Place(i)] EXCEPT ![j] = p]
  BY <1>1 DEF Jobs
<1>3. QED
  BY <1>2 DEF Abstract!Move

\* A step that moves no job is invisible to the callers of the pool.
LEMMA NoJobMoves ==
    ASSUME Placed, Placed', \A i \in Jobs : Stays(i),
           (mainPc = "done")' <=> (mainPc = "done")
    PROVE  UNCHANGED Abstract!vars
<1>1. \A i \in Jobs : Place(i)' = Place(i)
  BY StaysInPlace
<1>2. [i \in Jobs |-> Place(i)]' = [i \in Jobs |-> Place(i)]
  BY <1>1 DEF Jobs
<1>3. QED
  BY <1>2 DEF Abstract!vars

\* The jobs at a place of WorkQueue.
LEMMA JobsAt ==
    ASSUME NEW p
    PROVE  Abstract!At(p) = {j \in Jobs : Place(j) = p}
BY DEF Abstract!At, Abstract!Jobs, Jobs

\* The count that the instance of WorkQueue brings along is the one of FiniteSets.
LEMMA SameCardinality ==
    ASSUME NEW S
    PROVE  Abstract!Cardinality(S) = Cardinality(S)
BY DEF Abstract!Cardinality, Cardinality

\* Inserting a row submits the first job that is not submitted yet.
LEMMA InsertSubmits ==
    ASSUME PoolTypeOK, JobsConserved, Placed, Placed', InsertJob
    PROVE  Abstract!Next
<1>0. PICK j \in Jobs : j = inserted + 1
  BY PoolAssumption DEF InsertJob, PoolTypeOK, Jobs
<1>1. /\ inserted \in Nat /\ NJobs \in Nat /\ j = inserted + 1
      /\ inserted' = j /\ rows' = Append(rows, j)
      /\ fate' = fate
      /\ Holders' = Holders /\ job' = job
      /\ mainPc = "produce" /\ mainPc' = "count"
  BY <1>0, PoolAssumption DEF InsertJob, PoolTypeOK, workerVars, poolHistoryVars, Holders, At
<1>2. /\ Len(rows) \in Nat /\ Len(rows') = Len(rows) + 1
      /\ \A k \in 1 .. Len(rows) : rows'[k] = rows[k]
      /\ rows'[Len(rows) + 1] = j
  BY <1>1 DEF PoolTypeOK
<1>3. Place(j)' = "queued"
  <2>1. InTable(j)'
    BY <1>2 DEF InTable
  <2>2. QED
    BY <1>1, <2>1 DEF Placed
<1>4. \A i \in Jobs \ {j} : Stays(i)
  <2> SUFFICES ASSUME NEW i \in Jobs \ {j}
               PROVE  Stays(i)
    OBVIOUS
  <2>1. i \in Int /\ (i > inserted => i > inserted')
    BY <1>1 DEF Jobs
  <2>2. InTable(i) => InTable(i)'
    BY <1>2 DEF InTable
  <2>3. Held(i) => Held(i)'
    BY <1>1 DEF Held
  <2>4. QED
    BY <1>1, <2>1, <2>2, <2>3 DEF Stays
<1>5. Abstract!Move(j, "queued")
  BY <1>1, <1>3, <1>4, JobMoves
<1>6. j \in Abstract!At("new") /\ \A i \in Abstract!At("new") : j <= i
  BY <1>1, JobsAt DEF Placed, Jobs
<1>7. QED
  BY <1>1, <1>5, <1>6 DEF Abstract!Next, Abstract!Submit, Abstract!Jobs, Jobs

\* Worker w, who holds nothing, may take one more job.
LEMMA RoomForOne ==
    ASSUME PoolTypeOK, JobsConserved, Placed, NEW w \in Workers, w \notin Holders
    PROVE  Cardinality(Abstract!At("taken")) < Cardinality(Workers)
<1> DEFINE taken == {j \in Jobs : Place(j) = "taken"}
           f == [v \in Holders |-> job[v]]
<1>1. IsFiniteSet(Workers) /\ IsFiniteSet(Workers \ {w})
  BY PoolAssumption, FS_RemoveElement
<1>2. Cardinality(Workers \ {w}) = Cardinality(Workers) - 1
  BY <1>1, FS_RemoveElement
<1>3. Holders \subseteq Workers \ {w}
  BY HoldersAre
<1>4. IsFiniteSet(Holders) /\ Cardinality(Holders) <= Cardinality(Workers) - 1
  BY <1>1, <1>2, <1>3, FS_Subset
<1>5. f \in Surjection(Holders, taken)
  <2>1. \A v \in Holders : job[v] \in Jobs /\ job[v] \in taken
    BY HoldersAre DEF Placed, Held, JobsConserved, HeldJobs, PoolTypeOK
  <2>2. \A j \in taken : \E v \in Holders : f[v] = j
    BY DEF Placed, Held
  <2>3. QED
    BY <2>1, <2>2 DEF Surjection
<1>6. Cardinality(taken) <= Cardinality(Holders) /\ IsFiniteSet(taken)
  BY <1>4, <1>5, FS_Surjection
<1>7. /\ Cardinality(taken) \in Nat /\ Cardinality(Holders) \in Nat
      /\ Cardinality(Workers) \in Nat
  BY <1>1, <1>4, <1>6, FS_CardinalityType
<1>8. Abstract!At("taken") = taken
  BY JobsAt
<1>9. QED
  BY <1>4, <1>6, <1>7, <1>8

\* Popping the oldest row takes the first queued job.
LEMMA PopTakes ==
    ASSUME PoolTypeOK, JobsConserved, Placed, Placed', NEW w \in Workers, PopJob(w), HasRow(w)
    PROVE  Abstract!Next
<1>1. PICK j \in Jobs : j = rows[1]
  BY DEF PoolTypeOK, HasRow
<1>2. /\ w \notin Holders /\ Holders' = Holders \cup {w}
      /\ \A v \in Workers : job'[v] = IF v = w THEN j ELSE job[v]
      /\ rows' = Tail(rows) /\ fate' = fate /\ inserted' = inserted
      /\ mainPc' = mainPc
  BY <1>1, HoldersAre
     DEF PopJob, HasRow, PoolTypeOK, Goto, Holders, At, WorkerPcs, mainVars, poolHistoryVars
<1>3. /\ Len(rows) \in Nat /\ Len(rows) >= 1
      /\ Len(rows') = Len(rows) - 1
      /\ \A k \in 1 .. Len(rows') : rows'[k] = rows[k + 1]
  BY <1>2 DEF PoolTypeOK, HasRow
<1>4. Place(j)' = "taken"
  <2>1. Held(j)'
    BY <1>2 DEF Held
  <2>2. QED
    BY <2>1 DEF Placed
<1>5. ASSUME NEW i \in Jobs \ {j}
      PROVE  Stays(i)
  <2>1. ASSUME NEW k \in 1 .. Len(rows), rows[k] = i
        PROVE  k - 1 \in 1 .. Len(rows') /\ rows'[k - 1] = i
    BY <1>1, <1>3, <2>1
  <2>2. InTable(i) => InTable(i)'
    BY <2>1 DEF InTable
  <2>3. Held(i) => Held(i)'
    BY <1>2, HoldersAre DEF Held
  <2>4. QED
    BY <1>2, <2>2, <2>3 DEF Stays
<1>6. Abstract!Move(j, "taken")
  BY <1>2, <1>4, <1>5, JobMoves
<1>7. j \in Abstract!At("queued")
  BY <1>1, <1>3, JobsAt DEF Placed, InTable
<1>8. \A i \in Abstract!At("queued") : j <= i
  <2>1. \A k \in 1 .. Len(rows) : rows[k] \in Int /\ (1 < k => rows[1] < rows[k])
    BY <1>3, PoolAssumption DEF JobsConserved, QueuedJobs, PoolTypeOK, Jobs
  <2>2. \A k \in 1 .. Len(rows) : j <= rows[k]
    BY <1>1, <1>3, <2>1
  <2>3. QED
    BY <2>2, JobsAt DEF Placed, InTable
<1>9. QED
  <2>1. Cardinality(Abstract!At("taken")) < Cardinality(Workers)
    BY <1>2, RoomForOne
  <2>2. Abstract!Take(j)
    BY <1>6, <1>7, <1>8, <2>1, SameCardinality DEF Abstract!Take
  <2>3. QED
    BY <2>2 DEF Abstract!Next, Abstract!Jobs, Jobs

\* A job that ends is done or lost, as its fate says, and no other job moves.
LEMMA EndFinishesOrLoses ==
    ASSUME PoolTypeOK, JobsConserved, Placed, Placed', NEW w \in Workers, w \in Holders,
           NEW f \in Fates \ {"none"},
           NEW l \in WorkerPcs \ {"popped", "got", "claim", "run"}, Goto(w, l),
           Discharge(w, f), rows' = rows, inserted' = inserted, mainPc' = mainPc
    PROVE  Abstract!Next
<1>1. PICK j \in Jobs : j = job[w]
  BY DEF JobsConserved, HeldJobs, PoolTypeOK
<1>2. Holders' = Holders \ {w}
  BY DEF PoolTypeOK, Goto, Holders, At
<1>3. /\ \A v \in Workers \ {w} : job'[v] = job[v]
      /\ \A i \in Jobs : fate'[i] = IF i = j THEN f ELSE fate[i]
  BY <1>1 DEF Discharge, PoolTypeOK
<1>4. ASSUME NEW i \in Jobs \ {j}
      PROVE  Stays(i)
  <2>1. InTable(i) => InTable(i)'
    BY DEF InTable
  <2>2. Held(i) => Held(i)'
    BY <1>1, <1>2, <1>3, HoldersAre DEF Held
  <2>3. QED
    BY <1>3, <2>1, <2>2 DEF Stays
<1>5. j \in Abstract!At("taken")
  BY <1>1, JobsAt DEF Placed, Held
<1>6. CASE f = "done"
  <2>1. Place(j)' = "done"
    BY <1>3, <1>6 DEF Placed
  <2>2. Abstract!Move(j, "done")
    BY <1>4, <2>1, JobMoves
  <2>3. QED
    BY <1>5, <2>2 DEF Abstract!Next, Abstract!Finish, Abstract!Jobs, Jobs
<1>7. CASE f # "done"
  <2>1. Place(j)' = "lost"
    BY <1>3, <1>7 DEF Placed, Fates
  <2>2. Abstract!Move(j, "lost")
    BY <1>4, <2>1, JobMoves
  <2>3. QED
    BY <1>5, <2>2 DEF Abstract!Next, Abstract!Lose, Abstract!Jobs, Jobs
<1>8. QED
  BY <1>6, <1>7

\* Once main waits it has submitted every job.
AllSubmitted ==
    mainPc \in {"check", "asleep", "spin", "destroy", "join", "done"} => inserted = NJobs

LEMMA AllSubmittedInvariant == PoolSpec => []AllSubmitted
<1>1. PoolInit => AllSubmitted
  BY DEF PoolInit, AllSubmitted
<1>2. AllSubmitted /\ [PoolNext]_poolVars => AllSubmitted'
  <2> SUFFICES ASSUME AllSubmitted, [PoolNext]_poolVars
               PROVE  AllSubmitted'
    OBVIOUS
  <2>1. CASE Main
    BY <2>1 DEF AllSubmitted, Main, PoolStarted, InsertJob, CountJob, BeginWait,
       CheckJobCount, CheckBusyCount, CloseDatabase, JoinWorkers
  <2>2. ASSUME NEW w \in Workers, Worker(w) \/ Crash(w)
        PROVE  AllSubmitted'
    <3>1. inserted' = inserted /\ (mainPc' = mainPc \/ (mainPc = "asleep" /\ mainPc' = "check"))
      BY <2>2 DEF Worker, Crash, WorkerProcInit, WorkerInitialized, LoopTop, CallGetWork,
         AwaitWork, PopJob, DiscountJob, TestStop, ClaimJob, RunJob, SignalIdle, WorkerExit,
         WakeMain, ReapKilled, DeadPcs, Fork, ReapExited, CrashInJob, CrashInInit,
            CrashInCleanup, mainVars
    <3>2. QED
      BY <3>1 DEF AllSubmitted
  <2>3. CASE UNCHANGED poolVars
    BY <2>3 DEF AllSubmitted, poolVars, mainVars
  <2>4. QED
    BY <2>1, <2>2, <2>3 DEF PoolNext, Stutter
<1>3. QED
  BY <1>1, <1>2, PTL DEF PoolSpec

\* Joining the last worker closes the pool, when no job is left anywhere.
LEMMA JoinCloses ==
    ASSUME PoolTypeOK, Drained, AllSubmitted, Placed, Placed', JoinWorkers
    PROVE  Abstract!Next
<1>1. mainPc = "join" /\ mainPc' = "done" /\ inserted = NJobs /\ rows = <<>>
  BY DEF JoinWorkers, AllSubmitted, Drained
<1>2. Holders = {}
  BY HoldersAre DEF JoinWorkers
<1>3. \A j \in Jobs : Place(j) \notin {"new", "queued", "taken"}
  BY <1>1, <1>2, PoolAssumption DEF Placed, InTable, Held, Jobs
<1>4. Abstract!At("new") \cup Abstract!At("queued") \cup Abstract!At("taken") = {}
  BY <1>3, JobsAt
<1>5. \A j \in Jobs : Stays(j)
  BY DEF JoinWorkers, Stays, InTable, Held, Holders, At, dbVars, workerVars, poolHistoryVars
<1>6. [j \in Jobs |-> Place(j)]' = [j \in Jobs |-> Place(j)]
  <2>1. \A j \in Jobs : Place(j)' = Place(j)
    BY <1>5, StaysInPlace
  <2>2. QED
    BY <2>1 DEF Jobs
<1>7. Abstract!Close
  BY <1>1, <1>4, <1>6 DEF Abstract!Close
<1>8. QED
  BY <1>7 DEF Abstract!Next

\* Main submits, or closes, or does what its callers do not see.
LEMMA MainImplements ==
    ASSUME PoolTypeOK, JobsConserved, Drained, AllSubmitted, Placed, Placed', Main
    PROVE  Abstract!Next \/ UNCHANGED Abstract!vars
<1>1. CASE InsertJob
  BY <1>1, InsertSubmits
<1>2. CASE JoinWorkers
  BY <1>2, JoinCloses
<1>3. CASE ~InsertJob /\ ~JoinWorkers
  <2>1. /\ pc' = pc /\ job' = job /\ fate' = fate /\ rows' = rows /\ inserted' = inserted
        /\ mainPc # "done" /\ mainPc' # "done"
    BY <1>3 DEF Main, PoolStarted, CountJob, BeginWait, CheckJobCount, CheckBusyCount,
       CloseDatabase, workerVars, poolHistoryVars, dbVars
  <2>2. \A j \in Jobs : Stays(j)
    BY <2>1 DEF Stays, InTable, Held, Holders, At
  <2>3. QED
    BY <2>1, <2>2, NoJobMoves
<1>4. QED
  BY <1>1, <1>2, <1>3

\* A worker takes a job, ends one, or does what the callers of the pool do not see.
LEMMA WorkerImplements ==
    ASSUME PoolTypeOK, JobsConserved, Placed, Placed', NEW w \in Workers, Worker(w) \/ Crash(w)
    PROVE  Abstract!Next \/ UNCHANGED Abstract!vars
<1>1. mainPc' = mainPc \/ (mainPc = "asleep" /\ mainPc' = "check")
  BY DEF Worker, Crash, WorkerProcInit, WorkerInitialized, LoopTop, CallGetWork,
     AwaitWork, PopJob, DiscountJob, TestStop, ClaimJob, RunJob, SignalIdle, WorkerExit,
     WakeMain, ReapKilled, DeadPcs, Fork, ReapExited, CrashInJob, CrashInInit, CrashInCleanup,
        mainVars
<1>2. CASE PopJob(w) /\ HasRow(w)
  BY <1>2, PopTakes
<1>3. CASE TestStop(w) /\ stop
  BY <1>3, HoldersAre, EndFinishesOrLoses DEF TestStop, WorkerPcs, Fates, dbVars, mainVars
<1>4. CASE RunJob(w)
  BY <1>4, HoldersAre, EndFinishesOrLoses DEF RunJob, WorkerPcs, Fates, dbVars, mainVars
<1>5. CASE CrashInJob(w)
  BY <1>5, HoldersAre, EndFinishesOrLoses DEF CrashInJob, WorkerPcs, Fates, dbVars, mainVars
<1>6. CASE ~((PopJob(w) /\ HasRow(w)) \/ (TestStop(w) /\ stop) \/ RunJob(w) \/ CrashInJob(w))
  <2>1. job' = job /\ fate' = fate /\ rows' = rows /\ inserted' = inserted
    BY <1>6 DEF Worker, Crash, WorkerProcInit, WorkerInitialized, LoopTop, CallGetWork,
       AwaitWork, PopJob, DiscountJob, TestStop, ClaimJob, SignalIdle, WorkerExit,
       ReapKilled, DeadPcs, Fork, ReapExited, CrashInInit, CrashInCleanup, dbVars, mainVars,
          poolHistoryVars
  <2>2. \E l \in WorkerPcs :
            /\ Goto(w, l)
            /\ (l \in {"popped", "got", "claim", "run"})
                   <=> (pc[w] \in {"popped", "got", "claim", "run"})
    BY <1>6 DEF Worker, Crash, WorkerProcInit, WorkerInitialized, LoopTop, CallGetWork,
       AwaitWork, PopJob, DiscountJob, TestStop, ClaimJob, SignalIdle, WorkerExit,
       ReapKilled, DeadPcs, Fork, ReapExited, CrashInInit, CrashInCleanup, WorkerPcs
  <2>3. Holders' = Holders
    BY <2>2, HoldersAre, SameHolders
  <2>4. \A j \in Jobs : Stays(j)
    BY <2>1, <2>3 DEF Stays, InTable, Held
  <2>5. QED
    BY <1>1, <2>4, NoJobMoves
<1>7. QED
  BY <1>2, <1>3, <1>4, <1>5, <1>6

\* The pool, seen by sist2_scan and sist2_index, is the queue of WorkQueue: jobs
\* are taken in the order of submission and once, no more of them are in hand than
\* there are workers, and tpool_destroy returns after the last of them has ended.
THEOREM WorkQueueImplemented == PoolSpec => ImplementsWorkQueue
<1>1. PoolInit => Abstract!Init
  <2> SUFFICES ASSUME PoolInit
               PROVE  Abstract!Init
    OBVIOUS
  <2>1. \A j \in Jobs : Place(j) = "new"
    BY PoolAssumption DEF PoolInit, Place, Jobs
  <2>2. [j \in Jobs |-> Place(j)] = [j \in Jobs |-> "new"]
    BY <2>1 DEF Jobs
  <2>3. (mainPc = "done") = FALSE
    BY DEF PoolInit
  <2>4. QED
    BY <2>2, <2>3 DEF Abstract!Init, Abstract!Jobs, Jobs
<1>2. PoolTypeOK /\ JobsConserved /\ Drained /\ AllSubmitted /\ Placed /\ Placed' /\ [PoolNext]_poolVars
          => [Abstract!Next]_Abstract!vars
  <2> SUFFICES ASSUME PoolTypeOK, JobsConserved, Drained, AllSubmitted, Placed, Placed',
     [PoolNext]_poolVars
               PROVE  Abstract!Next \/ UNCHANGED Abstract!vars
    OBVIOUS
  <2>1. CASE Main
    BY <2>1, MainImplements
  <2>2. ASSUME NEW w \in Workers, Worker(w) \/ Crash(w)
        PROVE  Abstract!Next \/ UNCHANGED Abstract!vars
    BY <2>2, WorkerImplements
  <2>3. CASE UNCHANGED poolVars
    <3>1. \A j \in Jobs : Stays(j)
      BY <2>3 DEF poolVars, dbVars, mainVars, workerVars, poolHistoryVars, Stays, InTable, Held,
         Holders, At
    <3>2. mainPc' = mainPc
      BY <2>3 DEF poolVars, mainVars
    <3>3. QED
      BY <3>1, <3>2, NoJobMoves
  <2>4. QED
    BY <2>1, <2>2, <2>3 DEF PoolNext, Stutter
<1>3. QED
  BY <1>1, <1>2, PlacesAre, TypeCorrect, JobsCorrect, DrainedInvariant, AllSubmittedInvariant,
     PTL DEF PoolSpec, ImplementsWorkQueue, Abstract!Spec

=============================================================================
