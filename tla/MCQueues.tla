------------------------------ MODULE MCQueues ------------------------------
(* Small instances, for TLC, of three machines that share no state with each  *)
(* other and have what must eventually happen in common: the pool of workers, *)
(* the indexers of Elasticsearch and the task queue of sist2-admin. One of    *)
(* them runs, the others stay where they begin: the states are those of each  *)
(* machine by itself.                                                         *)
EXTENDS ElasticIndexer, TaskQueue, WorkerPool, TLC

VARIABLE machine  \* the one that runs

CONSTANTS w1, w2, scripted, plain, lone,
          Machines  \* those that may run

TwoWorkers == {w1, w2}

-----------------------------------------------------------------------------
(* Requests to Elasticsearch.                                              *)

CONSTANTS HttpLimit,   \* the greatest size of a request
          Large,       \* the documents that are too large by themselves
          Medium       \* those that two of are too large

Size(l) ==
    CASE l[1] = "delete" -> 1
      [] l[2] \in Large -> HttpLimit + 1
      [] l[2] \in Medium -> HttpLimit - 1
      [] OTHER -> 1

RequestSize(s) ==
    LET sum[n \in 0 .. Len(s)] == IF n = 0 THEN 0 ELSE sum[n - 1] + Size(s[n])
    IN  sum[Len(s)]

FitsLimit(s) == RequestSize(s) <= HttpLimit

-----------------------------------------------------------------------------
(* Runs: of a job with two scripts, of one with none, and of a lone script. *)

MCRuns == {scripted, plain, lone}
MCLone == {lone}
MCScripts == (scripted :> 2) @@ (plain :> 0) @@ (lone :> 0)

\* One script is enough to be passed over.
OneScriptRuns == {scripted, plain}
OneScript == (scripted :> 1) @@ (plain :> 0)

-----------------------------------------------------------------------------
(* One machine runs.                                                       *)

Init ==
    /\ machine \in Machines
    /\ PoolInit /\ IndexerInit /\ TaskInit
    /\ machine # "indexers" => es = [id \in Ids |-> "none"]

Next ==
    /\ UNCHANGED machine
    /\ IF machine = "pool" THEN PoolNext ELSE UNCHANGED poolVars
    /\ IF machine = "indexers" THEN IndexerNext ELSE UNCHANGED indexVars
    /\ IF machine = "tasks" THEN TaskNext ELSE UNCHANGED taskVars

vars == <<machine, poolVars, indexVars, taskVars>>

\* The fairness of each module, of the machine that runs; where the task queue does not
\* run it has no task to start or to end.
Fairness ==
    /\ WF_poolVars(machine = "pool" /\ Main)
    /\ \A w \in Workers : WF_poolVars(machine = "pool" /\ Worker(w))
    /\ WF_indexVars(machine = "indexers" /\ Sist2Index)
    /\ \A w \in Indexers : WF_indexVars(machine = "indexers" /\ Indexer(w))
    /\ TaskFairness

Spec == Init /\ [][Next]_vars /\ Fairness
=============================================================================
