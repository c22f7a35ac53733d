--------------------------- MODULE ElasticIndexer ---------------------------
(***************************************************************************)
(* sist2 index (sist2_index in main.c) and the Elasticsearch indexer each  *)
(* worker of its pool keeps (elastic.c).                                   *)
(*                                                                         *)
(* Main submits a line for every document of the index file that the      *)
(* document iterator yields, then one for every entry of the delete list   *)
(* that the delete list iterator yields.  A worker collects lines in its   *)
(* Indexer and sends them in bulk requests; the answer decides what        *)
(* becomes of them.  A step is one call of a worker up to its next         *)
(* request, or one request with its answer.  The pool itself (WorkerPool)  *)
(* is a sequence of lines here.                                            *)
(***************************************************************************)
EXTENDS Integers, Sequences, FiniteSets

CONSTANTS Indexers,     \* the workers of the pool
          Documents,    \* ids of the rows of document, in the index file
          Stubs,        \* those whose json_data is NULL (an archive cut short)
          DeleteList,   \* ids in delete_list
          BatchSize,
          Fits(_),      \* does Elasticsearch take a request with these lines?
          MaxBusy,      \* bound on the answers 429
          MaxErrors,    \* bound on the other answers that refuse something
          MaxDeaths     \* bound on the children killed

ASSUME IndexerAssumption ==
    /\ Documents \subseteq Nat \ {0}
    /\ DeleteList \subseteq Nat \ {0}
    /\ BatchSize \in Nat \ {0}
    /\ MaxBusy \in Nat
    /\ MaxErrors \in Nat
    /\ MaxDeaths \in Nat

Ids == Documents \cup DeleteList
Lines == {"index", "delete"} \X Ids
IndexLine(id) == <<"index", id>>
DeleteLine(id) == <<"delete", id>>

VARIABLES
    phase,           \* main: "documents", "deletes", "wait"
    submittedLines,  \* the lines main has submitted
    work,            \* the rows of index_job, oldest first
    stage,           \* each worker: between jobs, in _elastic_flush for a job or
                     \* for elastic_cleanup, or gone
    queued,          \* the lines of its Indexer, line_head first
    max,             \* the argument of its _elastic_flush
    es,              \* what Elasticsearch has under an id: of this index file, of an
                     \* older state of it, or nothing
    lineFate,        \* what became of each line
    events           \* how often each bounded event happened

procVars == <<phase, submittedLines>>
indexerVars == <<stage, queued, max>>
indexVars == <<procVars, work, indexerVars, es, lineFate, events>>

Phases == {"documents", "deletes", "wait"}
Stages == {"idle", "flush", "cleanup", "gone"}
LineFates == {"none", "sent", "refused", "tooLarge", "rejected", "crashed", "dropped"}
Events == {"busy", "error", "crash"}
Bound(e) == CASE e = "busy" -> MaxBusy [] e = "error" -> MaxErrors [] e = "crash" -> MaxDeaths

Elems(s) == {s[i] : i \in 1 .. Len(s)}

Count(e) == /\ events[e] < Bound(e)
            /\ events' = [events EXCEPT ![e] = @ + 1]

Settle(S, f) == lineFate' = [l \in Lines |-> IF l \in S THEN f ELSE lineFate[l]]

IndexerInit ==
    /\ phase = "documents"
    /\ submittedLines = {}
    /\ work = <<>>
    /\ stage = [w \in Indexers |-> "idle"]
    /\ queued = [w \in Indexers |-> <<>>]
    /\ max = [w \in Indexers |-> 0]
    /\ es \in [Ids -> {"none", "old"}]
    /\ lineFate = [l \in Lines |-> "none"]
    /\ events = [e \in Events |-> 0]

-----------------------------------------------------------------------------
(* The main process: sist2_index.                                          *)

SubmitLine(l) ==
    /\ l \notin submittedLines
    /\ submittedLines' = submittedLines \cup {l}
    /\ work' = Append(work, l)
    /\ UNCHANGED <<phase, indexerVars, es, lineFate, events>>

\* The row the document iterator steps to: it yields them in the order of ids.
IsNext(id) ==
    /\ id \in Documents
    /\ IndexLine(id) \notin submittedLines
    /\ \A d \in Documents : d < id => IndexLine(d) \in submittedLines

\* json_set on a NULL column is NULL, and so is the cJSON made of it.
SubmitDocument ==
    /\ phase = "documents"
    /\ \E id \in Documents \ Stubs : IsNext(id) /\ SubmitLine(IndexLine(id))

\* A NULL element ends the loop, be it that of a stub or the end of the rows.
EndDocuments ==
    /\ phase = "documents"
    /\ \A id \in Documents : IsNext(id) => id \in Stubs
    /\ phase' = "deletes"
    /\ UNCHANGED <<submittedLines, work, indexerVars, es, lineFate, events>>

\* The delete list iterator joins with document: it yields the ids that are in
\* both, those given again, and no id that is free.
Deletable == DeleteList \cap Documents

SubmitDelete ==
    /\ phase = "deletes"
    /\ \E id \in Deletable : SubmitLine(DeleteLine(id))

EndDeletes ==
    /\ phase = "deletes"
    /\ \A id \in Deletable : DeleteLine(id) \in submittedLines
    /\ phase' = "wait"
    /\ UNCHANGED <<submittedLines, work, indexerVars, es, lineFate, events>>

Sist2Index == SubmitDocument \/ EndDocuments \/ SubmitDelete \/ EndDeletes

-----------------------------------------------------------------------------
(* A worker, outside a request.                                            *)

\* elastic_index_line, for the job the worker has taken.
ElasticIndexLine(w) ==
    /\ stage[w] = "idle"
    /\ work # <<>>
    /\ work' = Tail(work)
    /\ queued' = [queued EXCEPT ![w] = Append(@, Head(work))]
    /\ IF Len(queued[w]) + 1 >= BatchSize
         THEN /\ stage' = [stage EXCEPT ![w] = "flush"]
              /\ max' = [max EXCEPT ![w] = Len(queued[w]) + 1]
         ELSE UNCHANGED <<stage, max>>
    /\ UNCHANGED <<procVars, es, lineFate, events>>


\* elastic_cleanup: a flush of nothing returns at once.
ElasticCleanup(w) ==
    /\ IF queued[w] = <<>>
         THEN stage' = [stage EXCEPT ![w] = "gone"] /\ UNCHANGED max
         ELSE /\ stage' = [stage EXCEPT ![w] = "cleanup"]
              /\ max' = [max EXCEPT ![w] = Len(queued[w])]
    /\ UNCHANGED queued

\* stop is set: every line has been taken.
LeaveLoop(w) ==
    /\ stage[w] = "idle"
    /\ phase = "wait"
    /\ work = <<>>
    /\ ElasticCleanup(w)
    /\ UNCHANGED <<procVars, work, es, lineFate, events>>

\* The loss of WorkerPool: when stop is set, each worker may have one line in
\* hand that it drops.
DropLine(w) ==
    /\ stage[w] = "idle"
    /\ phase = "wait"
    /\ work # <<>>
    /\ Len(work) <= Cardinality({v \in Indexers : stage[v] = "idle"})
    /\ work' = Tail(work)
    /\ Settle({Head(work)}, "dropped")
    /\ ElasticCleanup(w)
    /\ UNCHANGED <<procVars, es, events>>

-----------------------------------------------------------------------------
(* One request of _elastic_flush and its answer.                           *)

Posting(w) == stage[w] \in {"flush", "cleanup"}

\* create_bulk_buffer: the first max lines.
Batch(w) == SubSeq(queued[w], 1, max[w])
Rest(w) == SubSeq(queued[w], max[w] + 1, Len(queued[w]))

\* The flush is over: the worker goes back to its loop, or leaves.
Return(w) ==
    /\ stage' = [stage EXCEPT ![w] = IF @ = "flush" THEN "idle" ELSE "gone"]
    /\ max' = [max EXCEPT ![w] = 0]

\* Mutant: free_queue is told to free the whole queue.
FlushRestFreesAll(w, rest) ==
    /\ queued' = [queued EXCEPT ![w] = <<>>]
    /\ Return(w)

\* Mutant: what is left is counted from the request, not from the queue.
FlushRestCountsRequest(w, rest) ==
    /\ queued' = [queued EXCEPT ![w] = rest]
    /\ IF rest = <<>>
         THEN Return(w)
         ELSE max' = [max EXCEPT ![w] = @ - Len(rest)] /\ UNCHANGED stage

\* Lines were freed: elastic_flush again while there are others.
FlushRest(w, rest) ==
    /\ queued' = [queued EXCEPT ![w] = rest]
    /\ IF rest = <<>>
         THEN Return(w)
         ELSE max' = [max EXCEPT ![w] = Len(rest)] /\ UNCHANGED stage

\* What a request with the lines s leaves, when those of refused fail. The
\* line of a deletion is never before that of the document with its id.
Applied(s, refused) ==
    [id \in Ids |->
        IF DeleteLine(id) \in Elems(s) THEN "none"
        ELSE IF IndexLine(id) \in Elems(s) \ refused THEN "new"
        ELSE es[id]]

HasDelete(s) == \E id \in Ids : DeleteLine(id) \in Elems(s)

\* Status 200. With an item that failed, print_errors looks up the "index" member
\* of each item; an item of a deletion has none and the worker dies (Killed).
Accepted(w) ==
    /\ Posting(w)
    /\ Fits(Batch(w))
    /\ \E refused \in SUBSET Elems(Batch(w)) :
          /\ \/ refused = {} /\ UNCHANGED events
             \/ refused # {} /\ ~HasDelete(Batch(w)) /\ Count("error")
          /\ es' = Applied(Batch(w), refused)
          /\ lineFate' = [l \in Lines |-> IF l \in refused THEN "refused"
                                      ELSE IF l \in Elems(Batch(w)) THEN "sent"
                                      ELSE lineFate[l]]
    /\ FlushRest(w, Rest(w))
    /\ UNCHANGED <<procVars, work>>

\* Mutant: only a request of one line would be known to be too large, and
\* the code gives up at two.
TooLargeAtTwo(w) ==
    /\ Posting(w)
    /\ ~Fits(Batch(w))
    /\ \/ /\ max[w] > 2
          /\ max' = [max EXCEPT ![w] = @ \div 2]
          /\ UNCHANGED <<stage, queued, lineFate>>
       \/ /\ max[w] <= 2
          /\ Settle({Head(queued[w])}, "tooLarge")
          /\ FlushRest(w, Tail(queued[w]))
    /\ UNCHANGED <<procVars, work, es, events>>

\* Mutant: the request is repeated without looking whether lines are left.
TooLargeKeepsMax(w) ==
    /\ Posting(w)
    /\ ~Fits(Batch(w))
    /\ \/ /\ max[w] > 1
          /\ max' = [max EXCEPT ![w] = @ \div 2]
          /\ UNCHANGED <<stage, queued, lineFate>>
       \/ /\ max[w] <= 1
          /\ Settle({Head(queued[w])}, "tooLarge")
          /\ queued' = [queued EXCEPT ![w] = Tail(@)]
          /\ UNCHANGED <<stage, max>>
    /\ UNCHANGED <<procVars, work, es, events>>

\* Status 413: half the lines, or give up the only one.
TooLarge(w) ==
    /\ Posting(w)
    /\ ~Fits(Batch(w))
    /\ \/ /\ max[w] > 1
          /\ max' = [max EXCEPT ![w] = @ \div 2]
          /\ UNCHANGED <<stage, queued, lineFate>>
       \/ /\ max[w] <= 1
          /\ Settle({Head(queued[w])}, "tooLarge")
          /\ FlushRest(w, Tail(queued[w]))
    /\ UNCHANGED <<procVars, work, es, events>>

\* Mutant: 429 is taken for success.
TooManyIsSuccess(w) ==
    /\ Posting(w)
    /\ Count("busy")
    /\ Settle(Elems(Batch(w)), "sent")
    /\ FlushRest(w, Rest(w))
    /\ UNCHANGED <<procVars, work, es>>

\* Status 429: after 20 s, the same request.
TooMany(w) ==
    /\ Posting(w)
    /\ Count("busy")
    /\ UNCHANGED <<procVars, work, indexerVars, es, lineFate>>

\* Any other status: free_queue is called for all that is queued, in the
\* request or not.
Rejected(w) ==
    /\ Posting(w)
    /\ Count("error")
    /\ Settle(Elems(queued[w]), "rejected")
    /\ queued' = [queued EXCEPT ![w] = <<>>]
    /\ Return(w)
    /\ UNCHANGED <<procVars, work, es>>

\* No answer (status 0 is fatal), or print_errors over a deletion: the child dies
\* with its queue, whatever Elasticsearch did with the request. The child that
\* replaces it has an empty Indexer.
Killed(w) ==
    /\ Posting(w)
    /\ Count("crash")
    /\ \/ UNCHANGED es
       \/ /\ Fits(Batch(w))
          /\ \E refused \in SUBSET Elems(Batch(w)) : es' = Applied(Batch(w), refused)
    /\ Settle(Elems(queued[w]), "crashed")
    /\ queued' = [queued EXCEPT ![w] = <<>>]
    /\ stage' = [stage EXCEPT ![w] = "idle"]
    /\ max' = [max EXCEPT ![w] = 0]
    /\ UNCHANGED <<procVars, work>>

-----------------------------------------------------------------------------
Indexer(w) ==
    \/ ElasticIndexLine(w) \/ LeaveLoop(w) \/ DropLine(w)
    \/ Accepted(w) \/ TooLarge(w) \/ TooMany(w) \/ Rejected(w) \/ Killed(w)

AllGone == \A w \in Indexers : stage[w] = "gone"

\* main returns from tpool_destroy.
Finished == AllGone /\ UNCHANGED indexVars

IndexerNext == Sist2Index \/ (\E w \in Indexers : Indexer(w)) \/ Finished

IndexerSpec == IndexerInit /\ [][IndexerNext]_indexVars

\* The processes run, and every request is answered or fails: web_post sets no time limit,
\* so this is asked of Elasticsearch and the network.
IndexerFairness == WF_indexVars(Sist2Index) /\ \A w \in Indexers : WF_indexVars(Indexer(w))

-----------------------------------------------------------------------------
(* Properties.                                                             *)

IndexerTypeOK ==
    /\ phase \in Phases
    /\ submittedLines \subseteq Lines
    /\ work \in Seq(Lines)
    /\ stage \in [Indexers -> Stages]
    /\ queued \in [Indexers -> Seq(Lines)]
    /\ max \in [Indexers -> Nat]
    /\ es \in [Ids -> {"none", "old", "new"}]
    /\ lineFate \in [Lines -> LineFates]
    /\ events \in [Events -> Nat]

\* A flush never frees more lines than are queued (free_queue would follow a NULL
\* line_head, elastic.c:285), and outside one fewer than a batch are kept.
FlushInBounds ==
    \A w \in Indexers :
        /\ Posting(w) => max[w] \in 1 .. Len(queued[w]) /\ Len(queued[w]) <= BatchSize
        /\ ~Posting(w) => Len(queued[w]) < BatchSize

Injective(s) == \A i, j \in 1 .. Len(s) : s[i] = s[j] => i = j

\* A submitted line is in exactly one place, once: in the table, in the queue of one
\* worker, or settled. So none is sent twice after an answer, whatever 413,
\* 429 and errors were mixed, and none is freed without having been settled.
LinesConserved ==
    /\ Injective(work)
    /\ \A w \in Indexers : Injective(queued[w]) /\ Elems(queued[w]) \cap Elems(work) = {}
    /\ \A v, w \in Indexers : v # w => Elems(queued[v]) \cap Elems(queued[w]) = {}
    /\ \A l \in Lines :
          lineFate[l] = "none" /\ l \in submittedLines
              <=> l \in Elems(work) \cup UNION {Elems(queued[w]) : w \in Indexers}

\* Halving gives up no line that could be sent by itself.
OnlyTooLargeGivenUp == \A l \in Lines : lineFate[l] = "tooLarge" => ~Fits(<<l>>)

\* A line that was freed as sent has reached Elasticsearch, and stays there unless
\* the delete list has the id; what is there came from a line that was taken.
EsHasWhatWasSent ==
    \A id \in Ids :
        /\ lineFate[IndexLine(id)] = "sent" /\ id \notin Deletable => es[id] = "new"
        /\ es[id] = "new" => lineFate[IndexLine(id)] \in {"sent", "crashed"}


Unharmed == events.error = 0 /\ events.crash = 0 /\ "dropped" \notin {lineFate[l] : l \in Lines}

\* docs/USAGE.md:49, of the option for the scans that follow: "Assumes that the old index
\* is already ingested in Elasticsearch". When nothing fails, the documents of the index
\* file that can be sent are there.
DocumentsAreIndexed ==
    AllGone /\ Unharmed
        => \A id \in Documents : Fits(<<IndexLine(id)>>) => es[id] = "new"

\* tests/test_scan.py:106 counts on the iterator for every document: main submits
\* a line for each of them.
DocumentsAreSubmitted == phase = "wait" => \A id \in Documents : IndexLine(id) \in submittedLines

=============================================================================
