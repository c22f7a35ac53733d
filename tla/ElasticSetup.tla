---------------------------- MODULE ElasticSetup ----------------------------
(***************************************************************************)
(* What `sist2 index` asks of Elasticsearch before it sends documents and  *)
(* after: elastic_init makes an index whose analysers need it to be closed *)
(* while they are set, one request after the other; finish_indexer makes   *)
(* what was sent visible.                                                  *)
(*                                                                         *)
(* A request may fail, and one that failed may yet have been carried out   *)
(* when only its answer was lost.  The command may be killed in between.   *)
(* Elasticsearch is external: it refuses settings of an open index, the    *)
(* creation of one that is there, and requests on one that is not.         *)
(***************************************************************************)
EXTENDS Naturals, FiniteSets

CONSTANTS MaxRuns, MaxFailures, MaxDeaths

ASSUME SetupAssumption == MaxRuns \in Nat /\ MaxFailures \in Nat /\ MaxDeaths \in Nat

VARIABLES
    es,          \* the index of Elasticsearch
    step,        \* the next request of the running command
    force_reset, \* its option
    \* --- history
    incomplete,  \* the index was created, and not opened yet by the setup that did
    runs, failures, deaths

setupVars == <<es, step, force_reset, incomplete, runs, failures, deaths>>

NoIndex == [exists |-> FALSE, open |-> FALSE, settings |-> FALSE, mappings |-> FALSE, documents |-> "none"]
Steps == {"idle", "version", "get", "delete", "create", "close", "pipeline", "settings", "mappings",
          "open", "bulk", "refresh"}

SetupInit ==
    /\ es = NoIndex /\ step = "idle"
    /\ force_reset = FALSE
    /\ incomplete = FALSE
    /\ runs = 0 /\ failures = 0 /\ deaths = 0

-----------------------------------------------------------------------------
(* Elasticsearch.                                                          *)

\* What a request makes of the index, and whether it is one that can be carried out.
Effect(request) ==
    CASE request = "delete" -> NoIndex
      [] request = "create" -> [NoIndex EXCEPT !.exists = TRUE, !.open = TRUE]
      [] request = "close" -> [es EXCEPT !.open = FALSE]
      [] request = "settings" -> [es EXCEPT !.settings = TRUE]
      [] request = "mappings" -> [es EXCEPT !.mappings = TRUE]
      [] request = "open" -> [es EXCEPT !.open = TRUE]
      [] request = "refresh" -> IF es.documents = "sent" THEN [es EXCEPT !.documents = "visible"] ELSE es
      [] OTHER -> es

CanDo(request) ==
    CASE request = "create" -> ~es.exists
      [] request = "settings" -> es.exists /\ ~es.open
      [] request \in {"get", "delete", "close", "mappings", "open", "refresh"} -> es.exists
      [] OTHER -> TRUE

\* ok: the command is answered with status 200.
Request(request, ok) ==
    \/ /\ CanDo(request) /\ ok
       /\ es' = Effect(request) /\ UNCHANGED failures
    \/ /\ ~CanDo(request) /\ ~ok
       /\ UNCHANGED <<es, failures>>
    \/ /\ ~ok /\ failures < MaxFailures /\ failures' = failures + 1
       /\ es' \in {es} \cup {e \in {Effect(request)} : CanDo(request)}

-----------------------------------------------------------------------------
(* sist2 index.                                                            *)

BeginIndex ==
    /\ step = "idle" /\ runs < MaxRuns
    /\ runs' = runs + 1
    /\ force_reset' \in BOOLEAN
    /\ step' = "version"
    /\ UNCHANGED <<es, incomplete, failures, deaths>>

\* No answer, an error, or a version that is not supported: fatal.
GetVersion ==
    /\ step = "version"
    /\ \E ok \in BOOLEAN : /\ Request("version", ok)
                           /\ step' = IF ok THEN "get" ELSE "idle"
    /\ UNCHANGED <<force_reset, incomplete, runs, deaths>>

\* index_exists: any answer but 200 says that there is no index.
GetIndex ==
    /\ step = "get"
    /\ \E ok \in BOOLEAN : /\ Request("get", ok)
                           /\ step' = IF ~ok \/ force_reset THEN "delete" ELSE "bulk"
    /\ UNCHANGED <<force_reset, incomplete, runs, deaths>>

\* Its answer is not checked: what is left makes the next request fail.
DeleteIndex ==
    /\ step = "delete"
    /\ \E ok \in BOOLEAN : Request("delete", ok)
    /\ step' = "create"
    /\ UNCHANGED <<force_reset, incomplete, runs, deaths>>

Following == [create |-> "close", close |-> "pipeline", pipeline |-> "settings",
              settings |-> "mappings", mappings |-> "open", open |-> "bulk"]
Checked == {"create", "settings", "mappings"}

\* A new index is incomplete until it is opened.
IncompleteAfter(request, ok) ==
    CASE request = "create" -> incomplete \/ es' # es
      [] request = "open" -> ~ok
      [] OTHER -> incomplete

\* Mutant: the answers to settings and mappings are not checked.
SetupRequestUnchecked(request) ==
    /\ step = request
    /\ \E ok \in BOOLEAN :
          /\ Request(request, ok)
          /\ step' = IF ok \/ request # "create" THEN Following[request] ELSE "idle"
          /\ incomplete' = IncompleteAfter(request, ok)
    /\ UNCHANGED <<force_reset, runs, deaths>>

\* The answers to settings, mappings and the creation are checked, the others logged.
SetupRequest(request) ==
    /\ step = request
    /\ \E ok \in BOOLEAN :
          /\ Request(request, ok)
          /\ step' = IF ok \/ request \notin Checked THEN Following[request] ELSE "idle"
          /\ incomplete' = IncompleteAfter(request, ok)
    /\ UNCHANGED <<force_reset, runs, deaths>>

\* The version of the index file is checked only here (CommandLine); then the lines are
\* sent (ElasticIndexer). An index that is closed takes none.
Bulk ==
    /\ step = "bulk"
    /\ \/ /\ es' = IF es.exists /\ es.open THEN [es EXCEPT !.documents = "sent"] ELSE es
          /\ step' = "refresh"
       \/ step' = "idle" /\ UNCHANGED es
    /\ UNCHANGED <<force_reset, incomplete, runs, failures, deaths>>

\* finish_indexer
Refresh ==
    /\ step = "refresh"
    /\ \E ok \in BOOLEAN : Request("refresh", ok)
    /\ step' = "idle"
    /\ UNCHANGED <<force_reset, incomplete, runs, deaths>>

KillIndex ==
    /\ step # "idle"
    /\ deaths < MaxDeaths /\ deaths' = deaths + 1
    /\ step' = "idle"
    /\ UNCHANGED <<es, force_reset, incomplete, runs, failures>>

SetupNext ==
    \/ BeginIndex \/ GetVersion \/ GetIndex \/ DeleteIndex \/ Bulk \/ Refresh \/ KillIndex
    \/ \E request \in DOMAIN Following : SetupRequest(request)

SetupSpec == SetupInit /\ [][SetupNext]_setupVars
-----------------------------------------------------------------------------
(* Properties.                                                             *)

SetupTypeOK ==
    /\ es \in [exists : BOOLEAN, open : BOOLEAN, settings : BOOLEAN, mappings : BOOLEAN,
               documents : {"none", "sent", "visible"}]
    /\ step \in Steps
    /\ runs \in 0 .. MaxRuns /\ failures \in 0 .. MaxFailures

\* Documents are sent to an index that is open and has the analysers and mappings they
\* are searched by, whatever became of earlier commands, unless the setup that made the
\* index was cut short, or Elasticsearch did not say that it opened it.
ReadyForDocuments ==
    /\ step = "bulk" /\ ~incomplete => es.exists /\ es.settings /\ es.mappings /\ es.open
    /\ es.documents # "none" /\ ~incomplete => es.settings /\ es.mappings
=============================================================================
