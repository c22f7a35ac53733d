------------------------- MODULE MCServerAndCommands -------------------------
(* Small instances, for TLC, of the eight machines that share no state with  *)
(* each other: the commands and the setup of Elasticsearch, the statistics   *)
(* and the tree of directories made of the documents, the search index and   *)
(* its tags, the pages of a search, the requests to the server and the job   *)
(* records of sist2-admin. One of them runs, the others stay where they      *)
(* begin: the states are those of each machine by itself.                    *)
EXTENDS CommandLine, ElasticSetup, IndexStats, JobRecords, PathIndex, SearchIndex, SearchPaging,
        WebServer, TLC

VARIABLE running  \* the machine that runs

CONSTANTS p1, p2, c1, c2, path1, path2,
          Machines  \* those that may run

-----------------------------------------------------------------------------
(* Command lines.                                                          *)

TwoProcesses == {p1, p2}

ScanOf ==
    [command |-> "scan", major |-> 3, path |-> "folder", quality |-> Absent, size |-> Absent,
     count |-> Absent, content |-> Absent, threads |-> Absent, depth |-> Absent,
     incremental |-> FALSE, archive |-> Absent, ocr |-> {}, lang |-> Absent, exclude |-> Absent,
     list |-> Absent]
Rescan == [ScanOf EXCEPT !.incremental = TRUE]
IndexOf == [command |-> "index", major |-> 3, path |-> "index", threads |-> Absent,
            batch_size |-> Absent, external |-> Absent]
SqliteIndexOf == [command |-> "sqlite-index", major |-> 3, path |-> "index", search_index |-> "found"]
WebOf == [command |-> "web", major |-> 3, path |-> "index", search_index |-> Absent, es |-> {},
          lang |-> Absent, auth |-> Absent, tag_auth |-> Absent, auth0 |-> {}, external |-> Absent]

MCCommands ==
    { ScanOf, Rescan, [Rescan EXCEPT !.major = 4],
      [ScanOf EXCEPT !.path = Absent], [ScanOf EXCEPT !.path = "missing"],
      [ScanOf EXCEPT !.quality = 0], [ScanOf EXCEPT !.quality = 101], [ScanOf EXCEPT !.quality = -1],
      [ScanOf EXCEPT !.depth = 0],
      [ScanOf EXCEPT !.count = 0, !.content = 0, !.size = 32, !.quality = 100, !.depth = 1, !.threads = 256],
      [ScanOf EXCEPT !.size = 31], [Rescan EXCEPT !.threads = 257], [Rescan EXCEPT !.count = 1001],
      [Rescan EXCEPT !.depth = MaxInt, !.archive = "skip"], [ScanOf EXCEPT !.archive = "zip"],
      [ScanOf EXCEPT !.ocr = {"images"}], [ScanOf EXCEPT !.lang = "eng"],
      [Rescan EXCEPT !.ocr = {"ebooks"}, !.lang = "eng", !.list = "outside"],
      [ScanOf EXCEPT !.ocr = {"ebooks"}, !.lang = "not found"],
      [ScanOf EXCEPT !.ocr = {"ebooks"}, !.lang = "broken"],
      [ScanOf EXCEPT !.exclude = "invalid"], [ScanOf EXCEPT !.list = "missing"],
      IndexOf, [IndexOf EXCEPT !.major = 4], [IndexOf EXCEPT !.threads = -1],
      [IndexOf EXCEPT !.external = "unreadable"],
      SqliteIndexOf, [SqliteIndexOf EXCEPT !.search_index = Absent],
      WebOf, [WebOf EXCEPT !.auth = "user:password", !.lang = 5],
      [WebOf EXCEPT !.auth = "user:password", !.tag_auth = "user:password"],
      [WebOf EXCEPT !.auth = "no user"], [WebOf EXCEPT !.tag_auth = "no colon"],
      [WebOf EXCEPT !.tag_auth = "user:password", !.auth0 = Auth0Members],
      [WebOf EXCEPT !.auth0 = {"public_key"}],
      [WebOf EXCEPT !.auth0 = Auth0Members, !.external = "unreadable"],
      [WebOf EXCEPT !.search_index = "found"], [WebOf EXCEPT !.search_index = "found", !.es = {"url"}],
      [WebOf EXCEPT !.search_index = "missing"],
      [command |-> "unknown", major |-> 3] }

-----------------------------------------------------------------------------
(* Documents.                                                              *)

TwoPaths == {path1, path2}
TwoVersions == {1, 2}

\* Directories without documents of their own, two of the same parent, two roots.
MCDirectories == {<<"a">>, <<"a", "b", "c">>, <<"a", "d">>, <<"e", "b">>}

FileOf(size, mtime, mime) == [size |-> size, mtime |-> mtime, mime |-> mime]

\* Files of several sizes at several depths, with directories that only hold others.
MCCorpora ==
    { (<<"a", "b", "f">> :> FileOf(1, 0, "txt") @@ <<"a", "b", "g">> :> FileOf(4, 3, "txt") @@
       <<"a", "h">> :> FileOf(1, 1, "none") @@ <<"i">> :> FileOf(1, 1, "img")),
      (<<"a", "f">> :> FileOf(1, 0, "txt") @@ <<"b", "c", "g">> :> FileOf(1, 3, "txt") @@
       <<"b", "h">> :> FileOf(2, 1, "none") @@ <<"b", "e", "c">> :> FileOf(1, 1, "none")) }

DocumentOf(index, path, size, mtime, tags, words, embeddings) ==
    [index |-> index, path |-> path, size |-> size, mtime |-> mtime, name |-> 5 - size, mime |-> "txt",
     tags |-> tags, words |-> words, score |-> size \div 2, random |-> mtime, embedding |-> size,
     embeddings |-> embeddings]

\* Two that sort alike by size, two by date, one with two embeddings, one at the root.
MCCatalogue ==
    1 :> DocumentOf(1, <<"a">>, 1, 3, {<<"u", "v">>}, {"x"}, 0) @@
    2 :> DocumentOf(1, <<"a", "b">>, 2, 2, {<<"u">>}, {"x"}, 1) @@
    3 :> DocumentOf(1, <<>>, 2, 1, {}, {"x", "y"}, 2) @@
    4 :> DocumentOf(2, <<"b">>, 1, 1, {<<"u", "v">>, <<"w">>}, {"x"}, 0)

Blank ==
    [query |-> None, path |-> None, sort |-> "score", sizeMin |-> None, sizeMax |-> None,
     dateMin |-> None, dateMax |-> None, pageSize |-> 1, sortAsc |-> None, indexIds |-> <<1, 2>>,
     mimeTypes |-> None, searchInPath |-> FALSE, embedding |-> None, model |-> None, tags |-> None,
     fetchAggregations |-> TRUE, after |-> None]

MCForms ==
    { [Blank EXCEPT !.query = w, !.sort = s, !.sortAsc = a, !.pageSize = n] :
        w \in {None, "x"}, s \in SortModes, a \in {None, FALSE}, n \in {1, 2} } \cup
    { [Blank EXCEPT !.path = <<"a">>, !.query = w] : w \in {None, "x", ""} } \cup
    { [Blank EXCEPT !.tags = <<<<"u">>>>], [Blank EXCEPT !.sizeMin = 2],
      [Blank EXCEPT !.sizeMax = 1, !.dateMin = 2], [Blank EXCEPT !.indexIds = None],
      [Blank EXCEPT !.searchInPath = None], [Blank EXCEPT !.path = <<"a", "*">>],
      [Blank EXCEPT !.indexIds = [n \in 1 .. 1000 |-> 1]],
      [Blank EXCEPT !.sort = Wrong], [Blank EXCEPT !.pageSize = 0], [Blank EXCEPT !.model = 1],
      [Blank EXCEPT !.model = 1, !.embedding = <<1, 2>>],
      [Blank EXCEPT !.model = 2, !.embedding = <<1, 2>>, !.sort = "embedding", !.sortAsc = FALSE],
      [Blank EXCEPT !.query = "b", !.searchInPath = TRUE], [Blank EXCEPT !.mimeTypes = <<"txt">>] }

-----------------------------------------------------------------------------
(* Requests.                                                               *)

TwoConnections == {c1, c2}

ServerOf(backend, auth, tag_auth, auth0, indices, rewrite) ==
    [backend |-> backend, auth |-> auth, tag_auth |-> tag_auth, auth0 |-> auth0,
     indices |-> indices, rewrite |-> rewrite]

MCSettings ==
    { ServerOf("es", TRUE, FALSE, FALSE, <<1, 2>>, FALSE), ServerOf("es", FALSE, TRUE, TRUE, <<1>>, TRUE),
      ServerOf("sqlite", FALSE, FALSE, TRUE, <<2, 1>>, FALSE) }

Good(route) == [route |-> route, credentials |-> TRUE, cookie |-> TRUE, wellFormed |-> TRUE,
                index |-> 1, exists |-> TRUE, body |-> "complete"]

MCRequests ==
    { Good("/es"), Good("/tag/*"), Good("/i"), Good("/f/*"), Good("/fts/search"), Good("/status"),
      [Good("/tag/*") EXCEPT !.credentials = FALSE], [Good("/tag/*") EXCEPT !.index = 0],
      [Good("/tag/*") EXCEPT !.body = "incomplete"], [Good("/f/*") EXCEPT !.index = 2],
      [Good("/fts/search") EXCEPT !.cookie = FALSE], [Good("/fts/d/*") EXCEPT !.exists = FALSE] }

-----------------------------------------------------------------------------
(* One machine after another.                                              *)

\* Where a machine that does not run stays.
StatsRest == corpus = (CHOOSE c \in Corpora : TRUE) /\ members = corpus /\ threshold = 0
PathsRest == holds = [d \in Directories |-> [i \in PathIds |-> 0]]
SearchRest == request = Blank /\ present = {}
WebRest == settings = CHOOSE s \in Settings : TRUE
RecordsRest == listed = FALSE

Init ==
    /\ running \in Machines
    /\ running # "stats" => StatsRest
    /\ running # "paths" => PathsRest
    /\ running # "search" => SearchRest
    /\ running # "web" => WebRest
    /\ running # "records" => RecordsRest
    /\ CommandInit /\ SetupInit /\ StatsInit /\ PathInit /\ SearchInit /\ PagingInit /\ WebInit
    /\ RecordInit

Next ==
    /\ UNCHANGED running
    /\ IF running = "commands" THEN CommandNext ELSE UNCHANGED commandVars
    /\ IF running = "setup" THEN SetupNext ELSE UNCHANGED setupVars
    /\ IF running = "stats" THEN StatsNext ELSE UNCHANGED statsVars
    /\ IF running = "paths" THEN PathNext ELSE UNCHANGED pathVars
    /\ IF running = "tags" THEN SearchNext ELSE UNCHANGED searchVars
    /\ IF running = "search" THEN PagingNext ELSE UNCHANGED pagingVars
    /\ IF running = "web" THEN WebNext ELSE UNCHANGED webVars
    /\ IF running = "records" THEN RecordNext ELSE UNCHANGED recordVars

vars == <<running, commandVars, setupVars, statsVars, pathVars, searchVars, pagingVars, webVars,
          recordVars>>

Spec == Init /\ [][Next]_vars /\ WebFairness

\* Each machine keeps to the values that its module declares.
TypesOK == CommandTypeOK /\ SetupTypeOK /\ StatsTypeOK /\ PathTypeOK
           /\ SearchTypeOK /\ PagingTypeOK /\ WebTypeOK /\ RecordTypeOK
=============================================================================
