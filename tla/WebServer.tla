----------------------------- MODULE WebServer -----------------------------
(***************************************************************************)
(* The event loop of `sist2 web`: what it answers to a request, by whom it *)
(* may be asked, and the requests that are passed on to Elasticsearch and  *)
(* answered when a later MG_EV_POLL finds them done.                       *)
(*                                                                         *)
(* A request is its route and what decides about the answer; the contents  *)
(* of answers are left out, and the tags a request writes are SearchIndex. *)
(* The server is one thread.  mongoose and libcurl are external: mongoose  *)
(* delivers no request on a connection whose last one is not answered, a   *)
(* transfer under way has a descriptor and one that ended has none.  No    *)
(* transfer has a time limit: web_post_async sets none, and libcurl is not *)
(* called while select finds nothing.                                      *)
(***************************************************************************)
EXTENDS Naturals, Sequences, FiniteSets

CONSTANTS Connections,
          Settings,     \* web_args: the settings a server may be started with
          WebRequests,  \* requests that clients send
          MaxRequests, MaxCloses, MaxParts, MaxSignals  \* bounds on events

NoReply == 0          \* nothing is sent yet
NoCtx == [transfer |-> "none"]

VARIABLES
    settings,    \* backend, auth, tag_auth, auth0, the ids of the loaded indices
    conn,        \* of each connection: "open" or "closed"
    asked,       \* the last request of each connection, with its serial number
    reply,       \* the status of the answer to it
    fn_data,     \* the subrequest of a connection
    es_version,  \* WebCtx.es_version is known
    server,      \* "up" or "exited"
    \* --- history
    serial,      \* requests so far
    replies,     \* how many answers each request got
    es_status,   \* what Elasticsearch answered each subrequest
    closes, signals

webVars == <<settings, conn, asked, reply, fn_data, es_version, server, serial, replies, es_status,
             closes, signals>>

NoRequest == [route |-> "none", serial |-> 0]

WebInit ==
    /\ settings \in Settings
    /\ conn = [c \in Connections |-> "open"]
    /\ asked = [c \in Connections |-> NoRequest]
    /\ reply = [c \in Connections |-> NoReply]
    /\ fn_data = [c \in Connections |-> NoCtx]
    /\ es_version = FALSE /\ server = "up"
    /\ serial = 0 /\ replies = <<>> /\ es_status = <<>>
    /\ closes = 0 /\ signals = 0

-----------------------------------------------------------------------------
(* What a handler answers at once.                                         *)

OpenRoutes == {"/", "/favicon.ico", "/css/index.css", "/css/chunk-vendors.css", "/js/index.js",
               "/js/chunk-vendors.js", "/i"}
FtsRoutes == {"/fts/paths", "/fts/mimetypes", "/fts/dateRange", "/fts/search", "/fts/d/*",
              "/fts/suggestTags", "/fts/tags"}
DataRoutes == {"/t/*/*", "/t/*", "/s/*/*", "/e/*/*"}

\* web_get_index_by_id: the last slot with that id. Past the last is one with id 0, and
\* without a database.
Slots == [n \in 1 .. Len(settings.indices) + 1 |->
             IF n <= Len(settings.indices) THEN settings.indices[n] ELSE 0]
IndexById(id) ==
    LET found == {n \in DOMAIN Slots : Slots[n] = id}
    IN  IF found = {} THEN 0 ELSE CHOOSE n \in found : \A m \in found : m <= n
HasDatabase(id) == IndexById(id) \in DOMAIN settings.indices

\* Path well formed, index loaded, thumbnail, embedding or kind of statistics there.
ServeData(r) == IF r.wellFormed /\ HasDatabase(r.index) /\ r.exists THEN 200 ELSE 404

\* The file of a document, or the archive that it is in; with a rewrite url the client
\* is redirected.
ServeFile(r) ==
    IF ServeData(r) = 404 THEN 404 ELSE IF settings.rewrite THEN 308 ELSE 200

\* cache_es_version: asked for until Elasticsearch has answered once.
VersionKnown(r) ==
    IF r.route = "/i" /\ settings.backend = "es" THEN {es_version, TRUE} ELSE {es_version}

\* The handlers of web_fts.c: those with a body refuse one that they cannot read.
ServeFts(r) ==
    CASE r.route \in {"/fts/paths", "/fts/search", "/fts/suggestTags"} -> IF r.wellFormed THEN 200 ELSE 400
      [] r.route = "/fts/d/*" -> IF r.wellFormed /\ r.exists THEN 200 ELSE 404
      [] OTHER -> 200

\* tag(): the path, a body that is JSON, the index, a request that is complete.
ServeTag(r) ==
    CASE ~r.wellFormed -> 404
      [] r.body = "no json" -> 400
      [] r.body # "no json" /\ ~HasDatabase(r.index) -> 404
      [] r.body = "incomplete" /\ HasDatabase(r.index) -> 400
      [] OTHER -> 200

\* The conditions under which ev_router comes to the routes with data.
Authorised(r) == ~settings.auth \/ r.credentials
Authenticated(r) == ~settings.auth0 \/ r.cookie
MayTag(r) == ~settings.tag_auth \/ r.credentials

\* Mutant: the cookie is looked for once the routes of the backend are served.
AnswersUnauthenticated(r) ==
    CASE ~Authorised(r) -> {401}
      [] Authorised(r) /\ r.route \in OpenRoutes -> {200}
      [] OTHER -> {200, 404}

\* Every answer that ev_router gives without asking Elasticsearch asynchronously.
Answers(r) ==
    IF ~Authorised(r) THEN {401}
    ELSE IF r.route \in OpenRoutes THEN {200}
    ELSE IF ~Authenticated(r) THEN {403}
    ELSE IF r.route \in FtsRoutes /\ settings.backend = "sqlite" THEN {ServeFts(r)}
    ELSE IF r.route = "/es" /\ settings.backend = "es" THEN IF r.wellFormed THEN {} ELSE {400}
    ELSE IF r.route = "/status" THEN {204, 500}
    ELSE IF r.route = "/f/*" THEN {ServeFile(r)}
    ELSE IF r.route \in DataRoutes THEN {ServeData(r)}
    ELSE IF r.route = "/tag/*" THEN
        IF ~MayTag(r) THEN {401}
        ELSE IF ServeTag(r) = 200 /\ settings.backend = "es" THEN {} ELSE {ServeTag(r)}
    ELSE {404}

-----------------------------------------------------------------------------
(* MG_EV_HTTP_MSG.                                                         *)

Send(c, status) ==
    /\ reply' = [reply EXCEPT ![c] = status]
    /\ replies' = [replies EXCEPT ![asked'[c].serial] = @ + 1]

Receive(c, r) ==
    /\ server = "up" /\ conn[c] = "open"
    /\ asked[c] = NoRequest \/ reply[c] # NoReply
    /\ serial < MaxRequests
    /\ serial' = serial + 1
    /\ asked' = [asked EXCEPT ![c] = [route |-> r.route, serial |-> serial', of |-> r]]
    /\ UNCHANGED <<settings, conn, server, closes, signals>>

AnswerAtOnce(c, r) ==
    /\ Receive(c, r)
    /\ \E status \in Answers(r) : /\ reply' = [reply EXCEPT ![c] = status]
                                  /\ replies' = Append(replies, 1)
    /\ es_status' = Append(es_status, NoReply)
    /\ es_version' \in IF Authorised(r) THEN VersionKnown(r) ELSE {es_version}
    /\ UNCHANGED fn_data

\* web_post_async: the first curl_multi_perform may already end the transfer, when
\* the connection is refused at once. web_post_async_poll takes that for one without a
\* descriptor yet and returns, every time: no action leads on from "ended".
PostAsync(c, r) ==
    /\ Receive(c, r)
    /\ Answers(r) = {}
    /\ \E parts \in 0 .. MaxParts :
          fn_data' = [fn_data EXCEPT ![c] =
                         [transfer |-> IF parts = 0 THEN "ended" ELSE "running", ready |-> FALSE,
                          parts |-> parts, serial |-> serial']]
    /\ reply' = [reply EXCEPT ![c] = NoReply]
    /\ replies' = Append(replies, 0) /\ es_status' = Append(es_status, NoReply)
    /\ UNCHANGED es_version

\* A search that SQLite does not compile (SearchPaging).
SearchExits(c, r) ==
    /\ server = "up" /\ conn[c] = "open"
    /\ r.route = "/fts/search" /\ r.wellFormed /\ 200 \in Answers(r)
    /\ server' = "exited"
    /\ UNCHANGED <<settings, conn, asked, reply, fn_data, es_version, serial, replies, es_status,
                   closes, signals>>

-----------------------------------------------------------------------------
(* MG_EV_POLL and what is outside.                                         *)

Running(c) == fn_data[c].transfer = "running"

\* A part of the answer arrives, or the connection fails: what Elasticsearch and the
\* network do, and may never do.
Arrive(c) ==
    /\ Running(c) /\ ~fn_data[c].ready
    /\ fn_data' = [fn_data EXCEPT ![c].ready = TRUE]
    /\ UNCHANGED <<settings, conn, asked, reply, es_version, server, serial, replies, es_status,
                   closes, signals>>

\* Status 0: no answer.
ReplyTo(status) == CASE status = 200 -> 200 [] status = 0 -> 503 [] OTHER -> 500
EsStatuses == {0, 200, 400}

\* Mutant: the end of a transfer is seen by the next poll, which finds no descriptor.
PollReadyOnce(c) ==
    /\ server = "up" /\ conn[c] = "open"
    /\ Running(c) /\ fn_data[c].ready
    /\ fn_data' = [fn_data EXCEPT ![c].ready = FALSE, ![c].parts = @ - 1,
                                  ![c].transfer = IF fn_data[c].parts = 1 THEN "ended" ELSE @]
    /\ UNCHANGED <<reply, replies, es_status>>
    /\ UNCHANGED <<settings, conn, asked, es_version, server, serial, closes, signals>>

\* select finds a descriptor: the transfer goes on, or it ends and is answered.
PollReady(c) ==
    /\ server = "up" /\ conn[c] = "open"
    /\ Running(c) /\ fn_data[c].ready
    /\ IF fn_data[c].parts > 1
       THEN /\ fn_data' = [fn_data EXCEPT ![c].ready = FALSE, ![c].parts = @ - 1]
            /\ UNCHANGED <<reply, replies, es_status>>
       ELSE \E status \in EsStatuses :
            /\ es_status' = [es_status EXCEPT ![fn_data[c].serial] = status]
            /\ reply' = [reply EXCEPT ![c] = ReplyTo(status)]
            /\ replies' = [replies EXCEPT ![fn_data[c].serial] = @ + 1]
            /\ fn_data' = [fn_data EXCEPT ![c] = NoCtx]
    /\ UNCHANGED <<settings, conn, asked, es_version, server, serial, closes, signals>>

\* select is interrupted: done, with status 0, although the transfer is running.
PollInterrupted(c) ==
    /\ server = "up" /\ conn[c] = "open"
    /\ Running(c)
    /\ signals < MaxSignals /\ signals' = signals + 1
    /\ reply' = [reply EXCEPT ![c] = ReplyTo(0)]
    /\ replies' = [replies EXCEPT ![fn_data[c].serial] = @ + 1]
    /\ fn_data' = [fn_data EXCEPT ![c] = NoCtx]
    /\ UNCHANGED <<settings, conn, asked, es_version, server, serial, es_status, closes>>

\* The client goes away. No handler frees the subrequest: it is not polled again.
CloseConnection(c) ==
    /\ conn[c] = "open"
    /\ closes < MaxCloses /\ closes' = closes + 1
    /\ conn' = [conn EXCEPT ![c] = "closed"]
    /\ UNCHANGED <<settings, asked, reply, fn_data, es_version, server, serial, replies, es_status,
                   signals>>

\* A new connection begins with fn_data NULL.
Connect(c) ==
    /\ server = "up" /\ conn[c] = "closed"
    /\ conn' = [conn EXCEPT ![c] = "open"]
    /\ asked' = [asked EXCEPT ![c] = NoRequest]
    /\ reply' = [reply EXCEPT ![c] = NoReply]
    /\ fn_data' = [fn_data EXCEPT ![c] = NoCtx]
    /\ UNCHANGED <<settings, es_version, server, serial, replies, es_status, closes, signals>>

WebNext ==
    \E c \in Connections :
        \/ \E r \in WebRequests : AnswerAtOnce(c, r) \/ PostAsync(c, r) \/ SearchExits(c, r)
        \/ Arrive(c) \/ PollReady(c) \/ PollInterrupted(c)
        \/ CloseConnection(c) \/ Connect(c)

\* The loop polls every connection again and again. Clients need not ask, and
\* Elasticsearch need not answer.
WebFairness == \A c \in Connections : WF_webVars(PollReady(c))

WebSpec == WebInit /\ [][WebNext]_webVars /\ WebFairness
-----------------------------------------------------------------------------
(* Properties.                                                             *)

WebTypeOK ==
    /\ settings \in Settings
    /\ \A c \in Connections :
          /\ conn[c] \in {"open", "closed"}
          /\ reply[c] \in {NoReply, 200, 204, 308, 400, 401, 403, 404, 500, 503}
          /\ fn_data[c].transfer \in {"none", "running", "ended"}
          /\ asked[c].serial \in 0 .. serial
    /\ Len(replies) = serial /\ Len(es_status) = serial

\* No request gets two answers; a connection that waits is one whose subrequest is the
\* one of its last request, never that of a client that used it before; and what it is
\* told is what Elasticsearch answered to that, or that there was no answer. Whoever is
\* answered otherwise than by a refusal was entitled to.
RepliesAreDue ==
    /\ \A n \in DOMAIN replies : replies[n] <= 1
    /\ \A c \in Connections :
          LET last == asked[c].serial
          IN  /\ fn_data[c] # NoCtx => fn_data[c].serial = last /\ reply[c] = NoReply
              /\ last # 0 /\ reply[c] = NoReply => fn_data[c] # NoCtx
              /\ last # 0 /\ reply[c] # NoReply =>
                    /\ es_status[last] # NoReply => reply[c] = ReplyTo(es_status[last])
                    /\ LET r == asked[c].of
                       IN  /\ reply[c] \in {401, 403} \/ Authorised(r)
                           /\ reply[c] \in {401, 403} \/ r.route \in OpenRoutes \/ Authenticated(r)
                           /\ reply[c] \in {401, 403} \/ r.route # "/tag/*" \/ MayTag(r)

Replied(c) == fn_data[c] = NoCtx /\ reply[c] # NoReply
Abandoned(c) == conn[c] = "closed" \/ server = "exited"

\* What Elasticsearch owes: none of the transfers under way on the connection waits for
\* ever without a part of its answer or the end of its connection.
ElasticsearchResponds(c) == []<>(Running(c) => fn_data[c].ready)

\* Where Elasticsearch responds, a request passed on to it is answered, through all the
\* parts that its answer comes in, unless its client or the server goes away.
SubrequestsAreAnswered ==
    \A c \in Connections :
        ElasticsearchResponds(c) => (Running(c) ~> Replied(c) \/ Abandoned(c))

\* Also a transfer that ended before the first poll is answered, as the branch for status 0
\* of MG_EV_POLL, "Elasticsearch connection error, see server logs.", is there to do.
TransfersThatEndAreAnswered ==
    \A c \in Connections :
        fn_data[c].transfer = "ended" ~> Replied(c) \/ Abandoned(c)
=============================================================================
