----------------------- MODULE ServerAndCommandProofs -----------------------
(***************************************************************************)
(* The commands on an index file and the setup of Elasticsearch: what the  *)
(* file is known by is kept, a command works by the settings it was given, *)
(* and documents go to an index that is ready for them.  The answers of    *)
(* the web server.  For any number of commands and clients at once, any    *)
(* command lines, settings, requests, failures and deaths.                 *)
(*                                                                         *)
(* At the end, the types of all eight machines that MCServerAndCommands    *)
(* puts beside each other, for all values of their constants.              *)
(***************************************************************************)
EXTENDS MCServerAndCommands, AggregateProofs, SearchIndexProofs, JobRecordsProofs

-----------------------------------------------------------------------------
(* The web server: the inductive invariant.                                *)

Statuses == {NoReply, 200, 204, 308, 400, 401, 403, 404, 500, 503}

Asked == {NoRequest} \cup [route : {r.route : r \in WebRequests}, serial : 1 .. serial, of : WebRequests]

Subrequest ==
    {NoCtx} \cup [transfer : {"running", "ended"}, ready : BOOLEAN, parts : Nat, serial : 1 .. serial]

WebTypes ==
    /\ settings \in Settings
    /\ conn \in [Connections -> {"open", "closed"}]
    /\ serial \in Nat
    /\ asked \in [Connections -> Asked]
    /\ reply \in [Connections -> Statuses]
    /\ fn_data \in [Connections -> Subrequest]
    /\ replies \in Seq({0, 1}) /\ Len(replies) = serial
    /\ es_status \in Seq(EsStatuses) /\ Len(es_status) = serial

\* A request belongs to one connection.
OwnRequests ==
    \A c, d \in Connections : asked[c] # NoRequest /\ asked[c].serial = asked[d].serial => c = d

\* Whoever sent the request may have it answered otherwise than by a refusal.
Entitled(r) ==
    /\ Authorised(r)
    /\ r.route \in OpenRoutes \/ Authenticated(r)
    /\ r.route # "/tag/*" \/ MayTag(r)

\* Connection c waits for its subrequest, which Elasticsearch was asked for one that may
\* have it, and nobody has answered; or it has an answer that says what Elasticsearch
\* did; or it was never asked.
Due(c) ==
    LET n == asked[c].serial
    IN  /\ fn_data[c] # NoCtx =>
              /\ asked[c] # NoRequest /\ fn_data[c].serial = n /\ reply[c] = NoReply
              /\ replies[n] = 0 /\ es_status[n] = NoReply /\ Entitled(asked[c].of)
        /\ asked[c] # NoRequest /\ reply[c] = NoReply => fn_data[c] # NoCtx
        /\ asked[c] # NoRequest /\ reply[c] # NoReply =>
              /\ es_status[n] # NoReply => reply[c] = ReplyTo(es_status[n])
              /\ reply[c] \in {401, 403} \/ Entitled(asked[c].of)

WebIInv == WebTypes /\ OwnRequests /\ \A c \in Connections : Due(c)

-----------------------------------------------------------------------------
(* The web server: what is answered at once.                                *)

\* The handlers answer with statuses, never with none.
LEMMA HandlersAnswer ==
    ASSUME NEW r
    PROVE  /\ ServeData(r) \in {200, 404} /\ ServeFile(r) \in {200, 308, 404}
           /\ ServeFts(r) \in {200, 400, 404} /\ ServeTag(r) \in {200, 400, 404}
<1>1. ServeData(r) \in {200, 404}
  BY DEF ServeData
<1>2. ServeFile(r) \in {200, 308, 404}
  BY DEF ServeFile
<1>3. ServeFts(r) \in {200, 400, 404}
  BY DEF ServeFts
<1>4. ServeTag(r) \in {200, 400, 404}
  BY DEF ServeTag
<1>5. QED
  BY <1>1, <1>2, <1>3, <1>4

\* An answer is a refusal, or it is to whoever may have it; and whatever is passed on
\* is passed on for one that may have it.
LEMMA AnswersAreDue ==
    ASSUME NEW r
    PROVE  /\ Answers(r) \subseteq Statuses \ {NoReply}
           /\ \A status \in Answers(r) : status \in {401, 403} \/ Entitled(r)
           /\ Answers(r) = {} => Entitled(r)
<1>1. /\ ServeData(r) \in {200, 404} /\ ServeFile(r) \in {200, 308, 404}
      /\ ServeFts(r) \in {200, 400, 404} /\ ServeTag(r) \in {200, 400, 404}
  BY HandlersAnswer
<1>2. CASE ~Authorised(r)
  BY <1>2 DEF Answers, Statuses, NoReply
<1>3. CASE Authorised(r) /\ r.route \in OpenRoutes
  <2>1. Answers(r) = {200}
    BY <1>3 DEF Answers
  <2>2. r.route # "/tag/*"
    BY <1>3 DEF OpenRoutes
  <2>3. QED
    BY <1>3, <2>1, <2>2 DEF Entitled, Statuses, NoReply
<1>4. CASE Authorised(r) /\ r.route \notin OpenRoutes /\ ~Authenticated(r)
  BY <1>4 DEF Answers, Statuses, NoReply
<1>5. CASE Authorised(r) /\ r.route \notin OpenRoutes /\ Authenticated(r) /\ r.route # "/tag/*"
  <2>1. Answers(r) \subseteq {200, 204, 308, 400, 404, 500}
    BY <1>1, <1>5 DEF Answers
  <2>2. QED
    BY <1>5, <2>1 DEF Entitled, Statuses, NoReply
<1>6. CASE Authorised(r) /\ r.route \notin OpenRoutes /\ Authenticated(r) /\ r.route = "/tag/*"
  <2>1. r.route \notin FtsRoutes /\ r.route \notin DataRoutes
    BY <1>6 DEF FtsRoutes, DataRoutes
  <2>2. \/ ~MayTag(r) /\ Answers(r) = {401}
        \/ MayTag(r) /\ Answers(r) \subseteq {200, 400, 404}
    BY <1>1, <1>6, <2>1 DEF Answers
  <2>3. QED
    BY <1>6, <2>2 DEF Entitled, Statuses, NoReply
<1>7. QED
  BY <1>2, <1>3, <1>4, <1>5, <1>6

-----------------------------------------------------------------------------
(* The web server: steps.                                                  *)

\* What the types say of a connection.
LEMMA ConnectionTypes ==
    ASSUME WebTypes, NEW c \in Connections
    PROVE  /\ asked[c] \in Asked /\ reply[c] \in Statuses /\ fn_data[c] \in Subrequest
           /\ asked[c] # NoRequest => asked[c].serial \in 1 .. serial /\ asked[c].of \in WebRequests
           /\ asked[c] = NoRequest <=> asked[c].serial = 0
           /\ asked[c].serial \in 0 .. serial
           /\ fn_data[c] # NoCtx <=> fn_data[c].transfer # "none"
           /\ fn_data[c] # NoCtx => fn_data[c].serial \in 1 .. serial /\ fn_data[c].parts \in Nat
<1>1. asked[c] \in Asked /\ reply[c] \in Statuses /\ fn_data[c] \in Subrequest
  BY DEF WebTypes
<1>2. /\ asked[c] # NoRequest => asked[c].serial \in 1 .. serial /\ asked[c].of \in WebRequests
      /\ asked[c] = NoRequest => asked[c].serial = 0
  BY <1>1 DEF Asked, NoRequest
<1>3. /\ fn_data[c] # NoCtx <=> fn_data[c].transfer # "none"
      /\ fn_data[c] # NoCtx => fn_data[c].serial \in 1 .. serial /\ fn_data[c].parts \in Nat
  BY <1>1 DEF Subrequest, NoCtx
<1>4. serial \in Nat
  BY DEF WebTypes
<1>5. QED
  BY <1>1, <1>2, <1>3, <1>4

\* What a step of connection c has to keep. It leaves the other connections alone, and
\* of what was counted for requests only what belongs to c.
LEMMA OneConnectionMoves ==
    ASSUME WebIInv, NEW c \in Connections,
           settings' = settings,
           conn' \in [Connections -> {"open", "closed"}],
           serial' \in Nat, serial <= serial',
           asked' \in [Connections -> Asked'], reply' \in [Connections -> Statuses],
           fn_data' \in [Connections -> Subrequest'],
           replies' \in Seq({0, 1}), Len(replies') = serial',
           es_status' \in Seq(EsStatuses), Len(es_status') = serial',
           \A d \in Connections \ {c} :
               asked'[d] = asked[d] /\ reply'[d] = reply[d] /\ fn_data'[d] = fn_data[d],
           \A n \in 1 .. serial :
               n = asked[c].serial \/ (replies'[n] = replies[n] /\ es_status'[n] = es_status[n]),
           \/ asked'[c] = asked[c]
           \/ asked'[c] = NoRequest
           \/ asked'[c].serial > serial,
           Due(c)'
    PROVE  WebIInv'
<1> USE DEF WebIInv
<1>1. WebTypes'
  BY DEF WebTypes
<1>2. \A d \in Connections : /\ asked[d].serial \in 0 .. serial
                             /\ asked[d] = NoRequest <=> asked[d].serial = 0
  BY ConnectionTypes
<1>3. serial \in Nat
  BY DEF WebTypes
<1>4. OwnRequests'
  <2> SUFFICES ASSUME NEW d \in Connections, NEW e \in Connections,
                      asked'[d] # NoRequest, asked'[d].serial = asked'[e].serial
               PROVE  d = e
    BY DEF OwnRequests
  <2>1. NoRequest.serial = 0
    BY DEF NoRequest
  <2>2. asked'[d].serial # 0
    <3>1. CASE d # c
      BY <1>2, <3>1
    <3>2. CASE d = c
      BY <1>2, <1>3, <3>2
    <3>3. QED
      BY <3>1, <3>2
  <2>3. CASE d = c /\ e # c
    BY <1>2, <1>3, <2>1, <2>2, <2>3 DEF OwnRequests
  <2>4. CASE d # c /\ e = c
    BY <1>2, <1>3, <2>1, <2>2, <2>4 DEF OwnRequests
  <2>5. CASE d # c /\ e # c
    BY <2>5 DEF OwnRequests
  <2>6. QED
    BY <2>3, <2>4, <2>5
<1>5. ASSUME NEW d \in Connections, d # c
      PROVE  Due(d)'
  <2>1. asked[d] # NoRequest => asked[d].serial \in 1 .. serial /\ asked[d].serial # asked[c].serial
    BY <1>2, <1>3, <1>5 DEF OwnRequests
  <2>2. asked[d] # NoRequest => /\ replies'[asked[d].serial] = replies[asked[d].serial]
                                /\ es_status'[asked[d].serial] = es_status[asked[d].serial]
    BY <2>1
  <2>3. asked'[d] = asked[d] /\ reply'[d] = reply[d] /\ fn_data'[d] = fn_data[d] /\ Due(d)
    BY <1>5
  <2>4. Entitled(asked[d].of)' <=> Entitled(asked[d].of)
    BY <2>3 DEF Entitled, Authorised, Authenticated, MayTag
  <2>5. QED
    BY <2>2, <2>3, <2>4 DEF Due
<1>6. QED
  BY <1>1, <1>4, <1>5

\* A request is received: it has a number of its own.
LEMMA ReceiveNumbers ==
    ASSUME WebIInv, NEW c \in Connections, NEW r \in WebRequests, Receive(c, r)
    PROVE  /\ settings' = settings /\ conn' = conn
           /\ serial' = serial + 1 /\ serial' \in Nat /\ serial \in Nat
           /\ asked' \in [Connections -> Asked']
           /\ asked'[c].serial = serial' /\ asked'[c].of = r /\ asked'[c] # NoRequest
           /\ \A d \in Connections \ {c} : asked'[d] = asked[d]
           /\ fn_data[c] = NoCtx
<1> USE DEF WebIInv
<1>1. PICK a : a = [route |-> r.route, serial |-> serial', of |-> r]
  OBVIOUS
<1>2. /\ settings' = settings /\ conn' = conn
      /\ serial' = serial + 1 /\ asked' = [asked EXCEPT ![c] = a]
      /\ asked[c] = NoRequest \/ reply[c] # NoReply
  BY <1>1 DEF Receive
<1>3. serial \in Nat /\ serial' \in Nat
  BY <1>2 DEF WebTypes
<1>4. a \in Asked' /\ a.serial = serial' /\ a.of = r
  BY <1>1, <1>2, <1>3 DEF Asked
<1>5. a # NoRequest
  BY <1>2, <1>3, <1>4 DEF NoRequest
<1>6. \A d \in Connections : asked[d] \in Asked'
  <2>1. 1 .. serial \subseteq 1 .. serial'
    BY <1>2, <1>3
  <2>2. \A d \in Connections : asked[d] \in Asked
    BY DEF WebTypes
  <2>3. Asked \subseteq Asked'
    BY <2>1 DEF Asked
  <2>4. QED
    BY <2>2, <2>3
<1>7. asked' \in [Connections -> Asked'] /\ asked'[c] = a
      /\ \A d \in Connections \ {c} : asked'[d] = asked[d]
  BY <1>2, <1>4, <1>6 DEF WebTypes
<1>8. fn_data[c] = NoCtx
  BY <1>2 DEF Due
<1>9. QED
  BY <1>2, <1>3, <1>4, <1>5, <1>7, <1>8

\* What is known of subrequests stays when there is a request more.
LEMMA SubrequestsStay ==
    ASSUME WebTypes, serial' \in Nat, serial <= serial'
    PROVE  Subrequest \subseteq Subrequest' /\ fn_data \in [Connections -> Subrequest']
<1>1. 1 .. serial \subseteq 1 .. serial'
  BY DEF WebTypes
<1>2. Subrequest \subseteq Subrequest'
  BY <1>1 DEF Subrequest
<1>3. QED
  BY <1>2 DEF WebTypes

\* A request is counted.
LEMMA CountGrows ==
    ASSUME NEW S, NEW q \in Seq(S), NEW x \in S
    PROVE  /\ Append(q, x) \in Seq(S) /\ Len(Append(q, x)) = Len(q) + 1
           /\ Append(q, x)[Len(q) + 1] = x
           /\ \A n \in 1 .. Len(q) : Append(q, x)[n] = q[n]
OBVIOUS

LEMMA AnswerAtOnceKeeps ==
    ASSUME WebIInv, NEW c \in Connections, NEW r \in WebRequests, AnswerAtOnce(c, r)
    PROVE  WebIInv'
<1> USE DEF WebIInv
<1>1. Receive(c, r)
  BY DEF AnswerAtOnce
<1>2. /\ settings' = settings /\ conn' = conn
      /\ serial' = serial + 1 /\ serial' \in Nat /\ serial \in Nat
      /\ asked' \in [Connections -> Asked']
      /\ asked'[c].serial = serial' /\ asked'[c].of = r /\ asked'[c] # NoRequest
      /\ \A d \in Connections \ {c} : asked'[d] = asked[d]
      /\ fn_data[c] = NoCtx
  BY <1>1, ReceiveNumbers
<1>3. PICK status \in Answers(r) : reply' = [reply EXCEPT ![c] = status]
  BY DEF AnswerAtOnce
<1>4. /\ replies' = Append(replies, 1) /\ es_status' = Append(es_status, NoReply)
      /\ fn_data' = fn_data
  BY DEF AnswerAtOnce
<1>5. status \in Statuses \ {NoReply} /\ (status \in {401, 403} \/ Entitled(r))
  BY <1>3, AnswersAreDue
<1>6. /\ reply' \in [Connections -> Statuses] /\ reply'[c] = status
      /\ \A d \in Connections \ {c} : reply'[d] = reply[d]
  BY <1>3, <1>5 DEF WebTypes
<1>7. /\ replies' \in Seq({0, 1}) /\ Len(replies') = serial'
      /\ \A n \in 1 .. serial : replies'[n] = replies[n]
  BY <1>2, <1>4, CountGrows DEF WebTypes
<1>8. /\ es_status' \in Seq(EsStatuses) /\ Len(es_status') = serial'
      /\ es_status'[serial'] = NoReply
      /\ \A n \in 1 .. serial : es_status'[n] = es_status[n]
  BY <1>2, <1>4, CountGrows DEF WebTypes, EsStatuses, NoReply
<1>9. fn_data' \in [Connections -> Subrequest']
  BY <1>2, <1>4, SubrequestsStay
<1>10. Due(c)'
  <2>1. Entitled(r)' <=> Entitled(r)
    BY <1>2 DEF Entitled, Authorised, Authenticated, MayTag
  <2>2. asked'[c].serial = serial' /\ asked'[c].of = r /\ fn_data'[c] = NoCtx /\ reply'[c] = status
    BY <1>2, <1>4, <1>6
  <2>3. QED
    BY <1>5, <1>8, <2>1, <2>2 DEF Due
<1>11. QED
  BY <1>2, <1>4, <1>6, <1>7, <1>8, <1>9, <1>10, OneConnectionMoves DEF WebTypes

\* A request is passed on to Elasticsearch.
LEMMA PostAsyncKeeps ==
    ASSUME WebIInv, NEW c \in Connections, NEW r \in WebRequests, PostAsync(c, r)
    PROVE  WebIInv'
<1> USE DEF WebIInv
<1>1. Receive(c, r)
  BY DEF PostAsync
<1>2. /\ settings' = settings /\ conn' = conn
      /\ serial' = serial + 1 /\ serial' \in Nat /\ serial \in Nat
      /\ asked' \in [Connections -> Asked']
      /\ asked'[c].serial = serial' /\ asked'[c].of = r /\ asked'[c] # NoRequest
      /\ \A d \in Connections \ {c} : asked'[d] = asked[d]
  BY <1>1, ReceiveNumbers
<1>3. PICK parts \in 0 .. MaxParts :
          fn_data' = [fn_data EXCEPT ![c] =
                         [transfer |-> IF parts = 0 THEN "ended" ELSE "running", ready |-> FALSE,
                          parts |-> parts, serial |-> serial']]
  BY DEF PostAsync
<1>4. PICK ctx : ctx = [transfer |-> IF parts = 0 THEN "ended" ELSE "running", ready |-> FALSE,
                        parts |-> parts, serial |-> serial']
  OBVIOUS
<1>5. /\ Answers(r) = {} /\ reply' = [reply EXCEPT ![c] = NoReply]
      /\ replies' = Append(replies, 0) /\ es_status' = Append(es_status, NoReply)
  BY DEF PostAsync
<1>6. Entitled(r)
  BY <1>5, AnswersAreDue
<1>7. ctx \in Subrequest' /\ ctx.serial = serial'
  <2>1. (IF parts = 0 THEN "ended" ELSE "running") \in {"running", "ended"}
    OBVIOUS
  <2>2. serial' \in 1 .. serial' /\ parts \in Nat
    BY <1>2
  <2>3. QED
    BY <1>4, <2>1, <2>2 DEF Subrequest
<1>8. /\ fn_data' \in [Connections -> Subrequest'] /\ fn_data'[c] = ctx
      /\ \A d \in Connections \ {c} : fn_data'[d] = fn_data[d]
  <2>1. fn_data \in [Connections -> Subrequest']
    BY <1>2, SubrequestsStay
  <2>2. QED
    BY <1>3, <1>4, <1>7, <2>1
<1>9. /\ reply' \in [Connections -> Statuses] /\ reply'[c] = NoReply
      /\ \A d \in Connections \ {c} : reply'[d] = reply[d]
  BY <1>5 DEF WebTypes, Statuses
<1>10. /\ replies' \in Seq({0, 1}) /\ Len(replies') = serial' /\ replies'[serial'] = 0
       /\ \A n \in 1 .. serial : replies'[n] = replies[n]
  BY <1>2, <1>5, CountGrows DEF WebTypes
<1>11. /\ es_status' \in Seq(EsStatuses) /\ Len(es_status') = serial'
       /\ es_status'[serial'] = NoReply
       /\ \A n \in 1 .. serial : es_status'[n] = es_status[n]
  BY <1>2, <1>5, CountGrows DEF WebTypes, EsStatuses, NoReply
<1>12. Due(c)'
  <2>1. Entitled(r)' <=> Entitled(r)
    BY <1>2 DEF Entitled, Authorised, Authenticated, MayTag
  <2>2. ctx # NoCtx
    BY <1>4 DEF NoCtx
  <2>3. /\ asked'[c].serial = serial' /\ asked'[c].of = r /\ fn_data'[c].serial = serial'
        /\ fn_data'[c] # NoCtx /\ reply'[c] = NoReply
    BY <1>2, <1>7, <1>8, <1>9, <2>2
  <2>4. QED
    BY <1>2, <1>6, <1>10, <1>11, <2>1, <2>3 DEF Due
<1>13. asked'[c].serial > serial /\ serial <= serial'
  BY <1>2
<1>14. /\ \A n \in 1 .. serial : replies'[n] = replies[n] /\ es_status'[n] = es_status[n]
       /\ conn' \in [Connections -> {"open", "closed"}]
  BY <1>2, <1>10, <1>11 DEF WebTypes
<1>15. QED
  BY <1>2, <1>8, <1>9, <1>10, <1>11, <1>12, <1>13, <1>14, OneConnectionMoves

\* The client goes away, or the server does.
LEMMA CloseAndExitKeep ==
    ASSUME WebIInv, NEW c \in Connections, CloseConnection(c) \/ \E r \in WebRequests : SearchExits(c, r)
    PROVE  WebIInv'
<1> USE DEF WebIInv
<1>1. /\ settings' = settings /\ asked' = asked /\ reply' = reply /\ fn_data' = fn_data
      /\ serial' = serial /\ replies' = replies /\ es_status' = es_status
  BY DEF CloseConnection, SearchExits
<1>2. conn' \in [Connections -> {"open", "closed"}]
  BY DEF CloseConnection, SearchExits, WebTypes
<1>3. WebTypes'
  BY <1>1, <1>2 DEF WebTypes, Asked, Subrequest
<1>4. OwnRequests' /\ \A d \in Connections : Due(d)'
  BY <1>1 DEF OwnRequests, Due, Entitled, Authorised, Authenticated, MayTag
<1>5. QED
  BY <1>3, <1>4

\* A new connection has asked nothing and waits for nothing.
LEMMA ConnectKeeps ==
    ASSUME WebIInv, NEW c \in Connections, Connect(c)
    PROVE  WebIInv'
<1> USE DEF WebIInv
<1>1. /\ settings' = settings /\ conn' = [conn EXCEPT ![c] = "open"]
      /\ asked' = [asked EXCEPT ![c] = NoRequest] /\ reply' = [reply EXCEPT ![c] = NoReply]
      /\ fn_data' = [fn_data EXCEPT ![c] = NoCtx]
      /\ serial' = serial /\ replies' = replies /\ es_status' = es_status
  BY DEF Connect
<1>2. Asked' = Asked /\ Subrequest' = Subrequest
  BY <1>1 DEF Asked, Subrequest
<1>3. NoRequest \in Asked /\ NoCtx \in Subrequest /\ NoReply \in Statuses
  BY DEF Asked, Subrequest, Statuses
<1>4. /\ conn' \in [Connections -> {"open", "closed"}]
      /\ asked' \in [Connections -> Asked'] /\ reply' \in [Connections -> Statuses]
      /\ fn_data' \in [Connections -> Subrequest']
      /\ asked'[c] = NoRequest /\ reply'[c] = NoReply /\ fn_data'[c] = NoCtx
      /\ \A d \in Connections \ {c} :
            asked'[d] = asked[d] /\ reply'[d] = reply[d] /\ fn_data'[d] = fn_data[d]
  BY <1>1, <1>2, <1>3 DEF WebTypes
<1>5. Due(c)'
  BY <1>4 DEF Due
<1>6. QED
  BY <1>1, <1>4, <1>5, OneConnectionMoves DEF WebTypes

\* The subrequest of a connection goes on: a part arrives or is read.
LEMMA SubrequestGoesOn ==
    ASSUME WebIInv, NEW c \in Connections, fn_data[c] # NoCtx,
           NEW ctx \in Subrequest \ {NoCtx}, ctx.serial = fn_data[c].serial,
           fn_data' = [fn_data EXCEPT ![c] = ctx],
           settings' = settings, conn' = conn, asked' = asked, reply' = reply, serial' = serial,
           replies' = replies, es_status' = es_status
    PROVE  WebIInv'
<1> USE DEF WebIInv
<1>1. Asked' = Asked /\ Subrequest' = Subrequest
  BY DEF Asked, Subrequest
<1>2. /\ fn_data' \in [Connections -> Subrequest'] /\ fn_data'[c] = ctx
      /\ \A d \in Connections \ {c} : fn_data'[d] = fn_data[d]
  BY <1>1 DEF WebTypes
<1>3. Due(c)'
  <2>1. Entitled(asked[c].of)' <=> Entitled(asked[c].of)
    BY DEF Entitled, Authorised, Authenticated, MayTag
  <2>2. QED
    BY <1>2, <2>1 DEF Due
<1>4. QED
  BY <1>1, <1>2, <1>3, OneConnectionMoves DEF WebTypes

\* What a part that arrives or is read makes of the subrequest of a connection.
LEMMA SubrequestFields ==
    ASSUME WebTypes, NEW c \in Connections, fn_data[c] # NoCtx, NEW ready \in BOOLEAN, NEW parts \in Nat,
           NEW ctx, ctx = [fn_data[c] EXCEPT !.ready = ready, !.parts = parts]
    PROVE  /\ ctx \in Subrequest /\ ctx # NoCtx
           /\ ctx.serial = fn_data[c].serial
<1>1. fn_data[c] \in [transfer : {"running", "ended"}, ready : BOOLEAN, parts : Nat,
                      serial : 1 .. serial]
  BY ConnectionTypes DEF Subrequest
<1>2. /\ ctx \in [transfer : {"running", "ended"}, ready : BOOLEAN, parts : Nat, serial : 1 .. serial]
      /\ ctx.serial = fn_data[c].serial
  BY <1>1
<1>3. ctx.transfer \in {"running", "ended"}
  BY <1>2
<1>4. ctx # NoCtx
  BY <1>3 DEF NoCtx
<1>5. QED
  BY <1>2, <1>4 DEF Subrequest

LEMMA ArriveKeeps ==
    ASSUME WebIInv, NEW c \in Connections, Arrive(c)
    PROVE  WebIInv'
<1> USE DEF WebIInv
<1>1. /\ fn_data[c].transfer = "running" /\ fn_data' = [fn_data EXCEPT ![c].ready = TRUE]
      /\ settings' = settings /\ conn' = conn /\ asked' = asked /\ reply' = reply
      /\ serial' = serial /\ replies' = replies /\ es_status' = es_status
  BY DEF Arrive, Running
<1>2. fn_data[c] \in Subrequest /\ fn_data[c] # NoCtx
  BY <1>1, ConnectionTypes
<1>3. PICK ctx : ctx = [fn_data[c] EXCEPT !.ready = TRUE, !.parts = fn_data[c].parts]
  OBVIOUS
<1>4. fn_data[c].parts \in Nat
  BY <1>2, ConnectionTypes
<1>5. ctx \in Subrequest \ {NoCtx} /\ ctx.serial = fn_data[c].serial
  BY <1>2, <1>3, <1>4, SubrequestFields
<1>6. fn_data[c] \in [transfer : {"running", "ended"}, ready : BOOLEAN, parts : Nat,
                      serial : 1 .. serial]
  BY <1>2 DEF Subrequest
<1>7. ctx = [fn_data[c] EXCEPT !.ready = TRUE]
  BY <1>3, <1>6
<1>8. fn_data' = [fn_data EXCEPT ![c] = ctx]
  BY <1>1, <1>7 DEF WebTypes
<1>9. QED
  BY <1>1, <1>2, <1>5, <1>8, SubrequestGoesOn

\* One entry of a sequence is another one.
LEMMA OneEntryChanges ==
    ASSUME NEW S, NEW seq \in Seq(S), NEW n \in 1 .. Len(seq), NEW x \in S,
           NEW changed, changed = [seq EXCEPT ![n] = x]
    PROVE  /\ changed \in Seq(S) /\ Len(changed) = Len(seq)
           /\ \A m \in 1 .. Len(seq) : m = n \/ changed[m] = seq[m]
  OBVIOUS

\* The subrequest of a connection is over: what Elasticsearch said, or 0 for nothing, is
\* what the client is told.
LEMMA SubrequestIsAnswered ==
    ASSUME WebIInv, NEW c \in Connections, fn_data[c] # NoCtx,
           NEW status \in EsStatuses,
           es_status' \in Seq(EsStatuses), Len(es_status') = Len(es_status),
           es_status'[fn_data[c].serial] = status,
           \A n \in 1 .. serial : n = fn_data[c].serial \/ es_status'[n] = es_status[n],
           reply' = [reply EXCEPT ![c] = ReplyTo(status)],
           replies' = [replies EXCEPT ![fn_data[c].serial] = @ + 1],
           fn_data' = [fn_data EXCEPT ![c] = NoCtx],
           settings' = settings, conn' = conn, asked' = asked, serial' = serial
    PROVE  WebIInv'
<1> USE DEF WebIInv
<1>1. PICK n \in 1 .. serial : n = fn_data[c].serial
  BY ConnectionTypes
<1>2. /\ asked[c] # NoRequest /\ asked[c].serial = n
      /\ replies[n] = 0 /\ Entitled(asked[c].of)
  BY <1>1 DEF Due
<1>3. Asked' = Asked /\ Subrequest' = Subrequest /\ NoCtx \in Subrequest
  BY DEF Asked, Subrequest
<1>4. ReplyTo(status) \in Statuses /\ ReplyTo(status) # NoReply
  BY DEF ReplyTo, Statuses, NoReply
<1>5. /\ reply' \in [Connections -> Statuses] /\ reply'[c] = ReplyTo(status)
      /\ fn_data' \in [Connections -> Subrequest'] /\ fn_data'[c] = NoCtx
      /\ \A d \in Connections \ {c} : reply'[d] = reply[d] /\ fn_data'[d] = fn_data[d]
  BY <1>3, <1>4 DEF WebTypes
<1>6. /\ replies' \in Seq({0, 1}) /\ Len(replies') = serial
      /\ \A m \in 1 .. serial : m = n \/ replies'[m] = replies[m]
  <2>1. replies \in Seq({0, 1}) /\ Len(replies) = serial
    BY DEF WebTypes
  <2>2. replies' = [replies EXCEPT ![n] = 1]
    BY <1>1, <1>2, <2>1
  <2>3. PICK changed : changed = [replies EXCEPT ![n] = 1]
    OBVIOUS
  <2>4. /\ changed \in Seq({0, 1}) /\ Len(changed) = Len(replies)
        /\ \A m \in 1 .. Len(replies) : m = n \/ changed[m] = replies[m]
    BY <2>1, <2>3, OneEntryChanges
  <2>5. QED
    BY <2>1, <2>2, <2>3, <2>4
<1>7. Due(c)'
  <2>1. Entitled(asked[c].of)' <=> Entitled(asked[c].of)
    BY DEF Entitled, Authorised, Authenticated, MayTag
  <2>2. reply'[c] # NoReply /\ es_status'[n] = status /\ asked'[c].serial = n
    BY <1>1, <1>2, <1>4, <1>5
  <2>3. QED
    BY <1>2, <1>5, <2>1, <2>2 DEF Due
<1>8. /\ conn' \in [Connections -> {"open", "closed"}] /\ asked' \in [Connections -> Asked']
      /\ serial \in Nat /\ serial' \in Nat /\ serial <= serial'
      /\ Len(es_status') = serial' /\ Len(replies') = serial'
  BY <1>3, <1>6 DEF WebTypes
<1>9. /\ asked' = asked
      /\ \A m \in 1 .. serial :
            m = asked[c].serial \/ (replies'[m] = replies[m] /\ es_status'[m] = es_status[m])
  BY <1>1, <1>2, <1>6
<1>10. QED
  BY <1>5, <1>6, <1>7, <1>8, <1>9, OneConnectionMoves

LEMMA PollKeeps ==
    ASSUME WebIInv, NEW c \in Connections, PollReady(c) \/ PollInterrupted(c)
    PROVE  WebIInv'
<1> USE DEF WebIInv
<1>1. /\ fn_data[c].transfer = "running"
      /\ settings' = settings /\ conn' = conn /\ asked' = asked /\ serial' = serial
  BY DEF PollReady, PollInterrupted, Running
<1>2. /\ fn_data[c] \in Subrequest /\ fn_data[c] # NoCtx
      /\ fn_data[c].serial \in 1 .. serial /\ fn_data[c].parts \in Nat
  BY <1>1, ConnectionTypes
<1>3. es_status \in Seq(EsStatuses) /\ Len(es_status) = serial
  BY DEF WebTypes
<1>4. CASE PollReady(c) /\ fn_data[c].parts > 1
  <2>1. /\ fn_data' = [fn_data EXCEPT ![c].ready = FALSE, ![c].parts = @ - 1]
        /\ reply' = reply /\ replies' = replies /\ es_status' = es_status
    BY <1>4 DEF PollReady
  <2>2. fn_data[c].parts - 1 \in Nat
    BY <1>2, <1>4
  <2>3. PICK parts \in Nat : parts = fn_data[c].parts - 1
    BY <2>2
  <2>4. PICK ctx : ctx = [fn_data[c] EXCEPT !.ready = FALSE, !.parts = parts]
    OBVIOUS
  <2>5. ctx \in Subrequest \ {NoCtx} /\ ctx.serial = fn_data[c].serial
    BY <1>2, <2>4, SubrequestFields
  <2>6. fn_data' = [fn_data EXCEPT ![c] = ctx]
    BY <2>1, <2>3, <2>4 DEF WebTypes
  <2>7. QED
    BY <1>1, <1>2, <2>1, <2>5, <2>6, SubrequestGoesOn
<1>5. CASE PollReady(c) /\ ~(fn_data[c].parts > 1)
  <2>1. PICK status \in EsStatuses :
            /\ es_status' = [es_status EXCEPT ![fn_data[c].serial] = status]
            /\ reply' = [reply EXCEPT ![c] = ReplyTo(status)]
            /\ replies' = [replies EXCEPT ![fn_data[c].serial] = @ + 1]
            /\ fn_data' = [fn_data EXCEPT ![c] = NoCtx]
    BY <1>5 DEF PollReady
  <2>2. /\ es_status' \in Seq(EsStatuses) /\ Len(es_status') = Len(es_status)
        /\ es_status'[fn_data[c].serial] = status
        /\ \A n \in 1 .. serial : n = fn_data[c].serial \/ es_status'[n] = es_status[n]
    BY <1>2, <1>3, <2>1
  <2>3. QED
    BY <1>1, <1>2, <2>1, <2>2, SubrequestIsAnswered
<1>6. CASE PollInterrupted(c)
  <2>1. /\ es_status' = es_status
        /\ reply' = [reply EXCEPT ![c] = ReplyTo(0)]
        /\ replies' = [replies EXCEPT ![fn_data[c].serial] = @ + 1]
        /\ fn_data' = [fn_data EXCEPT ![c] = NoCtx]
    BY <1>6 DEF PollInterrupted
  <2>2. es_status[fn_data[c].serial] = 0 /\ 0 \in EsStatuses
    BY <1>2 DEF Due, NoReply, EsStatuses
  <2>3. QED
    BY <1>1, <1>2, <1>3, <2>1, <2>2, SubrequestIsAnswered
<1>7. QED
  BY <1>4, <1>5, <1>6

-----------------------------------------------------------------------------
(* The web server: the theorems.                                           *)

LEMMA WebInitHolds ==
    ASSUME WebInit
    PROVE  WebIInv
<1>1. /\ settings \in Settings /\ conn = [c \in Connections |-> "open"]
      /\ asked = [c \in Connections |-> NoRequest] /\ reply = [c \in Connections |-> NoReply]
      /\ fn_data = [c \in Connections |-> NoCtx]
      /\ serial = 0 /\ replies = <<>> /\ es_status = <<>>
  BY DEF WebInit
<1>2. replies \in Seq({0, 1}) /\ Len(replies) = 0 /\ es_status \in Seq(EsStatuses) /\ Len(es_status) = 0
  BY <1>1
<1>3. WebTypes
  BY <1>1, <1>2 DEF WebTypes, Asked, Subrequest, Statuses
<1>4. OwnRequests /\ \A c \in Connections : Due(c)
  BY <1>1 DEF OwnRequests, Due
<1>5. QED
  BY <1>3, <1>4 DEF WebIInv

LEMMA WebNextKeeps ==
    ASSUME WebIInv, [WebNext]_webVars
    PROVE  WebIInv'
<1>1. CASE UNCHANGED webVars
  BY <1>1 DEF webVars, WebIInv, WebTypes, Asked, Subrequest, OwnRequests, Due, Entitled, Authorised,
              Authenticated, MayTag
<1>2. CASE WebNext
  <2>1. PICK c \in Connections :
            \/ \E r \in WebRequests : AnswerAtOnce(c, r) \/ PostAsync(c, r) \/ SearchExits(c, r)
            \/ Arrive(c) \/ PollReady(c) \/ PollInterrupted(c)
            \/ CloseConnection(c) \/ Connect(c)
    BY <1>2 DEF WebNext
  <2>2. ASSUME NEW r \in WebRequests, AnswerAtOnce(c, r) \/ PostAsync(c, r) \/ SearchExits(c, r)
        PROVE  WebIInv'
    BY <2>2, AnswerAtOnceKeeps, PostAsyncKeeps, CloseAndExitKeep
  <2>3. CASE Arrive(c) \/ PollReady(c) \/ PollInterrupted(c)
    BY <2>3, ArriveKeeps, PollKeeps
  <2>4. CASE CloseConnection(c) \/ Connect(c)
    BY <2>4, CloseAndExitKeep, ConnectKeeps
  <2>5. QED
    BY <2>1, <2>2, <2>3, <2>4
<1>3. QED
  BY <1>1, <1>2

\* The inductive invariant holds throughout; fairness is not needed for it.
THEOREM WebInvariant == WebSpec => []WebIInv
<1>1. WebInit => WebIInv
  BY WebInitHolds
<1>2. WebIInv /\ [WebNext]_webVars => WebIInv'
  BY WebNextKeeps
<1>3. QED
  BY <1>1, <1>2, PTL DEF WebSpec

\* Connections, requests, answers and subrequests have their types.
THEOREM WebTypeCorrect == WebSpec => []WebTypeOK
<1>1. WebIInv => WebTypeOK
  <2> SUFFICES ASSUME WebIInv
               PROVE  WebTypeOK
    OBVIOUS
  <2>1. WebTypes
    BY DEF WebIInv
  <2>2. ASSUME NEW c \in Connections
        PROVE  fn_data[c].transfer \in {"none", "running", "ended"}
    <3>1. fn_data[c] \in Subrequest
      BY <2>1 DEF WebTypes
    <3>2. QED
      BY <3>1 DEF Subrequest, NoCtx
  <2>3. \A c \in Connections : asked[c].serial \in 0 .. serial
    BY <2>1, ConnectionTypes
  <2>4. QED
    BY <2>1, <2>2, <2>3 DEF WebTypes, WebTypeOK, Statuses
<1>2. QED
  BY <1>1, WebInvariant, PTL

\* No request is answered twice, none is answered for another, what a client is told is
\* what Elasticsearch said or that it said nothing, and whoever is not refused was
\* entitled to ask: whatever clients, Elasticsearch and signals do.
THEOREM RepliesCorrect == WebSpec => []RepliesAreDue
<1>1. WebIInv => RepliesAreDue
  <2> SUFFICES ASSUME WebIInv
               PROVE  RepliesAreDue
    OBVIOUS
  <2>1. WebTypes /\ \A c \in Connections : Due(c)
    BY DEF WebIInv
  <2>2. \A n \in DOMAIN replies : replies[n] <= 1
    <3>1. \A n \in DOMAIN replies : replies[n] \in {0, 1}
      BY <2>1 DEF WebTypes
    <3>2. QED
      BY <3>1
  <2>3. \A c \in Connections : asked[c] = NoRequest <=> asked[c].serial = 0
    BY <2>1, ConnectionTypes
  <2>4. QED
    BY <2>1, <2>2, <2>3 DEF RepliesAreDue, Due, Entitled
<1>2. QED
  BY <1>1, WebInvariant, PTL

-----------------------------------------------------------------------------
(* Elasticsearch: the inductive invariant.                                 *)

SetupTypes ==
    /\ es \in [exists : BOOLEAN, open : BOOLEAN, settings : BOOLEAN, mappings : BOOLEAN,
               documents : {"none", "sent", "visible"}]
    /\ step \in Steps /\ incomplete \in BOOLEAN

\* Between its creation and its opening an index is incomplete.
Making == {"close", "pipeline", "settings", "mappings", "open"}

\* An index that is not incomplete has gone through the whole of its setup; while it goes
\* through it, it has what the steps so far gave it.
Ready ==
    /\ es.documents # "none" => es.exists
    /\ es.exists /\ ~incomplete => es.settings /\ es.mappings /\ es.open
    /\ step \in Making => incomplete
    /\ step \in Making \cup {"bulk"} => es.exists
    /\ step \in {"mappings", "open"} => es.settings
    /\ step = "open" => es.mappings

SetupIInv == SetupTypes /\ Ready

\* A req either does to the index what it is for, or nothing.
LEMMA RequestDoes ==
    ASSUME SetupTypes, NEW req, NEW ok \in BOOLEAN, Request(req, ok)
    PROVE  /\ es' = es \/ (CanDo(req) /\ es' = Effect(req))
           /\ ok => CanDo(req) /\ es' = Effect(req)
<1>1. CASE CanDo(req) /\ ok /\ es' = Effect(req)
  BY <1>1
<1>2. CASE ~CanDo(req) /\ ~ok /\ UNCHANGED es
  BY <1>2
<1>3. CASE ~ok /\ es' \in {es} \cup {e \in {Effect(req)} : CanDo(req)}
  <2>1. es' = es \/ (CanDo(req) /\ es' = Effect(req))
    BY <1>3
  <2>2. QED
    BY <1>3, <2>1
<1>4. QED
  BY <1>1, <1>2, <1>3 DEF Request

\* Before and after its setup there is nothing in the index.
LEMMA NothingInNoIndex ==
    /\ NoIndex \in [exists : BOOLEAN, open : BOOLEAN, settings : BOOLEAN, mappings : BOOLEAN,
                    documents : {"none", "sent", "visible"}]
    /\ ~NoIndex.exists /\ NoIndex.documents = "none"
  BY DEF NoIndex

\* What each req does, field by field.
LEMMA EffectOf ==
    ASSUME SetupTypes, NEW req, NEW e, e = Effect(req)
    PROVE  /\ req = "delete" => e = NoIndex
           /\ req = "create" => e = [NoIndex EXCEPT !.exists = TRUE, !.open = TRUE]
           /\ req = "close" => e = [es EXCEPT !.open = FALSE]
           /\ req = "settings" => e = [es EXCEPT !.settings = TRUE]
           /\ req = "mappings" => e = [es EXCEPT !.mappings = TRUE]
           /\ req = "open" => e = [es EXCEPT !.open = TRUE]
           /\ req = "refresh" =>
                 e = IF es.documents = "sent" THEN [es EXCEPT !.documents = "visible"] ELSE es
           /\ req \in {"version", "get", "pipeline"} => e = es
  BY DEF Effect

LEMMA BeforeSetupKeeps ==
    ASSUME SetupIInv, BeginIndex \/ GetVersion \/ GetIndex \/ KillIndex
    PROVE  SetupIInv'
<1> USE DEF SetupIInv
<1>1. CASE BeginIndex \/ KillIndex
  BY <1>1 DEF BeginIndex, KillIndex, SetupTypes, Steps, Ready, Making
<1>2. CASE GetVersion
  <2>1. es' = es /\ incomplete' = incomplete /\ step' \in {"get", "idle"}
    BY <1>2, RequestDoes, EffectOf DEF GetVersion
  <2>2. QED
    BY <2>1 DEF SetupTypes, Steps, Ready, Making
<1>3. CASE GetIndex
  <2>1. es' = es /\ incomplete' = incomplete
    BY <1>3, RequestDoes, EffectOf DEF GetIndex
  <2>2. step' = "delete" \/ (step' = "bulk" /\ es.exists)
    <3>1. PICK ok \in BOOLEAN :
              Request("get", ok) /\ step' = IF ~ok \/ force_reset THEN "delete" ELSE "bulk"
      BY <1>3 DEF GetIndex
    <3>2. ok => es.exists
      BY <3>1, RequestDoes DEF CanDo
    <3>3. QED
      BY <3>1, <3>2
  <2>3. QED
    BY <2>1, <2>2 DEF SetupTypes, Steps, Ready, Making
<1>4. QED
  BY <1>1, <1>2, <1>3

LEMMA DeleteKeeps ==
    ASSUME SetupIInv, DeleteIndex
    PROVE  SetupIInv'
<1> USE DEF SetupIInv
<1>1. es' \in {es, NoIndex} /\ incomplete' = incomplete /\ step' = "create"
  BY RequestDoes, EffectOf DEF DeleteIndex
<1>2. QED
  BY <1>1, NothingInNoIndex DEF SetupTypes, Steps, Ready, Making

LEMMA DocumentsKeep ==
    ASSUME SetupIInv, Bulk \/ Refresh
    PROVE  SetupIInv'
<1> USE DEF SetupIInv
<1>1. /\ incomplete' = incomplete /\ step' \in {"idle", "refresh"}
      /\ \/ es' = es
         \/ es.exists /\ es' = [es EXCEPT !.documents = "sent"]
         \/ es.exists /\ es' = [es EXCEPT !.documents = "visible"]
  <2>1. CASE Bulk
    BY <2>1 DEF Bulk
  <2>2. CASE Refresh
    <3>1. PICK ok \in BOOLEAN : Request("refresh", ok)
      BY <2>2 DEF Refresh
    <3>2. es' = es \/ (es.exists /\ es' = Effect("refresh"))
      BY <3>1, RequestDoes DEF CanDo
    <3>3. es' = es \/ (es.exists /\ es' = [es EXCEPT !.documents = "visible"])
      BY <3>2, EffectOf
    <3>4. QED
      BY <2>2, <3>3 DEF Refresh
  <2>3. QED
    BY <2>1, <2>2
<1>2. QED
  BY <1>1 DEF SetupTypes, Steps, Ready, Making

LEMMA SetupRequestKeeps ==
    ASSUME SetupIInv, NEW req \in DOMAIN Following, SetupRequest(req)
    PROVE  SetupIInv'
<1> USE DEF SetupIInv
<1>1. PICK ok \in BOOLEAN :
          /\ Request(req, ok)
          /\ step' = IF ok \/ req \notin Checked THEN Following[req] ELSE "idle"
          /\ incomplete' = IncompleteAfter(req, ok)
  BY DEF SetupRequest
<1>2. step = req
  BY DEF SetupRequest
<1>3. /\ es' = es \/ (CanDo(req) /\ es' = Effect(req))
      /\ ok => CanDo(req) /\ es' = Effect(req)
  BY <1>1, RequestDoes
<1>4. CASE req = "create"
  <2>1. \/ es' = es /\ ~ok
        \/ ~es.exists /\ es' = [NoIndex EXCEPT !.exists = TRUE, !.open = TRUE]
    BY <1>3, <1>4, EffectOf DEF CanDo
  <2>2. step' = IF ok THEN "close" ELSE "idle"
    BY <1>1, <1>4 DEF Checked, Following
  <2>3. incomplete' = (incomplete \/ es' # es)
    BY <1>1, <1>4 DEF IncompleteAfter
  <2>4. QED
    BY <2>1, <2>2, <2>3 DEF SetupTypes, Steps, Ready, Making, NoIndex
<1>5. CASE req \in {"close", "pipeline", "settings", "mappings"}
  <2>1. incomplete' = incomplete /\ incomplete /\ es.exists
    BY <1>1, <1>2, <1>5 DEF IncompleteAfter, Ready, Making
  <2>2. CASE req = "close"
    <3>1. es' \in {es, [es EXCEPT !.open = FALSE]} /\ step' = "pipeline"
      BY <1>1, <1>3, <2>2, EffectOf DEF Checked, Following
    <3>2. QED
      BY <2>1, <3>1 DEF SetupTypes, Steps, Ready, Making
  <2>3. CASE req = "pipeline"
    <3>1. es' = es /\ step' = "settings"
      BY <1>1, <1>3, <2>3, EffectOf DEF Checked, Following
    <3>2. QED
      BY <2>1, <3>1 DEF SetupTypes, Steps, Ready, Making
  <2>4. CASE req = "settings"
    <3>1. /\ es' \in {es, [es EXCEPT !.settings = TRUE]}
          /\ (step' = "mappings" /\ es' = [es EXCEPT !.settings = TRUE]) \/ step' = "idle"
      BY <1>1, <1>3, <2>4, EffectOf DEF Checked, Following
    <3>2. QED
      BY <2>1, <3>1 DEF SetupTypes, Steps, Ready, Making
  <2>5. CASE req = "mappings"
    <3>1. /\ es' \in {es, [es EXCEPT !.mappings = TRUE]}
          /\ (step' = "open" /\ es' = [es EXCEPT !.mappings = TRUE]) \/ step' = "idle"
      BY <1>1, <1>3, <2>5, EffectOf DEF Checked, Following
    <3>2. es.settings
      BY <1>2, <2>5 DEF Ready
    <3>3. QED
      BY <2>1, <3>1, <3>2 DEF SetupTypes, Steps, Ready, Making
  <2>6. QED
    BY <1>5, <2>2, <2>3, <2>4, <2>5
<1>6. CASE req = "open"
  <2>1. /\ es' \in {es, [es EXCEPT !.open = TRUE]} /\ step' = "bulk"
        /\ ok => es' = [es EXCEPT !.open = TRUE]
    BY <1>1, <1>3, <1>6, EffectOf DEF Checked, Following
  <2>2. incomplete' = ~ok
    BY <1>1, <1>6 DEF IncompleteAfter
  <2>3. es.exists /\ es.settings /\ es.mappings
    BY <1>2, <1>6 DEF Ready, Making
  <2>4. QED
    BY <2>1, <2>2, <2>3 DEF SetupTypes, Steps, Ready, Making
<1>7. QED
  BY <1>4, <1>5, <1>6 DEF Following

\* The inductive invariant holds throughout.
THEOREM SetupInvariant == SetupSpec => []SetupIInv
<1>1. SetupInit => SetupIInv
  BY NothingInNoIndex DEF SetupInit, SetupIInv, SetupTypes, Ready, Making, Steps
<1>2. SetupIInv /\ [SetupNext]_setupVars => SetupIInv'
  <2> SUFFICES ASSUME SetupIInv, [SetupNext]_setupVars
               PROVE  SetupIInv'
    OBVIOUS
  <2>1. CASE UNCHANGED setupVars
    BY <2>1 DEF setupVars, SetupIInv, SetupTypes, Ready
  <2>2. CASE SetupNext
    BY <2>2, BeforeSetupKeeps, DeleteKeeps, DocumentsKeep, SetupRequestKeeps DEF SetupNext
  <2>3. QED
    BY <2>1, <2>2
<1>3. QED
  BY <1>1, <1>2, PTL DEF SetupSpec

\* Whatever requests fail and whenever commands are killed, documents go to an index with
\* its analysers and mappings, unless the setup that made it was cut short.
THEOREM SetupCorrect == SetupSpec => []ReadyForDocuments
<1>1. SetupIInv => ReadyForDocuments
  BY DEF SetupIInv, Ready, Making, ReadyForDocuments
<1>2. QED
  BY <1>1, SetupInvariant, PTL

\* The bounds on what happens to the setup.
SetupCounts == runs \in 0 .. MaxRuns /\ failures \in 0 .. MaxFailures

LEMMA CountsKeep == SetupCounts /\ [SetupNext]_setupVars => SetupCounts'
<1> SUFFICES ASSUME SetupCounts, [SetupNext]_setupVars
             PROVE  SetupCounts'
  OBVIOUS
<1>1. ASSUME NEW req, NEW ok, Request(req, ok)
      PROVE  failures' \in 0 .. MaxFailures
  BY <1>1, SetupAssumption DEF SetupCounts, Request
<1>2. CASE BeginIndex
  BY <1>2, SetupAssumption DEF SetupCounts, BeginIndex
<1>3. CASE GetVersion \/ GetIndex \/ DeleteIndex \/ Refresh
  <2>1. runs' = runs /\ \E req, ok : Request(req, ok)
    BY <1>3 DEF GetVersion, GetIndex, DeleteIndex, Refresh
  <2>2. QED
    BY <1>1, <2>1 DEF SetupCounts
<1>4. ASSUME NEW req, SetupRequest(req)
      PROVE  SetupCounts'
  <2>1. runs' = runs /\ \E ok : Request(req, ok)
    BY <1>4 DEF SetupRequest
  <2>2. QED
    BY <1>1, <2>1 DEF SetupCounts
<1>5. CASE Bulk \/ KillIndex \/ UNCHANGED setupVars
  BY <1>5 DEF SetupCounts, Bulk, KillIndex, setupVars
<1>6. QED
  BY <1>2, <1>3, <1>4, <1>5 DEF SetupNext

\* The types of the index that is set up, and the bounds on what happens to it.
THEOREM SetupTypeCorrect == SetupSpec => []SetupTypeOK
<1>1. SetupInit => SetupCounts
  BY SetupAssumption DEF SetupInit, SetupCounts
<1>2. SetupIInv /\ SetupCounts => SetupTypeOK
  BY DEF SetupIInv, SetupTypes, SetupCounts, SetupTypeOK
<1>3. QED
  BY <1>1, <1>2, CountsKeep, SetupInvariant, PTL DEF SetupSpec

-----------------------------------------------------------------------------
(* Commands: the inductive invariant.                                      *)

\* A running command is a record of these four fields.
Runs(x) == x = [pc |-> x.pc, of |-> x.of, args |-> x.args, desc |-> x.desc]

ProcessTypes ==
    /\ proc = [p \in Processes |-> proc[p]]
    /\ file \in {"absent", "partial", "whole"} /\ version \in Nat /\ kills \in Nat
    /\ \A p \in Processes :
          /\ proc[p].pc \in Pcs
          /\ ~At(p, "idle") => Runs(proc[p]) /\ proc[p].of \in Commands

\* A scan that writes the descriptor of a file that it found goes by its identity.
Rescans(p) ==
    /\ proc[p].pc \in {"delete descriptor", "insert descriptor", "prepare", "scan"}
    /\ proc[p].args.incremental

\* What a process is about to do to the index file.
Plans ==
    \A p \in Processes :
        /\ At(p, "initialize") \/ At(p, "schema") => ~proc[p].args.incremental
        /\ At(p, "read descriptor") => proc[p].args.incremental
        /\ At(p, "open") => proc[p].desc = {}
        /\ proc[p].pc \in {"schema", "delete descriptor", "insert descriptor"} => proc[p].desc # {}
        /\ Rescans(p) => identity # {} /\ proc[p].desc \subseteq identity

\* Before there is a file there is nothing in it, and nobody who works on it.
Origin ==
    file = "absent" =>
        /\ identity = {} /\ documents = {} /\ version = 0
        /\ \A p \in Processes : proc[p].pc \in {"idle", "initialize", "open", "work"}

FileIInv == ProcessTypes /\ Plans /\ Origin /\ IndexFileKept

-----------------------------------------------------------------------------
(* Commands: steps.                                                        *)

\* A process begins, ends or goes on; the others do nothing.
LEMMA OneProcessMoves ==
    ASSUME ProcessTypes, NEW p \in Processes, NEW x, proc' = [proc EXCEPT ![p] = x],
           x.pc \in Pcs, x.pc # "idle" => Runs(x) /\ x.of \in Commands,
           file' \in {"absent", "partial", "whole"}, version' \in Nat, kills' \in Nat
    PROVE  /\ ProcessTypes'
           /\ proc'[p] = x
           /\ \A q \in Processes \ {p} : proc'[q] = proc[q]
<1>1. proc'[p] = x /\ \A q \in Processes \ {p} : proc'[q] = proc[q]
  BY DEF ProcessTypes
<1>2. proc' = [q \in Processes |-> proc'[q]]
  BY DEF ProcessTypes
<1>3. QED
  BY <1>1, <1>2 DEF ProcessTypes, At

\* A process goes on to pc, with the descriptor that it had or with another one.
GotoWith(p, pc, desc) == proc' = [proc EXCEPT ![p].pc = pc, ![p].desc = desc]

BecomesAt(p, x, pc, desc) ==
    /\ proc' = [proc EXCEPT ![p] = x]
    /\ Runs(x) /\ x.pc = pc /\ x.of = proc[p].of /\ x.args = proc[p].args /\ x.desc = desc

LEMMA GoesWith ==
    ASSUME ProcessTypes, NEW p \in Processes, Runs(proc[p]), NEW pc, NEW desc, GotoWith(p, pc, desc)
    PROVE  \E x : BecomesAt(p, x, pc, desc)
<1>1. PICK y : y = proc[p] /\ Runs(y)
  OBVIOUS
<1>2. PICK x : x = [y EXCEPT !.pc = pc, !.desc = desc]
  OBVIOUS
<1>3. x = [pc |-> pc, of |-> y.of, args |-> y.args, desc |-> desc]
  BY <1>1, <1>2 DEF Runs
<1>4. proc' = [proc EXCEPT ![p] = x]
  BY <1>1, <1>2 DEF GotoWith, ProcessTypes
<1>5. Runs(x) /\ x.pc = pc /\ x.of = proc[p].of /\ x.args = proc[p].args /\ x.desc = desc
  BY <1>1, <1>3 DEF Runs
<1>6. QED
  BY <1>4, <1>5 DEF BecomesAt

LEMMA GoesTo ==
    ASSUME ProcessTypes, NEW p \in Processes, Runs(proc[p]), NEW pc, Goto(p, pc)
    PROVE  \E x : BecomesAt(p, x, pc, proc[p].desc)
<1>1. PICK y : y = proc[p] /\ Runs(y)
  OBVIOUS
<1>2. PICK x : x = [y EXCEPT !.pc = pc]
  OBVIOUS
<1>3. x = [pc |-> pc, of |-> y.of, args |-> y.args, desc |-> y.desc]
  BY <1>1, <1>2 DEF Runs
<1>4. proc' = [proc EXCEPT ![p] = x]
  BY <1>1, <1>2 DEF Goto, ProcessTypes
<1>5. Runs(x) /\ x.pc = pc /\ x.of = proc[p].of /\ x.args = proc[p].args /\ x.desc = proc[p].desc
  BY <1>1, <1>3 DEF Runs
<1>6. QED
  BY <1>4, <1>5 DEF BecomesAt

\* Steps that leave the index file alone.
LEMMA QuietMoves ==
    ASSUME FileIInv, NEW p \in Processes, NEW x, proc' = [proc EXCEPT ![p] = x],
           x.pc \in {"idle", "initialize", "read descriptor", "delete descriptor", "open", "work"},
           x.pc # "idle" => Runs(x) /\ x.of \in Commands,
           x.pc = "initialize" => ~x.args.incremental,
           x.pc = "read descriptor" => x.args.incremental,
           x.pc = "open" => x.desc = {},
           x.pc = "delete descriptor" =>
               x.args.incremental /\ x.desc # {} /\ x.desc \subseteq identity /\ identity # {},
           x.pc = "work" => x.desc \subseteq identity,
           file = "absent" => x.pc \in {"idle", "initialize", "open", "work"},
           At(p, "insert descriptor") => kills' > 0 \/ descriptor # {},
           kills' \in Nat, kills > 0 => kills' > 0,
           file' = file, descriptor' = descriptor, version' = version, documents' = documents,
           identity' = identity
    PROVE  FileIInv'
<1> USE DEF FileIInv
<1>1. /\ ProcessTypes' /\ proc'[p] = x
      /\ \A q \in Processes \ {p} : proc'[q] = proc[q]
  BY OneProcessMoves DEF ProcessTypes, Pcs
<1>2. Plans'
  BY <1>1 DEF Plans, Rescans, At
<1>3. Origin'
  BY <1>1 DEF Origin
<1>4. IdentityKept'
  <2>1. /\ descriptor' \subseteq identity'
        /\ \A q \in Processes : proc'[q].pc \in {"prepare", "scan", "work"} => proc'[q].desc \subseteq identity'
    BY <1>1 DEF IndexFileKept, IdentityKept
  <2>2. ASSUME identity # {}, descriptor = {}
        PROVE  kills' > 0 \/ \E q \in Processes : proc'[q].pc = "insert descriptor"
    <3>1. CASE \E q \in Processes : At(q, "insert descriptor")
      <4>1. PICK q \in Processes : At(q, "insert descriptor")
        BY <3>1
      <4>2. QED
        BY <1>1, <2>2, <4>1 DEF At
    <3>2. QED
      BY <2>2, <3>1 DEF IndexFileKept, IdentityKept
  <2>3. QED
    BY <2>1, <2>2 DEF IdentityKept, At
<1>5. NothingOverwritten'
  <2>1. ~MakesFile(p)'
    BY <1>1 DEF MakesFile
  <2>2. \A q \in Processes \ {p} : MakesFile(q)' <=> MakesFile(q)
    BY <1>1 DEF MakesFile
  <2>3. QED
    BY <1>1, <2>1, <2>2 DEF IndexFileKept, NothingOverwritten
<1>6. QED
  BY <1>1, <1>2, <1>3, <1>4, <1>5 DEF IndexFileKept

\* A command ends without a trace.
LEMMA ExitKeeps ==
    ASSUME FileIInv, NEW p \in Processes, NEW status, Exit(p, status),
           At(p, "insert descriptor") => kills' > 0 \/ descriptor # {},
           kills' \in Nat, kills > 0 => kills' > 0,
           file' = file, descriptor' = descriptor, version' = version, documents' = documents,
           identity' = identity
    PROVE  FileIInv'
<1>1. PICK x : x = Idle(status)
  OBVIOUS
<1>2. proc' = [proc EXCEPT ![p] = x] /\ x.pc = "idle"
  BY <1>1 DEF Exit, Idle
<1>3. QED
  BY <1>2, QuietMoves

LEMMA StartKeeps ==
    ASSUME FileIInv, NEW p \in Processes, NEW o \in Commands, Start(p, o)
    PROVE  FileIInv'
<1>1. /\ proc[p].pc = "idle" /\ kills' \in Nat
      /\ UNCHANGED <<file, descriptor, version, documents, identity, kills>>
  BY DEF Start, FileIInv, ProcessTypes
<1>2. CASE Verdict(o) = "none"
  <2>1. PICK a : a = SettingsOf(o)
    OBVIOUS
  <2>2. PICK x : x = [pc |-> FirstStep(o, a), of |-> o, args |-> a, desc |-> {}]
    OBVIOUS
  <2>3. proc' = [proc EXCEPT ![p] = x]
    BY <1>2, <2>1, <2>2 DEF Start
  <2>4. Runs(x) /\ x.of \in Commands /\ x.pc = FirstStep(o, a) /\ x.args = a
    BY <2>2 DEF Runs
  <2>5. o.command = "scan" => a.incremental = (o.incremental /\ file # "absent")
    BY <2>1 DEF SettingsOf, ScanSettings
  <2>6. \/ x.pc = "initialize" /\ ~x.args.incremental
        \/ x.pc = "read descriptor" /\ x.args.incremental /\ file # "absent"
        \/ x.pc = "open" /\ x.desc = {}
    BY <2>2, <2>4, <2>5 DEF FirstStep
  <2>7. ~At(p, "insert descriptor")
    BY <1>1 DEF At
  <2>8. QED
    BY <1>1, <2>3, <2>4, <2>6, <2>7, QuietMoves
<1>3. CASE Verdict(o) # "none"
  <2>1. Exit(p, ExitOf(Verdict(o)))
    BY <1>3 DEF Start, Exit
  <2>2. ~At(p, "insert descriptor")
    BY <1>1 DEF At
  <2>3. QED
    BY <1>1, <2>1, <2>2, ExitKeeps
<1>4. QED
  BY <1>2, <1>3

LEMMA FinishAndKillKeep ==
    ASSUME FileIInv, NEW p \in Processes, Finish(p) \/ KillCommand(p)
    PROVE  FileIInv'
<1>1. kills \in Nat
  BY DEF FileIInv, ProcessTypes
<1>2. CASE Finish(p)
  <2>1. ~At(p, "insert descriptor")
    BY <1>2 DEF Finish, At
  <2>2. /\ Exit(p, Success) /\ kills' \in Nat
        /\ UNCHANGED <<file, descriptor, version, documents, identity, kills>>
    BY <1>1, <1>2 DEF Finish
  <2>3. QED
    BY <2>1, <2>2, ExitKeeps
<1>3. CASE KillCommand(p)
  <2>1. kills' = kills + 1
    BY <1>3 DEF KillCommand
  <2>2. kills' \in Nat /\ kills' > 0
    BY <1>1, <2>1
  <2>3. QED
    BY <1>3, <2>2, ExitKeeps DEF KillCommand
<1>4. QED
  BY <1>2, <1>3

\* What is read of the descriptor is a row of it.
LEMMA ReadOriginalKeeps ==
    ASSUME FileIInv, NEW p \in Processes, ReadOriginal(p)
    PROVE  FileIInv'
<1>1. /\ proc[p].pc = "read descriptor" /\ kills' \in Nat
      /\ UNCHANGED <<file, descriptor, version, documents, identity, kills>>
  BY DEF ReadOriginal, FileIInv, ProcessTypes, At
<1>2. ~At(p, "insert descriptor")
  BY <1>1 DEF At
<1>3. CASE \E status : Exit(p, status)
  BY <1>1, <1>2, <1>3, ExitKeeps
<1>4. CASE \E row \in descriptor : GotoWith(p, "delete descriptor", {row})
  <2>1. PICK row \in descriptor : GotoWith(p, "delete descriptor", {row})
    BY <1>4
  <2>2. Runs(proc[p]) /\ proc[p].of \in Commands /\ ProcessTypes
    BY <1>1 DEF FileIInv, ProcessTypes, At
  <2>3. PICK x : BecomesAt(p, x, "delete descriptor", {row})
    BY <2>1, <2>2, GoesWith
  <2>4. row \in identity
    BY DEF FileIInv, IndexFileKept, IdentityKept
  <2>5. x.desc # {} /\ x.desc \subseteq identity /\ identity # {}
    BY <2>3, <2>4 DEF BecomesAt
  <2>6. proc[p].args.incremental
    BY <1>1 DEF FileIInv, Plans, At
  <2>7. file # "absent"
    BY <1>1 DEF FileIInv, Origin
  <2>8. QED
    BY <1>1, <1>2, <2>2, <2>3, <2>5, <2>6, <2>7, QuietMoves DEF BecomesAt
<1>5. QED
  BY <1>3, <1>4 DEF ReadOriginal, GotoWith

LEMMA OpenIndexKeeps ==
    ASSUME FileIInv, NEW p \in Processes, OpenIndex(p)
    PROVE  FileIInv'
<1>1. /\ proc[p].pc = "open" /\ kills' \in Nat
      /\ UNCHANGED <<file, descriptor, version, documents, identity, kills>>
  BY DEF OpenIndex, FileIInv, ProcessTypes, At
<1>2. ~At(p, "insert descriptor")
  BY <1>1 DEF At
<1>3. Runs(proc[p]) /\ proc[p].of \in Commands
  BY <1>1 DEF FileIInv, ProcessTypes, At
<1>4. CASE \E status : Exit(p, status)
  BY <1>1, <1>2, <1>4, ExitKeeps
<1>5. CASE \E row \in descriptor : GotoWith(p, "work", {row})
  <2>1. PICK row \in descriptor : GotoWith(p, "work", {row})
    BY <1>5
  <2>2. PICK x : BecomesAt(p, x, "work", {row})
    BY <1>3, <2>1, GoesWith DEF FileIInv
  <2>3. row \in identity
    BY DEF FileIInv, IndexFileKept, IdentityKept
  <2>4. x.desc \subseteq identity
    BY <2>2, <2>3 DEF BecomesAt
  <2>5. QED
    BY <1>1, <1>2, <1>3, <2>2, <2>4, QuietMoves DEF BecomesAt
<1>6. QED
  BY <1>4, <1>5 DEF OpenIndex, GotoWith

\* While a process writes to the file, no other one has still to make it.
LEMMA Alone ==
    ASSUME FileIInv, NEW p \in Processes, NEW q \in Processes \ {p}, MakesFile(q),
           \/ MakesFile(p)
           \/ Rescans(p) /\ proc[q].pc \notin {"prepare", "scan"}
    PROVE  FALSE
<1>1. CASE MakesFile(p)
  BY <1>1 DEF FileIInv, IndexFileKept, NothingOverwritten
<1>2. CASE Rescans(p) /\ proc[q].pc \notin {"prepare", "scan"}
  <2>1. identity # {}
    BY <1>2 DEF FileIInv, Plans
  <2>2. identity = {}
    BY <1>2 DEF FileIInv, IndexFileKept, NothingOverwritten
  <2>3. QED
    BY <2>1, <2>2
<1>3. QED
  BY <1>1, <1>2

\* A scan that writes to the file has made it or goes by its identity.
LEMMA Writers ==
    ASSUME FileIInv, NEW p \in Processes,
           proc[p].pc \in {"schema", "delete descriptor", "insert descriptor", "prepare", "scan"}
    PROVE  /\ Runs(proc[p]) /\ proc[p].of \in Commands /\ file # "absent" /\ kills \in Nat
           /\ MakesFile(p) \/ Rescans(p)
           /\ MakesFile(p) <=> ~proc[p].args.incremental
           /\ proc[p].pc = "schema" => MakesFile(p)
<1>1. Runs(proc[p]) /\ proc[p].of \in Commands /\ kills \in Nat
  BY DEF FileIInv, ProcessTypes, At
<1>2. file # "absent"
  BY DEF FileIInv, Origin
<1>3. proc[p].pc = "schema" => ~proc[p].args.incremental
  BY DEF FileIInv, Plans, At
<1>4. QED
  BY <1>1, <1>2, <1>3 DEF MakesFile, Rescans

\* Steps that write to the file.
LEMMA WriterMoves ==
    ASSUME FileIInv, NEW p \in Processes,
           proc[p].pc \in {"schema", "delete descriptor", "insert descriptor", "prepare", "scan"},
           NEW x, proc' = [proc EXCEPT ![p] = x],
           x.pc \in {"idle", "delete descriptor", "insert descriptor", "prepare", "scan"},
           x.pc # "idle" => Runs(x) /\ x.of \in Commands /\ x.args = proc[p].args,
           x.pc \in {"delete descriptor", "insert descriptor"} =>
               /\ x.desc # {}
               /\ ~x.args.incremental => identity' = {} /\ documents' = {} /\ version' = 0,
           x.pc # "idle" /\ x.args.incremental => identity' # {} /\ x.desc \subseteq identity',
           x.pc \in {"prepare", "scan"} => x.desc \subseteq identity',
           file' \in {"partial", "whole"}, version' \in Nat, kills' = kills,
           descriptor' \subseteq identity', identity \subseteq identity',
           \/ identity' = {} \/ descriptor' # {} \/ x.pc = "insert descriptor"
           \/ /\ descriptor' = descriptor /\ identity' = identity
              /\ proc[p].pc # "insert descriptor"
    PROVE  FileIInv'
<1> USE DEF FileIInv
<1>1. /\ ProcessTypes' /\ proc'[p] = x
      /\ \A q \in Processes \ {p} : proc'[q] = proc[q]
  BY OneProcessMoves DEF ProcessTypes, Pcs
<1>2. Plans'
  BY <1>1 DEF Plans, Rescans, At
<1>3. Origin'
  BY <1>1 DEF Origin
<1>4. IdentityKept'
  <2>1. /\ descriptor' \subseteq identity'
        /\ \A q \in Processes : proc'[q].pc \in {"prepare", "scan", "work"} => proc'[q].desc \subseteq identity'
    BY <1>1 DEF IndexFileKept, IdentityKept
  <2>2. ASSUME identity' # {}, descriptor' = {}
        PROVE  kills' > 0 \/ \E q \in Processes : proc'[q].pc = "insert descriptor"
    <3>1. CASE x.pc = "insert descriptor"
      BY <1>1, <3>1
    <3>2. CASE descriptor' = descriptor /\ identity' = identity /\ proc[p].pc # "insert descriptor"
      <4>1. kills > 0 \/ \E q \in Processes : proc[q].pc = "insert descriptor"
        BY <2>2, <3>2 DEF IndexFileKept, IdentityKept, At
      <4>2. CASE kills > 0
        BY <4>2
      <4>3. CASE \E q \in Processes : proc[q].pc = "insert descriptor"
        <5>1. PICK q \in Processes : proc[q].pc = "insert descriptor"
          BY <4>3
        <5>2. proc'[q].pc = "insert descriptor"
          BY <1>1, <3>2, <5>1
        <5>3. QED
          BY <5>2
      <4>4. QED
        BY <4>1, <4>2, <4>3
    <3>3. QED
      BY <2>2, <3>1, <3>2
  <2>3. QED
    BY <2>1, <2>2 DEF IdentityKept, At
<1>5. NothingOverwritten'
  <2>1. \A q \in Processes \ {p} : MakesFile(q)' <=> MakesFile(q)
    BY <1>1 DEF MakesFile
  <2>2. MakesFile(p)' => MakesFile(p)
    BY <1>1 DEF MakesFile
  <2>3. MakesFile(p) \/ Rescans(p)
    BY Writers
  <2>4. ASSUME NEW q \in Processes, MakesFile(q)'
        PROVE  /\ proc'[q].pc \notin {"prepare", "scan"} =>
                     identity' = {} /\ documents' = {} /\ version' = 0
               /\ \A r \in Processes \ {q} : ~MakesFile(r)'
    <3>1. CASE q = p
      <4>1. /\ x.pc \notin {"prepare", "scan"} => identity' = {} /\ documents' = {} /\ version' = 0
        BY <1>1, <2>4, <3>1 DEF MakesFile
      <4>2. \A r \in Processes \ {q} : ~MakesFile(r)
        BY <2>2, <2>4, <3>1, Alone
      <4>3. QED
        BY <1>1, <2>1, <3>1, <4>1, <4>2
    <3>2. CASE q # p
      <4>1. MakesFile(q) /\ proc'[q] = proc[q]
        BY <1>1, <2>1, <2>4, <3>2
      <4>2. ~MakesFile(p)
        BY <3>2, <4>1, Alone
      <4>3. proc[q].pc \in {"prepare", "scan"}
        BY <2>3, <3>2, <4>1, <4>2, Alone
      <4>4. \A r \in Processes \ {q} : ~MakesFile(r)
        BY <4>1 DEF IndexFileKept, NothingOverwritten
      <4>5. QED
        BY <2>1, <2>2, <4>1, <4>2, <4>3, <4>4
    <3>3. QED
      BY <3>1, <3>2
  <2>5. QED
    BY <2>4 DEF NothingOverwritten
<1>6. QED
  BY <1>1, <1>2, <1>3, <1>4, <1>5 DEF IndexFileKept

LEMMA CreateTableKeeps ==
    ASSUME FileIInv, NEW p \in Processes, CreateTable(p)
    PROVE  FileIInv'
<1> USE DEF FileIInv
<1>1. /\ proc[p].pc = "initialize" /\ kills' \in Nat /\ version' \in Nat
      /\ UNCHANGED <<descriptor, version, documents, identity, kills>>
  BY DEF CreateTable, ProcessTypes, At
<1>2. Runs(proc[p]) /\ proc[p].of \in Commands /\ ~proc[p].args.incremental
  BY <1>1 DEF ProcessTypes, Plans, At
<1>3. CASE file # "absent"
  <2>1. Exit(p, Fatal) /\ file' = file /\ ~At(p, "insert descriptor")
    BY <1>1, <1>3 DEF CreateTable, At
  <2>2. QED
    BY <1>1, <2>1, ExitKeeps
<1>4. CASE file = "absent"
  <2>1. file' = "partial" /\ \E new : GotoWith(p, "schema", {new})
    BY <1>4 DEF CreateTable, GotoWith
  <2>2. PICK x : /\ proc' = [proc EXCEPT ![p] = x] /\ x.desc # {}
                 /\ Runs(x) /\ x.pc = "schema" /\ x.of = proc[p].of /\ x.args = proc[p].args
    BY <1>2, <2>1, GoesWith DEF BecomesAt
  <2>3. /\ ProcessTypes' /\ proc'[p] = x
        /\ \A q \in Processes \ {p} : proc'[q] = proc[q]
    BY <1>1, <1>2, <2>1, <2>2, OneProcessMoves DEF Pcs
  <2>4. /\ identity = {} /\ documents = {} /\ version = 0
        /\ \A q \in Processes : proc[q].pc \in {"idle", "initialize", "open", "work"}
    BY <1>4 DEF Origin
  <2>5. Plans'
    BY <1>1, <1>2, <2>2, <2>3 DEF Plans, Rescans, At
  <2>6. Origin'
    BY <2>1 DEF Origin
  <2>7. IdentityKept'
    BY <1>1, <2>2, <2>3, <2>4 DEF IndexFileKept, IdentityKept
  <2>8. NothingOverwritten'
    BY <1>1, <2>2, <2>3, <2>4 DEF NothingOverwritten, MakesFile
  <2>9. QED
    BY <2>3, <2>5, <2>6, <2>7, <2>8 DEF IndexFileKept
<1>5. QED
  BY <1>3, <1>4

LEMMA CreateSchemaKeeps ==
    ASSUME FileIInv, NEW p \in Processes, CreateSchema(p)
    PROVE  FileIInv'
<1>1. /\ proc[p].pc = "schema" /\ version' \in Nat /\ file' = "whole"
      /\ UNCHANGED <<descriptor, version, documents, identity, kills>>
  BY DEF CreateSchema, FileIInv, ProcessTypes, At
<1>2. Runs(proc[p]) /\ proc[p].of \in Commands /\ ~proc[p].args.incremental
  BY <1>1, Writers
<1>3. Goto(p, "delete descriptor") /\ proc[p].desc # {}
  BY <1>1 DEF CreateSchema, FileIInv, Plans, At
<1>4. PICK x : BecomesAt(p, x, "delete descriptor", proc[p].desc)
  BY <1>2, <1>3, GoesTo DEF FileIInv
<1>5. x.desc # {}
  BY <1>3, <1>4 DEF BecomesAt
<1>6. /\ identity = {} /\ documents = {} /\ version = 0 /\ descriptor \subseteq identity
  <2>1. MakesFile(p)
    BY <1>1, Writers
  <2>2. QED
    BY <1>1, <2>1 DEF FileIInv, IndexFileKept, NothingOverwritten, IdentityKept
<1>7. QED
  BY <1>1, <1>2, <1>4, <1>5, <1>6, WriterMoves DEF BecomesAt

LEMMA DeleteDescriptorKeeps ==
    ASSUME FileIInv, NEW p \in Processes, DeleteDescriptor(p)
    PROVE  FileIInv'
<1>1. /\ proc[p].pc = "delete descriptor" /\ version' \in Nat /\ kills' = kills
      /\ file' = file /\ documents' = documents /\ version' = version /\ identity' = identity
      /\ descriptor' = {}
  BY DEF DeleteDescriptor, FileIInv, ProcessTypes, At
<1>2. Runs(proc[p]) /\ proc[p].of \in Commands /\ file \in {"partial", "whole"}
  BY <1>1, Writers DEF FileIInv, ProcessTypes
<1>3. PICK x : BecomesAt(p, x, "insert descriptor", proc[p].desc)
  <2>1. Goto(p, "insert descriptor") /\ ProcessTypes
    BY DEF DeleteDescriptor, FileIInv
  <2>2. QED
    BY <1>2, <2>1, GoesTo
<1>4. /\ proc[p].desc # {}
      /\ proc[p].args.incremental => identity # {} /\ proc[p].desc \subseteq identity
  BY <1>1 DEF FileIInv, Plans, Rescans
<1>5. ~proc[p].args.incremental => identity = {} /\ documents = {} /\ version = 0
  BY <1>1 DEF FileIInv, IndexFileKept, NothingOverwritten, MakesFile
<1>6. QED
  BY <1>1, <1>2, <1>3, <1>4, <1>5, WriterMoves DEF BecomesAt

LEMMA InsertDescriptorKeeps ==
    ASSUME FileIInv, NEW p \in Processes, InsertDescriptor(p)
    PROVE  FileIInv'
<1>1. /\ proc[p].pc = "insert descriptor" /\ version' \in Nat /\ kills' \in Nat /\ kills' = kills
      /\ file' = file /\ documents' = documents /\ version' = version
  BY DEF InsertDescriptor, FileIInv, ProcessTypes, At
<1>2. Runs(proc[p]) /\ proc[p].of \in Commands /\ file \in {"partial", "whole"}
  BY <1>1, Writers DEF FileIInv, ProcessTypes
<1>3. CASE \E row \in descriptor, new \in proc[p].desc : row.id = new.id
  <2>1. Exit(p, Fatal) /\ descriptor' = descriptor /\ identity' = identity /\ descriptor # {}
    BY <1>3 DEF InsertDescriptor
  <2>2. QED
    BY <1>1, <2>1, ExitKeeps
<1>4. CASE ~\E row \in descriptor, new \in proc[p].desc : row.id = new.id
  <2>1. /\ descriptor' = descriptor \cup proc[p].desc
        /\ identity' = IF identity = {} THEN proc[p].desc ELSE identity
        /\ Goto(p, "prepare")
    BY <1>4 DEF InsertDescriptor
  <2>2. PICK x : BecomesAt(p, x, "prepare", proc[p].desc)
    BY <1>2, <2>1, GoesTo DEF FileIInv
  <2>3. /\ proc[p].desc # {}
        /\ proc[p].args.incremental => identity # {} /\ proc[p].desc \subseteq identity
    BY <1>1 DEF FileIInv, Plans, Rescans
  <2>4. ~proc[p].args.incremental => identity = {}
    BY <1>1 DEF FileIInv, IndexFileKept, NothingOverwritten, MakesFile
  <2>5. descriptor \subseteq identity
    BY DEF FileIInv, IndexFileKept, IdentityKept
  <2>6. /\ descriptor' \subseteq identity' /\ identity \subseteq identity' /\ descriptor' # {}
        /\ proc[p].desc \subseteq identity' /\ identity' # {}
    BY <2>1, <2>3, <2>4, <2>5
  <2>7. QED
    BY <1>1, <1>2, <2>2, <2>6, WriterMoves DEF BecomesAt
<1>5. QED
  BY <1>3, <1>4

LEMMA PrepareAndScanKeep ==
    ASSUME FileIInv, NEW p \in Processes, PrepareScan(p) \/ Scan(p)
    PROVE  FileIInv'
<1>1. /\ proc[p].pc \in {"prepare", "scan"} /\ version' \in Nat /\ kills' = kills
      /\ file' = file /\ descriptor' = descriptor /\ identity' = identity
  BY DEF PrepareScan, Scan, FileIInv, ProcessTypes, At
<1>2. Runs(proc[p]) /\ proc[p].of \in Commands /\ file \in {"partial", "whole"}
  BY <1>1, Writers DEF FileIInv, ProcessTypes
<1>3. /\ proc[p].desc \subseteq identity /\ descriptor \subseteq identity
      /\ proc[p].args.incremental => identity # {}
  BY <1>1 DEF FileIInv, Plans, Rescans, IndexFileKept, IdentityKept
<1>4. CASE PrepareScan(p)
  <2>1. PICK x : BecomesAt(p, x, "scan", proc[p].desc)
    BY <1>2, <1>4, GoesTo DEF FileIInv, PrepareScan
  <2>2. QED
    BY <1>1, <1>2, <1>3, <2>1, WriterMoves DEF BecomesAt
<1>5. CASE Scan(p)
  <2>1. PICK status : Exit(p, status)
    BY <1>5 DEF Scan
  <2>2. PICK x : x = Idle(status)
    OBVIOUS
  <2>3. proc' = [proc EXCEPT ![p] = x] /\ x.pc = "idle"
    BY <2>1, <2>2 DEF Exit, Idle
  <2>4. QED
    BY <1>1, <1>2, <1>3, <2>3, WriterMoves
<1>6. QED
  BY <1>4, <1>5

\* The inductive invariant holds throughout.
THEOREM FileInvariant == CommandSpec => []FileIInv
<1>1. CommandInit => FileIInv
  <2> SUFFICES ASSUME CommandInit
               PROVE  FileIInv
    OBVIOUS
  <2>1. /\ file = "absent" /\ descriptor = {} /\ version = 0 /\ documents = {} /\ identity = {}
        /\ proc = [p \in Processes |-> Idle(Success)] /\ kills = 0
    BY DEF CommandInit
  <2>2. \A p \in Processes : proc[p].pc = "idle"
    BY <2>1 DEF Idle
  <2>3. ProcessTypes
    BY <2>1, <2>2 DEF ProcessTypes, At, Pcs
  <2>4. Plans /\ Origin
    BY <2>1, <2>2 DEF Plans, Rescans, Origin, At
  <2>5. IndexFileKept
    BY <2>1, <2>2 DEF IndexFileKept, IdentityKept, NothingOverwritten, MakesFile
  <2>6. QED
    BY <2>3, <2>4, <2>5 DEF FileIInv
<1>2. FileIInv /\ [CommandNext]_commandVars => FileIInv'
  <2> SUFFICES ASSUME FileIInv, [CommandNext]_commandVars
               PROVE  FileIInv'
    OBVIOUS
  <2>1. CASE Tick \/ UNCHANGED commandVars
    <3>1. UNCHANGED <<file, descriptor, version, documents, proc, identity, kills>>
      BY <2>1 DEF Tick, commandVars
    <3>2. QED
      BY <3>1 DEF FileIInv, ProcessTypes, Plans, Rescans, Origin, IndexFileKept, IdentityKept,
                  NothingOverwritten, MakesFile, At
  <2>2. ASSUME NEW p \in Processes, NEW o \in Commands, Start(p, o)
        PROVE  FileIInv'
    BY <2>2, StartKeeps
  <2>3. ASSUME NEW p \in Processes,
               \/ CreateTable(p) \/ CreateSchema(p) \/ ReadOriginal(p)
               \/ DeleteDescriptor(p) \/ InsertDescriptor(p) \/ PrepareScan(p)
               \/ Scan(p) \/ OpenIndex(p) \/ Finish(p) \/ KillCommand(p)
        PROVE  FileIInv'
    BY <2>3, CreateTableKeeps, CreateSchemaKeeps, ReadOriginalKeeps, DeleteDescriptorKeeps,
       InsertDescriptorKeeps, PrepareAndScanKeep, OpenIndexKeeps, FinishAndKillKeep
  <2>4. QED
    BY <2>1, <2>2, <2>3 DEF CommandNext
<1>3. QED
  BY <1>1, <1>2, PTL DEF CommandSpec

\* However many commands run at once and whichever is killed, the index file keeps the
\* identity of its first scan, and nothing in it is made anew.
THEOREM FileCorrect == CommandSpec => []IndexFileKept
<1>1. FileIInv => IndexFileKept
  BY DEF FileIInv
<1>2. QED
  BY <1>1, FileInvariant, PTL

-----------------------------------------------------------------------------
(* Commands: types, and scans that have yet to be counted in the file.     *)

OneRow(desc) == desc = {} \/ \E row : desc = {row} /\ row.id \in 1 .. now

StateTypes(x) ==
    IF x.pc = "idle" THEN x.exit \in {Success, Usage, Fatal, Crash, 137} ELSE OneRow(x.desc)

\* Before a scan has added its row to the table version.
PendingPcs == {"initialize", "schema", "read descriptor", "delete descriptor", "insert descriptor", "prepare"}
Pending == {p \in Processes : proc[p].pc \in PendingPcs}

\* Rows of the table version are scans that are no longer pending.
CommandCounts ==
    /\ commands \in Nat /\ version \in Nat
    /\ IsFiniteSet(Pending) /\ version + Cardinality(Pending) <= commands

CommandTypes ==
    /\ now \in Nat \ {0}
    /\ \A row \in descriptor : row.id \in 1 .. now
    /\ documents \subseteq 1 .. MaxLevel
    /\ \A p \in Processes : StateTypes(proc[p])
    /\ CommandCounts

\* What of the count may change in a step of p to the state x.
CountsScan(p, x) ==
    \/ version' = version /\ commands' = commands /\ (x.pc \in PendingPcs => p \in Pending)
    \/ version' = version /\ commands' = commands + 1
    \/ version' = version + 1 /\ commands' = commands /\ p \in Pending /\ x.pc \notin PendingPcs

LEMMA CountGoesOn ==
    ASSUME ProcessTypes, CommandCounts, NEW p \in Processes, NEW x, proc' = [proc EXCEPT ![p] = x],
           CountsScan(p, x)
    PROVE  CommandCounts'
<1> USE DEF CommandCounts
<1>1. proc'[p] = x /\ \A q \in Processes \ {p} : proc'[q] = proc[q]
  BY DEF ProcessTypes
<1>2. Cardinality(Pending) \in Nat
  BY FS_CardinalityType
<1>3. /\ IsFiniteSet(Pending \cup {p})
      /\ Cardinality(Pending \cup {p}) = IF p \in Pending THEN Cardinality(Pending) ELSE Cardinality(Pending) + 1
  BY FS_AddElement
<1>4. /\ IsFiniteSet(Pending \ {p})
      /\ Cardinality(Pending \ {p}) = IF p \in Pending THEN Cardinality(Pending) - 1 ELSE Cardinality(Pending)
  BY FS_RemoveElement
<1>5. Pending' = IF x.pc \in PendingPcs THEN Pending \cup {p} ELSE Pending \ {p}
  BY <1>1 DEF Pending
<1>6. CASE version' = version /\ commands' = commands /\ (x.pc \in PendingPcs => p \in Pending)
  BY <1>2, <1>3, <1>4, <1>5, <1>6
<1>7. CASE version' = version /\ commands' = commands + 1
  BY <1>2, <1>3, <1>4, <1>5, <1>7
<1>8. CASE version' = version + 1 /\ commands' = commands /\ p \in Pending /\ x.pc \notin PendingPcs
  BY <1>2, <1>4, <1>5, <1>8
<1>9. QED
  BY <1>6, <1>7, <1>8 DEF CountsScan

LEMMA CommandMoves ==
    ASSUME ProcessTypes, CommandTypes, NEW p \in Processes, NEW x, proc' = [proc EXCEPT ![p] = x],
           StateTypes(x), CountsScan(p, x), now' = now,
           \A row \in descriptor' : row.id \in 1 .. now,
           documents' \subseteq 1 .. MaxLevel
    PROVE  CommandTypes'
<1>1. proc'[p] = x /\ \A q \in Processes \ {p} : proc'[q] = proc[q]
  BY DEF ProcessTypes
<1>2. CommandCounts'
  BY CountGoesOn DEF CommandTypes
<1>3. \A q \in Processes : StateTypes(proc'[q])
  BY <1>1 DEF CommandTypes
<1>4. \A q \in Processes : StateTypes(proc[q])'
  BY <1>3 DEF StateTypes, OneRow
<1>5. QED
  BY <1>2, <1>4 DEF CommandTypes

\* A command ends, or is refused at once.
LEMMA CommandEnds ==
    ASSUME ProcessTypes, CommandTypes, NEW p \in Processes,
           NEW status \in {Success, Usage, Fatal, Crash, 137}, Exit(p, status),
           version' = version, commands' = commands \/ commands' = commands + 1,
           descriptor' = descriptor, documents' \subseteq 1 .. MaxLevel, now' = now
    PROVE  CommandTypes'
<1>1. PICK x : x = Idle(status)
  OBVIOUS
<1>2. proc' = [proc EXCEPT ![p] = x] /\ x.pc = "idle" /\ x.exit = status
  BY <1>1 DEF Exit, Idle
<1>3. StateTypes(x) /\ CountsScan(p, x)
  BY <1>2 DEF StateTypes, CountsScan, PendingPcs
<1>4. \A row \in descriptor' : row.id \in 1 .. now
  BY DEF CommandTypes
<1>5. QED
  BY <1>2, <1>3, <1>4, CommandMoves

\* The steps of a command that is not over.
LEMMA CommandAdvances ==
    ASSUME ProcessTypes, CommandTypes, NEW p \in Processes, NEW x, NEW pc, NEW desc,
           BecomesAt(p, x, pc, desc), pc # "idle", OneRow(desc), CountsScan(p, x), now' = now,
           \A row \in descriptor' : row.id \in 1 .. now, documents' = documents
    PROVE  CommandTypes'
<1>1. StateTypes(x)
  BY DEF BecomesAt, StateTypes
<1>2. documents' \subseteq 1 .. MaxLevel /\ proc' = [proc EXCEPT ![p] = x]
  BY DEF CommandTypes, BecomesAt
<1>3. QED
  BY <1>1, <1>2, CommandMoves

LEMMA StartTypes ==
    ASSUME ProcessTypes, CommandTypes, NEW p \in Processes, NEW o \in Commands, Start(p, o)
    PROVE  CommandTypes'
<1>1. /\ UNCHANGED <<file, descriptor, version, documents, now, identity, kills>>
      /\ commands' = commands + 1 /\ documents' \subseteq 1 .. MaxLevel
      /\ \A row \in descriptor' : row.id \in 1 .. now
  BY DEF Start, CommandTypes
<1>2. CASE Verdict(o) = "none"
  <2>1. PICK a : a = SettingsOf(o)
    OBVIOUS
  <2>2. PICK x : x = [pc |-> FirstStep(o, a), of |-> o, args |-> a, desc |-> {}]
    OBVIOUS
  <2>3. proc' = [proc EXCEPT ![p] = x]
    BY <1>2, <2>1, <2>2 DEF Start
  <2>4. x.pc # "idle" /\ x.desc = {}
    BY <2>2 DEF FirstStep
  <2>5. StateTypes(x) /\ CountsScan(p, x)
    BY <1>1, <2>4 DEF StateTypes, OneRow, CountsScan
  <2>6. QED
    BY <1>1, <2>3, <2>5, CommandMoves
<1>3. CASE Verdict(o) # "none"
  <2>1. Exit(p, ExitOf(Verdict(o)))
    BY <1>3 DEF Start, Exit
  <2>2. ExitOf(Verdict(o)) \in {Success, Usage, Fatal, Crash, 137}
    BY DEF ExitOf
  <2>3. QED
    BY <1>1, <2>1, <2>2, CommandEnds
<1>4. QED
  BY <1>2, <1>3

LEMMA CommandStepTypes ==
    ASSUME ProcessTypes, CommandTypes, NEW p \in Processes,
           \/ CreateTable(p) \/ CreateSchema(p) \/ ReadOriginal(p)
           \/ DeleteDescriptor(p) \/ InsertDescriptor(p) \/ PrepareScan(p)
           \/ Scan(p) \/ OpenIndex(p) \/ Finish(p) \/ KillCommand(p)
    PROVE  CommandTypes'
<1>1. /\ \A row \in descriptor : row.id \in 1 .. now
      /\ documents \subseteq 1 .. MaxLevel /\ now \in Nat \ {0}
      /\ version \in Nat /\ commands \in Nat
  BY DEF CommandTypes, CommandCounts
<1>2. proc[p].pc # "idle" => Runs(proc[p]) /\ OneRow(proc[p].desc)
  BY DEF ProcessTypes, CommandTypes, StateTypes, At
<1>3. proc[p].pc \in PendingPcs <=> p \in Pending
  BY DEF Pending
\* A step to pc, with the descriptor that the process had or another one.
<1>4. ASSUME NEW pc \in Pcs \ {"idle"}, Goto(p, pc), proc[p].pc # "idle",
             \/ version' = version /\ (pc \in PendingPcs => p \in Pending)
             \/ version' = version + 1 /\ p \in Pending /\ pc \notin PendingPcs,
             commands' = commands, now' = now,
             \A row \in descriptor' : row.id \in 1 .. now, documents' = documents
      PROVE  CommandTypes'
  <2>1. PICK x : BecomesAt(p, x, pc, proc[p].desc)
    BY <1>2, <1>4, GoesTo
  <2>2. CountsScan(p, x)
    BY <1>4, <2>1 DEF CountsScan, BecomesAt
  <2>3. OneRow(proc[p].desc)
    BY <1>2, <1>4
  <2>4. QED
    BY <1>4, <2>1, <2>2, <2>3, CommandAdvances
<1>5. ASSUME NEW pc \in Pcs \ {"idle"}, NEW row, row.id \in 1 .. now, GotoWith(p, pc, {row}),
             proc[p].pc # "idle", pc \in PendingPcs => p \in Pending, version' = version,
             commands' = commands, now' = now, descriptor' = descriptor, documents' = documents
      PROVE  CommandTypes'
  <2>1. PICK x : BecomesAt(p, x, pc, {row})
    BY <1>2, <1>5, GoesWith
  <2>2. CountsScan(p, x)
    BY <1>5, <2>1 DEF CountsScan, BecomesAt
  <2>3. OneRow({row})
    BY <1>5 DEF OneRow
  <2>4. \A r \in descriptor' : r.id \in 1 .. now
    BY <1>1, <1>5
  <2>5. QED
    BY <1>5, <2>1, <2>2, <2>3, <2>4, CommandAdvances
<1>6. CASE CreateTable(p)
  <2>1. CASE file = "absent"
    <3>1. PICK row : row = [id |-> now, major |-> proc[p].of.major]
      OBVIOUS
    <3>2. row.id \in 1 .. now
      BY <1>1, <3>1
    <3>3. GotoWith(p, "schema", {row}) /\ proc[p].pc = "initialize"
      BY <1>6, <2>1, <3>1 DEF CreateTable, GotoWith, At
    <3>4. UNCHANGED <<descriptor, version, documents, now, commands>>
      BY <1>6 DEF CreateTable
    <3>5. QED
      BY <1>3, <1>5, <3>2, <3>3, <3>4 DEF Pcs, PendingPcs
  <2>2. CASE file # "absent"
    BY <1>1, <1>6, <2>2, CommandEnds DEF CreateTable
  <2>3. QED
    BY <2>1, <2>2
<1>7. CASE CreateSchema(p)
  <2>1. /\ proc[p].pc = "schema" /\ Goto(p, "delete descriptor")
        /\ UNCHANGED <<descriptor, version, documents, now, commands>>
    BY <1>7 DEF CreateSchema, At
  <2>2. "delete descriptor" \in Pcs \ {"idle"} /\ p \in Pending
    BY <1>3, <2>1 DEF Pcs, PendingPcs
  <2>3. QED
    BY <1>1, <1>4, <2>1, <2>2
<1>8. CASE ReadOriginal(p)
  <2>1. proc[p].pc = "read descriptor" /\ UNCHANGED <<descriptor, version, documents, now, commands>>
    BY <1>8 DEF ReadOriginal, At
  <2>2. CASE \E status \in {Fatal, Crash} : Exit(p, status)
    BY <1>1, <2>1, <2>2, CommandEnds
  <2>3. CASE \E row \in descriptor : GotoWith(p, "delete descriptor", {row})
    BY <1>1, <1>3, <1>5, <2>1, <2>3 DEF Pcs, PendingPcs
  <2>4. QED
    BY <1>8, <2>2, <2>3 DEF ReadOriginal, GotoWith
<1>9. CASE DeleteDescriptor(p)
  <2>1. /\ proc[p].pc = "delete descriptor" /\ Goto(p, "insert descriptor") /\ descriptor' = {}
        /\ UNCHANGED <<version, documents, now, commands>>
    BY <1>9 DEF DeleteDescriptor, At
  <2>2. "insert descriptor" \in Pcs \ {"idle"} /\ p \in Pending
    BY <1>3, <2>1 DEF Pcs, PendingPcs
  <2>3. QED
    BY <1>4, <2>1, <2>2
<1>10. CASE InsertDescriptor(p)
  <2>1. proc[p].pc = "insert descriptor" /\ UNCHANGED <<version, documents, now, commands>>
    BY <1>10 DEF InsertDescriptor, At
  <2>2. CASE \E row \in descriptor, new \in proc[p].desc : row.id = new.id
    BY <1>1, <1>10, <2>1, <2>2, CommandEnds DEF InsertDescriptor
  <2>3. CASE ~\E row \in descriptor, new \in proc[p].desc : row.id = new.id
    <3>1. descriptor' = descriptor \cup proc[p].desc /\ Goto(p, "prepare")
      BY <1>10, <2>3 DEF InsertDescriptor
    <3>2. \A row \in descriptor' : row.id \in 1 .. now
      BY <1>1, <1>2, <2>1, <3>1 DEF OneRow
    <3>3. "prepare" \in Pcs \ {"idle"} /\ p \in Pending
      BY <1>3, <2>1 DEF Pcs, PendingPcs
    <3>4. QED
      BY <1>4, <2>1, <3>1, <3>2, <3>3
  <2>4. QED
    BY <2>2, <2>3
<1>11. CASE PrepareScan(p)
  BY <1>1, <1>3, <1>4, <1>11 DEF PrepareScan, At, Pcs, PendingPcs
<1>12. CASE Scan(p)
  <2>1. /\ UNCHANGED <<descriptor, version, now, commands>>
        /\ \E status \in {Success, Fatal} : Exit(p, status)
    BY <1>12 DEF Scan
  <2>2. documents' \subseteq 1 .. MaxLevel
    BY <1>1, <1>12 DEF Scan
  <2>3. QED
    BY <2>1, <2>2, CommandEnds
<1>13. CASE OpenIndex(p)
  <2>1. proc[p].pc = "open" /\ UNCHANGED <<descriptor, version, documents, now, commands>>
    BY <1>13 DEF OpenIndex, At
  <2>2. CASE \E status \in {Fatal, Crash, Success} : Exit(p, status)
    BY <1>1, <2>1, <2>2, CommandEnds
  <2>3. CASE \E row \in descriptor : GotoWith(p, "work", {row})
    BY <1>1, <1>5, <2>1, <2>3 DEF Pcs, PendingPcs
  <2>4. QED
    BY <1>13, <2>2, <2>3 DEF OpenIndex, NoDescriptor, GotoWith
<1>14. CASE Finish(p)
  BY <1>1, <1>14, CommandEnds DEF Finish
<1>15. CASE KillCommand(p)
  BY <1>1, <1>15, CommandEnds DEF KillCommand
<1>16. QED
  BY <1>6, <1>7, <1>8, <1>9, <1>10, <1>11, <1>12, <1>13, <1>14, <1>15

\* A process ends with a status that the code has or runs one of the commands with one
\* descriptor at most, whose id is a time that has been, and the table version has no
\* more rows than commands were given.
THEOREM CommandTypeCorrect == CommandSpec => []CommandTypeOK
<1>1. CommandInit => CommandTypes
  <2> SUFFICES ASSUME CommandInit
               PROVE  CommandTypes
    OBVIOUS
  <2>1. \A p \in Processes : proc[p].pc = "idle" /\ StateTypes(proc[p])
    BY DEF CommandInit, Idle, StateTypes
  <2>2. Pending = {}
    BY <2>1 DEF Pending, PendingPcs
  <2>3. IsFiniteSet(Pending) /\ Cardinality(Pending) = 0
    BY <2>2, FS_EmptySet
  <2>4. QED
    BY <2>1, <2>3 DEF CommandInit, CommandTypes, CommandCounts
<1>2. FileIInv /\ CommandTypes /\ [CommandNext]_commandVars => CommandTypes'
  <2> SUFFICES ASSUME ProcessTypes, CommandTypes, [CommandNext]_commandVars
               PROVE  CommandTypes'
    BY DEF FileIInv
  <2>1. CASE Tick \/ UNCHANGED commandVars
    <3>1. /\ UNCHANGED <<descriptor, version, documents, proc, commands>>
          /\ now' \in Nat \ {0} /\ now <= now' /\ now \in Nat
      BY <2>1 DEF Tick, commandVars, CommandTypes
    <3>2. Pending' = Pending /\ CommandCounts'
      BY <3>1 DEF Pending, CommandTypes, CommandCounts
    <3>3. \A p \in Processes : StateTypes(proc[p])'
      BY <3>1 DEF CommandTypes, StateTypes, OneRow
    <3>4. \A row \in descriptor' : row.id \in 1 .. now'
      BY <3>1 DEF CommandTypes
    <3>5. QED
      BY <3>1, <3>2, <3>3, <3>4 DEF CommandTypes
  <2>2. QED
    BY <2>1, StartTypes, CommandStepTypes DEF CommandNext
<1>3. FileIInv /\ CommandTypes => CommandTypeOK
  <2> SUFFICES ASSUME ProcessTypes, CommandTypes
               PROVE  CommandTypeOK
    BY DEF FileIInv
  <2>1. ASSUME NEW p \in Processes, ~At(p, "idle")
        PROVE  Cardinality(proc[p].desc) <= 1
    <3>1. proc[p].desc = {} \/ \E row : proc[p].desc = {row}
      BY <2>1 DEF CommandTypes, StateTypes, OneRow, At
    <3>2. CASE proc[p].desc = {}
      BY <3>2, FS_EmptySet
    <3>3. CASE \E row : proc[p].desc = {row}
      <4>1. PICK row : proc[p].desc = {row}
        BY <3>3
      <4>2. Cardinality({row}) = 1
        BY FS_Singleton
      <4>3. QED
        BY <4>1, <4>2
    <3>4. QED
      BY <3>1, <3>2, <3>3
  <2>2. version <= commands
    <3>1. Cardinality(Pending) \in Nat
      BY FS_CardinalityType DEF CommandTypes, CommandCounts
    <3>2. QED
      BY <3>1 DEF CommandTypes, CommandCounts
  <2>3. \A p \in Processes : At(p, "idle") => proc[p].exit \in {Success, Usage, Fatal, Crash, 137}
    BY DEF CommandTypes, StateTypes, At
  <2>4. QED
    BY <2>1, <2>2, <2>3 DEF ProcessTypes, CommandTypes, CommandTypeOK
<1>4. QED
  BY <1>1, <1>2, <1>3, FileInvariant, PTL DEF CommandSpec

-----------------------------------------------------------------------------
(* The settings of a command.                                              *)

LEMMA MinIsMember ==
    ASSUME NEW S \in SUBSET Nat, S # {}
    PROVE  Min(S) \in S
<1>1. PICK R : R = OpToRel(<, Nat)
  OBVIOUS
<1>2. IsWellFoundedOn(R, Nat)
  BY <1>1, NatLessThanWellFounded
<1>3. PICK m \in S : \A n \in S : <<n, m>> \notin R
  BY <1>2, WFMin
<1>4. \A n \in S : ~(n < m)
  BY <1>1, <1>3 DEF OpToRel
<1>5. \A n \in S : m <= n
  BY <1>4
<1>6. QED
  BY <1>5 DEF Min

\* A command is told of a check that failed.
LEMMA NoneFailed ==
    ASSUME NEW checks, DOMAIN checks \subseteq Nat, FirstFailure(checks) = "none"
    PROVE  \A n \in DOMAIN checks : checks[n] = "none"
<1>1. PICK failed : failed = {n \in DOMAIN checks : checks[n] # "none"}
  OBVIOUS
<1>2. CASE failed # {}
  <2>1. Min(failed) \in failed
    BY <1>1, <1>2, MinIsMember
  <2>2. FirstFailure(checks) = checks[Min(failed)]
    BY <1>1, <1>2 DEF FirstFailure
  <2>3. QED
    BY <1>1, <2>1, <2>2
<1>3. QED
  BY <1>1, <1>2

\* The options of a scan that passes its checks.
LEMMA ScanAccepted ==
    ASSUME NEW o, NEW a, a = ScanSettings(o), FirstFailure(ScanChecks(o)) = "none"
    PROVE  /\ ~(a.quality < 0 \/ a.quality > 100) /\ ~(a.size < 32) /\ ~(a.count > 1000)
           /\ ~(a.threads < 0 \/ a.threads > 256)
           /\ ~(o.ocr # {} /\ ~IsGiven(o.lang)) /\ ~(o.ocr = {} /\ IsGiven(o.lang))
<1>1. PICK checks : checks = ScanChecks(o)
  OBVIOUS
<1>2. DOMAIN checks = 1 .. 14
  BY <1>1 DEF ScanChecks
<1>3. \A n \in 1 .. 14 : checks[n] = "none"
  BY <1>1, <1>2, NoneFailed
<1>4. /\ checks[3] = Fails("refused", a.quality < 0 \/ a.quality > 100)
      /\ checks[4] = Fails("refused", a.size < 32) /\ checks[5] = Fails("refused", a.count > 1000)
      /\ checks[6] = Fails("refused", a.threads < 0 \/ a.threads > 256)
      /\ checks[9] = Fails("refused", o.ocr # {} /\ ~IsGiven(o.lang))
      /\ checks[10] = Fails("refused", o.ocr = {} /\ IsGiven(o.lang))
  BY <1>1 DEF ScanChecks, Fails
<1>5. QED
  BY <1>3, <1>4 DEF Fails

\* The options of a server that passes its checks.
LEMMA WebAccepted ==
    ASSUME NEW o, FirstFailure(WebChecks(o)) = "none"
    PROVE  /\ ~(IsGiven(o.search_index) /\ o.es # {})
           /\ ~(IsGiven(o.auth) /\ IsGiven(o.tag_auth))
           /\ ~(o.auth0 # {} /\ o.auth0 # Auth0Members)
<1>1. PICK checks : checks = WebChecks(o)
  OBVIOUS
<1>2. DOMAIN checks = 1 .. 10
  BY <1>1 DEF WebChecks
<1>3. \A n \in 1 .. 10 : checks[n] = "none"
  BY <1>1, <1>2, NoneFailed
<1>4. /\ checks[2] = Fails("fatal", IsGiven(o.search_index) /\ o.es # {})
      /\ checks[5] = Fails("refused", IsGiven(o.auth) /\ IsGiven(o.tag_auth))
      /\ checks[7] = Fails("refused", o.auth0 # {} /\ o.auth0 # Auth0Members)
  BY <1>1 DEF WebChecks, Fails
<1>5. QED
  BY <1>3, <1>4 DEF Fails

\* A number that is not given, and one that is.
LEMMA Numeric ==
    ASSUME NEW v \in Int \cup {Absent}, NEW d, NEW w, w = Defaulted(v, d)
    PROVE  /\ ~IsGiven(v) => w = d /\ Parsed(v) = 0
           /\ IsGiven(v) => v \in Int /\ w = (IF v = 0 THEN -1 ELSE v) /\ Parsed(v) = w
<1>1. CASE v = Absent
  BY <1>1 DEF IsGiven, Parsed, Defaulted
<1>2. CASE v # Absent
  <2>1. v \in Int
    BY <1>2
  <2>2. Parsed(v) = IF v = 0 THEN -1 ELSE v
    BY <1>2 DEF IsGiven, Parsed
  <2>3. Parsed(v) # 0
    BY <2>1, <2>2
  <2>4. QED
    BY <1>2, <2>1, <2>2, <2>3 DEF IsGiven, Defaulted
<1>3. QED
  BY <1>1, <1>2

LEMMA NumberKept ==
    ASSUME NEW v \in Int \cup {Absent}, NEW d, NEW w, w = Defaulted(v, d), IsGiven(v) => ~(v < 0)
    PROVE  \/ ~IsGiven(v) /\ w = d
           \/ IsGiven(v) /\ v \in Nat \ {0} /\ w = v
           \/ IsGiven(v) /\ v = 0 /\ w = -1
<1>1. CASE ~IsGiven(v)
  BY <1>1, Numeric
<1>2. CASE IsGiven(v)
  <2>1. v \in Int /\ w = IF v = 0 THEN -1 ELSE v
    BY <1>2, Numeric
  <2>2. ~(v < 0)
    BY <1>2
  <2>3. QED
    BY <1>2, <2>1, <2>2
<1>3. QED
  BY <1>1, <1>2

LEMMA ScanMeant ==
    ASSUME NEW o \in Commands, o.command = "scan", Verdict(o) = "none",
           NEW a, a = ScanSettings(o)
    PROVE  Meant(o, a)
<1>1. /\ FirstFailure(ScanChecks(o)) = "none"
      /\ \A n \in Numbers : IsGiven(o[n]) => ~(o[n] < 0)
  BY DEF Verdict
<1>2. /\ ~(a.quality < 0 \/ a.quality > 100) /\ ~(a.size < 32) /\ ~(a.count > 1000)
      /\ ~(a.threads < 0 \/ a.threads > 256)
      /\ ~(o.ocr # {} /\ ~IsGiven(o.lang)) /\ ~(o.ocr = {} /\ IsGiven(o.lang))
  BY <1>1, ScanAccepted
<1>3. a.quality \in 0 .. 100 /\ a.quality = Or(o.quality, 50)
  <2>1. a.quality = Defaulted(o.quality, 50)
    BY DEF ScanSettings
  <2>2. o.quality \in Int \cup {Absent}
    BY CommandAssumption
  <2>3. IsGiven(o.quality) => ~(o.quality < 0)
    BY <1>1 DEF Numbers
  <2>4. \/ ~IsGiven(o.quality) /\ a.quality = 50
        \/ IsGiven(o.quality) /\ o.quality \in Nat \ {0} /\ a.quality = o.quality
        \/ IsGiven(o.quality) /\ o.quality = 0 /\ a.quality = -1
    <3>1. PICK v, w : v = o.quality /\ w = a.quality
      OBVIOUS
    <3>2. v \in Int \cup {Absent} /\ w = Defaulted(v, 50) /\ (IsGiven(v) => ~(v < 0))
      BY <2>1, <2>2, <2>3, <3>1
    <3>3. \/ ~IsGiven(v) /\ w = 50
          \/ IsGiven(v) /\ v \in Nat \ {0} /\ w = v
          \/ IsGiven(v) /\ v = 0 /\ w = -1
      BY <3>2, NumberKept
    <3>4. QED
      BY <3>1, <3>3
  <2>5. ~(a.quality < 0 \/ a.quality > 100)
    BY <1>2
  <2>6. QED
    BY <2>4, <2>5 DEF Or
<1>4. a.size >= 32 /\ a.size = Or(o.size, 552)
  <2>1. a.size = Defaulted(o.size, 552)
    BY DEF ScanSettings
  <2>2. o.size \in Int \cup {Absent}
    BY CommandAssumption
  <2>3. IsGiven(o.size) => ~(o.size < 0)
    BY <1>1 DEF Numbers
  <2>4. \/ ~IsGiven(o.size) /\ a.size = 552
        \/ IsGiven(o.size) /\ o.size \in Nat \ {0} /\ a.size = o.size
        \/ IsGiven(o.size) /\ o.size = 0 /\ a.size = -1
    <3>1. PICK v, w : v = o.size /\ w = a.size
      OBVIOUS
    <3>2. v \in Int \cup {Absent} /\ w = Defaulted(v, 552) /\ (IsGiven(v) => ~(v < 0))
      BY <2>1, <2>2, <2>3, <3>1
    <3>3. \/ ~IsGiven(v) /\ w = 552
          \/ IsGiven(v) /\ v \in Nat \ {0} /\ w = v
          \/ IsGiven(v) /\ v = 0 /\ w = -1
      BY <3>2, NumberKept
    <3>4. QED
      BY <3>1, <3>3
  <2>5. ~(a.size < 32)
    BY <1>2
  <2>6. QED
    BY <2>4, <2>5 DEF Or
<1>5. a.count \in 0 .. 1000 /\ a.count = Or(o.count, 1)
  <2>1. PICK d : d = Defaulted(o.count, 1)
    OBVIOUS
  <2>2. o.count \in Int \cup {Absent}
    BY CommandAssumption
  <2>3. IsGiven(o.count) => ~(o.count < 0)
    BY <1>1 DEF Numbers
  <2>4. \/ ~IsGiven(o.count) /\ d = 1
        \/ IsGiven(o.count) /\ o.count \in Nat \ {0} /\ d = o.count
        \/ IsGiven(o.count) /\ o.count = 0 /\ d = -1
    <3>1. PICK v, w : v = o.count /\ w = d
      OBVIOUS
    <3>2. v \in Int \cup {Absent} /\ w = Defaulted(v, 1) /\ (IsGiven(v) => ~(v < 0))
      BY <2>1, <2>2, <2>3, <3>1
    <3>3. \/ ~IsGiven(v) /\ w = 1
          \/ IsGiven(v) /\ v \in Nat \ {0} /\ w = v
          \/ IsGiven(v) /\ v = 0 /\ w = -1
      BY <3>2, NumberKept
    <3>4. QED
      BY <3>1, <3>3
  <2>5. (~IsGiven(o.count) => Parsed(o.count) = 0) /\ (IsGiven(o.count) => Parsed(o.count) = d)
    <3>1. PICK v : v = o.count
      OBVIOUS
    <3>2. v \in Int \cup {Absent} /\ d = Defaulted(v, 1)
      BY <2>1, <2>2, <3>1
    <3>3. (~IsGiven(v) => Parsed(v) = 0) /\ (IsGiven(v) => Parsed(v) = d)
      BY <3>2, Numeric
    <3>4. QED
      BY <3>1, <3>3
  <2>7. a.count = IF Parsed(o.count) = -1 THEN 0 ELSE d
    BY <2>1 DEF ScanSettings
  <2>8. ~(a.count > 1000)
    BY <1>2
  <2>9. QED
    BY <2>4, <2>5, <2>7, <2>8 DEF Or
<1>6. IF o.content = 0 THEN a.content <= 0 ELSE a.content = Or(o.content, 32768)
  <2>1. a.content = Defaulted(o.content, 32768)
    BY DEF ScanSettings
  <2>2. o.content \in Int \cup {Absent}
    BY CommandAssumption
  <2>3. IsGiven(o.content) => ~(o.content < 0)
    BY <1>1 DEF Numbers
  <2>4. \/ ~IsGiven(o.content) /\ a.content = 32768
        \/ IsGiven(o.content) /\ o.content \in Nat \ {0} /\ a.content = o.content
        \/ IsGiven(o.content) /\ o.content = 0 /\ a.content = -1
    <3>1. PICK v, w : v = o.content /\ w = a.content
      OBVIOUS
    <3>2. v \in Int \cup {Absent} /\ w = Defaulted(v, 32768) /\ (IsGiven(v) => ~(v < 0))
      BY <2>1, <2>2, <2>3, <3>1
    <3>3. \/ ~IsGiven(v) /\ w = 32768
          \/ IsGiven(v) /\ v \in Nat \ {0} /\ w = v
          \/ IsGiven(v) /\ v = 0 /\ w = -1
      BY <3>2, NumberKept
    <3>4. QED
      BY <3>1, <3>3
  <2>5. ~IsGiven(o.content) => o.content # 0
    BY CommandAssumption DEF IsGiven
  <2>6. QED
    BY <2>4, <2>5 DEF Or
<1>7. a.threads \in 1 .. 256
  <2>1. a.threads = IF Or(o.threads, 0) = 0 THEN 1 ELSE o.threads
    BY DEF ScanSettings
  <2>2. o.threads \in Int \cup {Absent}
    BY CommandAssumption
  <2>3. ~(a.threads < 0 \/ a.threads > 256)
    BY <1>2
  <2>4. CASE o.threads = Absent
    BY <2>1, <2>4 DEF Or, IsGiven
  <2>5. CASE o.threads # Absent
    <3>1. o.threads \in Int /\ a.threads = IF o.threads = 0 THEN 1 ELSE o.threads
      BY <2>1, <2>2, <2>5 DEF Or, IsGiven
    <3>2. QED
      BY <2>3, <3>1
  <2>6. QED
    BY <2>4, <2>5
<1>8. /\ Or(o.depth, -1) \in 1 .. MaxInt - 1 => a.depth = o.depth + 1
      /\ Or(o.depth, -1) < 0 => a.depth = MaxInt
  <2>1. a.depth = IF Or(o.depth, -1) <= 0 THEN MaxInt ELSE Incremented(o.depth)
    BY DEF ScanSettings
  <2>2. o.depth \in Int \cup {Absent} /\ MaxInt \in Int
    BY CommandAssumption, SMT DEF MaxInt
  <2>3. CASE o.depth = Absent
    BY <2>1, <2>3 DEF Or, IsGiven
  <2>4. CASE o.depth # Absent
    <3>1. o.depth \in Int /\ Or(o.depth, -1) = o.depth
      BY <2>2, <2>4 DEF Or, IsGiven
    <3>2. a.depth = IF o.depth <= 0 THEN MaxInt
                    ELSE IF o.depth = MaxInt THEN -MaxInt - 1 ELSE o.depth + 1
      BY <2>1, <3>1 DEF Incremented
    <3>3. QED
      BY <2>2, <3>1, <3>2
  <2>5. QED
    BY <2>3, <2>4
<1>9. QED
  BY <1>2, <1>3, <1>4, <1>5, <1>6, <1>7, <1>8 DEF Meant

LEMMA WebMeant ==
    ASSUME NEW o \in Commands, o.command = "web", Verdict(o) = "none",
           NEW a, a = WebSettings(o)
    PROVE  Meant(o, a)
<1>1. FirstFailure(WebChecks(o)) = "none"
  BY DEF Verdict
<1>2. /\ ~(IsGiven(o.search_index) /\ o.es # {})
      /\ ~(IsGiven(o.auth) /\ IsGiven(o.tag_auth))
      /\ ~(o.auth0 # {} /\ o.auth0 # Auth0Members)
  BY <1>1, WebAccepted
<1>3. /\ a.backend = IF IsGiven(o.search_index) THEN "sqlite" ELSE "es"
      /\ a.auth = IsGiven(o.auth) /\ a.tag_auth = IsGiven(o.tag_auth)
      /\ a.auth0 = ("public_key" \in o.auth0)
  BY DEF WebSettings
<1>4. o.auth0 # {} <=> a.auth0
  BY <1>2, <1>3 DEF Auth0Members
<1>5. a.backend = "sqlite" => o.es = {}
  BY <1>2, <1>3
<1>6. QED
  BY <1>2, <1>3, <1>4, <1>5 DEF Meant

\* Only the start of a command decides by what it works.
SameCommands ==
    \A q \in Processes : proc'[q].pc # "idle" =>
        proc[q].pc # "idle" /\ proc'[q].of = proc[q].of /\ proc'[q].args = proc[q].args

LEMMA BecomesSame ==
    ASSUME ProcessTypes, NEW p \in Processes, proc[p].pc # "idle", NEW x, NEW pc, NEW desc,
           BecomesAt(p, x, pc, desc)
    PROVE  SameCommands
  BY DEF BecomesAt, ProcessTypes, SameCommands

LEMMA ExitSame ==
    ASSUME ProcessTypes, NEW p \in Processes, NEW status, Exit(p, status)
    PROVE  SameCommands
<1>1. PICK x : x = Idle(status)
  OBVIOUS
<1>2. proc' = [proc EXCEPT ![p] = x] /\ x.pc = "idle"
  BY <1>1 DEF Exit, Idle
<1>3. QED
  BY <1>2 DEF ProcessTypes, SameCommands

\* A step of a command that runs.
LEMMA CommandGoesOn ==
    ASSUME FileIInv, NEW p \in Processes,
           \/ CreateTable(p) \/ CreateSchema(p) \/ ReadOriginal(p)
           \/ DeleteDescriptor(p) \/ InsertDescriptor(p) \/ PrepareScan(p)
           \/ Scan(p) \/ OpenIndex(p) \/ Finish(p) \/ KillCommand(p)
    PROVE  SameCommands
<1>1. ProcessTypes /\ proc[p].pc # "idle"
  BY DEF FileIInv, CreateTable, CreateSchema, ReadOriginal, DeleteDescriptor, InsertDescriptor,
         PrepareScan, Scan, OpenIndex, Finish, KillCommand, At
<1>2. Runs(proc[p])
  BY <1>1 DEF ProcessTypes, At
<1>3. \/ \E status : Exit(p, status)
      \/ \E pc : Goto(p, pc)
      \/ \E pc, desc : GotoWith(p, pc, desc)
  <2>1. CASE CreateTable(p)
    BY <2>1 DEF CreateTable, GotoWith
  <2>2. CASE InsertDescriptor(p) \/ CreateSchema(p)
    BY <2>2 DEF InsertDescriptor, CreateSchema
  <2>3. CASE ReadOriginal(p) \/ OpenIndex(p)
    BY <2>3 DEF ReadOriginal, OpenIndex, GotoWith
  <2>4. CASE DeleteDescriptor(p) \/ PrepareScan(p)
    BY <2>4 DEF DeleteDescriptor, PrepareScan
  <2>5. CASE Scan(p) \/ Finish(p) \/ KillCommand(p)
    BY <2>5 DEF Scan, Finish, KillCommand
  <2>6. QED
    BY <2>1, <2>2, <2>3, <2>4, <2>5
<1>4. CASE \E status : Exit(p, status)
  BY <1>1, <1>4, ExitSame
<1>5. CASE \E pc : Goto(p, pc)
  <2>1. PICK pc, x : BecomesAt(p, x, pc, proc[p].desc)
    BY <1>1, <1>2, <1>5, GoesTo
  <2>2. QED
    BY <1>1, <2>1, BecomesSame
<1>6. CASE \E pc, desc : GotoWith(p, pc, desc)
  <2>1. PICK pc, desc, x : BecomesAt(p, x, pc, desc)
    BY <1>1, <1>2, <1>6, GoesWith
  <2>2. QED
    BY <1>1, <2>1, BecomesSame
<1>7. QED
  BY <1>3, <1>4, <1>5, <1>6

\* A command that is started works by what it was given.
LEMMA StartMeans ==
    ASSUME ProcessTypes, SettingsAsGiven, NEW p \in Processes, NEW o \in Commands, Start(p, o)
    PROVE  SettingsAsGiven'
<1>1. PICK x : /\ proc' = [proc EXCEPT ![p] = x]
               /\ x.pc = "idle" \/ Meant(x.of, x.args)
  <2>1. CASE Verdict(o) = "none"
    <3>1. PICK a : a = SettingsOf(o)
      OBVIOUS
    <3>2. PICK x : x = [pc |-> FirstStep(o, a), of |-> o, args |-> a, desc |-> {}]
      OBVIOUS
    <3>3. proc' = [proc EXCEPT ![p] = x] /\ x.of = o /\ x.args = a
      BY <2>1, <3>1, <3>2 DEF Start
    <3>4. CASE o.command = "scan"
      <4>1. a = ScanSettings(o)
        BY <3>1, <3>4 DEF SettingsOf
      <4>2. Meant(o, a)
        BY <2>1, <3>4, <4>1, ScanMeant
      <4>3. QED
        BY <3>3, <4>2
    <3>5. CASE o.command = "web"
      <4>1. a = WebSettings(o)
        BY <3>1, <3>5 DEF SettingsOf
      <4>2. Meant(o, a)
        BY <2>1, <3>5, <4>1, WebMeant
      <4>3. QED
        BY <3>3, <4>2
    <3>6. CASE o.command # "scan" /\ o.command # "web"
      <4>1. Meant(o, a)
        BY <3>6 DEF Meant
      <4>2. QED
        BY <3>3, <4>1
    <3>7. QED
      BY <3>4, <3>5, <3>6
  <2>2. CASE Verdict(o) # "none"
    <3>1. PICK x : x = Idle(ExitOf(Verdict(o)))
      OBVIOUS
    <3>2. proc' = [proc EXCEPT ![p] = x] /\ x.pc = "idle"
      BY <2>2, <3>1 DEF Start, Idle
    <3>3. QED
      BY <3>2
  <2>3. QED
    BY <2>1, <2>2
<1>2. proc'[p] = x /\ \A q \in Processes \ {p} : proc'[q] = proc[q]
  BY <1>1 DEF ProcessTypes
<1>3. QED
  BY <1>1, <1>2 DEF SettingsAsGiven, At

\* However commands interleave, each works by the settings that it was given.
THEOREM SettingsCorrect == CommandSpec => []SettingsAsGiven
<1>1. CommandInit => SettingsAsGiven
  <2> SUFFICES ASSUME CommandInit
               PROVE  SettingsAsGiven
    OBVIOUS
  <2>1. \A p \in Processes : proc[p].pc = "idle"
    BY DEF CommandInit, Idle
  <2>2. QED
    BY <2>1 DEF SettingsAsGiven, At
<1>2. FileIInv /\ SettingsAsGiven /\ [CommandNext]_commandVars => SettingsAsGiven'
  <2> SUFFICES ASSUME FileIInv, SettingsAsGiven, [CommandNext]_commandVars
               PROVE  SettingsAsGiven'
    OBVIOUS
  <2>1. CASE Tick \/ UNCHANGED commandVars
    <3>1. proc' = proc
      BY <2>1 DEF Tick, commandVars
    <3>2. QED
      BY <3>1 DEF SettingsAsGiven, At
  <2>2. ASSUME NEW p \in Processes, NEW o \in Commands, Start(p, o)
        PROVE  SettingsAsGiven'
    BY <2>2, StartMeans DEF FileIInv
  <2>3. ASSUME NEW p \in Processes,
               \/ CreateTable(p) \/ CreateSchema(p) \/ ReadOriginal(p)
               \/ DeleteDescriptor(p) \/ InsertDescriptor(p) \/ PrepareScan(p)
               \/ Scan(p) \/ OpenIndex(p) \/ Finish(p) \/ KillCommand(p)
        PROVE  SettingsAsGiven'
    <3>1. SameCommands
      BY <2>3, CommandGoesOn
    <3>2. QED
      BY <3>1 DEF SameCommands, SettingsAsGiven, At
  <2>4. QED
    BY <2>1, <2>2, <2>3 DEF CommandNext
<1>3. QED
  BY <1>1, <1>2, FileInvariant, PTL DEF CommandSpec

-----------------------------------------------------------------------------
(* The machines beside each other.                                         *)

\* A machine that runs takes one of its own steps, the others none.
LEMMA OneMachineRuns ==
    ASSUME [Next]_vars
    PROVE  /\ [CommandNext]_commandVars /\ [SetupNext]_setupVars /\ [StatsNext]_statsVars
           /\ [PathNext]_pathVars /\ [SearchNext]_searchVars /\ [PagingNext]_pagingVars
           /\ [WebNext]_webVars /\ [RecordNext]_recordVars
<1>1. CASE UNCHANGED vars
  BY <1>1 DEF vars
<1>2. CASE Next
  BY <1>2 DEF Next
<1>3. QED
  BY <1>1, <1>2

\* Every machine keeps to the values that its module declares, whatever the others do.
THEOREM TypesCorrect == Spec => []TypesOK
<1>1. Init => /\ CommandInit /\ SetupInit /\ StatsInit /\ PathInit
              /\ SearchInit /\ PagingInit /\ WebInit /\ RecordInit
  BY DEF Init
<1>2. Spec => CommandSpec /\ SetupSpec /\ StatsSpec /\ PathSpec
  <2>1. [Next]_vars => /\ [CommandNext]_commandVars /\ [SetupNext]_setupVars
                       /\ [StatsNext]_statsVars /\ [PathNext]_pathVars
    BY OneMachineRuns
  <2>2. QED
    BY <1>1, <2>1, PTL DEF Spec, CommandSpec, SetupSpec, StatsSpec, PathSpec
<1>3. Spec => SearchSpec /\ PagingSpec /\ WebSpec /\ RecordSpec
  <2>1. [Next]_vars => /\ [SearchNext]_searchVars /\ [PagingNext]_pagingVars
                       /\ [WebNext]_webVars /\ [RecordNext]_recordVars
    BY OneMachineRuns
  <2>2. QED
    BY <1>1, <2>1, PTL DEF Spec, SearchSpec, PagingSpec, WebSpec, RecordSpec
<1>4. CommandTypeOK /\ SetupTypeOK /\ StatsTypeOK /\ PathTypeOK
      /\ SearchTypeOK /\ PagingTypeOK /\ WebTypeOK /\ RecordTypeOK => TypesOK
  BY DEF TypesOK
<1>5. Spec => /\ []CommandTypeOK /\ []SetupTypeOK /\ []StatsTypeOK /\ []PathTypeOK
              /\ []SearchTypeOK /\ []PagingTypeOK /\ []WebTypeOK /\ []RecordTypeOK
  BY <1>2, <1>3, CommandTypeCorrect, SetupTypeCorrect, StatsTypeCorrect, PathTypeCorrect,
     SearchTypeCorrect, PagingTypeCorrect, WebTypeCorrect, RecordTypeCorrect
<1>6. QED
  BY <1>4, <1>5, PTL
=============================================================================
