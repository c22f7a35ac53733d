----------------------- MODULE ElasticIndexerProofs -----------------------
(***************************************************************************)
(* Proofs about ElasticIndexer, for every set of documents, delete list,   *)
(* batch size, number of workers and limit of Elasticsearch.               *)
(***************************************************************************)
EXTENDS ElasticIndexer, SequenceTheorems, TLAPS

-----------------------------------------------------------------------------
(* The sequences of lines.                                                 *)

\* A line at the end.
LEMMA AppendElems ==
    ASSUME NEW S, NEW s \in Seq(S), NEW e \in S
    PROVE  /\ Append(s, e) \in Seq(S)
           /\ Len(Append(s, e)) = Len(s) + 1
           /\ Elems(Append(s, e)) = Elems(s) \cup {e}
           /\ Injective(s) /\ e \notin Elems(s) => Injective(Append(s, e))
<1>1. /\ Len(Append(s, e)) = Len(s) + 1
      /\ \A i \in 1 .. Len(s) : Append(s, e)[i] = s[i]
      /\ Append(s, e)[Len(s) + 1] = e
  OBVIOUS
<1>2. Elems(Append(s, e)) = Elems(s) \cup {e}
  <2>1. \A x \in Elems(Append(s, e)) : x \in Elems(s) \cup {e}
    BY <1>1 DEF Elems
  <2>2. \A x \in Elems(s) : x \in Elems(Append(s, e))
    BY <1>1 DEF Elems
  <2>3. e \in Elems(Append(s, e))
    BY <1>1 DEF Elems
  <2>4. QED
    BY <2>1, <2>2, <2>3
<1>3. Injective(s) /\ e \notin Elems(s) => Injective(Append(s, e))
  BY <1>1 DEF Elems, Injective
<1>4. QED
  BY <1>1, <1>2, <1>3

\* The line at the head and the others.
LEMMA TailElems ==
    ASSUME NEW S, NEW s \in Seq(S), s # <<>>
    PROVE  /\ Head(s) \in S /\ Tail(s) \in Seq(S)
           /\ Len(Tail(s)) = Len(s) - 1
           /\ Elems(s) = {Head(s)} \cup Elems(Tail(s))
           /\ Injective(s) => Injective(Tail(s)) /\ Head(s) \notin Elems(Tail(s))
<1>1. /\ Len(s) >= 1 /\ Len(Tail(s)) = Len(s) - 1 /\ Head(s) = s[1] /\ s[1] \in S
      /\ \A i \in 1 .. Len(s) - 1 : Tail(s)[i] = s[i + 1]
      /\ Tail(s) \in Seq(S)
  OBVIOUS
<1>2. Elems(s) = {Head(s)} \cup Elems(Tail(s))
  <2>1. \A x \in Elems(Tail(s)) : x \in Elems(s)
    BY <1>1 DEF Elems
  <2>2. ASSUME NEW x \in Elems(s)
        PROVE  x = Head(s) \/ x \in Elems(Tail(s))
    <3>1. PICK i \in 1 .. Len(s) : x = s[i]
      BY DEF Elems
    <3>2. CASE i = 1
      BY <3>1, <3>2, <1>1
    <3>3. CASE i # 1
      <4>1. i - 1 \in 1 .. Len(Tail(s)) /\ Tail(s)[i - 1] = x
        BY <3>1, <3>3, <1>1
      <4>2. QED
        BY <4>1 DEF Elems
    <3>4. QED
      BY <3>2, <3>3
  <2>3. Head(s) \in Elems(s)
    BY <1>1 DEF Elems
  <2>4. QED
    BY <2>1, <2>2, <2>3
<1>3. Injective(s) => Injective(Tail(s)) /\ Head(s) \notin Elems(Tail(s))
  BY <1>1 DEF Injective, Elems
<1>4. QED
  BY <1>1, <1>2, <1>3

\* A sequence cut in two.
LEMMA CutElems ==
    ASSUME NEW S, NEW s \in Seq(S), NEW n \in 1 .. Len(s)
    PROVE  /\ SubSeq(s, 1, n) \in Seq(S) /\ SubSeq(s, n + 1, Len(s)) \in Seq(S)
           /\ Len(SubSeq(s, n + 1, Len(s))) = Len(s) - n
           /\ Elems(s) = Elems(SubSeq(s, 1, n)) \cup Elems(SubSeq(s, n + 1, Len(s)))
           /\ Injective(s) =>
                 /\ Injective(SubSeq(s, n + 1, Len(s)))
                 /\ Elems(SubSeq(s, 1, n)) \cap Elems(SubSeq(s, n + 1, Len(s))) = {}
<1> DEFINE a == SubSeq(s, 1, n)
           b == SubSeq(s, n + 1, Len(s))
<1>1. /\ a \in Seq(S) /\ Len(a) = n /\ \A i \in 1 .. n : a[i] = s[i]
      /\ b \in Seq(S) /\ Len(b) = Len(s) - n /\ \A i \in 1 .. Len(s) - n : b[i] = s[n + i]
  OBVIOUS
<1> HIDE DEF a, b
<1>2. Elems(s) = Elems(a) \cup Elems(b)
  <2>1. ASSUME NEW x \in Elems(a) \cup Elems(b)
        PROVE  x \in Elems(s)
    <3>1. CASE x \in Elems(a)
      BY <1>1, <3>1 DEF Elems
    <3>2. CASE x \in Elems(b)
      <4>1. PICK i \in 1 .. Len(b) : x = b[i]
        BY <3>2 DEF Elems
      <4>2. n + i \in 1 .. Len(s) /\ s[n + i] = x
        BY <1>1, <4>1
      <4>3. QED
        BY <4>2 DEF Elems
    <3>3. QED
      BY <3>1, <3>2
  <2>2. ASSUME NEW x \in Elems(s)
        PROVE  x \in Elems(a) \cup Elems(b)
    <3>1. PICK i \in 1 .. Len(s) : x = s[i]
      BY DEF Elems
    <3>2. CASE i <= n
      BY <3>1, <3>2, <1>1 DEF Elems
    <3>3. CASE i > n
      <4>1. i - n \in 1 .. Len(b) /\ b[i - n] = x
        BY <3>1, <3>3, <1>1
      <4>2. QED
        BY <4>1 DEF Elems
    <3>4. QED
      BY <3>2, <3>3
  <2>3. QED
    BY <2>1, <2>2
<1>3. Injective(s) => Injective(b) /\ Elems(a) \cap Elems(b) = {}
  <2> SUFFICES ASSUME Injective(s)
               PROVE  Injective(b) /\ Elems(a) \cap Elems(b) = {}
    OBVIOUS
  <2>1. Injective(b)
    BY <1>1 DEF Injective
  <2>2. ASSUME NEW i \in 1 .. n, NEW j \in 1 .. Len(s) - n
        PROVE  a[i] # b[j]
    BY <1>1 DEF Injective
  <2>3. QED
    BY <1>1, <2>1, <2>2 DEF Elems
<1>4. QED
  BY <1>1, <1>2, <1>3 DEF a, b

\* A request of one line.
LEMMA FirstOnly ==
    ASSUME NEW S, NEW s \in Seq(S), s # <<>>
    PROVE  SubSeq(s, 1, 1) = <<Head(s)>>
<1>1. Len(s) >= 1 /\ Head(s) = s[1]
  OBVIOUS
<1>2. SubSeq(s, 1, 1) \in Seq(S) /\ Len(SubSeq(s, 1, 1)) = 1 /\ SubSeq(s, 1, 1)[1] = s[1]
  BY <1>1
<1>3. <<Head(s)>> \in Seq(S) /\ Len(<<Head(s)>>) = 1 /\ <<Head(s)>>[1] = s[1]
  BY <1>1
<1>4. \A i \in 1 .. Len(SubSeq(s, 1, 1)) : SubSeq(s, 1, 1)[i] = <<Head(s)>>[i]
  BY <1>2, <1>3
<1>5. QED
  BY <1>2, <1>3, <1>4, SeqEqual

-----------------------------------------------------------------------------
(* Types, and the bounds of a flush.                                       *)

MainType ==
    /\ phase \in Phases
    /\ submittedLines \subseteq Lines
    /\ work \in Seq(Lines)
    /\ es \in [Ids -> {"none", "old", "new"}]
    /\ lineFate \in [Lines -> LineFates]
    /\ events \in [Events -> Nat]

WorkersType ==
    /\ stage \in [Indexers -> Stages]
    /\ queued \in [Indexers -> Seq(Lines)]
    /\ max \in [Indexers -> Nat]

\* FlushInBounds of one worker, at label p with the queue q and the argument m.
InBounds(p, q, m) ==
    IF p \in {"flush", "cleanup"}
      THEN m \in 1 .. Len(q) /\ Len(q) <= BatchSize
      ELSE Len(q) < BatchSize

Bounded == IndexerTypeOK /\ FlushInBounds

\* Worker w goes to label p with the queue q and the argument m.
Becomes(w, p, q, m) ==
    /\ stage' = [stage EXCEPT ![w] = p]
    /\ queued' = [queued EXCEPT ![w] = q]
    /\ max' = [max EXCEPT ![w] = m]

\* Where a step takes worker w: within the bounds.
Moves(w) == \E p \in Stages, q \in Seq(Lines), m \in Nat :
                InBounds(p, q, m) /\ Becomes(w, p, q, m)

\* The parts of the type invariant.
LEMMA TypeParts == IndexerTypeOK <=> MainType /\ WorkersType
BY DEF IndexerTypeOK, MainType, WorkersType

\* A move within the bounds keeps them.
LEMMA MovesKeep ==
    ASSUME Bounded, NEW w \in Indexers, Moves(w)
    PROVE  WorkersType' /\ FlushInBounds'
<1>1. WorkersType /\ FlushInBounds
  BY TypeParts DEF Bounded
<1>2. PICK p \in Stages, q \in Seq(Lines), m \in Nat : InBounds(p, q, m) /\ Becomes(w, p, q, m)
  BY DEF Moves
<1>3. WorkersType'
  BY <1>1, <1>2 DEF WorkersType, Becomes
<1>4. ASSUME NEW v \in Indexers
      PROVE  InBounds(stage'[v], queued'[v], max'[v])
  <2>1. CASE v = w
    BY <1>1, <1>2, <2>1 DEF WorkersType, Becomes
  <2>2. CASE v # w
    <3>1. stage'[v] = stage[v] /\ queued'[v] = queued[v] /\ max'[v] = max[v]
      BY <1>1, <1>2, <2>2 DEF WorkersType, Becomes
    <3>2. QED
      BY <1>1, <3>1 DEF FlushInBounds, Posting, InBounds
  <2>3. QED
    BY <2>1, <2>2
<1>5. QED
  BY <1>3, <1>4 DEF FlushInBounds, Posting, InBounds

\* The flush of what is left keeps the bounds, when something was freed.
LEMMA FlushRestMoves ==
    ASSUME Bounded, NEW w \in Indexers, Posting(w), NEW rest \in Seq(Lines),
           Len(rest) < BatchSize, FlushRest(w, rest)
    PROVE  Moves(w)
<1>1. WorkersType
  BY TypeParts DEF Bounded
<1>2. CASE rest = <<>>
  <2> DEFINE p == IF stage[w] = "flush" THEN "idle" ELSE "gone"
  <2>1. Becomes(w, p, rest, 0)
    BY <1>1, <1>2 DEF FlushRest, Return, Becomes, WorkersType
  <2>2. InBounds(p, rest, 0) /\ p \in Stages
    BY <1>2, IndexerAssumption DEF InBounds, Stages
  <2>3. QED
    BY <2>1, <2>2 DEF Moves
<1>3. CASE rest # <<>>
  <2>1. Becomes(w, stage[w], rest, Len(rest))
    BY <1>1, <1>3 DEF FlushRest, Becomes, WorkersType
  <2>2. Len(rest) >= 1 /\ Len(rest) \in Nat
    BY <1>3
  <2>3. InBounds(stage[w], rest, Len(rest)) /\ stage[w] \in Stages
    BY <1>1, <2>2, IndexerAssumption DEF InBounds, WorkersType, Posting
  <2>4. QED
    BY <2>1, <2>2, <2>3 DEF Moves
<1>4. QED
  BY <1>2, <1>3

\* The request, what is left of the queue after it, and its head.
LEMMA Posted ==
    ASSUME Bounded, NEW w \in Indexers, Posting(w)
    PROVE  /\ queued[w] \in Seq(Lines) /\ queued[w] # <<>> /\ max[w] \in 1 .. Len(queued[w])
           /\ Batch(w) \in Seq(Lines) /\ Rest(w) \in Seq(Lines)
           /\ Len(Rest(w)) < BatchSize
           /\ Tail(queued[w]) \in Seq(Lines) /\ Len(Tail(queued[w])) < BatchSize
           /\ Head(queued[w]) \in Lines
<1>1. /\ queued[w] \in Seq(Lines) /\ max[w] \in 1 .. Len(queued[w])
      /\ Len(queued[w]) <= BatchSize /\ BatchSize \in Nat
  BY IndexerAssumption DEF Bounded, IndexerTypeOK, FlushInBounds
<1>2. queued[w] # <<>>
  BY <1>1
<1>3. /\ Batch(w) \in Seq(Lines) /\ Rest(w) \in Seq(Lines)
      /\ Len(Rest(w)) = Len(queued[w]) - max[w]
  BY <1>1, CutElems DEF Batch, Rest
<1>4. /\ Tail(queued[w]) \in Seq(Lines) /\ Len(Tail(queued[w])) = Len(queued[w]) - 1
      /\ Head(queued[w]) \in Lines
  BY <1>1, <1>2, TailElems
<1>5. QED
  BY <1>1, <1>2, <1>3, <1>4

\* Every step of a worker keeps the bounds.
LEMMA WorkerMoves ==
    ASSUME Bounded, NEW w \in Indexers, Indexer(w)
    PROVE  Moves(w)
<1>1. WorkersType /\ work \in Seq(Lines) /\ BatchSize \in Nat \ {0}
  BY TypeParts, IndexerAssumption DEF Bounded, MainType
<1>2. stage[w] \in Stages /\ queued[w] \in Seq(Lines) /\ max[w] \in Nat
  BY <1>1 DEF WorkersType
<1>3. CASE ElasticIndexLine(w)
  <2> DEFINE q == Append(queued[w], Head(work))
  <2>1. q \in Seq(Lines) /\ Len(q) = Len(queued[w]) + 1 /\ Len(q) \in Nat
    BY <1>1, <1>2, <1>3, TailElems, AppendElems DEF ElasticIndexLine
  <2>2. Len(queued[w]) < BatchSize
    BY <1>3 DEF ElasticIndexLine, Bounded, FlushInBounds, Posting
  <2>3. CASE Len(q) >= BatchSize
    <3>1. Becomes(w, "flush", q, Len(q))
      BY <1>1, <1>3, <2>1, <2>3 DEF ElasticIndexLine, Becomes, WorkersType
    <3>2. InBounds("flush", q, Len(q))
      BY <1>1, <1>2, <2>1, <2>2 DEF InBounds
    <3>3. QED
      BY <2>1, <3>1, <3>2 DEF Moves, Stages
  <2>4. CASE Len(q) < BatchSize
    <3>1. Becomes(w, "idle", q, max[w])
      BY <1>1, <1>3, <2>1, <2>4 DEF ElasticIndexLine, Becomes, WorkersType
    <3>2. InBounds("idle", q, max[w])
      BY <2>4 DEF InBounds
    <3>3. QED
      BY <1>2, <2>1, <3>1, <3>2 DEF Moves, Stages
  <2>5. QED
    BY <1>1, <1>2, <2>1, <2>3, <2>4
<1>4. CASE LeaveLoop(w) \/ DropLine(w)
  <2>1. ElasticCleanup(w) /\ Len(queued[w]) < BatchSize
    BY <1>4 DEF LeaveLoop, DropLine, Bounded, FlushInBounds, Posting
  <2>2. CASE queued[w] = <<>>
    <3>1. Becomes(w, "gone", queued[w], max[w])
      BY <1>1, <2>1, <2>2 DEF ElasticCleanup, Becomes, WorkersType
    <3>2. InBounds("gone", queued[w], max[w])
      BY <2>1 DEF InBounds
    <3>3. QED
      BY <1>2, <3>1, <3>2 DEF Moves, Stages
  <2>3. CASE queued[w] # <<>>
    <3>1. Becomes(w, "cleanup", queued[w], Len(queued[w]))
      BY <1>1, <2>1, <2>3 DEF ElasticCleanup, Becomes, WorkersType
    <3>2. Len(queued[w]) \in Nat /\ Len(queued[w]) >= 1
      BY <1>2, <2>3
    <3>3. InBounds("cleanup", queued[w], Len(queued[w]))
      BY <1>1, <2>1, <3>2 DEF InBounds
    <3>4. QED
      BY <1>2, <3>1, <3>2, <3>3 DEF Moves, Stages
  <2>4. QED
    BY <2>2, <2>3
<1>5. CASE Accepted(w)
  <2>1. Posting(w) /\ FlushRest(w, Rest(w))
    BY <1>5 DEF Accepted
  <2>2. QED
    BY <2>1, Posted, FlushRestMoves
<1>6. CASE TooLarge(w)
  <2>1. Posting(w)
    BY <1>6 DEF TooLarge
  <2>2. CASE max[w] > 1
    <3>1. max[w] \div 2 \in 1 .. Len(queued[w]) /\ max[w] \div 2 \in Nat
      BY <2>1, <2>2, Posted
    <3>2. Becomes(w, stage[w], queued[w], max[w] \div 2)
      BY <1>1, <1>6, <2>2 DEF TooLarge, Becomes, WorkersType
    <3>3. InBounds(stage[w], queued[w], max[w] \div 2)
      BY <2>1, <3>1 DEF InBounds, Bounded, FlushInBounds, Posting
    <3>4. QED
      BY <1>2, <3>1, <3>2, <3>3 DEF Moves
  <2>3. CASE max[w] <= 1
    <3>1. FlushRest(w, Tail(queued[w]))
      BY <1>2, <1>6, <2>3 DEF TooLarge
    <3>2. QED
      BY <2>1, <3>1, Posted, FlushRestMoves
  <2>4. QED
    BY <1>2, <2>2, <2>3
<1>7. CASE TooMany(w)
  <2>1. Becomes(w, stage[w], queued[w], max[w])
    BY <1>1, <1>7 DEF TooMany, indexerVars, Becomes, WorkersType
  <2>2. InBounds(stage[w], queued[w], max[w])
    BY <1>7 DEF TooMany, Posting, Bounded, FlushInBounds, InBounds
  <2>3. QED
    BY <1>2, <2>1, <2>2 DEF Moves
<1>8. CASE Rejected(w)
  <2> DEFINE p == IF stage[w] = "flush" THEN "idle" ELSE "gone"
  <2>1. Becomes(w, p, <<>>, 0)
    BY <1>1, <1>8 DEF Rejected, Return, Becomes, WorkersType
  <2>2. InBounds(p, <<>>, 0) /\ p \in Stages /\ <<>> \in Seq(Lines)
    BY <1>1 DEF InBounds, Stages
  <2>3. QED
    BY <2>1, <2>2 DEF Moves
<1>9. CASE Killed(w)
  <2>1. Becomes(w, "idle", <<>>, 0)
    BY <1>9 DEF Killed, Becomes
  <2>2. InBounds("idle", <<>>, 0) /\ "idle" \in Stages /\ <<>> \in Seq(Lines)
    BY <1>1 DEF InBounds, Stages
  <2>3. QED
    BY <2>1, <2>2 DEF Moves
<1>10. QED
  BY <1>3, <1>4, <1>5, <1>6, <1>7, <1>8, <1>9 DEF Indexer

\* A request leaves Elasticsearch with something or nothing under each id.
LEMMA AppliedType ==
    ASSUME es \in [Ids -> {"none", "old", "new"}], NEW s, NEW refused
    PROVE  Applied(s, refused) \in [Ids -> {"none", "old", "new"}]
BY DEF Applied

\* What is not in a worker keeps its type when a worker moves.
LEMMA WorkerKeepsMain ==
    ASSUME Bounded, NEW w \in Indexers, Indexer(w)
    PROVE  MainType'
<1>1. MainType
  BY TypeParts DEF Bounded
<1> USE <1>1 DEF MainType, procVars
<1>2. ASSUME NEW e \in Events, Count(e)
      PROVE  events' \in [Events -> Nat]
  <2>1. events \in [Events -> Nat] /\ events' = [events EXCEPT ![e] = @ + 1]
    BY <1>1, <1>2 DEF Count
  <2>2. QED
    BY <2>1
<1>3. \A S : \A f \in LineFates : Settle(S, f) => lineFate' \in [Lines -> LineFates]
  BY DEF Settle
<1>4. work # <<>> => Tail(work) \in Seq(Lines)
  BY TailElems
<1>5. CASE ElasticIndexLine(w) \/ LeaveLoop(w)
  BY <1>4, <1>5 DEF ElasticIndexLine, LeaveLoop
<1>6. CASE DropLine(w)
  BY <1>3, <1>4, <1>6 DEF DropLine, LineFates
<1>7. CASE Accepted(w)
  <2>1. PICK refused \in SUBSET Elems(Batch(w)) :
            /\ UNCHANGED events \/ Count("error")
            /\ es' = Applied(Batch(w), refused)
            /\ lineFate' = [l \in Lines |-> IF l \in refused THEN "refused"
                                        ELSE IF l \in Elems(Batch(w)) THEN "sent"
                                        ELSE lineFate[l]]
    BY <1>7 DEF Accepted
  <2>2. lineFate' \in [Lines -> LineFates]
    BY <2>1 DEF LineFates
  <2>3. es' \in [Ids -> {"none", "old", "new"}]
    BY <2>1, AppliedType
  <2>4. events' \in [Events -> Nat]
    BY <1>2, <2>1 DEF Events
  <2>5. QED
    BY <1>7, <2>2, <2>3, <2>4 DEF Accepted
<1>8. CASE TooLarge(w)
  BY <1>3, <1>8 DEF TooLarge, LineFates
<1>9. CASE TooMany(w)
  BY <1>2, <1>9 DEF TooMany, Events
<1>10. CASE Rejected(w)
  BY <1>2, <1>3, <1>10 DEF Rejected, LineFates, Events
<1>11. CASE Killed(w)
  <2>1. es' \in [Ids -> {"none", "old", "new"}]
    BY <1>11, AppliedType DEF Killed
  <2>2. QED
    BY <1>2, <1>3, <1>11, <2>1 DEF Killed, LineFates, Events
<1>12. QED
  BY <1>5, <1>6, <1>7, <1>8, <1>9, <1>10, <1>11 DEF Indexer

\* Main submits lines.
LEMMA MainKeepsBounds ==
    ASSUME Bounded, Sist2Index
    PROVE  Bounded'
<1>1. MainType /\ WorkersType /\ FlushInBounds
  BY TypeParts DEF Bounded
<1>2. UNCHANGED indexerVars
  BY DEF Sist2Index, SubmitDocument, EndDocuments, SubmitDelete, EndDeletes, SubmitLine
<1>3. WorkersType' /\ FlushInBounds'
  BY <1>1, <1>2 DEF indexerVars, WorkersType, FlushInBounds, Posting
<1>4. ASSUME NEW l \in Lines, SubmitLine(l)
      PROVE  MainType'
  BY <1>1, <1>4, AppendElems DEF SubmitLine, MainType
<1>5. MainType'
  <2>1. \A id \in Documents : IndexLine(id) \in Lines
    BY DEF IndexLine, Lines, Ids
  <2>2. \A id \in Deletable : DeleteLine(id) \in Lines
    BY DEF DeleteLine, Lines, Ids, Deletable
  <2>3. CASE SubmitDocument \/ SubmitDelete
    BY <1>4, <2>1, <2>2, <2>3 DEF SubmitDocument, SubmitDelete
  <2>4. CASE EndDocuments \/ EndDeletes
    BY <1>1, <2>4 DEF EndDocuments, EndDeletes, MainType, Phases
  <2>5. QED
    BY <2>3, <2>4 DEF Sist2Index
<1>6. QED
  BY <1>3, <1>5, TypeParts DEF Bounded, IndexerTypeOK, MainType, WorkersType

\* Types and bounds hold throughout.
LEMMA BoundedInvariant == IndexerSpec => []Bounded
<1>1. IndexerInit => Bounded
  <2> SUFFICES ASSUME IndexerInit
               PROVE  Bounded
    OBVIOUS
  <2>1. MainType
    BY DEF IndexerInit, MainType, Phases, LineFates
  <2>2. WorkersType
    BY DEF IndexerInit, WorkersType, Stages
  <2>3. FlushInBounds
    BY IndexerAssumption DEF IndexerInit, FlushInBounds, Posting
  <2>4. QED
    BY <2>1, <2>2, <2>3, TypeParts DEF Bounded
<1>2. Bounded /\ [IndexerNext]_indexVars => Bounded'
  <2> SUFFICES ASSUME Bounded, [IndexerNext]_indexVars
               PROVE  Bounded'
    OBVIOUS
  <2>1. CASE Sist2Index
    BY <2>1, MainKeepsBounds
  <2>2. ASSUME NEW w \in Indexers, Indexer(w)
        PROVE  Bounded'
    <3>1. MainType' /\ WorkersType' /\ FlushInBounds'
      BY <2>2, WorkerMoves, MovesKeep, WorkerKeepsMain
    <3>2. QED
      BY <3>1 DEF Bounded, IndexerTypeOK, MainType, WorkersType
  <2>3. CASE UNCHANGED indexVars
    BY <2>3 DEF indexVars, procVars, indexerVars, Bounded, IndexerTypeOK, FlushInBounds, Posting
  <2>4. QED
    BY <2>1, <2>2, <2>3 DEF IndexerNext, Finished
<1>3. QED
  BY <1>1, <1>2, PTL DEF IndexerSpec

\* Every variable keeps its type.
THEOREM TypeCorrect == IndexerSpec => []IndexerTypeOK
<1>1. Bounded => IndexerTypeOK
  BY DEF Bounded
<1>2. QED
  BY <1>1, BoundedInvariant, PTL

\* free_queue never runs past the end of the queue, which never holds more than a
\* batch, whatever Elasticsearch answers.
THEOREM BoundsCorrect == IndexerSpec => []FlushInBounds
<1>1. Bounded => FlushInBounds
  BY DEF Bounded
<1>2. QED
  BY <1>1, BoundedInvariant, PTL
-----------------------------------------------------------------------------
(* Lines given up for their size.                                          *)

\* A line is given up only in a request of its own, that was refused.
LEMMA WorkerGivesUp ==
    ASSUME Bounded, NEW w \in Indexers, Indexer(w), OnlyTooLargeGivenUp
    PROVE  OnlyTooLargeGivenUp'
<1>1. lineFate \in [Lines -> LineFates]
  BY DEF Bounded, IndexerTypeOK
<1>2. ASSUME NEW S, NEW f \in LineFates \ {"tooLarge"}, Settle(S, f)
      PROVE  OnlyTooLargeGivenUp'
  BY <1>1, <1>2 DEF Settle, OnlyTooLargeGivenUp
<1>3. CASE UNCHANGED lineFate
  BY <1>3 DEF OnlyTooLargeGivenUp
<1>4. CASE DropLine(w) \/ Rejected(w) \/ Killed(w)
  BY <1>2, <1>4 DEF DropLine, Rejected, Killed, LineFates
<1>5. CASE Accepted(w)
  BY <1>1, <1>5 DEF Accepted, OnlyTooLargeGivenUp
<1>6. CASE TooLarge(w) /\ max[w] <= 1
  <2>1. Posting(w) /\ ~Fits(Batch(w)) /\ Settle({Head(queued[w])}, "tooLarge")
    <3>1. max[w] \in Nat
      BY DEF Bounded, IndexerTypeOK
    <3>2. QED
      BY <1>6, <3>1 DEF TooLarge
  <2>2. max[w] = 1 /\ queued[w] \in Seq(Lines) /\ queued[w] # <<>>
    <3>1. queued[w] \in Seq(Lines) /\ queued[w] # <<>> /\ max[w] \in 1 .. Len(queued[w])
      BY <2>1, Posted
    <3>2. QED
      BY <1>6, <3>1
  <2>3. Batch(w) = <<Head(queued[w])>>
    BY <2>2, FirstOnly DEF Batch
  <2>4. QED
    BY <1>1, <2>1, <2>3 DEF Settle, OnlyTooLargeGivenUp
<1>7. CASE TooLarge(w) /\ max[w] > 1
  <2>1. max[w] \in Nat
    BY DEF Bounded, IndexerTypeOK
  <2>2. QED
    BY <1>3, <1>7, <2>1 DEF TooLarge
<1>8. max[w] <= 1 \/ max[w] > 1
  BY DEF Bounded, IndexerTypeOK
<1>9. QED
  BY <1>3, <1>4, <1>5, <1>6, <1>7, <1>8 DEF Indexer, ElasticIndexLine, LeaveLoop, TooMany

\* Halving gives up no line that could be sent by itself.
THEOREM GivenUpCorrect == IndexerSpec => []OnlyTooLargeGivenUp
<1>1. IndexerInit => OnlyTooLargeGivenUp
  BY DEF IndexerInit, OnlyTooLargeGivenUp
<1>2. Bounded /\ OnlyTooLargeGivenUp /\ [IndexerNext]_indexVars => OnlyTooLargeGivenUp'
  <2> SUFFICES ASSUME Bounded, OnlyTooLargeGivenUp, [IndexerNext]_indexVars
               PROVE  OnlyTooLargeGivenUp'
    OBVIOUS
  <2>1. CASE \E w \in Indexers : Indexer(w)
    BY <2>1, WorkerGivesUp
  <2>2. CASE Sist2Index \/ UNCHANGED indexVars
    BY <2>2 DEF Sist2Index, SubmitDocument, EndDocuments, SubmitDelete, EndDeletes, SubmitLine,
                indexVars, OnlyTooLargeGivenUp
  <2>3. QED
    BY <2>1, <2>2 DEF IndexerNext, Finished
<1>3. QED
  BY <1>1, <1>2, BoundedInvariant, PTL DEF IndexerSpec

-----------------------------------------------------------------------------
(* Where the lines are.                                                    *)

\* Only submitted lines have a fate, and only deletable ids a line of deletion.
Submitted ==
    /\ \A l \in Lines : l \notin submittedLines => lineFate[l] = "none"
    /\ \A id \in Ids : DeleteLine(id) \in submittedLines => id \in Deletable

Conserved == Bounded /\ LinesConserved /\ Submitted

\* The line l is held: in the table or by a worker.
Held(l) == l \in Elems(work) \/ \E w \in Indexers : l \in Elems(queued[w])

\* What a sequence of lines holds are lines.
LEMMA ElemsAreLines == ASSUME NEW s \in Seq(Lines) PROVE Elems(s) \subseteq Lines
BY DEF Elems

\* LinesConserved, of what is held.
LEMMA HeldAreUnsettled ==
    LinesConserved <=>
        /\ Injective(work)
        /\ \A w \in Indexers : Injective(queued[w]) /\ Elems(queued[w]) \cap Elems(work) = {}
        /\ \A v, w \in Indexers : v # w => Elems(queued[v]) \cap Elems(queued[w]) = {}
        /\ \A l \in Lines : lineFate[l] = "none" /\ l \in submittedLines <=> Held(l)
BY DEF LinesConserved, Held

\* Worker w settles the lines S of its queue and keeps those of q.
LEMMA SettleConserves ==
    ASSUME Conserved, NEW w \in Indexers, NEW q \in Seq(Lines), NEW S,
           queued' = [queued EXCEPT ![w] = q], UNCHANGED <<work, submittedLines>>,
           Elems(queued[w]) = S \cup Elems(q), S \cap Elems(q) = {}, Injective(q),
           \A l \in Lines : IF l \in S THEN lineFate'[l] # "none" ELSE lineFate'[l] = lineFate[l]
    PROVE  LinesConserved' /\ Submitted'
<1>1. queued \in [Indexers -> Seq(Lines)] /\ work \in Seq(Lines)
  BY DEF Conserved, Bounded, IndexerTypeOK
<1>2. queued'[w] = q /\ \A v \in Indexers : v # w => queued'[v] = queued[v]
  BY <1>1
<1>3. \A v \in Indexers : Elems(queued'[v]) \subseteq Elems(queued[v])
  BY <1>2
<1>4. LinesConserved /\ Submitted
  BY DEF Conserved
<1>5. /\ Injective(work')
      /\ \A v \in Indexers : Injective(queued'[v]) /\ Elems(queued'[v]) \cap Elems(work') = {}
  BY <1>2, <1>3, <1>4 DEF LinesConserved
<1>6. \A u, v \in Indexers : u # v => Elems(queued'[u]) \cap Elems(queued'[v]) = {}
  BY <1>3, <1>4 DEF LinesConserved
<1>7. ASSUME NEW l \in Lines
      PROVE  lineFate'[l] = "none" /\ l \in submittedLines' <=> Held(l)'
  <2>1. lineFate[l] = "none" /\ l \in submittedLines <=> Held(l)
    BY <1>4, HeldAreUnsettled
  <2>2. CASE l \in S
    <3>1. l \notin Elems(work) /\ \A v \in Indexers : l \notin Elems(queued'[v])
      BY <1>2, <1>4, <2>2 DEF LinesConserved
    <3>2. QED
      BY <2>2, <3>1 DEF Held
  <2>3. CASE l \notin S
    <3>1. l \in Elems(queued[w]) <=> l \in Elems(q)
      BY <2>3
    <3>2. \A v \in Indexers : l \in Elems(queued'[v]) <=> l \in Elems(queued[v])
      BY <1>2, <3>1
    <3>3. l \in Elems(work') <=> l \in Elems(work)
      OBVIOUS
    <3>4. Held(l)' <=> Held(l)
      BY <3>2, <3>3, Zenon DEF Held
    <3>5. QED
      BY <2>1, <2>3, <3>4
  <2>4. QED
    BY <2>2, <2>3
<1>8. LinesConserved'
  <2>1. ASSUME NEW l \in Lines
        PROVE  lineFate'[l] = "none" /\ l \in submittedLines'
                   <=> l \in Elems(work') \cup UNION {Elems(queued'[v]) : v \in Indexers}
    <3>1. Held(l)' <=> l \in Elems(work') \cup UNION {Elems(queued'[v]) : v \in Indexers}
      BY DEF Held
    <3>2. QED
      BY <1>7, <3>1
  <2>2. QED
    BY <1>5, <1>6, <2>1 DEF LinesConserved
<1>9. Submitted'
  <2>1. ASSUME NEW l \in Lines, l \notin submittedLines
        PROVE  lineFate'[l] = "none"
    <3>1. lineFate[l] = "none" /\ ~Held(l)
      BY <1>4, <2>1, HeldAreUnsettled DEF Submitted
    <3>2. l \notin S
      BY <3>1 DEF Held
    <3>3. QED
      BY <3>1, <3>2
  <2>2. QED
    BY <1>4, <2>1 DEF Submitted
<1>10. QED
  BY <1>8, <1>9

\* The queue, the request and what is left of it hold lines that are not settled.
LEMMA PostedLines ==
    ASSUME Conserved, NEW w \in Indexers, Posting(w)
    PROVE  /\ Elems(queued[w]) = Elems(Batch(w)) \cup Elems(Rest(w))
           /\ Elems(Batch(w)) \cap Elems(Rest(w)) = {}
           /\ Injective(Rest(w)) /\ Rest(w) \in Seq(Lines)
           /\ Elems(queued[w]) = {Head(queued[w])} \cup Elems(Tail(queued[w]))
           /\ {Head(queued[w])} \cap Elems(Tail(queued[w])) = {}
           /\ Injective(Tail(queued[w])) /\ Tail(queued[w]) \in Seq(Lines)
<1>1. /\ queued[w] \in Seq(Lines) /\ queued[w] # <<>> /\ max[w] \in 1 .. Len(queued[w])
      /\ Rest(w) \in Seq(Lines) /\ Tail(queued[w]) \in Seq(Lines)
  BY Posted DEF Conserved
<1>2. Injective(queued[w])
  BY DEF Conserved, LinesConserved
<1>3. QED
  BY <1>1, <1>2, CutElems, TailElems DEF Batch, Rest

\* A step of a worker loses no line and settles none twice.
LEMMA WorkerConserves ==
    ASSUME Conserved, NEW w \in Indexers, Indexer(w)
    PROVE  LinesConserved' /\ Submitted'
<1>1. /\ queued \in [Indexers -> Seq(Lines)] /\ work \in Seq(Lines) /\ lineFate \in [Lines -> LineFates]
      /\ max \in [Indexers -> Nat]
  BY DEF Conserved, Bounded, IndexerTypeOK
<1>2. LinesConserved /\ Submitted
  BY DEF Conserved
<1>3. ASSUME UNCHANGED <<submittedLines, work, queued, lineFate>>
      PROVE  LinesConserved' /\ Submitted'
  BY <1>2, <1>3 DEF LinesConserved, Submitted
<1>4. CASE ElasticIndexLine(w)
  <2> DEFINE l == Head(work)
  <2>1. /\ work # <<>> /\ work' = Tail(work) /\ UNCHANGED <<submittedLines, lineFate>>
        /\ queued' = [queued EXCEPT ![w] = Append(@, Head(work))]
    BY <1>4 DEF ElasticIndexLine, procVars
  <2>2. /\ l \in Lines /\ Elems(work) = {l} \cup Elems(work')
        /\ Injective(work') /\ l \notin Elems(work')
    BY <1>1, <1>2, <2>1, TailElems DEF LinesConserved
  <2>3. \A v \in Indexers : l \notin Elems(queued[v])
    BY <1>2, <2>2 DEF LinesConserved
  <2>4. Elems(queued'[w]) = Elems(queued[w]) \cup {l} /\ Injective(queued'[w])
    <3>1. queued'[w] = Append(queued[w], l) /\ queued[w] \in Seq(Lines) /\ Injective(queued[w])
      BY <1>1, <1>2, <2>1 DEF LinesConserved
    <3>2. QED
      BY <2>2, <2>3, <3>1, AppendElems
  <2>5. \A v \in Indexers : v # w => queued'[v] = queued[v]
    BY <1>1, <2>1
  <2> HIDE DEF l
  <2>6. \A v \in Indexers : Injective(queued'[v]) /\ Elems(queued'[v]) \cap Elems(work') = {}
    BY <1>2, <2>2, <2>4, <2>5 DEF LinesConserved
  <2>7. \A u, v \in Indexers : u # v => Elems(queued'[u]) \cap Elems(queued'[v]) = {}
    BY <1>2, <2>3, <2>4, <2>5 DEF LinesConserved
  <2>8. \A k \in Lines : Held(k)' <=> Held(k)
    BY <2>2, <2>4, <2>5 DEF Held
  <2>9. \A k \in Lines : lineFate'[k] = "none" /\ k \in submittedLines' <=> Held(k)'
    BY <1>2, <2>1, <2>8, HeldAreUnsettled
  <2>10. LinesConserved'
    BY <2>2, <2>6, <2>7, <2>9 DEF LinesConserved, Held
  <2>11. QED
    BY <1>2, <2>1, <2>10 DEF Submitted
<1>5. CASE LeaveLoop(w)
  BY <1>3, <1>5 DEF LeaveLoop, ElasticCleanup, procVars
<1>6. CASE DropLine(w)
  <2> DEFINE l == Head(work)
  <2>1. /\ work # <<>> /\ work' = Tail(work) /\ UNCHANGED <<submittedLines, queued>>
        /\ Settle({l}, "dropped")
    BY <1>6 DEF DropLine, ElasticCleanup, procVars
  <2>2. /\ l \in Lines /\ Elems(work) = {l} \cup Elems(work')
        /\ Injective(work') /\ l \notin Elems(work')
    BY <1>1, <1>2, <2>1, TailElems DEF LinesConserved
  <2> HIDE DEF l
  <2>3. l \in submittedLines /\ \A v \in Indexers : l \notin Elems(queued[v])
    BY <1>2, <2>2 DEF LinesConserved
  <2>4. \A k \in Lines : lineFate'[k] = IF k = l THEN "dropped" ELSE lineFate[k]
    BY <2>1 DEF Settle
  <2>5. \A k \in Lines : Held(k)' <=> Held(k) /\ k # l
    BY <2>1, <2>2, <2>3 DEF Held
  <2>6. \A k \in Lines : lineFate'[k] = "none" /\ k \in submittedLines' <=> Held(k)'
    BY <1>2, <2>1, <2>4, <2>5, HeldAreUnsettled
  <2>7. LinesConserved'
    BY <1>2, <2>1, <2>2, <2>6 DEF LinesConserved, Held
  <2>8. QED
    BY <1>2, <2>1, <2>3, <2>4, <2>7 DEF Submitted
<1>7. CASE Accepted(w)
  <2>1. Posting(w) /\ FlushRest(w, Rest(w)) /\ UNCHANGED <<submittedLines, work>>
    BY <1>7 DEF Accepted, procVars
  <2>2. \A l \in Lines : IF l \in Elems(Batch(w)) THEN lineFate'[l] # "none" ELSE lineFate'[l] = lineFate[l]
    BY <1>7 DEF Accepted
  <2>3. queued' = [queued EXCEPT ![w] = Rest(w)]
    BY <2>1 DEF FlushRest
  <2>4. QED
    BY <2>1, <2>2, <2>3, PostedLines, SettleConserves
<1>8. CASE TooLarge(w) /\ max[w] > 1
  <2>1. max[w] \in Nat
    BY <1>1
  <2>2. QED
    BY <1>3, <1>8, <2>1 DEF TooLarge, procVars
<1>9. CASE TooLarge(w) /\ max[w] <= 1
  <2>1. /\ Posting(w) /\ UNCHANGED <<submittedLines, work>>
        /\ Settle({Head(queued[w])}, "tooLarge") /\ FlushRest(w, Tail(queued[w]))
    <3>1. max[w] \in Nat
      BY <1>1
    <3>2. QED
      BY <1>9, <3>1 DEF TooLarge, procVars
  <2>2. \A l \in Lines : IF l \in {Head(queued[w])} THEN lineFate'[l] # "none" ELSE lineFate'[l] = lineFate[l]
    BY <2>1 DEF Settle
  <2>3. queued' = [queued EXCEPT ![w] = Tail(queued[w])]
    BY <2>1 DEF FlushRest
  <2>4. QED
    BY <2>1, <2>2, <2>3, PostedLines, SettleConserves
<1>10. CASE TooMany(w)
  BY <1>3, <1>10 DEF TooMany, procVars, indexerVars
<1>11. CASE Rejected(w) \/ Killed(w)
  <2>1. /\ queued' = [queued EXCEPT ![w] = <<>>] /\ UNCHANGED <<submittedLines, work>>
        /\ \E f \in {"rejected", "crashed"} : Settle(Elems(queued[w]), f)
    BY <1>11 DEF Rejected, Killed, procVars
  <2>2. \A l \in Lines : IF l \in Elems(queued[w]) THEN lineFate'[l] # "none" ELSE lineFate'[l] = lineFate[l]
    BY <2>1 DEF Settle
  <2>3. <<>> \in Seq(Lines) /\ Elems(<<>>) = {} /\ Injective(<<>>)
    BY DEF Elems, Injective
  <2>4. QED
    BY <2>1, <2>2, <2>3, SettleConserves
<1>12. max[w] <= 1 \/ max[w] > 1
  BY <1>1
<1>13. QED
  BY <1>4, <1>5, <1>6, <1>7, <1>8, <1>9, <1>10, <1>11, <1>12 DEF Indexer

\* Main submits each line once.
LEMMA MainConserves ==
    ASSUME Conserved, Sist2Index
    PROVE  LinesConserved' /\ Submitted'
<1>1. LinesConserved /\ Submitted /\ work \in Seq(Lines)
  BY DEF Conserved, Bounded, IndexerTypeOK
<1>2. ASSUME NEW l \in Lines, SubmitLine(l),
   \A id \in Ids : l = DeleteLine(id) => id \in Deletable
      PROVE  LinesConserved' /\ Submitted'
  <2>1. /\ l \notin submittedLines /\ submittedLines' = submittedLines \cup {l} /\ work' = Append(work, l)
        /\ UNCHANGED <<queued, lineFate>>
    BY <1>2 DEF SubmitLine, indexerVars
  <2>2. lineFate[l] = "none" /\ ~Held(l)
    BY <1>1, <2>1, HeldAreUnsettled DEF Submitted
  <2>3. Elems(work') = Elems(work) \cup {l} /\ Injective(work')
    BY <1>1, <2>1, <2>2, AppendElems DEF Held, LinesConserved
  <2>4. \A k \in Lines : Held(k)' <=> Held(k) \/ k = l
    BY <2>1, <2>3 DEF Held
  <2>5. \A k \in Lines : lineFate'[k] = "none" /\ k \in submittedLines' <=> Held(k)'
    BY <1>1, <2>1, <2>2, <2>4, HeldAreUnsettled
  <2>6. \A v \in Indexers : Injective(queued'[v]) /\ Elems(queued'[v]) \cap Elems(work') = {}
    BY <1>1, <2>1, <2>2, <2>3 DEF LinesConserved, Held
  <2>7. LinesConserved'
    BY <1>1, <2>1, <2>3, <2>5, <2>6 DEF LinesConserved, Held
  <2>8. Submitted'
    BY <1>1, <1>2, <2>1 DEF Submitted
  <2>9. QED
    BY <2>7, <2>8
<1>3. ASSUME NEW id \in Ids
      PROVE  /\ IndexLine(id) \in Lines /\ DeleteLine(id) \in Lines
             /\ \A d \in Ids : IndexLine(id) # DeleteLine(d)
             /\ \A d \in Ids : DeleteLine(id) = DeleteLine(d) => id = d
  BY DEF IndexLine, DeleteLine, Lines
<1>4. CASE SubmitDocument
  BY <1>2, <1>3, <1>4 DEF SubmitDocument, Ids
<1>5. CASE SubmitDelete
  BY <1>2, <1>3, <1>5 DEF SubmitDelete, Deletable, Ids
<1>6. CASE EndDocuments \/ EndDeletes
  BY <1>1, <1>6 DEF EndDocuments, EndDeletes, indexerVars, LinesConserved, Submitted
<1>7. QED
  BY <1>4, <1>5, <1>6 DEF Sist2Index

\* The lines are conserved throughout.
LEMMA ConservedInvariant == IndexerSpec => []Conserved
<1>1. IndexerInit => LinesConserved /\ Submitted
  BY DEF IndexerInit, LinesConserved, Submitted, Elems, Injective
<1>2. Conserved /\ [IndexerNext]_indexVars => LinesConserved' /\ Submitted'
  <2> SUFFICES ASSUME Conserved, [IndexerNext]_indexVars
               PROVE  LinesConserved' /\ Submitted'
    OBVIOUS
  <2>1. CASE Sist2Index
    BY <2>1, MainConserves
  <2>2. CASE \E w \in Indexers : Indexer(w)
    BY <2>2, WorkerConserves
  <2>3. CASE UNCHANGED indexVars
    BY <2>3 DEF Conserved, indexVars, procVars, indexerVars, LinesConserved, Submitted
  <2>4. QED
    BY <2>1, <2>2, <2>3 DEF IndexerNext, Finished
<1>3. Bounded /\ LinesConserved /\ Submitted <=> Conserved
  BY DEF Conserved
<1>4. QED
  BY <1>1, <1>2, <1>3, BoundedInvariant, PTL DEF IndexerSpec

\* Every submitted line is in one place, once, until it is settled: none is sent
\* again after an answer, and none is freed unsettled.
THEOREM LinesCorrect == IndexerSpec => []LinesConserved
<1>1. Conserved => LinesConserved
  BY DEF Conserved
<1>2. QED
  BY <1>1, ConservedInvariant, PTL

-----------------------------------------------------------------------------
(* What Elasticsearch has.                                                 *)

\* EsHasWhatWasSent for one id, that has e, its line the fate f.
Agrees(id, e, f) ==
    /\ f = "sent" /\ id \notin Deletable => e = "new"
    /\ e = "new" => f \in {"sent", "crashed"}

\* A request of which Elasticsearch took the lines but those of refused: the lines in
\* it were not settled, and no document but those of deletable ids is removed.
LEMMA RequestAgrees ==
    ASSUME Conserved, NEW w \in Indexers, Posting(w), NEW refused \in SUBSET Elems(Batch(w)),
           NEW id \in Ids, Agrees(id, es[id], lineFate[IndexLine(id)]), NEW f,
           IndexLine(id) \in Elems(Batch(w)) \ refused => f \in {"sent", "crashed"},
           IndexLine(id) \in refused => f # "sent",
           IndexLine(id) \in Elems(Rest(w)) => f # "sent",
           IndexLine(id) \notin Elems(queued[w]) => f = lineFate[IndexLine(id)]
    PROVE  Agrees(id, Applied(Batch(w), refused)[id], f)
<1>1. /\ LinesConserved /\ Submitted
      /\ queued[w] \in Seq(Lines) /\ Batch(w) \in Seq(Lines)
      /\ Elems(queued[w]) = Elems(Batch(w)) \cup Elems(Rest(w))
      /\ Elems(Batch(w)) \cap Elems(Rest(w)) = {}
  BY Posted, PostedLines DEF Conserved
<1>2. IndexLine(id) \in Lines /\ DeleteLine(id) \in Lines
  BY DEF IndexLine, DeleteLine, Lines
<1>3. \A l \in Elems(queued[w]) : l \in submittedLines /\ lineFate[l] = "none"
  <2>1. Elems(queued[w]) \subseteq Lines
    BY <1>1, ElemsAreLines
  <2>2. QED
    BY <1>1, <2>1, HeldAreUnsettled DEF Held
<1>4. DeleteLine(id) \in Elems(Batch(w)) => id \in Deletable
  BY <1>1, <1>3 DEF Submitted
<1>5. Applied(Batch(w), refused)[id] =
          IF DeleteLine(id) \in Elems(Batch(w)) THEN "none"
          ELSE IF IndexLine(id) \in Elems(Batch(w)) \ refused THEN "new"
          ELSE es[id]
  BY DEF Applied
<1>6. CASE IndexLine(id) \in Elems(queued[w])
  <2>1. es[id] # "new"
    BY <1>3, <1>6 DEF Agrees
  <2>2. QED
    BY <1>1, <1>4, <1>5, <1>6, <2>1 DEF Agrees
<1>7. CASE IndexLine(id) \notin Elems(queued[w])
  BY <1>1, <1>4, <1>5, <1>7 DEF Agrees
<1>8. QED
  BY <1>6, <1>7

\* EsHasWhatWasSent, id by id.
LEMMA EsById == EsHasWhatWasSent <=> \A id \in Ids : Agrees(id, es[id], lineFate[IndexLine(id)])
BY DEF EsHasWhatWasSent, Agrees

\* A step of a worker that is not a request to Elasticsearch settles no line as sent,
\* and none that was settled.
LEMMA QuietAgrees ==
    ASSUME Conserved, EsHasWhatWasSent, es' = es, NEW S,
           \A l \in Lines \cap S : lineFate[l] = "none",
           NEW f \in LineFates \ {"sent"}, Settle(S, f)
    PROVE  EsHasWhatWasSent'
<1>1. \A id \in Ids : IndexLine(id) \in Lines
  BY DEF IndexLine, Lines
<1>2. ASSUME NEW id \in Ids
      PROVE  Agrees(id, es'[id], lineFate'[IndexLine(id)])
  <2>1. lineFate'[IndexLine(id)] = IF IndexLine(id) \in S THEN f ELSE lineFate[IndexLine(id)]
    BY <1>1 DEF Settle
  <2>2. Agrees(id, es[id], lineFate[IndexLine(id)])
    BY EsById
  <2>3. QED
    BY <1>1, <2>1, <2>2 DEF Agrees
<1>3. QED
  BY <1>2 DEF EsHasWhatWasSent, Agrees

\* Steps of a worker keep what Elasticsearch has in line with the fates.
LEMMA WorkerAgrees ==
    ASSUME Conserved, EsHasWhatWasSent, NEW w \in Indexers, Indexer(w)
    PROVE  EsHasWhatWasSent'
<1>1. /\ LinesConserved /\ work \in Seq(Lines) /\ max[w] \in Nat
      /\ queued[w] \in Seq(Lines)
  BY DEF Conserved, Bounded, IndexerTypeOK
<1>2. \A id \in Ids : IndexLine(id) \in Lines /\ Agrees(id, es[id], lineFate[IndexLine(id)])
  BY EsById DEF IndexLine, Lines
<1>3. /\ \A l \in Lines \cap Elems(queued[w]) : lineFate[l] = "none"
      /\ \A l \in Lines \cap Elems(work) : lineFate[l] = "none"
  BY <1>1, HeldAreUnsettled DEF Held
<1>4. CASE UNCHANGED <<es, lineFate>>
  BY <1>4 DEF EsHasWhatWasSent
<1>5. CASE DropLine(w)
  <2>1. Head(work) \in Elems(work) /\ Settle({Head(work)}, "dropped") /\ es' = es
    BY <1>1, <1>5, TailElems DEF DropLine
  <2>2. QED
    BY <1>3, <2>1, QuietAgrees DEF LineFates
<1>6. CASE TooLarge(w)
  <2>1. CASE max[w] > 1
    BY <1>1, <1>4, <1>6, <2>1 DEF TooLarge
  <2>2. CASE max[w] <= 1
    <3>1. Posting(w) /\ Settle({Head(queued[w])}, "tooLarge") /\ es' = es
      BY <1>1, <1>6, <2>2 DEF TooLarge
    <3>2. Head(queued[w]) \in Elems(queued[w])
      BY <3>1, PostedLines
    <3>3. QED
      BY <1>3, <3>1, <3>2, QuietAgrees DEF LineFates
  <2>3. QED
    BY <1>1, <2>1, <2>2
<1>7. CASE Rejected(w) \/ (Killed(w) /\ UNCHANGED es)
  <2>1. es' = es /\ \E f \in {"rejected", "crashed"} : Settle(Elems(queued[w]), f)
    BY <1>7 DEF Rejected, Killed
  <2>2. QED
    BY <1>3, <2>1, QuietAgrees DEF LineFates
<1>8. CASE Accepted(w)
  <2>1. PICK refused \in SUBSET Elems(Batch(w)) :
            /\ es' = Applied(Batch(w), refused)
            /\ lineFate' = [l \in Lines |-> IF l \in refused THEN "refused"
                                        ELSE IF l \in Elems(Batch(w)) THEN "sent"
                                        ELSE lineFate[l]]
    BY <1>8 DEF Accepted
  <2>2. ASSUME NEW id \in Ids
        PROVE  Agrees(id, es'[id], lineFate'[IndexLine(id)])
    <3> DEFINE f == lineFate'[IndexLine(id)]
    <3>1. f = IF IndexLine(id) \in refused THEN "refused"
              ELSE IF IndexLine(id) \in Elems(Batch(w)) THEN "sent"
              ELSE lineFate[IndexLine(id)]
      BY <1>2, <2>1
    <3>2. /\ Posting(w) /\ Elems(queued[w]) = Elems(Batch(w)) \cup Elems(Rest(w))
          /\ Elems(Batch(w)) \cap Elems(Rest(w)) = {}
      BY <1>8, PostedLines DEF Accepted
    <3>3. /\ IndexLine(id) \in Elems(Batch(w)) \ refused => f \in {"sent", "crashed"}
          /\ IndexLine(id) \in refused => f # "sent"
          /\ IndexLine(id) \in Elems(Rest(w)) => f # "sent"
          /\ IndexLine(id) \notin Elems(queued[w]) => f = lineFate[IndexLine(id)]
      BY <1>2, <1>3, <3>1, <3>2
    <3> HIDE DEF f
    <3>4. Agrees(id, Applied(Batch(w), refused)[id], f)
      BY <1>2, <3>2, <3>3, RequestAgrees
    <3>5. QED
      BY <2>1, <3>4 DEF f
  <2>3. QED
    BY <2>2 DEF EsHasWhatWasSent, Agrees
<1>9. CASE Killed(w) /\ ~UNCHANGED es
  <2>1. PICK refused \in SUBSET Elems(Batch(w)) : es' = Applied(Batch(w), refused)
    BY <1>9 DEF Killed
  <2>2. ASSUME NEW id \in Ids
        PROVE  Agrees(id, es'[id], lineFate'[IndexLine(id)])
    <3> DEFINE f == lineFate'[IndexLine(id)]
    <3>1. f = IF IndexLine(id) \in Elems(queued[w]) THEN "crashed" ELSE lineFate[IndexLine(id)]
      BY <1>2, <1>9 DEF Killed, Settle
    <3>2. Posting(w) /\ Elems(queued[w]) = Elems(Batch(w)) \cup Elems(Rest(w))
      BY <1>9, PostedLines DEF Killed
    <3>3. /\ IndexLine(id) \in Elems(Batch(w)) \ refused => f \in {"sent", "crashed"}
          /\ IndexLine(id) \in refused => f # "sent"
          /\ IndexLine(id) \in Elems(Rest(w)) => f # "sent"
          /\ IndexLine(id) \notin Elems(queued[w]) => f = lineFate[IndexLine(id)]
      BY <3>1, <3>2
    <3> HIDE DEF f
    <3>4. Agrees(id, Applied(Batch(w), refused)[id], f)
      BY <1>2, <3>2, <3>3, RequestAgrees
    <3>5. QED
      BY <2>1, <3>4 DEF f
  <2>3. QED
    BY <2>2 DEF EsHasWhatWasSent, Agrees
<1>10. QED
  BY <1>4, <1>5, <1>6, <1>7, <1>8, <1>9 DEF Indexer, ElasticIndexLine, LeaveLoop, TooMany

\* A line freed as sent has reached Elasticsearch and stays there unless its id is on
\* the delete list; what is there came from a line that was taken.
THEOREM EsCorrect == IndexerSpec => []EsHasWhatWasSent
<1>1. IndexerInit => EsHasWhatWasSent
  <2> SUFFICES ASSUME IndexerInit, NEW id \in Ids
               PROVE  Agrees(id, es[id], lineFate[IndexLine(id)])
    BY EsById
  <2>1. IndexLine(id) \in Lines
    BY DEF IndexLine, Lines
  <2>2. es[id] # "new" /\ lineFate[IndexLine(id)] = "none"
    BY <2>1 DEF IndexerInit
  <2>3. QED
    BY <2>2 DEF Agrees
<1>2. Conserved /\ EsHasWhatWasSent /\ [IndexerNext]_indexVars => EsHasWhatWasSent'
  <2> SUFFICES ASSUME Conserved, EsHasWhatWasSent, [IndexerNext]_indexVars
               PROVE  EsHasWhatWasSent'
    OBVIOUS
  <2>1. CASE \E w \in Indexers : Indexer(w)
    BY <2>1, WorkerAgrees
  <2>2. CASE Sist2Index \/ UNCHANGED indexVars
    BY <2>2 DEF Sist2Index, SubmitDocument, EndDocuments, SubmitDelete, EndDeletes, SubmitLine,
                indexVars, EsHasWhatWasSent
  <2>3. QED
    BY <2>1, <2>2 DEF IndexerNext, Finished
<1>3. QED
  BY <1>1, <1>2, ConservedInvariant, PTL DEF IndexerSpec

=============================================================================
