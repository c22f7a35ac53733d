--------------------------- MODULE AggregateProofs ---------------------------
(***************************************************************************)
(* What is computed over all documents: the treemap of the statistics, the *)
(* tree of directories and the pages of a search, for any documents.       *)
(*                                                                         *)
(* Sums are folds over sets.  That a fold has the value it should have is  *)
(* shown once, by counting units; everything else about sums then follows  *)
(* from what is known of the cardinality of finite sets.                   *)
(***************************************************************************)
EXTENDS IndexStats, PathIndex, SearchPaging, FiniteSetTheorems, WellFoundedInduction, TLAPS

-----------------------------------------------------------------------------
(* Sums.                                                                   *)

\* A sum of natural numbers, written in units.
Units(w, S) == {u \in S \X Nat : u[2] \in 1 .. w[u[1]]}

\* A property of subsets that fails for one of a finite set's fails for a smallest one.
LEMMA SmallestSubset ==
    ASSUME NEW S, IsFiniteSet(S), NEW Bad, Bad \subseteq SUBSET S, Bad # {}
    PROVE  \E T \in Bad : \A U \in SUBSET T : U # T => U \notin Bad
<1>1. IsWellFoundedOn(StrictSubsetOrdering(S), FiniteSubsetsOf(S))
  BY FS_StrictSubsetOrderingWellFounded
<1>2. Bad \subseteq FiniteSubsetsOf(S)
  BY FS_FiniteSubsetsOfFinite
<1>3. PICK T \in Bad : \A U \in Bad : ~ <<U, T>> \in StrictSubsetOrdering(S)
  BY <1>1, <1>2, WFMin
<1>4. \A U \in SUBSET T : U # T /\ U \in Bad => <<U, T>> \in StrictSubsetOrdering(S)
  BY DEF StrictSubsetOrdering
<1>5. \A U \in SUBSET T : U # T => U \notin Bad
  BY <1>3, <1>4
<1>6. QED
  BY <1>5

LEMMA UnitsOfElement ==
    ASSUME NEW S, NEW w, NEW x \in S, \A y \in S : w[y] \in Nat, IsFiniteSet(Units(w, S \ {x}))
    PROVE  /\ IsFiniteSet(Units(w, S))
           /\ Cardinality(Units(w, S)) = w[x] + Cardinality(Units(w, S \ {x}))
<1> DEFINE own == {x} \X (1 .. w[x])
           rest == Units(w, S \ {x})
<1>1. Units(w, S) = rest \cup own
  BY DEF Units
<1>2. rest \cap own = {}
  BY DEF Units
<1>3. IsFiniteSet(own) /\ Cardinality(own) = w[x]
  <2>1. w[x] \in Nat
    OBVIOUS
  <2>2. IsFiniteSet(1 .. w[x]) /\ Cardinality(1 .. w[x]) = w[x]
    BY <2>1, FS_Interval, SMTT(40)
  <2>3. IsFiniteSet({x}) /\ Cardinality({x}) = 1
    BY FS_Singleton
  <2>4. QED
    BY <2>1, <2>2, <2>3, FS_Product, SMTT(40)
<1>4. Cardinality(rest \cup own) = Cardinality(rest) + Cardinality(own) - Cardinality(rest \cap own)
  BY <1>3, FS_Union
<1>5. Cardinality(rest \cap own) = 0 /\ Cardinality(rest) \in Nat
  BY <1>2, FS_EmptySet, FS_CardinalityType
<1>6. IsFiniteSet(rest \cup own)
  BY <1>3, FS_Union
<1>7. QED
  <2> HIDE DEF rest, own
  <2> QED
    BY <1>1, <1>3, <1>4, <1>5, <1>6 DEF rest

LEMMA UnitsAreFinite ==
    ASSUME NEW S, IsFiniteSet(S), NEW w, \A x \in S : w[x] \in Nat
    PROVE  \A T \in SUBSET S : IsFiniteSet(Units(w, T))
<1> DEFINE Bad == {T \in SUBSET S : ~IsFiniteSet(Units(w, T))}
<1>1. SUFFICES ASSUME Bad # {}
               PROVE  FALSE
  OBVIOUS
<1>2. PICK T \in Bad : \A U \in SUBSET T : U # T => U \notin Bad
  <2> HIDE DEF Bad
  <2> Bad \subseteq SUBSET S
    BY DEF Bad
  <2> QED
    BY <1>1, SmallestSubset
<1>3. CASE T = {}
  <2>1. Units(w, T) = {}
    BY <1>3 DEF Units
  <2>2. QED
    BY <1>2, <2>1, FS_EmptySet
<1>4. CASE T # {}
  <2>1. PICK x \in T : TRUE
    BY <1>4
  <2>2. IsFiniteSet(Units(w, T \ {x}))
    BY <1>2, <2>1
  <2>3. QED
    BY <1>2, <2>1, <2>2, UnitsOfElement
<1>5. QED
  BY <1>3, <1>4

\* The sum of natural numbers is the number of their units, in whatever order it is made.
LEMMA SumIsCardinality ==
    ASSUME NEW S, IsFiniteSet(S), NEW w, \A x \in S : w[x] \in Nat
    PROVE  /\ IsFiniteSet(Units(w, S))
           /\ SumFunctionOnSet(w, S) = Cardinality(Units(w, S))
<1> DEFINE Pick(T) == CHOOSE x \in T : TRUE
           Step(g) == [T \in SUBSET S |-> IF T = {} THEN 0 ELSE w[Pick(T)] + g[T \ {Pick(T)}]]
           count == [T \in SUBSET S |-> Cardinality(Units(w, T))]
<1>1. \A T \in SUBSET S : T # {} => Pick(T) \in T
  OBVIOUS
<1>2. \A T \in SUBSET S :
        count[T] = IF T = {} THEN 0 ELSE w[Pick(T)] + count[T \ {Pick(T)}]
  <2> SUFFICES ASSUME NEW T \in SUBSET S
               PROVE  count[T] = IF T = {} THEN 0 ELSE w[Pick(T)] + count[T \ {Pick(T)}]
    OBVIOUS
  <2>1. CASE T = {}
    <3>1. Units(w, T) = {}
      BY <2>1 DEF Units
    <3>2. QED
      BY <2>1, <3>1, FS_EmptySet
  <2>2. CASE T # {}
    <3>1. PICK x : x = Pick(T)
      OBVIOUS
    <3>2. x \in T
      BY <1>1, <2>2, <3>1
    <3>3. Cardinality(Units(w, T)) = w[x] + Cardinality(Units(w, T \ {x}))
      BY <3>2, UnitsAreFinite, UnitsOfElement
    <3>4. QED
      BY <2>2, <3>1, <3>2, <3>3
  <2>3. QED
    BY <2>1, <2>2
<1>3. count = Step(count)
  BY <1>2
<1>4. ASSUME NEW g, g = Step(g)
      PROVE  g[S] = count[S]
  <2> DEFINE Bad == {T \in SUBSET S : g[T] # count[T]}
  <2>1. SUFFICES ASSUME Bad # {}
                 PROVE  FALSE
    OBVIOUS
  <2>2. PICK T \in Bad : \A U \in SUBSET T : U # T => U \notin Bad
    <3> HIDE DEF Bad
    <3> Bad \subseteq SUBSET S
      BY DEF Bad
    <3> QED
      BY <2>1, SmallestSubset
  <2>3. g[T] = IF T = {} THEN 0 ELSE w[Pick(T)] + g[T \ {Pick(T)}]
    <3>1. \A f : f = Step(g) => f[T] = IF T = {} THEN 0 ELSE w[Pick(T)] + g[T \ {Pick(T)}]
      BY <2>2
    <3>2. QED
      BY <1>4, <3>1
  <2>4. T # {} => g[T \ {Pick(T)}] = count[T \ {Pick(T)}]
    BY <1>1, <2>2
  <2>5. g[T] = count[T]
    <3> HIDE DEF Pick, count
    <3> QED
      BY <1>2, <2>2, <2>3, <2>4
  <2>6. QED
    BY <2>2, <2>5
<1>5. SumFunctionOnSet(w, S) = (CHOOSE g : g = Step(g))[S]
  BY DEF SumFunctionOnSet, FoldFunctionOnSet, MapThenFoldSet
<1>6. QED
  <2> DEFINE g == CHOOSE g : g = Step(g)
  <2>1. g = Step(g)
    <3> HIDE DEF Step, count
    <3> QED
      BY <1>3
  <2>2. g[S] = count[S]
    <3> HIDE DEF Step, count, g
    <3> QED
      BY <1>4, <2>1
  <2>3. QED
    BY <1>5, <2>2, UnitsAreFinite
LEMMA SumType ==
    ASSUME NEW S, IsFiniteSet(S), NEW w, \A x \in S : w[x] \in Nat
    PROVE  SumFunctionOnSet(w, S) \in Nat
BY SumIsCardinality, FS_CardinalityType

LEMMA SumOfNone == ASSUME NEW w PROVE SumFunctionOnSet(w, {}) = 0
<1>1. Units(w, {}) = {}
  BY DEF Units
<1>2. QED
  BY <1>1, SumIsCardinality, FS_EmptySet

\* Any element may be taken out first.
LEMMA SumOfElement ==
    ASSUME NEW S, IsFiniteSet(S), NEW w, \A x \in S : w[x] \in Nat, NEW x \in S
    PROVE  SumFunctionOnSet(w, S) = w[x] + SumFunctionOnSet(w, S \ {x})
<1>1. IsFiniteSet(S \ {x})
  BY FS_RemoveElement
<1>2. SumFunctionOnSet(w, S \ {x}) = Cardinality(Units(w, S \ {x})) /\ IsFiniteSet(Units(w, S \ {x}))
  BY <1>1, SumIsCardinality
<1>3. SumFunctionOnSet(w, S) = Cardinality(Units(w, S))
  BY SumIsCardinality
<1>4. QED
  BY <1>2, <1>3, UnitsOfElement

\* What is 0 does not count.
LEMMA SumsAlike ==
    ASSUME NEW S, IsFiniteSet(S), NEW w, \A x \in S : w[x] \in Nat,
           NEW T, IsFiniteSet(T), NEW v, \A x \in T : v[x] \in Nat,
           \A x \in S : w[x] # 0 => x \in T /\ v[x] = w[x],
           \A x \in T : v[x] # 0 => x \in S /\ v[x] = w[x]
    PROVE  SumFunctionOnSet(w, S) = SumFunctionOnSet(v, T)
<1>1. \A u \in Units(w, S) : u \in Units(v, T)
  BY DEF Units
<1>2. \A u \in Units(v, T) : u \in Units(w, S)
  BY DEF Units
<1>3. Units(w, S) = Units(v, T)
  BY <1>1, <1>2
<1>4. QED
  BY <1>3, SumIsCardinality

LEMMA SumOfMore ==
    ASSUME NEW T, IsFiniteSet(T), NEW S \in SUBSET T, NEW w, \A x \in T : w[x] \in Nat
    PROVE  SumFunctionOnSet(w, S) <= SumFunctionOnSet(w, T)
<1>1. IsFiniteSet(S)
  BY FS_Subset
<1>2. Units(w, S) \subseteq Units(w, T)
  BY DEF Units
<1>3. QED
  BY <1>1, <1>2, SumIsCardinality, FS_Subset

\* The names of what is summed do not matter.
LEMMA SumRenamed ==
    ASSUME NEW S, IsFiniteSet(S), NEW w, \A x \in S : w[x] \in Nat,
           NEW T, IsFiniteSet(T), NEW v, \A x \in T : v[x] \in Nat,
           NEW b \in [S -> T], \A x, y \in S : b[x] = b[y] => x = y,
           \A y \in T : \E x \in S : b[x] = y,
           \A x \in S : v[b[x]] = w[x]
    PROVE  SumFunctionOnSet(w, S) = SumFunctionOnSet(v, T)
<1> DEFINE f == [u \in Units(w, S) |-> <<b[u[1]], u[2]>>]
<1>1. f \in [Units(w, S) -> Units(v, T)]
  BY DEF Units
<1>2. \A t, u \in Units(w, S) : f[t] = f[u] => t = u
  BY DEF Units
<1>3. \A t \in Units(v, T) : \E u \in Units(w, S) : f[u] = t
  <2> SUFFICES ASSUME NEW t \in Units(v, T)
               PROVE  \E u \in Units(w, S) : f[u] = t
    OBVIOUS
  <2>1. PICK x \in S : b[x] = t[1]
    BY DEF Units
  <2>2. <<x, t[2]>> \in Units(w, S)
    BY <2>1 DEF Units
  <2>3. f[<<x, t[2]>>] = t
    BY <2>1, <2>2 DEF Units
  <2>4. QED
    BY <2>2, <2>3
<1>4. f \in Injection(Units(w, S), Units(v, T)) /\ f \in Surjection(Units(w, S), Units(v, T))
  <2> HIDE DEF f
  <2> QED
    BY <1>1, <1>2, <1>3 DEF Injection, Surjection, IsInjective
<1>5. Cardinality(Units(w, S)) = Cardinality(Units(v, T))
  <2> HIDE DEF f
  <2> QED
    BY <1>4, SumIsCardinality, FS_Surjection
<1>6. QED
  BY <1>5, SumIsCardinality

-----------------------------------------------------------------------------
(* Paths.                                                                  *)

LEMMA PrefixIs ==
    ASSUME NEW A, NEW s \in Seq(A), NEW t \in Seq(A)
    PROVE  IsPrefix(s, t) <=> Len(s) <= Len(t) /\ \A i \in 1 .. Len(s) : s[i] = t[i]
<1>1. CASE Len(s) <= Len(t)
  <2>1. SubSeq(s, 1, Len(s)) = [i \in 1 .. Len(s) |-> s[i]]
    OBVIOUS
  <2>2. SubSeq(t, 1, Len(s)) = [i \in 1 .. Len(s) |-> t[i]]
    BY <1>1
  <2>3. QED
    BY <1>1, <2>1, <2>2 DEF IsPrefix
<1>2. CASE ~(Len(s) <= Len(t))
  BY <1>2 DEF IsPrefix
<1>3. QED
  BY <1>1, <1>2

LEMMA FrontIs ==
    ASSUME NEW A, NEW s \in Seq(A), Len(s) > 0
    PROVE  /\ Front(s) \in Seq(A) /\ Len(Front(s)) = Len(s) - 1
           /\ \A i \in 1 .. Len(s) - 1 : Front(s)[i] = s[i]
<1>1. Front(s) = [i \in 1 .. Len(s) - 1 |-> s[i]]
  BY DEF Front
<1>2. \A i \in 1 .. Len(s) - 1 : s[i] \in A
  OBVIOUS
<1>3. Len(s) - 1 \in Nat
  OBVIOUS
<1>4. QED
  BY <1>1, <1>2, <1>3

\* What is above a path and is not the path is above its parent.
LEMMA AboveParent ==
    ASSUME NEW A, NEW s \in Seq(A), Len(s) > 0, NEW d \in Seq(A)
    PROVE  /\ IsPrefix(d, Front(s)) => IsPrefix(d, s)
           /\ IsPrefix(d, s) => d = s \/ IsPrefix(d, Front(s))
<1>1. /\ Front(s) \in Seq(A) /\ Len(Front(s)) = Len(s) - 1
      /\ \A i \in 1 .. Len(s) - 1 : Front(s)[i] = s[i]
  BY FrontIs
<1>2. IsPrefix(d, s) <=> Len(d) <= Len(s) /\ \A i \in 1 .. Len(d) : d[i] = s[i]
  BY PrefixIs
<1>3. IsPrefix(d, Front(s)) <=> Len(d) <= Len(s) - 1 /\ \A i \in 1 .. Len(d) : d[i] = Front(s)[i]
  BY <1>1, PrefixIs
<1>4. CASE Len(d) = Len(s)
  <2>1. IsPrefix(d, s) => d = s
    BY <1>2, <1>4
  <2>2. QED
    BY <1>3, <1>4, <2>1
<1>5. CASE Len(d) # Len(s)
  BY <1>1, <1>2, <1>3, <1>5
<1>6. QED
  BY <1>4, <1>5

-----------------------------------------------------------------------------
(* The rows of the treemap.                                                *)

Paths == Seq(STRING) \ {<<>>}
Rows == Paths \X Nat

RowSize(rows) == [n \in DOMAIN rows |-> rows[n][2]]
RowsUnder(rows, d) == {n \in DOMAIN rows : UpTo(rows[n][1], d)}
RowSum(rows, d) == SumFunctionOnSet(RowSize(rows), RowsUnder(rows, d))
Distinct(rows) == \A n, m \in DOMAIN rows : rows[n][1] = rows[m][1] => n = m

LEMMA RowsAreFinite ==
    ASSUME NEW rows \in Seq(Rows), NEW d
    PROVE  /\ DOMAIN rows = 1 .. Len(rows)
           /\ IsFiniteSet(RowsUnder(rows, d))
           /\ \A n \in DOMAIN rows : RowSize(rows)[n] = rows[n][2] /\ rows[n][2] \in Nat
                                     /\ rows[n][1] \in Paths
<1>1. DOMAIN rows = 1 .. Len(rows)
  OBVIOUS
<1>2. \A n \in DOMAIN rows : rows[n] \in Rows
  OBVIOUS
<1>3. IsFiniteSet(1 .. Len(rows))
  BY FS_Interval
<1>4. IsFiniteSet(RowsUnder(rows, d))
  BY <1>1, <1>3, FS_Subset DEF RowsUnder
<1>5. QED
  BY <1>1, <1>2, <1>4 DEF Rows, RowSize

LEMMA AddToIs ==
    ASSUME NEW rows \in Seq(Rows), NEW p \in Paths, NEW size \in Nat
    PROVE  /\ AddTo(rows, p, size) \in Seq(Rows)
           /\ Len(AddTo(rows, p, size)) = Len(rows)
           /\ \A n \in 1 .. Len(rows) :
                 /\ AddTo(rows, p, size)[n][1] = rows[n][1]
                 /\ AddTo(rows, p, size)[n][2] = IF rows[n][1] = p THEN rows[n][2] + size ELSE rows[n][2]
<1>1. \A n \in 1 .. Len(rows) : rows[n] \in Rows /\ rows[n][1] \in Paths /\ rows[n][2] \in Nat
  BY DEF Rows
<1>2. \A n \in 1 .. Len(rows) :
        (IF rows[n][1] = p THEN <<p, rows[n][2] + size>> ELSE rows[n]) \in Rows
  BY <1>1 DEF Rows
<1>3. AddTo(rows, p, size) =
        [n \in 1 .. Len(rows) |-> IF rows[n][1] = p THEN <<p, rows[n][2] + size>> ELSE rows[n]]
  BY DEF AddTo
<1>4. QED
  BY <1>1, <1>2, <1>3

LEMMA RemoveAtIs ==
    ASSUME NEW A, NEW s \in Seq(A), NEW c \in 1 .. Len(s)
    PROVE  /\ RemoveAt(s, c) \in Seq(A)
           /\ Len(RemoveAt(s, c)) = Len(s) - 1
           /\ \A n \in 1 .. Len(s) - 1 : RemoveAt(s, c)[n] = IF n < c THEN s[n] ELSE s[n + 1]
<1> DEFINE before == [i \in 1 .. c - 1 |-> s[i]]
           behind == [i \in 1 .. Len(s) - c |-> s[c + i]]
<1>1. \A i \in 1 .. Len(s) : s[i] \in A
  OBVIOUS
<1>2. SubSeq(s, 1, c - 1) = before
  OBVIOUS
<1>3. SubSeq(s, c + 1, Len(s)) = behind
  OBVIOUS
<1>4. before \in Seq(A) /\ Len(before) = c - 1
  <2>1. c - 1 \in Nat
    OBVIOUS
  <2>2. QED
    BY <1>1, <2>1
<1>5. behind \in Seq(A) /\ Len(behind) = Len(s) - c
  <2>1. Len(s) - c \in Nat
    OBVIOUS
  <2>2. QED
    BY <1>1, <2>1
<1>6. RemoveAt(s, c) = before \o behind
  BY <1>2, <1>3 DEF RemoveAt
<1>7. \A n \in 1 .. Len(s) - 1 : (before \o behind)[n] = IF n < c THEN before[n] ELSE behind[n - (c - 1)]
  <2> HIDE DEF before, behind
  <2> QED
    BY <1>4, <1>5
<1>8. before \o behind \in Seq(A) /\ Len(before \o behind) = Len(s) - 1
  <2> HIDE DEF before, behind
  <2> QED
    BY <1>4, <1>5
<1>9. ASSUME NEW n \in 1 .. Len(s) - 1
      PROVE  RemoveAt(s, c)[n] = IF n < c THEN s[n] ELSE s[n + 1]
  <2>1. n < c => before[n] = s[n]
    <3>1. n < c => n \in 1 .. c - 1
      OBVIOUS
    <3>2. QED
      BY <3>1
  <2>2. ~(n < c) => behind[n - (c - 1)] = s[n + 1]
    <3>1. ~(n < c) => n - (c - 1) \in 1 .. Len(s) - c /\ c + (n - (c - 1)) = n + 1
      OBVIOUS
    <3>2. QED
      BY <3>1
  <2>3. RemoveAt(s, c)[n] = IF n < c THEN before[n] ELSE behind[n - (c - 1)]
    BY <1>6, <1>7
  <2> HIDE DEF before, behind
  <2>4. QED
    BY <2>1, <2>2, <2>3
<1>10. RemoveAt(s, c) \in Seq(A) /\ Len(RemoveAt(s, c)) = Len(s) - 1
  BY <1>6, <1>8
<1>11. QED
  BY <1>9, <1>10

\* A row that is merged into that of its parent: what is within a directory stays the
\* same, or loses the row if it is the directory itself.
LEMMA MergeKeeps ==
    ASSUME NEW rows \in Seq(Rows), Distinct(rows),
           NEW c \in 1 .. Len(rows), Len(rows[c][1]) > 1,
           NEW k \in 1 .. Len(rows), rows[k][1] = Parent(rows[c][1]),
           NEW new, new = RemoveAt(AddTo(rows, Parent(rows[c][1]), rows[c][2]), c)
    PROVE  /\ new \in Seq(Rows) /\ Len(new) = Len(rows) - 1
           /\ Distinct(new)
           /\ PathsOf(new) \subseteq PathsOf(rows)
           /\ \A d \in Seq(STRING) : /\ RowSum(new, d) <= RowSum(rows, d)
                                     /\ d # rows[c][1] => RowSum(new, d) = RowSum(rows, d)
<1> DEFINE path == rows[c][1]
           parent == Parent(path)
           added == AddTo(rows, parent, rows[c][2])
<1>1. /\ DOMAIN rows = 1 .. Len(rows)
      /\ \A n \in 1 .. Len(rows) : rows[n][1] \in Paths /\ rows[n][2] \in Nat
  BY RowsAreFinite
<1>2. path \in Seq(STRING) /\ parent \in Paths
  BY <1>1 DEF Paths
<1>3. /\ added \in Seq(Rows) /\ Len(added) = Len(rows) /\ DOMAIN added = 1 .. Len(rows)
      /\ \A n \in 1 .. Len(rows) :
            /\ added[n][1] = rows[n][1]
            /\ added[n][2] = IF rows[n][1] = parent THEN rows[n][2] + rows[c][2] ELSE rows[n][2]
  <2> HIDE DEF path, parent
  <2>1. rows[c][2] \in Nat
    BY <1>1
  <2>2. QED
    BY <1>2, <2>1, AddToIs, RowsAreFinite
<1>4. /\ new \in Seq(Rows) /\ Len(new) = Len(rows) - 1 /\ DOMAIN new = 1 .. Len(rows) - 1
      /\ \A n \in 1 .. Len(rows) - 1 : new[n] = IF n < c THEN added[n] ELSE added[n + 1]
  <2> HIDE DEF added
  <2>1. new = RemoveAt(added, c)
    BY DEF added
  <2>2. c \in 1 .. Len(added)
    BY <1>3
  <2>3. /\ RemoveAt(added, c) \in Seq(Rows) /\ Len(RemoveAt(added, c)) = Len(added) - 1
        /\ \A n \in 1 .. Len(added) - 1 :
              RemoveAt(added, c)[n] = IF n < c THEN added[n] ELSE added[n + 1]
    <3>1. added \in Seq(Rows)
      BY <1>3
    <3>2. QED
      BY <2>2, <3>1, RemoveAtIs
  <2>4. DOMAIN RemoveAt(added, c) = 1 .. Len(added) - 1
    BY <2>3
  <2>5. Len(added) = Len(rows)
    BY <1>3
  <2>6. QED
    BY <2>1, <2>3, <2>4, <2>5
<1> HIDE DEF added, parent, path
<1>5. \A n \in 1 .. Len(rows) - 1 : new[n][1] = IF n < c THEN rows[n][1] ELSE rows[n + 1][1]
  <2> SUFFICES ASSUME NEW n \in 1 .. Len(rows) - 1
               PROVE  new[n][1] = IF n < c THEN rows[n][1] ELSE rows[n + 1][1]
    OBVIOUS
  <2>1. n \in 1 .. Len(rows) /\ n + 1 \in 1 .. Len(rows)
    OBVIOUS
  <2>2. added[n][1] = rows[n][1] /\ added[n + 1][1] = rows[n + 1][1]
    BY <1>3, <2>1
  <2>3. new[n] = IF n < c THEN added[n] ELSE added[n + 1]
    BY <1>4
  <2>4. QED
    BY <2>2, <2>3
<1>6. Distinct(new)
  <2> SUFFICES ASSUME NEW n \in 1 .. Len(rows) - 1, NEW m \in 1 .. Len(rows) - 1,
                      new[n][1] = new[m][1]
               PROVE  n = m
    BY <1>4 DEF Distinct
  <2> DEFINE at(i) == IF i < c THEN i ELSE i + 1
  <2>1. \A i, j \in 1 .. Len(rows) : rows[i][1] = rows[j][1] => i = j
    BY <1>1 DEF Distinct
  <2>2. at(n) \in 1 .. Len(rows) /\ at(m) \in 1 .. Len(rows)
    OBVIOUS
  <2>3. new[n][1] = rows[at(n)][1] /\ new[m][1] = rows[at(m)][1]
    BY <1>5
  <2>4. at(n) = at(m)
    BY <2>1, <2>2, <2>3
  <2>5. QED
    BY <2>4
<1>7. PathsOf(new) \subseteq PathsOf(rows)
  <2> SUFFICES ASSUME NEW n \in 1 .. Len(rows) - 1
               PROVE  new[n][1] \in PathsOf(rows)
    BY <1>4 DEF PathsOf
  <2>1. n \in DOMAIN rows /\ n + 1 \in DOMAIN rows
    BY <1>1
  <2>2. QED
    BY <1>5, <2>1 DEF PathsOf
<1>8. ASSUME NEW d \in Seq(STRING)
      PROVE  /\ RowSum(new, d) <= RowSum(rows, d)
             /\ d # path => RowSum(new, d) = RowSum(rows, d)
  <2> DEFINE w == RowSize(rows)
             wa == RowSize(added)
             all == RowsUnder(rows, d)
             rest == all \ {c}
             b == [n \in rest |-> IF n < c THEN n ELSE n - 1]
  <2>1. /\ IsFiniteSet(all) /\ IsFiniteSet(rest) /\ IsFiniteSet(RowsUnder(new, d))
        /\ all \subseteq 1 .. Len(rows)
    <3>1. IsFiniteSet(all)
      BY RowsAreFinite
    <3>2. IsFiniteSet(rest)
      BY <3>1, FS_RemoveElement
    <3>3. IsFiniteSet(RowsUnder(new, d))
      BY <1>4, RowsAreFinite
    <3>4. all \subseteq 1 .. Len(rows)
      BY <1>1 DEF RowsUnder
    <3>5. QED
      BY <3>1, <3>2, <3>3, <3>4
  <2>2. /\ \A n \in 1 .. Len(rows) : w[n] = rows[n][2] /\ w[n] \in Nat
        /\ \A n \in 1 .. Len(rows) : wa[n] = added[n][2] /\ wa[n] \in Nat
        /\ \A n \in 1 .. Len(rows) - 1 : RowSize(new)[n] = new[n][2] /\ RowSize(new)[n] \in Nat
    BY <1>1, <1>3, <1>4, RowsAreFinite, ZenonT(60)
  <2>3. RowSum(new, d) = SumFunctionOnSet(wa, rest)
    <3>1. RowsUnder(new, d) = {n \in 1 .. Len(rows) - 1 : UpTo(new[n][1], d)}
      BY <1>4 DEF RowsUnder
    <3>2. rest = {n \in 1 .. Len(rows) : UpTo(rows[n][1], d)} \ {c}
      BY <1>1 DEF RowsUnder
    <3>3. b \in [rest -> RowsUnder(new, d)]
      <4> SUFFICES ASSUME NEW n \in rest
                   PROVE  (IF n < c THEN n ELSE n - 1) \in RowsUnder(new, d)
        OBVIOUS
      <4>1. CASE n < c
        BY <1>5, <3>1, <3>2, <4>1
      <4>2. CASE n > c
        BY <1>5, <3>1, <3>2, <4>2
      <4>3. QED
        BY <3>2, <4>1, <4>2
    <3>4. \A x, y \in rest : b[x] = b[y] => x = y
      BY <3>2
    <3>5. \A y \in RowsUnder(new, d) : \E x \in rest : b[x] = y
      <4> SUFFICES ASSUME NEW y \in RowsUnder(new, d)
                   PROVE  \E x \in rest : b[x] = y
        OBVIOUS
      <4>1. CASE y < c
        BY <1>5, <3>1, <3>2, <4>1
      <4>2. CASE y >= c
        <5>1. y + 1 \in rest
          <6>1. y \in 1 .. Len(rows) - 1 /\ UpTo(new[y][1], d)
            BY <3>1
          <6>2. new[y][1] = rows[y + 1][1]
            BY <1>5, <4>2, <6>1
          <6>3. y + 1 \in 1 .. Len(rows) /\ y + 1 # c
            BY <4>2, <6>1
          <6>4. QED
            BY <3>2, <6>1, <6>2, <6>3
        <5>2. b[y + 1] = y
          BY <3>1, <4>2, <5>1
        <5>3. QED
          BY <5>1, <5>2
      <4>3. QED
        BY <3>1, <4>1, <4>2
    <3>6. \A x \in rest : RowSize(new)[b[x]] = wa[x]
      <4> SUFFICES ASSUME NEW x \in rest
                   PROVE  RowSize(new)[b[x]] = wa[x]
        OBVIOUS
      <4>1. x \in 1 .. Len(rows) /\ x # c
        BY <3>2
      <4>2. b[x] = IF x < c THEN x ELSE x - 1
        OBVIOUS
      <4> HIDE DEF w, wa, b, rest, all
      <4>3. new[b[x]] = added[x] /\ b[x] \in 1 .. Len(rows) - 1
        BY <1>4, <4>1, <4>2
      <4>4. QED
        BY <2>2, <4>1, <4>3
    <3>7. QED
      <4> HIDE DEF b
      <4>1. /\ \A n \in rest : wa[n] \in Nat
            /\ \A n \in RowsUnder(new, d) : RowSize(new)[n] \in Nat
        BY <2>1, <2>2, <3>1
      <4> DEFINE under == RowsUnder(new, d)
                 size == RowSize(new)
      <4>2. /\ IsFiniteSet(rest) /\ IsFiniteSet(under)
            /\ b \in [rest -> under]
            /\ \A x, y \in rest : b[x] = b[y] => x = y
            /\ \A y \in under : \E x \in rest : b[x] = y
            /\ \A x \in rest : size[b[x]] = wa[x]
            /\ \A n \in rest : wa[n] \in Nat
            /\ \A n \in under : size[n] \in Nat
        BY <2>1, <3>3, <3>4, <3>5, <3>6, <4>1
      <4> HIDE DEF wa, rest, under, size
      <4>3. SumFunctionOnSet(wa, rest) = SumFunctionOnSet(size, under)
        BY <4>2, SumRenamed
      <4>4. QED
        BY <4>3 DEF RowSum, under, size
  <2>4. /\ UpTo(parent, d) => UpTo(path, d)
        /\ UpTo(path, d) /\ d # path => UpTo(parent, d)
    BY <1>2, AboveParent DEF UpTo, Parent, path, parent
  <2>5. /\ k \in all <=> UpTo(parent, d)
        /\ c \in all <=> UpTo(path, d)
    BY <1>1 DEF RowsUnder, parent, path
  <2>6. /\ k # c
        /\ \A n \in 1 .. Len(rows) : rows[n][1] = parent <=> n = k
    <3>1. rows[k][1] = parent
      BY DEF parent, path
    <3>2. \A n \in 1 .. Len(rows) : rows[n][1] = parent => n = k
      BY <1>1, <3>1 DEF Distinct
    <3>3. parent # path
      BY <1>2, FrontIs DEF parent, path, Parent
    <3>4. QED
      BY <3>1, <3>2, <3>3 DEF path
  <2>7. \A n \in 1 .. Len(rows) : wa[n] = IF n = k THEN w[n] + w[c] ELSE w[n]
    <3> HIDE DEF w, wa
    <3> QED
      BY <1>3, <2>2, <2>6
  <2> HIDE DEF w, wa, b, all
  <2>8. RowSum(rows, d) = SumFunctionOnSet(w, all)
    BY DEF RowSum, w, all
  <2>9. CASE k \in all
    <3> DEFINE others == rest \ {k}
    <3>1. c \in all
      BY <2>4, <2>5, <2>9
    <3>2. SumFunctionOnSet(w, all) = w[c] + SumFunctionOnSet(w, rest)
      BY <2>1, <2>2, <3>1, SumOfElement
    <3>3. k \in rest
      BY <2>6, <2>9
    <3>4. SumFunctionOnSet(w, rest) = w[k] + SumFunctionOnSet(w, others)
      BY <2>1, <2>2, <3>3, SumOfElement
    <3>5. SumFunctionOnSet(wa, rest) = wa[k] + SumFunctionOnSet(wa, others)
      BY <2>1, <2>2, <3>3, SumOfElement
    <3>6. IsFiniteSet(others)
      BY <2>1, FS_RemoveElement
    <3>7. SumFunctionOnSet(wa, others) = SumFunctionOnSet(w, others)
      <4>1. \A n \in others : wa[n] = w[n] /\ w[n] \in Nat
        BY <2>1, <2>2, <2>7
      <4> HIDE DEF others
      <4>2. QED
        BY <3>6, <4>1, SumsAlike
    <3>8. SumFunctionOnSet(w, others) \in Nat
      BY <2>1, <2>2, <3>6, SumType
    <3>9. wa[k] = w[k] + w[c] /\ w[k] \in Nat /\ w[c] \in Nat
      BY <2>2, <2>7
    <3> HIDE DEF others
    <3>10. SumFunctionOnSet(wa, rest) = SumFunctionOnSet(w, all)
      BY <3>2, <3>4, <3>5, <3>7, <3>8, <3>9
    <3>11. QED
      BY <2>3, <2>8, <3>10, <3>8, <3>9, <3>2, <3>4
  <2>10. CASE k \notin all
    <3>1. SumFunctionOnSet(wa, rest) = SumFunctionOnSet(w, rest)
      <4>1. \A n \in rest : wa[n] = w[n] /\ w[n] \in Nat
        BY <2>1, <2>2, <2>7, <2>10
      <4> HIDE DEF rest
      <4>2. QED
        BY <2>1, <4>1, SumsAlike
    <3>2. SumFunctionOnSet(w, rest) <= SumFunctionOnSet(w, all)
      BY <2>1, <2>2, SumOfMore
    <3>3. d # path => rest = all
      BY <2>4, <2>5, <2>10
    <3>4. QED
      <4> HIDE DEF rest
      <4> QED
        BY <2>3, <2>8, <3>1, <3>2, <3>3
  <2>11. QED
    BY <2>9, <2>10
<1>9. QED
  BY <1>4, <1>6, <1>7, <1>8 DEF path

\* An order of a finite set has each of its elements once.
LEMMA OrderIs ==
    ASSUME NEW S, IsFiniteSet(S), NEW order \in SetToSeqs(S)
    PROVE  /\ order \in Seq(S) /\ DOMAIN order = 1 .. Cardinality(S)
           /\ \A i, j \in DOMAIN order : order[i] = order[j] => i = j
           /\ \A i \in DOMAIN order : order[i] \in S
           /\ \A x \in S : \E i \in DOMAIN order : order[i] = x
<1>1. Cardinality(S) \in Nat
  BY FS_CardinalityType
<1>2. /\ order \in [1 .. Cardinality(S) -> S]
      /\ \A i, j \in 1 .. Cardinality(S) : i # j => order[i] # order[j]
  BY DEF SetToSeqs
<1>3. order \in Injection(1 .. Cardinality(S), S)
  BY <1>2 DEF Injection, IsInjective
<1>4. Cardinality(1 .. Cardinality(S)) = Cardinality(S)
  BY <1>1, FS_Interval
<1>5. order \in Surjection(1 .. Cardinality(S), S)
  BY <1>3, <1>4, FS_Injection
<1>6. \A x \in S : \E i \in 1 .. Cardinality(S) : order[i] = x
  BY <1>5 DEF Surjection
<1>7. QED
  BY <1>1, <1>2, <1>6

\* A row for each file.
LEMMA FlatRows ==
    ASSUME NEW files \in Corpora, NEW order \in SetToSeqs(DOMAIN files),
           NEW rows, rows = [n \in DOMAIN order |-> <<order[n], files[order[n]].size>>]
    PROVE  /\ rows \in Seq(Rows)
           /\ Distinct(rows)
           /\ \A d : RowSum(rows, d) = SumFunctionOnSet([p \in DOMAIN files |-> files[p].size],
                                                        {p \in DOMAIN files : UpTo(p, d)})
<1>1. /\ IsFiniteSet(DOMAIN files) /\ DOMAIN files \subseteq Paths
      /\ \A p \in DOMAIN files : files[p].size \in Nat
  BY StatsAssumption DEF Paths
<1>2. /\ order \in Seq(DOMAIN files) /\ DOMAIN order = 1 .. Cardinality(DOMAIN files)
      /\ \A i, j \in DOMAIN order : order[i] = order[j] => i = j
      /\ \A i \in DOMAIN order : order[i] \in DOMAIN files
      /\ \A x \in DOMAIN files : \E i \in DOMAIN order : order[i] = x
  BY <1>1, OrderIs
<1>3. \A n \in DOMAIN order : /\ order[n] \in DOMAIN files
                              /\ <<order[n], files[order[n]].size>> \in Rows
  <2>1. \A n \in DOMAIN order : order[n] \in DOMAIN files
    BY <1>2
  <2>2. \A p \in DOMAIN files : <<p, files[p].size>> \in Rows
    BY <1>1 DEF Rows
  <2>3. QED
    BY <2>1, <2>2
<1>4. rows \in Seq(Rows) /\ DOMAIN rows = DOMAIN order
  <2>1. PICK last \in Nat : last = Cardinality(DOMAIN files)
    BY <1>1, FS_CardinalityType
  <2>2. DOMAIN order = 1 .. last
    BY <1>2, <2>1
  <2>3. rows \in [1 .. last -> Rows]
    BY <1>3, <2>2
  <2>4. QED
    BY <2>2, <2>3
<1>5. Distinct(rows)
  BY <1>2, <1>4 DEF Distinct
<1>6. ASSUME NEW d
      PROVE  RowSum(rows, d) = SumFunctionOnSet([p \in DOMAIN files |-> files[p].size],
                                                {p \in DOMAIN files : UpTo(p, d)})
  <2> DEFINE w == RowSize(rows)
             v == [p \in DOMAIN files |-> files[p].size]
             S == RowsUnder(rows, d)
             T == {p \in DOMAIN files : UpTo(p, d)}
             b == [n \in S |-> order[n]]
  <2>1. IsFiniteSet(S) /\ S \subseteq DOMAIN order /\ (\A n \in S : w[n] \in Nat)
    BY <1>4, RowsAreFinite DEF RowsUnder
  <2>2. IsFiniteSet(T) /\ (\A p \in T : v[p] \in Nat)
    BY <1>1, FS_Subset
  <2>3. \A n \in DOMAIN order : rows[n][1] = order[n] /\ w[n] = files[order[n]].size
    BY <1>4 DEF RowSize
  <2>4. \A n \in DOMAIN order : n \in S <=> order[n] \in T
    BY <1>3, <1>4, <2>3 DEF RowsUnder
  <2> HIDE DEF w, S
  <2>5. b \in [S -> T]
    BY <2>1, <2>4
  <2>6. \A x, y \in S : b[x] = b[y] => x = y
    BY <1>2, <2>1
  <2>7. \A y \in T : \E x \in S : b[x] = y
    BY <1>2, <2>4
  <2>8. \A x \in S : v[b[x]] = w[x]
    BY <1>3, <2>1, <2>3
  <2> HIDE DEF b, v, T
  <2>9. SumFunctionOnSet(w, S) = SumFunctionOnSet(v, T)
    BY <2>1, <2>2, <2>5, <2>6, <2>7, <2>8, SumRenamed
  <2>10. QED
    BY <2>9 DEF RowSum, w, S, v, T
<1>7. QED
  BY <1>4, <1>5, <1>6

\* Rows of size 0 for other paths.
LEMMA EmptyRowsAdded ==
    ASSUME NEW rows \in Seq(Rows), Distinct(rows),
           NEW more \in Seq(Rows), Distinct(more),
           \A n \in DOMAIN more : more[n][2] = 0 /\ more[n][1] \notin PathsOf(rows)
    PROVE  /\ rows \o more \in Seq(Rows)
           /\ Distinct(rows \o more)
           /\ \A d : RowSum(rows \o more, d) = RowSum(rows, d)
<1> DEFINE new == rows \o more
<1>1. /\ new \in Seq(Rows) /\ DOMAIN new = 1 .. Len(rows) + Len(more)
      /\ DOMAIN rows = 1 .. Len(rows) /\ DOMAIN more = 1 .. Len(more)
  OBVIOUS
<1>2. \A n \in 1 .. Len(rows) + Len(more) :
        new[n] = IF n <= Len(rows) THEN rows[n] ELSE more[n - Len(rows)]
  OBVIOUS
<1> HIDE DEF new
<1>3. \A n \in DOMAIN new : n > Len(rows) =>
        n - Len(rows) \in DOMAIN more /\ new[n][2] = 0 /\ new[n][1] \notin PathsOf(rows)
  BY <1>1, <1>2
<1>4. \A n \in DOMAIN rows : new[n] = rows[n] /\ n \in DOMAIN new /\ new[n][1] \in PathsOf(rows)
  BY <1>1, <1>2 DEF PathsOf
<1>5. Distinct(new)
  <2> SUFFICES ASSUME NEW n \in DOMAIN new, NEW m \in DOMAIN new, new[n][1] = new[m][1]
               PROVE  n = m
    BY DEF Distinct
  <2>1. CASE n <= Len(rows) /\ m <= Len(rows)
    BY <1>1, <1>4, <2>1 DEF Distinct
  <2>2. CASE n > Len(rows) /\ m > Len(rows)
    <3>1. new[n] = more[n - Len(rows)] /\ new[m] = more[m - Len(rows)]
      BY <1>1, <1>2, <2>2
    <3>2. n - Len(rows) = m - Len(rows)
      BY <1>3, <2>2, <3>1 DEF Distinct
    <3>3. QED
      BY <1>1, <3>2
  <2>3. CASE n <= Len(rows) /\ m > Len(rows)
    BY <1>1, <1>3, <1>4, <2>3
  <2>4. CASE n > Len(rows) /\ m <= Len(rows)
    BY <1>1, <1>3, <1>4, <2>4
  <2>5. QED
    BY <1>1, <2>1, <2>2, <2>3, <2>4
<1>6. ASSUME NEW d
      PROVE  RowSum(new, d) = RowSum(rows, d)
  <2> DEFINE w == RowSize(rows)
             v == RowSize(new)
             S == RowsUnder(rows, d)
             T == RowsUnder(new, d)
  <2>1. IsFiniteSet(S) /\ (\A n \in S : w[n] \in Nat) /\ IsFiniteSet(T) /\ (\A n \in T : v[n] \in Nat)
    <3>1. S \subseteq DOMAIN rows /\ T \subseteq DOMAIN new
      BY DEF RowsUnder
    <3>2. QED
      BY <1>1, <3>1, RowsAreFinite
  <2>2. \A n \in S : n \in T /\ v[n] = w[n]
    BY <1>4 DEF RowsUnder, RowSize
  <2>3. \A n \in T : v[n] # 0 => n \in S /\ v[n] = w[n]
    <3> SUFFICES ASSUME NEW n \in T, v[n] # 0
                 PROVE  n \in S /\ v[n] = w[n]
      OBVIOUS
    <3>1. n \in DOMAIN new /\ v[n] = new[n][2]
      BY DEF RowsUnder, RowSize
    <3>2. n \in DOMAIN rows
      BY <1>1, <1>3, <3>1
    <3>3. QED
      BY <1>4, <3>2 DEF RowsUnder, RowSize
  <2> HIDE DEF w, v, S, T
  <2>4. SumFunctionOnSet(w, S) = SumFunctionOnSet(v, T)
    BY <2>1, <2>2, <2>3, SumsAlike
  <2>5. QED
    BY <2>4 DEF RowSum, w, v, S, T
<1>7. QED
  BY <1>1, <1>5, <1>6 DEF new

-----------------------------------------------------------------------------
(* The statistics: the inductive invariant.                                *)

StatsTypes ==
    /\ corpus \in Corpora
    /\ tm \in Seq(Rows)
    /\ phase \in Phases /\ killed \in 0 .. MaxScanKills
    /\ cursor \in 1 .. Len(tm) + 1 /\ merged \in Nat
    /\ phase \in {"delete", "aggregate", "flat"} => cursor = 1
    /\ DOMAIN stats = Tables

\* The rows have the sizes of the files, but for what was merged out of a directory.
Treemap ==
    phase \in {"parents", "merge", "store", "done"} =>
        /\ Distinct(tm)
        /\ \A d \in Seq(STRING) : /\ RowSum(tm, d) <= FilesWithin(d)
                                  /\ ~HasParent(d) => RowSum(tm, d) = FilesWithin(d)

StatsIInv == StatsTypes /\ Treemap

LEMMA MissingParents ==
    ASSUME StatsTypes, NEW missing,
           missing = {Parent(tm[n][1]) : n \in {m \in DOMAIN tm : Small(tm[m]) /\ HasParent(tm[m][1])}}
                     \ PathsOf(tm)
    PROVE  IsFiniteSet(missing) /\ missing \subseteq Paths
<1> DEFINE parent == [n \in DOMAIN tm |-> Parent(tm[n][1])]
           parents == {parent[n] : n \in DOMAIN tm}
<1>1. IsFiniteSet(DOMAIN tm) /\ \A n \in DOMAIN tm : tm[n][1] \in Paths
  <2>1. DOMAIN tm = 1 .. Len(tm) /\ \A n \in DOMAIN tm : tm[n][1] \in Paths
    BY RowsAreFinite DEF StatsTypes
  <2>2. QED
    BY <2>1, FS_Interval DEF StatsTypes
<1>2. parent \in Surjection(DOMAIN tm, parents)
  BY DEF Surjection
<1>3. IsFiniteSet(parents)
  <2> HIDE DEF parent, parents
  <2> QED
    BY <1>1, <1>2, FS_Surjection
<1>4. missing \subseteq parents
  OBVIOUS
<1>5. IsFiniteSet(missing)
  <2> HIDE DEF parents
  <2> QED
    BY <1>3, <1>4, FS_Subset
<1>6. ASSUME NEW n \in DOMAIN tm, HasParent(tm[n][1])
      PROVE  Parent(tm[n][1]) \in Paths
  <2>1. tm[n][1] \in Seq(STRING) /\ Len(tm[n][1]) > 1
    BY <1>1, <1>6 DEF Paths, HasParent
  <2>2. Parent(tm[n][1]) \in Seq(STRING) /\ Len(Parent(tm[n][1])) > 0
    BY <2>1, FrontIs DEF Parent
  <2>3. QED
    BY <2>2 DEF Paths
<1>7. QED
  BY <1>5, <1>6

LEMMA SumsAreNatural ==
    /\ \A rows \in Seq(Rows) : \A d : RowSum(rows, d) \in Nat
    /\ corpus \in Corpora => \A d : FilesWithin(d) \in Nat
<1>1. ASSUME NEW rows \in Seq(Rows), NEW d
      PROVE  RowSum(rows, d) \in Nat
  <2>1. IsFiniteSet(RowsUnder(rows, d)) /\ \A n \in RowsUnder(rows, d) : RowSize(rows)[n] \in Nat
    BY RowsAreFinite DEF RowsUnder
  <2>2. QED
    BY <2>1, SumType DEF RowSum
<1>2. ASSUME corpus \in Corpora, NEW d
      PROVE  FilesWithin(d) \in Nat
  <2> DEFINE w == [p \in DOMAIN corpus |-> corpus[p].size]
             S == {p \in DOMAIN corpus : UpTo(p, d)}
  <2>1. IsFiniteSet(DOMAIN corpus) /\ \A p \in DOMAIN corpus : corpus[p].size \in Nat
    BY <1>2, StatsAssumption
  <2>2. IsFiniteSet(S) /\ \A p \in S : w[p] \in Nat
    BY <2>1, FS_Subset
  <2> HIDE DEF w, S
  <2>3. SumFunctionOnSet(w, S) \in Nat
    BY <2>2, SumType
  <2>4. QED
    BY <2>3 DEF FilesWithin, w, S
<1>3. QED
  BY <1>1, <1>2

LEMMA StatsStep == StatsIInv /\ [StatsNext]_statsVars => StatsIInv'
<1> SUFFICES ASSUME StatsIInv, [StatsNext]_statsVars
             PROVE  StatsIInv'
  OBVIOUS
<1>1. CASE DeleteStats
  BY <1>1 DEF DeleteStats, StatsIInv, StatsTypes, Treemap, Phases, NoStats
<1>2. CASE Aggregate
  BY <1>2 DEF Aggregate, StatsIInv, StatsTypes, Treemap, Phases
<1>3. CASE FlatMap
  <2>1. PICK order \in SetToSeqs(DOMAIN corpus) :
          tm' = [n \in DOMAIN order |-> <<order[n], corpus[order[n]].size>>]
    BY <1>3 DEF FlatMap
  <2>2. /\ tm' \in Seq(Rows) /\ Distinct(tm')
        /\ \A d : RowSum(tm', d) = FilesWithin(d)
    BY <2>1, FlatRows DEF StatsIInv, StatsTypes, FilesWithin
  <2>3. \A d : FilesWithin(d)' = FilesWithin(d) /\ FilesWithin(d) = RowSum(tm', d)
    BY <1>3, <2>2 DEF FlatMap, FilesWithin
  <2>4. \A d : RowSum(tm', d) <= RowSum(tm', d)
    <3> SUFFICES ASSUME NEW d
                 PROVE  RowSum(tm', d) \in Nat
      OBVIOUS
    <3>1. \A n \in RowsUnder(tm', d) : RowSize(tm')[n] \in Nat
      BY <2>2, RowsAreFinite DEF RowsUnder
    <3>2. IsFiniteSet(RowsUnder(tm', d))
      BY <2>2, RowsAreFinite
    <3>3. QED
      BY <3>1, <3>2, SumType DEF RowSum
  <2>5. Treemap'
    BY <2>2, <2>3, <2>4 DEF Treemap
  <2>6. StatsTypes'
    BY <1>3, <2>2 DEF FlatMap, StatsIInv, StatsTypes, Phases
  <2>7. QED
    BY <2>5, <2>6 DEF StatsIInv
<1>4. CASE InsertMissingParents
  <2> DEFINE missing == {Parent(tm[n][1]) : n \in {m \in DOMAIN tm : Small(tm[m]) /\ HasParent(tm[m][1])}}
                        \ PathsOf(tm)
  <2>1. PICK order \in SetToSeqs(missing) : tm' = tm \o [n \in DOMAIN order |-> <<order[n], 0>>]
    BY <1>4 DEF InsertMissingParents
  <2>2. IsFiniteSet(missing) /\ missing \subseteq Paths /\ missing \cap PathsOf(tm) = {}
    BY MissingParents DEF StatsIInv
  <2> HIDE DEF missing
  <2> DEFINE more == [n \in DOMAIN order |-> <<order[n], 0>>]
  <2>3. /\ order \in Seq(missing) /\ DOMAIN order = 1 .. Cardinality(missing)
        /\ \A i, j \in DOMAIN order : order[i] = order[j] => i = j
        /\ \A n \in DOMAIN order : order[n] \in missing
    BY <2>2, OrderIs
  <2>4. \A n \in DOMAIN order : order[n] \in missing
    BY <2>3
  <2>5. more \in Seq(Rows)
    <3>1. PICK last \in Nat : last = Cardinality(missing)
      BY <2>2, FS_CardinalityType
    <3>2. DOMAIN order = 1 .. last
      BY <2>3, <3>1
    <3>3. \A n \in 1 .. last : <<order[n], 0>> \in Rows
      BY <2>2, <2>4, <3>2 DEF Rows
    <3>4. QED
      BY <3>2, <3>3
  <2>6. Distinct(more)
    BY <2>3 DEF Distinct
  <2>7. \A n \in DOMAIN more : more[n][2] = 0 /\ more[n][1] \notin PathsOf(tm)
    BY <2>2, <2>4
  <2>8. /\ tm \in Seq(Rows) /\ Distinct(tm)
        /\ \A d \in Seq(STRING) : /\ RowSum(tm, d) <= FilesWithin(d)
                                  /\ ~HasParent(d) => RowSum(tm, d) = FilesWithin(d)
    BY <1>4 DEF InsertMissingParents, StatsIInv, StatsTypes, Treemap
  <2>9. tm' = tm \o more
    BY <2>1
  <2> HIDE DEF more
  <2>10. tm' \in Seq(Rows) /\ Distinct(tm') /\ \A d : RowSum(tm', d) = RowSum(tm, d)
    BY <2>5, <2>6, <2>7, <2>8, <2>9, EmptyRowsAdded
  <2>11. \A d : FilesWithin(d)' = FilesWithin(d)
    BY <1>4 DEF InsertMissingParents, FilesWithin
  <2>12. Treemap'
    BY <2>8, <2>10, <2>11 DEF Treemap
  <2>13. StatsTypes'
    BY <1>4, <2>10 DEF InsertMissingParents, StatsIInv, StatsTypes, Phases
  <2>14. QED
    BY <2>12, <2>13 DEF StatsIInv
<1>5. CASE MergeRow
  <2>1. CASE ~Merges(cursor)
    BY <1>5, <2>1 DEF MergeRow, StatsIInv, StatsTypes, Treemap, Phases, FilesWithin
  <2>2. CASE Merges(cursor)
    <3>1. /\ tm \in Seq(Rows) /\ Distinct(tm) /\ cursor \in 1 .. Len(tm)
          /\ \A d \in Seq(STRING) : /\ RowSum(tm, d) <= FilesWithin(d)
                                    /\ ~HasParent(d) => RowSum(tm, d) = FilesWithin(d)
      BY <1>5 DEF MergeRow, StatsIInv, StatsTypes, Treemap
    <3>2. PICK k \in 1 .. Len(tm) : tm[k][1] = Parent(tm[cursor][1])
      BY <2>2, <3>1 DEF Merges, PathsOf
    <3>3. /\ tm' = RemoveAt(AddTo(tm, Parent(tm[cursor][1]), tm[cursor][2]), cursor)
          /\ merged' = merged + 1 /\ cursor' = cursor /\ UNCHANGED <<corpus, phase, killed, stats>>
      BY <1>5, <2>2 DEF MergeRow
    <3>4. Len(tm[cursor][1]) > 1
      BY <2>2 DEF Merges, HasParent
    <3>5. /\ tm' \in Seq(Rows) /\ Len(tm') = Len(tm) - 1
          /\ Distinct(tm')
          /\ \A d \in Seq(STRING) : /\ RowSum(tm', d) <= RowSum(tm, d)
                                    /\ d # tm[cursor][1] => RowSum(tm', d) = RowSum(tm, d)
      BY <3>1, <3>2, <3>3, <3>4, MergeKeeps
    <3>6. \A d : FilesWithin(d)' = FilesWithin(d)
      BY <3>3 DEF FilesWithin
    <3>7. \A d \in Seq(STRING) : RowSum(tm', d) \in Nat /\ RowSum(tm, d) \in Nat /\ FilesWithin(d) \in Nat
      BY <3>1, <3>5, SumsAreNatural DEF StatsIInv, StatsTypes
    <3>8. ASSUME NEW d \in Seq(STRING)
          PROVE  /\ RowSum(tm', d) <= FilesWithin(d)
                 /\ ~HasParent(d) => RowSum(tm', d) = FilesWithin(d)
      <4>1. ~HasParent(d) => d # tm[cursor][1]
        BY <3>4 DEF HasParent
      <4>2. QED
        BY <3>1, <3>5, <3>7, <4>1
    <3>9. Treemap'
      BY <3>5, <3>6, <3>8 DEF Treemap
    <3>10. StatsTypes'
      <4>1. phase = "merge"
        BY <1>5 DEF MergeRow
      <4>2. QED
        BY <3>1, <3>3, <3>5, <4>1 DEF StatsIInv, StatsTypes, Phases
    <3>11. QED
      BY <3>9, <3>10 DEF StatsIInv
  <2>3. QED
    BY <2>1, <2>2
<1>6. CASE EndIteration
  BY <1>6 DEF EndIteration, StatsIInv, StatsTypes, Treemap, Phases, FilesWithin
<1>7. CASE StoreTreemap
  BY <1>7 DEF StoreTreemap, StatsIInv, StatsTypes, Treemap, Phases, FilesWithin
<1>8. CASE KillStats
  <2>1. <<>> \in Seq(Rows) /\ Len(<<>>) = 0
    OBVIOUS
  <2>2. QED
    BY <1>8, <2>1, StatsAssumption DEF KillStats, StatsIInv, StatsTypes, Treemap, Phases
<1>9. CASE UNCHANGED statsVars
  BY <1>9 DEF statsVars, StatsIInv, StatsTypes, Treemap, FilesWithin
<1>10. QED
  BY <1>1, <1>2, <1>3, <1>4, <1>5, <1>6, <1>7, <1>8, <1>9 DEF StatsNext

THEOREM StatsInvariant == StatsSpec => []StatsIInv
<1>1. StatsInit => StatsIInv
  <2>1. <<>> \in Seq(Rows) /\ Len(<<>>) = 0
    OBVIOUS
  <2>2. QED
    BY <2>1, StatsAssumption DEF StatsInit, StatsIInv, StatsTypes, Treemap, Phases, NoStats
<1>2. QED
  BY <1>1, StatsStep, PTL DEF StatsSpec

\* Type correctness of the statistics, for any documents and any thresholds.
THEOREM StatsTypeCorrect == StatsSpec => []StatsTypeOK
<1>1. StatsIInv => StatsTypeOK
  <2>1. StatsTypes => \A n \in DOMAIN tm : tm[n] \in Seq(STRING) \X Nat
    <3> SUFFICES ASSUME StatsTypes, NEW n \in DOMAIN tm
                 PROVE  tm[n] \in Seq(STRING) \X Nat
      OBVIOUS
    <3>1. tm[n] \in Rows
      BY DEF StatsTypes
    <3>2. QED
      BY <3>1 DEF Rows, Paths
  <2>2. QED
    BY <2>1 DEF StatsIInv, StatsTypes, StatsTypeOK
<1>2. QED
  BY <1>1, StatsInvariant, PTL

\* However the rows of the treemap are merged, and whenever a scan is killed, no size is
\* lost or counted twice (database_generate_stats).
THEOREM SizesCorrect == StatsSpec => []SizesConserved
<1>1. StatsIInv => SizesConserved
  <2> SUFFICES ASSUME StatsIInv, phase \in {"parents", "merge", "store", "done"}
               PROVE  /\ \A d \in FileDirectories :
                            /\ RowsWithin(d) <= FilesWithin(d)
                            /\ ~HasParent(d) => RowsWithin(d) = FilesWithin(d)
                      /\ \A n, m \in DOMAIN tm : tm[n][1] = tm[m][1] => n = m
    BY DEF SizesConserved
  <2>1. FileDirectories \subseteq Seq(STRING)
    <3> SUFFICES ASSUME NEW p \in DOMAIN corpus, NEW n \in 1 .. Len(p)
                 PROVE  SubSeq(p, 1, n) \in Seq(STRING)
      BY DEF FileDirectories
    <3>1. p \in Seq(STRING)
      BY StatsAssumption DEF StatsIInv, StatsTypes
    <3>2. QED
      BY <3>1
  <2>2. \A d : RowsWithin(d) = RowSum(tm, d)
    BY DEF RowsWithin, RowSum, RowSize, RowsUnder
  <2>3. QED
    BY <2>1, <2>2 DEF StatsIInv, Treemap, Distinct
<1>2. QED
  BY <1>1, StatsInvariant, PTL

-----------------------------------------------------------------------------
(* Directories.                                                            *)

LEMMA SumPositive ==
    ASSUME NEW S, IsFiniteSet(S), NEW w, \A x \in S : w[x] \in Nat
    PROVE  SumFunctionOnSet(w, S) > 0 <=> \E x \in S : w[x] > 0
<1>1. ASSUME NEW x \in S, w[x] > 0
      PROVE  SumFunctionOnSet(w, S) > 0
  <2>1. SumFunctionOnSet(w, S) = w[x] + SumFunctionOnSet(w, S \ {x})
    BY SumOfElement
  <2>2. IsFiniteSet(S \ {x})
    BY FS_RemoveElement
  <2>3. SumFunctionOnSet(w, S \ {x}) \in Nat
    BY <2>2, SumType
  <2>4. QED
    BY <1>1, <2>1, <2>3
<1>2. ASSUME ~ \E x \in S : w[x] > 0
      PROVE  SumFunctionOnSet(w, S) = 0
  <2>1. \A x \in S : ~(w[x] # 0)
    BY <1>2
  <2>2. IsFiniteSet({}) /\ \A x \in {} : w[x] \in Nat
    BY FS_EmptySet
  <2>3. SumFunctionOnSet(w, S) = SumFunctionOnSet(w, {})
    BY <2>1, <2>2, SumsAlike
  <2>4. QED
    BY <2>3, SumOfNone
<1>3. QED
  BY <1>1, <1>2

LEMMA MaxIs ==
    ASSUME NEW S, IsFiniteSet(S), S \subseteq Nat, S # {}
    PROVE  Max(S) \in S /\ \A y \in S : y <= Max(S)
<1> DEFINE Bad == {T \in SUBSET S : T # {} /\ ~ \E x \in T : \A y \in T : x >= y}
<1>1. Bad = {}
  <2>1. SUFFICES ASSUME Bad # {}
                 PROVE  FALSE
    OBVIOUS
  <2>2. PICK T \in Bad : \A U \in SUBSET T : U # T => U \notin Bad
    <3> HIDE DEF Bad
    <3> Bad \subseteq SUBSET S
      BY DEF Bad
    <3> QED
      BY <2>1, SmallestSubset
  <2>3. PICK x \in T : TRUE
    BY <2>2
  <2>4. CASE T = {x}
    BY <2>2, <2>4
  <2>5. CASE T # {x}
    <3>1. PICK m \in T \ {x} : \A y \in T \ {x} : m >= y
      BY <2>2, <2>3, <2>5
    <3>2. m \in Nat /\ x \in Nat
      BY <2>2, <3>1
    <3>3. CASE m >= x
      BY <2>2, <3>1, <3>3
    <3>4. CASE x > m
      BY <2>2, <3>1, <3>2, <3>4
    <3>5. QED
      BY <3>2, <3>3, <3>4
  <2>6. QED
    BY <2>4, <2>5
<1>2. \E x \in S : \A y \in S : x >= y
  BY <1>1
<1>3. QED
  BY <1>2 DEF Max

\* A directory that holds documents, and those above it.
LEMMA DirectoryIs ==
    /\ Directories \subseteq AllDirectories
    /\ \A d \in AllDirectories : d \in Seq(STRING) /\ Len(d) \in Nat \ {0}
    /\ \A d \in AllDirectories : \E a \in Directories : Within(a, d)
    /\ \A a \in Directories, d \in Seq(STRING) : Within(a, d) /\ Len(d) > 0 => d \in AllDirectories
<1>1. \A a \in Directories : a \in Seq(STRING) /\ Len(a) \in Nat \ {0}
  BY PathAssumption
<1>2. ASSUME NEW a \in Directories, NEW d \in Seq(STRING), Within(a, d), Len(d) > 0
      PROVE  d \in Ancestors(a)
  <2>1. Len(d) \in 1 .. Len(a) /\ SubSeq(a, 1, Len(d)) = SubSeq(d, 1, Len(d))
    BY <1>1, <1>2 DEF Within, IsPrefix
  <2>2. SubSeq(d, 1, Len(d)) = d
    OBVIOUS
  <2>3. QED
    BY <2>1, <2>2 DEF Ancestors
<1>3. ASSUME NEW a \in Directories, NEW n \in 1 .. Len(a)
      PROVE  /\ SubSeq(a, 1, n) \in Seq(STRING) /\ Len(SubSeq(a, 1, n)) = n
             /\ Within(a, SubSeq(a, 1, n))
  <2>1. SubSeq(a, 1, n) \in Seq(STRING) /\ Len(SubSeq(a, 1, n)) = n
        /\ \A i \in 1 .. n : SubSeq(a, 1, n)[i] = a[i]
    BY <1>1
  <2>2. PICK d : d = SubSeq(a, 1, n)
    OBVIOUS
  <2>3. d \in Seq(STRING) /\ Len(d) = n /\ n <= Len(a) /\ \A i \in 1 .. n : d[i] = a[i]
    BY <2>1, <2>2
  <2>4. IsPrefix(d, a)
    BY <1>1, <2>3, PrefixIs
  <2>5. QED
    BY <2>1, <2>2, <2>4 DEF Within
<1>4. \A a \in Directories : Within(a, a)
  BY <1>1, PrefixIs DEF Within
<1>5. Directories \subseteq AllDirectories
  BY <1>1, <1>2, <1>4 DEF AllDirectories
<1>6. \A d \in AllDirectories : /\ d \in Seq(STRING) /\ Len(d) \in Nat \ {0}
                                /\ \E a \in Directories : Within(a, d)
  <2> SUFFICES ASSUME NEW d \in AllDirectories
               PROVE  d \in Seq(STRING) /\ Len(d) \in Nat \ {0} /\ \E a \in Directories : Within(a, d)
    OBVIOUS
  <2>1. PICK a \in Directories : d \in Ancestors(a)
    BY DEF AllDirectories
  <2>2. PICK n \in 1 .. Len(a) : d = SubSeq(a, 1, n)
    BY <2>1 DEF Ancestors
  <2>3. d \in Seq(STRING) /\ Len(d) = n /\ Within(a, d)
    BY <1>3, <2>2
  <2>4. QED
    BY <2>3
<1>7. \A a \in Directories, d \in Seq(STRING) : Within(a, d) /\ Len(d) > 0 => d \in AllDirectories
  BY <1>2 DEF AllDirectories
<1>8. QED
  BY <1>5, <1>6, <1>7

LEMMA WithinTransitive ==
    ASSUME NEW a \in Seq(STRING), NEW d \in Seq(STRING), NEW e \in Seq(STRING), Within(a, d), Within(d, e)
    PROVE  Within(a, e)
<1>1. Len(d) <= Len(a) /\ \A i \in 1 .. Len(d) : d[i] = a[i]
  BY PrefixIs DEF Within
<1>2. Len(e) <= Len(d) /\ \A i \in 1 .. Len(e) : e[i] = d[i]
  BY PrefixIs DEF Within
<1>3. Len(e) <= Len(a) /\ \A i \in 1 .. Len(e) : e[i] = a[i]
  BY <1>1, <1>2
<1>4. QED
  BY <1>3, PrefixIs DEF Within

\* Between a directory and one below it there is one just below it.
LEMMA NextBelow ==
    ASSUME NEW a \in Seq(STRING), NEW d \in Seq(STRING), StrictlyBelow(a, d)
    PROVE  \E e \in Seq(STRING) : /\ Len(e) = Len(d) + 1 /\ Front(e) = d /\ Within(a, e)
<1> DEFINE e == SubSeq(a, 1, Len(d) + 1)
<1>1. Len(d) < Len(a) /\ \A i \in 1 .. Len(d) : d[i] = a[i]
  BY PrefixIs DEF StrictlyBelow
<1>2. e \in Seq(STRING) /\ Len(e) = Len(d) + 1 /\ \A i \in 1 .. Len(d) + 1 : e[i] = a[i]
  BY <1>1
<1> HIDE DEF e
<1>3. Within(a, e)
  BY <1>1, <1>2, PrefixIs DEF Within
<1>4. Front(e) \in Seq(STRING) /\ Len(Front(e)) = Len(d) /\ \A i \in 1 .. Len(d) : Front(e)[i] = e[i]
  <2>1. Len(e) > 0 /\ Len(e) - 1 = Len(d)
    BY <1>2
  <2>2. Front(e) \in Seq(STRING) /\ Len(Front(e)) = Len(e) - 1 /\ \A i \in 1 .. Len(e) - 1 : Front(e)[i] = e[i]
    BY <1>2, <2>1, FrontIs
  <2>3. QED
    BY <2>1, <2>2
<1>5. Front(e) = d
  BY <1>1, <1>2, <1>4
<1>6. QED
  BY <1>2, <1>3, <1>5

LEMMA ParentOf ==
    ASSUME NEW d \in AllDirectories
    PROVE  /\ Front(d) \in Seq(STRING) /\ Len(Front(d)) = Len(d) - 1 /\ Within(d, Front(d))
           /\ Len(d) > 1 => Front(d) \in AllDirectories
<1>1. d \in Seq(STRING) /\ Len(d) \in Nat \ {0}
  BY DirectoryIs
<1>2. Front(d) \in Seq(STRING) /\ Len(Front(d)) = Len(d) - 1 /\ \A i \in 1 .. Len(d) - 1 : Front(d)[i] = d[i]
  BY <1>1, FrontIs
<1>3. Within(d, Front(d))
  BY <1>1, <1>2, PrefixIs DEF Within
<1>4. ASSUME Len(d) > 1
      PROVE  Front(d) \in AllDirectories
  <2>1. PICK a \in Directories : Within(a, d)
    BY DirectoryIs
  <2>2. a \in Seq(STRING)
    BY DirectoryIs
  <2>3. Within(a, Front(d))
    BY <1>1, <1>2, <1>3, <2>1, <2>2, WithinTransitive
  <2>4. QED
    BY <1>2, <1>4, <2>3, DirectoryIs
<1>5. QED
  BY <1>2, <1>3, <1>4

LEMMA FiniteImage ==
    ASSUME NEW S, IsFiniteSet(S), NEW f, DOMAIN f = S
    PROVE  IsFiniteSet({f[x] : x \in S})
<1> DEFINE T == {f[x] : x \in S}
           g == [x \in S |-> f[x]]
<1>1. g \in Surjection(S, T)
  BY DEF Surjection
<1>2. QED
  <2> HIDE DEF g, T
  <2> T = {f[x] : x \in S}
    BY DEF T
  <2> QED
    BY <1>1, FS_Surjection

LEMMA DirectoriesAreFinite == IsFiniteSet(AllDirectories)
<1>1. ASSUME NEW a \in Directories
      PROVE  IsFiniteSet(Ancestors(a))
  <2> DEFINE f == [n \in 1 .. Len(a) |-> SubSeq(a, 1, n)]
  <2>1. IsFiniteSet(1 .. Len(a))
    BY PathAssumption, FS_Interval
  <2>2. IsFiniteSet({f[n] : n \in 1 .. Len(a)})
    <3>1. DOMAIN f = 1 .. Len(a)
      OBVIOUS
    <3> HIDE DEF f
    <3> QED
      BY <2>1, <3>1, FiniteImage
  <2>3. Ancestors(a) = {f[n] : n \in 1 .. Len(a)}
    BY DEF Ancestors
  <2>4. QED
    BY <2>2, <2>3
<1> DEFINE g == [a \in Directories |-> Ancestors(a)]
<1>2. IsFiniteSet({g[a] : a \in Directories})
  <2>1. DOMAIN g = Directories
    OBVIOUS
  <2> HIDE DEF g
  <2> QED
    BY <2>1, PathAssumption, FiniteImage
<1>3. {g[a] : a \in Directories} = {Ancestors(a) : a \in Directories}
  OBVIOUS
<1>4. QED
  <2> DEFINE all == {Ancestors(a) : a \in Directories}
  <2>1. IsFiniteSet(all) /\ \A T \in all : IsFiniteSet(T)
    BY <1>1, <1>2, <1>3
  <2> HIDE DEF all
  <2>2. IsFiniteSet(UNION all)
    BY <2>1, FS_UNION
  <2>3. QED
    BY <2>2 DEF AllDirectories, all

-----------------------------------------------------------------------------
(* The tree of directories: the inductive invariant.                       *)

DirectoryRows == AllDirectories \X PathIds

PathTypes ==
    /\ holds \in [Directories -> [PathIds -> 0 .. MaxPerDir]]
    /\ DOMAIN path_tmp \subseteq DirectoryRows
    /\ \A r \in DOMAIN path_tmp : path_tmp[r] \in [count : Nat, children : Nat]
    /\ level \in 0 .. Deepest
    /\ level = 0 => DOMAIN path_tmp = {}
    /\ DOMAIN path_index \subseteq DirectoryRows
    /\ \A r \in DOMAIN path_index : path_index[r] \in Nat
    /\ ~Published => DOMAIN path_index = {} /\ tree = {} /\ opened = {}

\* What was shown is in path_index, and so is nothing else in what was opened.
TreeIsOpened ==
    /\ \A n \in tree : /\ <<n[2], n[1]>> \in DOMAIN path_index
                       /\ n[3] = path_index[<<n[2], n[1]>>]
    /\ \A o \in opened : \A r \in DOMAIN path_index :
          r[2] = o[1] /\ Depth(r[1]) = Depth(o[2]) + 1 /\ Within(r[1], o[2])
              => <<r[2], r[1], path_index[r]>> \in tree

Own(i, d) == IF d \in Directories THEN holds[d][i] ELSE 0
HasDocuments(i, d) == \E a \in Directories : Within(a, d) /\ holds[a][i] > 0

\* The rows while they are made: there is one for each directory that holds documents, and
\* one for those above it from the depth that was reached; what is below was added there.
RowsAreRight ==
    /\ \A r \in DOMAIN path_tmp : /\ HasDocuments(r[2], r[1])
                                  /\ path_tmp[r].count = Own(r[2], r[1])
    /\ \A a \in Directories, i \in PathIds : holds[a][i] > 0 => <<a, i>> \in DOMAIN path_tmp
    /\ \A d \in AllDirectories, i \in PathIds :
          Len(d) >= level /\ HasDocuments(i, d) => <<d, i>> \in DOMAIN path_tmp
    /\ \A r \in DOMAIN path_tmp :
          IF Len(r[1]) >= level
          THEN path_tmp[r].count + path_tmp[r].children = DocumentsWithin(r[2], r[1])
          ELSE path_tmp[r].children = 0

IndexIsRight ==
    /\ \A d \in AllDirectories, i \in PathIds : HasDocuments(i, d) => <<d, i>> \in DOMAIN path_index
    /\ \A r \in DOMAIN path_index : path_index[r] = DocumentsWithin(r[2], r[1])

Counted == Separate => /\ level > 0 /\ ~Published => RowsAreRight
                       /\ Published => IndexIsRight

PathIInv == PathTypes /\ TreeIsOpened /\ Counted

-----------------------------------------------------------------------------
(* Counting.                                                               *)

Holdings(i) == [a \in Directories |-> holds[a][i]]
Inside(d) == {a \in Directories : Within(a, d)}
Deeper(d) == {a \in Directories : StrictlyBelow(a, d)}

LEMMA HoldingsAre ==
    ASSUME PathTypes, NEW i \in PathIds
    PROVE  /\ \A a \in Directories : Holdings(i)[a] = holds[a][i] /\ holds[a][i] \in Nat
           /\ \A d : /\ IsFiniteSet(Inside(d)) /\ IsFiniteSet(Deeper(d))
                     /\ Inside(d) \subseteq Directories /\ Deeper(d) \subseteq Directories
<1>1. \A a \in Directories : holds[a][i] \in Nat
  BY PathAssumption DEF PathTypes
<1>2. \A d : IsFiniteSet(Inside(d)) /\ IsFiniteSet(Deeper(d))
  BY PathAssumption, FS_Subset DEF Inside, Deeper
<1>3. QED
  BY <1>1, <1>2 DEF Holdings, Inside, Deeper

LEMMA SomeAreWithin ==
    ASSUME PathTypes, NEW i \in PathIds, NEW d
    PROVE  /\ DocumentsWithin(i, d) \in Nat
           /\ DocumentsWithin(i, d) > 0 <=> HasDocuments(i, d)
<1>1. DocumentsWithin(i, d) = SumFunctionOnSet(Holdings(i), Inside(d))
  BY DEF DocumentsWithin, Holdings, Inside
<1>2. IsFiniteSet(Inside(d)) /\ \A a \in Inside(d) : Holdings(i)[a] = holds[a][i] /\ holds[a][i] \in Nat
  BY HoldingsAre
<1>3. SumFunctionOnSet(Holdings(i), Inside(d)) \in Nat
  BY <1>2, SumType
<1>4. SumFunctionOnSet(Holdings(i), Inside(d)) > 0 <=> \E a \in Inside(d) : Holdings(i)[a] > 0
  BY <1>2, SumPositive
<1>5. (\E a \in Inside(d) : Holdings(i)[a] > 0) <=> HasDocuments(i, d)
  BY <1>2 DEF Inside, HasDocuments
<1>6. QED
  BY <1>1, <1>3, <1>4, <1>5

LEMMA WithinIs ==
    ASSUME PathTypes, NEW i \in PathIds, NEW d \in AllDirectories
    PROVE  /\ DocumentsWithin(i, d) = Own(i, d) + SumFunctionOnSet(Holdings(i), Deeper(d))
           /\ Own(i, d) \in Nat /\ SumFunctionOnSet(Holdings(i), Deeper(d)) \in Nat
<1>1. DocumentsWithin(i, d) = SumFunctionOnSet(Holdings(i), Inside(d))
  BY DEF DocumentsWithin, Holdings, Inside
<1>2. /\ IsFiniteSet(Inside(d)) /\ IsFiniteSet(Deeper(d)) /\ Inside(d) \subseteq Directories
      /\ \A a \in Directories : Holdings(i)[a] = holds[a][i] /\ Holdings(i)[a] \in Nat
      /\ Deeper(d) \subseteq Directories
  BY HoldingsAre
<1>3. SumFunctionOnSet(Holdings(i), Deeper(d)) \in Nat
  <2>1. \A a \in Deeper(d) : Holdings(i)[a] \in Nat
    BY <1>2
  <2>2. QED
    BY <1>2, <2>1, SumType
<1>4. ASSUME NEW a \in Directories
      PROVE  /\ a \in Inside(d) <=> a = d \/ a \in Deeper(d)
             /\ a \in Deeper(d) => a # d
  <2>1. a \in Seq(STRING) /\ d \in Seq(STRING)
    BY DirectoryIs
  <2>2. IsPrefix(d, a) <=> Len(d) <= Len(a) /\ \A k \in 1 .. Len(d) : d[k] = a[k]
    BY <2>1, PrefixIs
  <2>3. Len(d) = Len(a) /\ IsPrefix(d, a) => a = d
    BY <2>1, <2>2
  <2>4. QED
    BY <2>1, <2>2, <2>3 DEF Inside, Deeper, Within, StrictlyBelow
<1>5. CASE d \in Directories
  <2>1. d \in Inside(d) /\ Inside(d) \ {d} = Deeper(d)
    BY <1>2, <1>4, <1>5
  <2>2. \A a \in Inside(d) : Holdings(i)[a] \in Nat
    BY <1>2
  <2>3. SumFunctionOnSet(Holdings(i), Inside(d))
          = Holdings(i)[d] + SumFunctionOnSet(Holdings(i), Inside(d) \ {d})
    BY <1>2, <2>1, <2>2, SumOfElement
  <2>4. QED
    BY <1>1, <1>2, <1>3, <1>5, <2>1, <2>3 DEF Own
<1>6. CASE d \notin Directories
  <2>1. Inside(d) = Deeper(d)
    BY <1>2, <1>4, <1>6
  <2>2. QED
    BY <1>1, <1>3, <1>6, <2>1 DEF Own
<1>7. QED
  BY <1>5, <1>6

\* What a parent row adds up.
LEMMA BelowIs ==
    ASSUME PathTypes, RowsAreRight, NEW i \in PathIds, NEW d \in AllDirectories
    PROVE  CountBelow(path_tmp, d, i) = SumFunctionOnSet(Holdings(i), Deeper(d))
<1> DEFINE w == Holdings(i)
           S == {a \in Deeper(d) : w[a] > 0}
           v == [r \in DOMAIN path_tmp |-> path_tmp[r].count]
           R == {r \in DOMAIN path_tmp : r[2] = i /\ StrictlyBelow(r[1], d)}
           T == {r \in R : v[r] > 0}
           b == [a \in S |-> <<a, i>>]
<1>1. /\ IsFiniteSet(Deeper(d)) /\ Deeper(d) \subseteq Directories
      /\ \A a \in Directories : w[a] = holds[a][i] /\ w[a] \in Nat
  BY HoldingsAre
<1>2. IsFiniteSet(S) /\ S \subseteq Deeper(d)
  BY <1>1, FS_Subset
<1>3. \A r \in DOMAIN path_tmp :
        /\ r = <<r[1], r[2]>> /\ r[1] \in AllDirectories
        /\ v[r] \in Nat /\ v[r] = Own(r[2], r[1])
  BY DEF PathTypes, DirectoryRows, RowsAreRight
<1>4. IsFiniteSet(R) /\ IsFiniteSet(T)
  <2>1. IsFiniteSet(DirectoryRows)
    BY DirectoriesAreFinite, PathAssumption, FS_Product DEF DirectoryRows
  <2>2. R \subseteq DirectoryRows /\ T \subseteq DirectoryRows
    BY DEF PathTypes
  <2> HIDE DEF R, T
  <2>3. QED
    BY <2>1, <2>2, FS_Subset
<1>5. SumFunctionOnSet(w, S) = SumFunctionOnSet(w, Deeper(d))
  <2>1. \A a \in Deeper(d) : w[a] \in Nat /\ (w[a] # 0 => a \in S)
    BY <1>1
  <2>2. \A a \in S : w[a] \in Nat /\ a \in Deeper(d)
    BY <1>1
  <2> HIDE DEF w, S
  <2>3. QED
    BY <1>1, <1>2, <2>1, <2>2, SumsAlike
<1>6. SumFunctionOnSet(v, T) = SumFunctionOnSet(v, R)
  <2>1. \A r \in R : v[r] \in Nat /\ (v[r] # 0 => r \in T)
    BY <1>3
  <2>2. \A r \in T : v[r] \in Nat /\ r \in R
    BY <1>3
  <2> HIDE DEF v, T, R
  <2>3. QED
    BY <1>4, <2>1, <2>2, SumsAlike
<1>7. \A a \in S : <<a, i>> \in T /\ v[<<a, i>>] = w[a]
  <2> SUFFICES ASSUME NEW a \in S
               PROVE  <<a, i>> \in T /\ v[<<a, i>>] = w[a]
    OBVIOUS
  <2>1. a \in Directories /\ holds[a][i] > 0 /\ w[a] = holds[a][i] /\ StrictlyBelow(a, d)
    BY <1>1 DEF Deeper
  <2>2. <<a, i>> \in DOMAIN path_tmp
    BY <2>1 DEF RowsAreRight
  <2>3. v[<<a, i>>] = Own(i, a)
    BY <1>3, <2>2
  <2>4. QED
    BY <2>1, <2>2, <2>3 DEF Own
<1>8. \A r \in T : r[1] \in S /\ r = <<r[1], i>>
  <2> SUFFICES ASSUME NEW r \in T
               PROVE  r[1] \in S /\ r = <<r[1], i>>
    OBVIOUS
  <2>1. /\ r \in DOMAIN path_tmp /\ r[2] = i /\ StrictlyBelow(r[1], d)
        /\ v[r] > 0 /\ v[r] = Own(i, r[1]) /\ r = <<r[1], i>>
    BY <1>3
  <2>2. r[1] \in Directories /\ holds[r[1]][i] > 0
    BY <2>1 DEF Own
  <2>3. QED
    BY <1>1, <2>1, <2>2 DEF Deeper
<1>9. SumFunctionOnSet(w, S) = SumFunctionOnSet(v, T)
  <2>1. /\ b \in [S -> T]
        /\ \A x, y \in S : b[x] = b[y] => x = y
        /\ \A x \in S : v[b[x]] = w[x]
    BY <1>7
  <2>2. \A y \in T : \E x \in S : b[x] = y
    BY <1>8
  <2>3. /\ \A a \in S : w[a] \in Nat
        /\ \A r \in T : v[r] \in Nat
    BY <1>1, <1>3
  <2> HIDE DEF w, v, S, T, b
  <2>4. QED
    BY <1>2, <1>4, <2>1, <2>2, <2>3, SumRenamed
<1>10. CountBelow(path_tmp, d, i) = SumFunctionOnSet(v, R)
  BY DEF CountBelow
<1>11. QED
  BY <1>5, <1>6, <1>9, <1>10

\* A directory that has documents of two index files is not separate.
LEMMA OneIndex ==
    ASSUME PathTypes, Separate, NEW d \in AllDirectories,
           NEW i \in PathIds, HasDocuments(i, d), NEW j \in PathIds, HasDocuments(j, d)
    PROVE  i = j
<1> DEFINE S == {k \in PathIds : DocumentsWithin(k, d) > 0}
<1>1. i \in S /\ j \in S
  BY SomeAreWithin
<1>2. IsFiniteSet(S) /\ Cardinality(S) <= 1
  BY PathAssumption, FS_Subset DEF Separate
<1>3. ASSUME i # j
      PROVE  FALSE
  <2>1. IsFiniteSet({i}) /\ Cardinality({i}) = 1
    BY FS_Singleton
  <2>2. Cardinality({i} \cup {j}) = 2
    BY <1>3, <2>1, FS_AddElement
  <2>3. {i} \cup {j} \subseteq S
    BY <1>1
  <2> HIDE DEF S
  <2>4. Cardinality({i} \cup {j}) <= Cardinality(S)
    BY <1>2, <2>3, FS_Subset
  <2>5. Cardinality(S) \in Nat
    BY <1>2, FS_CardinalityType
  <2>6. QED
    BY <1>2, <2>2, <2>4, <2>5
<1>4. QED
  BY <1>3

LEMMA SumOfOne ==
    ASSUME NEW S, IsFiniteSet(S), NEW w, \A x \in S : w[x] \in Nat,
           NEW x \in S, \A y \in S : w[y] > 0 => y = x
    PROVE  SumFunctionOnSet(w, S) = w[x]
<1>1. IsFiniteSet(S \ {x}) /\ \A y \in S \ {x} : w[y] \in Nat /\ ~(w[y] > 0)
  BY FS_RemoveElement
<1>2. SumFunctionOnSet(w, S \ {x}) \in Nat /\ ~(SumFunctionOnSet(w, S \ {x}) > 0)
  BY <1>1, SumType, SumPositive
<1>3. SumFunctionOnSet(w, S) = w[x] + SumFunctionOnSet(w, S \ {x})
  BY SumOfElement
<1>4. QED
  BY <1>2, <1>3

-----------------------------------------------------------------------------
(* The tree of directories: one step.                                      *)

LEMMA DepthsAre ==
    ASSUME NEW rows, DOMAIN rows \subseteq Directories \X PathIds
    PROVE  /\ MaxDepth(rows) \in 1 .. Deepest /\ Deepest \in Nat
           /\ \A r \in DOMAIN rows : Len(r[1]) <= MaxDepth(rows)
<1> DEFINE depth == [d \in Directories |-> Depth(d)]
           all == {Depth(d) : d \in Directories} \cup {1}
           some == {Depth(r[1]) : r \in DOMAIN rows} \cup {1}
<1>1. \A d \in Directories : Depth(d) \in Nat
  BY PathAssumption DEF Depth
<1>2. IsFiniteSet({depth[d] : d \in Directories})
  <2>1. DOMAIN depth = Directories
    OBVIOUS
  <2> HIDE DEF depth
  <2> QED
    BY <2>1, PathAssumption, FiniteImage
<1>3. {depth[d] : d \in Directories} = {Depth(d) : d \in Directories}
  OBVIOUS
<1>4. IsFiniteSet(all)
  BY <1>2, <1>3, FS_AddElement
<1>5. some \subseteq all /\ all \subseteq Nat /\ 1 \in some /\ 1 \in all
  BY <1>1
<1> HIDE DEF all, some
<1>6. IsFiniteSet(some)
  BY <1>4, <1>5, FS_Subset
<1>7. Max(all) \in all /\ \A y \in all : y <= Max(all)
  BY <1>4, <1>5, MaxIs
<1>8. Max(some) \in some /\ \A y \in some : y <= Max(some)
  BY <1>5, <1>6, MaxIs
<1>9. MaxDepth(rows) = Max(some) /\ Deepest = Max(all)
  BY DEF MaxDepth, Deepest, some, all
<1>10. Max(some) \in 1 .. Max(all) /\ Max(all) \in Nat
  <2>1. PICK m \in Nat : m = Max(all)
    BY <1>5, <1>7
  <2>2. PICK n \in Nat : n = Max(some)
    BY <1>5, <1>8
  <2>3. 1 <= n /\ n <= m
    BY <1>5, <1>7, <1>8, <2>1, <2>2
  <2>4. QED
    BY <2>1, <2>2, <2>3
<1>11. \A r \in DOMAIN rows : Depth(r[1]) \in some
  BY DEF some
<1>12. QED
  BY <1>8, <1>9, <1>10, <1>11 DEF Depth

LEMMA GroupTypes ==
    ASSUME PathTypes, GroupByPath
    PROVE  /\ PathTypes' /\ level' > 0
           /\ DOMAIN path_tmp' \subseteq Directories \X PathIds
           /\ \A r \in DOMAIN path_tmp' : Len(r[1]) <= level'
<1> DEFINE dirs == {d \in Directories : Held(d) # {}}
<1>1. PICK id \in [Directories -> PathIds] :
        path_tmp' = [r \in {<<d, id[d]>> : d \in dirs} |->
                       [count |-> SumFunctionOnSet(holds[r[1]], PathIds), children |-> 0]]
  BY DEF GroupByPath
<1>2. DOMAIN path_tmp' \subseteq Directories \X PathIds
  BY <1>1
<1>3. \A r \in DOMAIN path_tmp' : path_tmp'[r] \in [count : Nat, children : Nat]
  <2> SUFFICES ASSUME NEW r \in DOMAIN path_tmp'
               PROVE  path_tmp'[r] \in [count : Nat, children : Nat]
    OBVIOUS
  <2>1. r[1] \in Directories
    BY <1>2
  <2>2. \A i \in PathIds : holds[r[1]][i] \in Nat
    BY <2>1, PathAssumption DEF PathTypes
  <2>3. SumFunctionOnSet(holds[r[1]], PathIds) \in Nat
    BY <2>2, PathAssumption, SumType
  <2>4. path_tmp'[r] = [count |-> SumFunctionOnSet(holds[r[1]], PathIds), children |-> 0]
    BY <1>1
  <2>5. QED
    BY <2>3, <2>4
<1>4. /\ level = 0 /\ level' = MaxDepth(path_tmp')
      /\ UNCHANGED <<holds, path_index, tree, opened>>
  BY DEF GroupByPath
<1>5. /\ level' \in 1 .. Deepest /\ Deepest \in Nat
      /\ \A r \in DOMAIN path_tmp' : Len(r[1]) <= level'
  BY <1>2, <1>4, DepthsAre
<1>6. DOMAIN path_tmp' \subseteq DirectoryRows
  BY <1>2, DirectoryIs DEF DirectoryRows
<1>7. ~Published
  BY <1>4 DEF Published
<1>8. PathTypes'
  BY <1>3, <1>4, <1>5, <1>6, <1>7 DEF PathTypes
<1>9. QED
  BY <1>2, <1>5, <1>8


LEMMA HoldsStay ==
    ASSUME UNCHANGED holds
    PROVE  /\ \A i, d : HasDocuments(i, d)' <=> HasDocuments(i, d)
           /\ \A i, d : Own(i, d)' = Own(i, d)
           /\ \A i, d : DocumentsWithin(i, d)' = DocumentsWithin(i, d)
           /\ Separate' <=> Separate
BY DEF HasDocuments, Own, DocumentsWithin, Separate

\* A directory that is as deep as what it contains holds all of it itself.
LEMMA NoneDeeper ==
    ASSUME PathTypes, NEW i \in PathIds, NEW d \in AllDirectories,
           \A a \in Directories : holds[a][i] > 0 => ~StrictlyBelow(a, d)
    PROVE  DocumentsWithin(i, d) = Own(i, d)
<1>1. /\ IsFiniteSet(Deeper(d)) /\ Deeper(d) \subseteq Directories
      /\ \A a \in Directories : Holdings(i)[a] = holds[a][i] /\ holds[a][i] \in Nat
  BY HoldingsAre
<1>2. \A a \in Deeper(d) : Holdings(i)[a] \in Nat /\ ~(Holdings(i)[a] > 0)
  BY <1>1 DEF Deeper
<1>3. ~(SumFunctionOnSet(Holdings(i), Deeper(d)) > 0)
  BY <1>1, <1>2, SumPositive
<1>4. QED
  BY <1>3, WithinIs

LEMMA GroupCounts ==
    ASSUME PathTypes, GroupByPath, Separate
    PROVE  RowsAreRight'
<1> DEFINE dirs == {d \in Directories : Held(d) # {}}
<1>1. PICK id \in [Directories -> PathIds] :
        /\ \A d \in dirs : id[d] \in Held(d)
        /\ path_tmp' = [r \in {<<d, id[d]>> : d \in dirs} |->
                         [count |-> SumFunctionOnSet(holds[r[1]], PathIds), children |-> 0]]
  BY DEF GroupByPath
<1>2. \A a \in Directories, i \in PathIds : holds[a][i] \in Nat
  BY PathAssumption DEF PathTypes
<1>3. \A a \in Directories : /\ a \in AllDirectories /\ a \in Seq(STRING) /\ Within(a, a)
                             /\ \A i \in PathIds : holds[a][i] > 0 => HasDocuments(i, a)
  <2> SUFFICES ASSUME NEW a \in Directories
               PROVE  a \in AllDirectories /\ a \in Seq(STRING) /\ Within(a, a)
    BY DEF HasDocuments
  <2>1. a \in AllDirectories /\ a \in Seq(STRING)
    BY DirectoryIs
  <2>2. QED
    BY <2>1, PrefixIs DEF Within
<1>4. ASSUME NEW a \in Directories, NEW i \in PathIds, holds[a][i] > 0
      PROVE  a \in dirs /\ id[a] = i
  <2>1. a \in dirs
    BY <1>4 DEF Held
  <2>2. holds[a][id[a]] > 0 /\ id[a] \in PathIds
    BY <1>1, <2>1 DEF Held
  <2>3. QED
    BY <1>3, <1>4, <2>1, <2>2, OneIndex
<1>5. DOMAIN path_tmp' = {<<d, id[d]>> : d \in dirs}
  BY <1>1
<1>6. \A a \in Directories, i \in PathIds : holds[a][i] > 0 => <<a, i>> \in DOMAIN path_tmp'
  BY <1>4, <1>5
<1>7. ASSUME NEW r \in DOMAIN path_tmp'
      PROVE  /\ r[1] \in dirs /\ r[2] \in PathIds /\ r[2] \in Held(r[1])
             /\ path_tmp'[r].children = 0
             /\ path_tmp'[r].count = holds[r[1]][r[2]]
  <2>1. PICK d \in dirs : r = <<d, id[d]>>
    BY <1>5
  <2>2. r[1] = d /\ r[2] = id[d] /\ id[d] \in PathIds /\ id[d] \in Held(d)
    BY <1>1, <2>1
  <2>3. path_tmp'[r] = [count |-> SumFunctionOnSet(holds[r[1]], PathIds), children |-> 0]
    BY <1>1, <1>5
  <2>4. SumFunctionOnSet(holds[d], PathIds) = holds[d][id[d]]
    <3>1. PICK w : w = holds[d]
      OBVIOUS
    <3>2. PICK x \in PathIds : x = id[d]
      BY <2>2
    <3>3. \A i \in PathIds : w[i] \in Nat
      BY <1>2, <3>1
    <3>4. \A i \in PathIds : w[i] > 0 => i = x
      BY <1>4, <3>1, <3>2
    <3>5. SumFunctionOnSet(w, PathIds) = w[x]
      BY <3>3, <3>4, PathAssumption, SumOfOne
    <3>6. QED
      BY <3>1, <3>2, <3>5
  <2>5. QED
    BY <2>2, <2>3, <2>4
<1>8. /\ level' > 0 /\ level' \in Nat
      /\ \A r \in DOMAIN path_tmp' : Len(r[1]) <= level'
  <2>1. level' \in 0 .. Deepest /\ DOMAIN path_tmp' \subseteq Directories \X PathIds
    BY GroupTypes DEF PathTypes
  <2>2. Deepest \in Nat
    BY <2>1, DepthsAre
  <2>3. QED
    BY <2>1, <2>2, GroupTypes
<1>9. UNCHANGED holds
  BY DEF GroupByPath
<1>10. \A r \in DOMAIN path_tmp' : /\ HasDocuments(r[2], r[1])'
                                   /\ path_tmp'[r].count = Own(r[2], r[1])'
  BY <1>3, <1>7, <1>9, HoldsStay DEF Held, Own
<1>11. ASSUME NEW a \in Directories, NEW i \in PathIds, holds[a][i] > 0
       PROVE  Len(a) \in Nat /\ Len(a) <= level'
  <2>1. <<a, i>> \in DOMAIN path_tmp'
    BY <1>6, <1>11
  <2>2. Len(<<a, i>>[1]) <= level'
    BY <1>8, <2>1
  <2>3. a \in Seq(STRING)
    BY <1>3
  <2>4. QED
    BY <2>2, <2>3
<1>12. ASSUME NEW d \in AllDirectories, NEW i \in PathIds, Len(d) >= level', HasDocuments(i, d)
       PROVE  <<d, i>> \in DOMAIN path_tmp'
  <2>1. PICK a \in Directories : Within(a, d) /\ holds[a][i] > 0
    BY <1>12 DEF HasDocuments
  <2>2. a \in Seq(STRING) /\ d \in Seq(STRING) /\ Len(a) <= Len(d)
    BY <1>8, <1>11, <1>12, <2>1, DirectoryIs
  <2>3. Len(d) <= Len(a) /\ \A k \in 1 .. Len(d) : d[k] = a[k]
    BY <2>1, <2>2, PrefixIs DEF Within
  <2>4. a = d
    BY <2>2, <2>3
  <2>5. QED
    BY <1>6, <2>1, <2>4
<1>13. ASSUME NEW r \in DOMAIN path_tmp', Len(r[1]) >= level'
       PROVE  path_tmp'[r].count + path_tmp'[r].children = DocumentsWithin(r[2], r[1])
  <2>1. r[1] \in AllDirectories /\ r[1] \in Directories /\ Len(r[1]) \in Nat
    BY <1>3, <1>7
  <2>2. \A a \in Directories : holds[a][r[2]] > 0 => ~StrictlyBelow(a, r[1])
    BY <1>7, <1>8, <1>11, <1>13, <2>1 DEF StrictlyBelow
  <2>3. DocumentsWithin(r[2], r[1]) = Own(r[2], r[1])
    BY <1>7, <2>1, <2>2, NoneDeeper
  <2>4. QED
    BY <1>2, <1>7, <2>1, <2>3 DEF Own
<1>14. QED
  BY <1>6, <1>7, <1>9, <1>10, <1>12, <1>13, HoldsStay DEF RowsAreRight

LEMMA DeepestIs == Deepest \in Nat
<1>1. DOMAIN [r \in {} |-> r] \subseteq Directories \X PathIds
  OBVIOUS
<1>2. QED
  BY <1>1, DepthsAre

\* The rows of an iteration: one for each parent of a directory of that depth.
ParentRows(new) ==
    /\ \A r \in new : /\ r = <<r[1], r[2]>> /\ r[1] \in AllDirectories /\ r[2] \in PathIds
                      /\ Len(r[1]) = level - 1
                      /\ \E q \in DOMAIN path_tmp : q[2] = r[2] /\ Within(q[1], r[1])
    /\ \A q \in DOMAIN path_tmp : Len(q[1]) = level => \E r \in new : r[1] = Front(q[1])
    /\ DOMAIN path_tmp' = DOMAIN path_tmp \cup new
    /\ \A r \in DOMAIN path_tmp' :
          /\ path_tmp'[r] \in [count : Nat, children : Nat]
          /\ path_tmp'[r].count = (IF r \in DOMAIN path_tmp THEN path_tmp[r].count ELSE 0)
          /\ path_tmp'[r].children = (IF r \in new THEN CountBelow(path_tmp, r[1], r[2])
                                      ELSE path_tmp[r].children)

LEMMA InsertsParents ==
    ASSUME PathTypes, InsertParents
    PROVE  \E new : ParentRows(new)
<1> DEFINE rows == {r \in DOMAIN path_tmp : Depth(r[1]) = level}
           parents == {Front(r[1]) : r \in rows}
           IdsIn(p) == {r[2] : r \in {q \in rows : Front(q[1]) = p}}
<1>1. PICK id \in [parents -> PathIds] :
        LET new == {<<p, id[p]>> : p \in parents}
        IN  /\ \A p \in parents : id[p] \in IdsIn(p)
            /\ path_tmp' = [r \in DOMAIN path_tmp \cup new |->
                  [count |-> IF r \in DOMAIN path_tmp THEN path_tmp[r].count ELSE 0,
                   children |-> IF r \in new THEN CountBelow(path_tmp, r[1], r[2])
                                ELSE path_tmp[r].children]]
  BY DEF InsertParents
<1> DEFINE new == {<<p, id[p]>> : p \in parents}
<1>2. level \in Nat /\ level > 1
  BY DeepestIs DEF PathTypes, InsertParents
<1>3. ASSUME NEW r \in new
      PROVE  /\ r = <<r[1], r[2]>> /\ r[1] \in AllDirectories /\ r[2] \in PathIds
             /\ Len(r[1]) = level - 1
             /\ \E q \in DOMAIN path_tmp : q[2] = r[2] /\ Within(q[1], r[1])
  <2>1. PICK p \in parents : r = <<p, id[p]>>
    OBVIOUS
  <2>2. PICK q \in rows : Front(q[1]) = p /\ q[2] = id[p]
    BY <1>1
  <2>3. q \in DOMAIN path_tmp /\ q[1] \in AllDirectories /\ q[2] \in PathIds /\ Len(q[1]) = level
    BY DEF PathTypes, DirectoryRows, Depth
  <2>4. Len(p) = level - 1 /\ Within(q[1], p) /\ p \in AllDirectories
    BY <1>2, <2>2, <2>3, ParentOf
  <2>5. QED
    BY <2>1, <2>2, <2>3, <2>4
<1>4. ASSUME NEW q \in DOMAIN path_tmp, Len(q[1]) = level
      PROVE  \E r \in new : r[1] = Front(q[1])
  <2>1. q \in rows
    BY <1>4 DEF Depth
  <2>2. <<Front(q[1]), id[Front(q[1])]>> \in new
    BY <2>1
  <2>3. QED
    BY <2>2
<1>5. path_tmp' = [r \in DOMAIN path_tmp \cup new |->
                  [count |-> IF r \in DOMAIN path_tmp THEN path_tmp[r].count ELSE 0,
                   children |-> IF r \in new THEN CountBelow(path_tmp, r[1], r[2])
                                ELSE path_tmp[r].children]]
  BY <1>1
<1> HIDE DEF new
<1>6. \A d, i : CountBelow(path_tmp, d, i) \in Nat
  <2> SUFFICES ASSUME NEW d, NEW i
               PROVE  CountBelow(path_tmp, d, i) \in Nat
    OBVIOUS
  <2> DEFINE v == [r \in DOMAIN path_tmp |-> path_tmp[r].count]
             R == {r \in DOMAIN path_tmp : r[2] = i /\ StrictlyBelow(r[1], d)}
  <2>1. R \subseteq DirectoryRows /\ \A r \in R : v[r] \in Nat
    BY DEF PathTypes
  <2>2. IsFiniteSet(DirectoryRows)
    BY DirectoriesAreFinite, PathAssumption, FS_Product DEF DirectoryRows
  <2>3. SumFunctionOnSet(v, R) \in Nat
    <3> HIDE DEF v, R
    <3>1. IsFiniteSet(R)
      BY <2>1, <2>2, FS_Subset
    <3>2. QED
      BY <2>1, <3>1, SumType
  <2>4. QED
    BY <2>3 DEF CountBelow
<1>7. ASSUME NEW r \in DOMAIN path_tmp'
      PROVE  /\ path_tmp'[r] \in [count : Nat, children : Nat]
             /\ path_tmp'[r].count = (IF r \in DOMAIN path_tmp THEN path_tmp[r].count ELSE 0)
             /\ path_tmp'[r].children = (IF r \in new THEN CountBelow(path_tmp, r[1], r[2])
                                         ELSE path_tmp[r].children)
  <2> DEFINE c == IF r \in DOMAIN path_tmp THEN path_tmp[r].count ELSE 0
             b == IF r \in new THEN CountBelow(path_tmp, r[1], r[2]) ELSE path_tmp[r].children
  <2>1. r \in DOMAIN path_tmp \/ r \in new
    BY <1>5
  <2>2. c \in Nat /\ b \in Nat
    BY <1>6, <2>1 DEF PathTypes
  <2>3. path_tmp'[r] = [count |-> c, children |-> b]
    BY <1>5
  <2> HIDE DEF c, b
  <2>4. path_tmp'[r] \in [count : Nat, children : Nat] /\ path_tmp'[r].count = c /\ path_tmp'[r].children = b
    BY <2>2, <2>3
  <2>5. QED
    BY <2>4 DEF c, b
<1>8. DOMAIN path_tmp' = DOMAIN path_tmp \cup new
  BY <1>5
<1>9. ParentRows(new)
  BY <1>3, <1>4, <1>7, <1>8 DEF ParentRows
<1>10. QED
  BY <1>9

LEMMA InsertTypes ==
    ASSUME PathTypes, InsertParents
    PROVE  /\ PathTypes' /\ level' = level - 1 /\ level \in Nat /\ level > 1
<1>1. PICK new : ParentRows(new)
  BY InsertsParents
<1>2. level \in Nat /\ level > 1 /\ Deepest \in Nat /\ level <= Deepest /\ level' = level - 1
  BY DeepestIs DEF PathTypes, InsertParents
<1>3. ~Published
  BY <1>2 DEF Published
<1>4. new \subseteq DirectoryRows
  <2>1. \A r \in new : r = <<r[1], r[2]>> /\ r[1] \in AllDirectories /\ r[2] \in PathIds
    BY <1>1 DEF ParentRows
  <2>2. QED
    BY <2>1 DEF DirectoryRows
<1>5. /\ DOMAIN path_tmp' \subseteq DirectoryRows
      /\ \A r \in DOMAIN path_tmp' : path_tmp'[r] \in [count : Nat, children : Nat]
  BY <1>1, <1>4 DEF ParentRows, PathTypes
<1>6. UNCHANGED <<holds, path_index, tree, opened>>
  BY DEF InsertParents
<1>7. QED
  BY <1>2, <1>3, <1>5, <1>6 DEF PathTypes

LEMMA InsertCounts ==
    ASSUME PathTypes, InsertParents, Separate, RowsAreRight
    PROVE  RowsAreRight'
<1>1. PICK new : ParentRows(new)
  BY InsertsParents
<1>2. level \in Nat /\ level > 1 /\ level' = level - 1 /\ UNCHANGED holds
  BY InsertTypes DEF InsertParents
<1>3. ASSUME NEW r \in new
      PROVE  HasDocuments(r[2], r[1])
  <2>1. PICK q \in DOMAIN path_tmp : q[2] = r[2] /\ Within(q[1], r[1])
    BY <1>1 DEF ParentRows
  <2>2. HasDocuments(q[2], q[1]) /\ q[1] \in AllDirectories /\ r[1] \in AllDirectories
    BY <1>1 DEF RowsAreRight, PathTypes, DirectoryRows, ParentRows
  <2>3. PICK a \in Directories : Within(a, q[1]) /\ holds[a][q[2]] > 0
    BY <2>2 DEF HasDocuments
  <2>4. a \in Seq(STRING) /\ q[1] \in Seq(STRING) /\ r[1] \in Seq(STRING)
    BY <2>2, DirectoryIs
  <2>5. Within(a, r[1])
    BY <2>1, <2>3, <2>4, WithinTransitive
  <2>6. QED
    BY <2>1, <2>3, <2>5 DEF HasDocuments
<1>4. ASSUME NEW d \in AllDirectories, NEW i \in PathIds, Len(d) = level - 1,
             NEW a \in Directories, StrictlyBelow(a, d), holds[a][i] > 0
      PROVE  <<d, i>> \in new
  <2>1. a \in Seq(STRING) /\ d \in Seq(STRING) /\ Len(d) \in Nat
    BY DirectoryIs
  <2>2. PICK e \in Seq(STRING) : Len(e) = Len(d) + 1 /\ Front(e) = d /\ Within(a, e)
    BY <1>4, <2>1, NextBelow
  <2>3. Len(e) = level
    BY <1>2, <1>4, <2>1, <2>2
  <2>4. e \in AllDirectories
    BY <1>2, <2>2, <2>3, DirectoryIs
  <2>5. HasDocuments(i, e)
    BY <1>4, <2>2 DEF HasDocuments
  <2>6. <<e, i>> \in DOMAIN path_tmp
    BY <1>2, <2>3, <2>4, <2>5 DEF RowsAreRight
  <2>7. PICK r \in new : r[1] = d
    <3>1. Len(<<e, i>>[1]) = level /\ Front(<<e, i>>[1]) = d
      BY <2>2, <2>3
    <3>2. QED
      BY <1>1, <2>6, <3>1 DEF ParentRows
  <2>8. HasDocuments(r[2], d) /\ r[2] \in PathIds /\ r = <<r[1], r[2]>>
    BY <1>1, <1>3, <2>7 DEF ParentRows
  <2>9. HasDocuments(i, d)
    BY <1>4 DEF HasDocuments, StrictlyBelow, Within
  <2>10. r[2] = i
    BY <2>8, <2>9, OneIndex
  <2>11. QED
    BY <2>7, <2>8, <2>10
<1>5. DOMAIN path_tmp' = DOMAIN path_tmp \cup new /\ DOMAIN path_tmp \subseteq DirectoryRows
  BY <1>1 DEF ParentRows, PathTypes
<1>6. ASSUME NEW r \in DOMAIN path_tmp'
      PROVE  /\ HasDocuments(r[2], r[1]) /\ path_tmp'[r].count = Own(r[2], r[1])
             /\ r = <<r[1], r[2]>> /\ r[1] \in AllDirectories /\ r[2] \in PathIds
             /\ r[1] \in Seq(STRING) /\ Len(r[1]) \in Nat
  <2>1. r = <<r[1], r[2]>> /\ r[1] \in AllDirectories /\ r[2] \in PathIds
    BY <1>1, <1>5 DEF DirectoryRows, ParentRows
  <2>2. r[1] \in Seq(STRING) /\ Len(r[1]) \in Nat
    BY <2>1, DirectoryIs
  <2>3. CASE r \in DOMAIN path_tmp
    BY <1>1, <2>1, <2>2, <2>3 DEF ParentRows, RowsAreRight
  <2>4. CASE r \notin DOMAIN path_tmp
    <3>1. path_tmp'[r].count = 0 /\ r \in new
      BY <1>1, <1>5, <2>4 DEF ParentRows
    <3>2. ~(r[1] \in Directories /\ holds[r[1]][r[2]] > 0)
      BY <2>1, <2>4 DEF RowsAreRight
    <3>3. r[1] \in Directories => holds[r[1]][r[2]] \in Nat
      BY <2>1, PathAssumption DEF PathTypes
    <3>4. Own(r[2], r[1]) = 0
      BY <3>2, <3>3 DEF Own
    <3>5. QED
      BY <1>3, <2>1, <2>2, <3>1, <3>4
  <2>5. QED
    BY <2>3, <2>4
<1>7. ASSUME NEW d \in AllDirectories, NEW i \in PathIds, Len(d) >= level - 1, HasDocuments(i, d)
      PROVE  <<d, i>> \in DOMAIN path_tmp'
  <2>1. Len(d) \in Nat /\ d \in Seq(STRING)
    BY DirectoryIs
  <2>2. CASE Len(d) >= level
    BY <1>5, <1>7, <2>2 DEF RowsAreRight
  <2>3. CASE Len(d) = level - 1
    <3>1. PICK a \in Directories : Within(a, d) /\ holds[a][i] > 0
      BY <1>7 DEF HasDocuments
    <3>2. a \in Seq(STRING) /\ Len(d) <= Len(a) /\ \A k \in 1 .. Len(d) : d[k] = a[k]
      BY <2>1, <3>1, DirectoryIs, PrefixIs DEF Within
    <3>3. CASE Len(d) = Len(a)
      <4>1. a = d
        BY <2>1, <3>2, <3>3
      <4>2. QED
        BY <1>5, <3>1, <4>1 DEF RowsAreRight
    <3>4. CASE Len(d) < Len(a)
      <4>1. StrictlyBelow(a, d)
        BY <3>1, <3>4 DEF StrictlyBelow, Within
      <4>2. QED
        BY <1>4, <1>5, <2>3, <3>1, <4>1
    <3>5. QED
      BY <2>1, <3>2, <3>3, <3>4
  <2>4. QED
    BY <1>2, <1>7, <2>1, <2>2, <2>3
<1>8. ASSUME NEW r \in DOMAIN path_tmp'
      PROVE  IF Len(r[1]) >= level - 1
             THEN path_tmp'[r].count + path_tmp'[r].children = DocumentsWithin(r[2], r[1])
             ELSE path_tmp'[r].children = 0
  <2>1. CASE r \in new
    <3>1. Len(r[1]) = level - 1
      BY <1>1, <2>1 DEF ParentRows
    <3>2. path_tmp'[r].children = CountBelow(path_tmp, r[1], r[2])
      BY <1>1, <2>1 DEF ParentRows
    <3>3. CountBelow(path_tmp, r[1], r[2]) = SumFunctionOnSet(Holdings(r[2]), Deeper(r[1]))
      BY <1>6, BelowIs
    <3>4. DocumentsWithin(r[2], r[1]) = Own(r[2], r[1]) + SumFunctionOnSet(Holdings(r[2]), Deeper(r[1]))
      BY <1>6, WithinIs
    <3>5. QED
      BY <1>2, <1>6, <3>1, <3>2, <3>3, <3>4
  <2>2. CASE r \notin new
    <3>1. /\ r \in DOMAIN path_tmp
          /\ path_tmp'[r].count = path_tmp[r].count /\ path_tmp'[r].children = path_tmp[r].children
      BY <1>1, <1>5, <2>2 DEF ParentRows
    <3>2. CASE Len(r[1]) >= level
      BY <1>2, <1>6, <3>1, <3>2 DEF RowsAreRight
    <3>3. CASE Len(r[1]) < level - 1
      BY <1>2, <1>6, <3>1, <3>3 DEF RowsAreRight
    <3>4. CASE Len(r[1]) = level - 1
      <4>1. path_tmp'[r].children = 0
        BY <1>2, <1>6, <3>1, <3>4 DEF RowsAreRight
      <4>2. \A a \in Directories : holds[a][r[2]] > 0 => ~StrictlyBelow(a, r[1])
        BY <1>4, <1>6, <2>2, <3>4
      <4>3. DocumentsWithin(r[2], r[1]) = Own(r[2], r[1]) /\ Own(r[2], r[1]) \in Nat
        BY <1>6, <4>2, NoneDeeper, WithinIs
      <4>4. QED
        BY <1>2, <1>6, <3>4, <4>1, <4>3
    <3>5. QED
      BY <1>2, <1>6, <3>2, <3>3, <3>4
  <2>3. QED
    BY <2>1, <2>2
<1>9. \A a \in Directories, i \in PathIds : holds[a][i] > 0 => <<a, i>> \in DOMAIN path_tmp'
  BY <1>5 DEF RowsAreRight
<1>10. QED
  BY <1>2, <1>6, <1>7, <1>8, <1>9, HoldsStay DEF RowsAreRight

\* With no row at all there is nothing to publish.
LEMMA NothingToPublish ==
    ASSUME PathTypes', RowsAreRight', Published', DOMAIN path_index' = {}
    PROVE  IndexIsRight'
<1>1. DOMAIN path_tmp' = {} /\ level' = 1
  BY DEF Published
<1>2. ASSUME NEW d \in AllDirectories, NEW i \in PathIds, HasDocuments(i, d)'
      PROVE  FALSE
  <2>1. Len(d) >= level'
    BY <1>1, DirectoryIs
  <2>2. <<d, i>> \in DOMAIN path_tmp'
    BY <1>2, <2>1 DEF RowsAreRight
  <2>3. QED
    BY <1>1, <2>2
<1>3. QED
  BY <1>2 DEF IndexIsRight

LEMMA PublishStep ==
    ASSUME PathIInv, PublishPaths
    PROVE  PathIInv'
<1>1. /\ level = 1 /\ level' = 1 /\ path_tmp' = <<>> /\ DOMAIN path_tmp' = {}
      /\ path_index' = [r \in DOMAIN path_tmp |-> path_tmp[r].count + path_tmp[r].children]
      /\ UNCHANGED <<holds, tree, opened>> /\ ~Published
  BY DEF PublishPaths, Published
<1>2. \A r \in DOMAIN path_tmp : path_tmp[r].count + path_tmp[r].children \in Nat
  BY DEF PathIInv, PathTypes
<1>3. Published'
  BY <1>1 DEF Published
<1>4. PathTypes'
  BY <1>1, <1>2, <1>3 DEF PathIInv, PathTypes
<1>5. tree' = {} /\ opened' = {}
  BY <1>1 DEF PathIInv, PathTypes
<1>6. TreeIsOpened'
  BY <1>5 DEF TreeIsOpened
<1>7. ASSUME Separate
      PROVE  IndexIsRight'
  <2>1. RowsAreRight
    BY <1>1, <1>7 DEF PathIInv, Counted
  <2>2. ASSUME NEW d \in AllDirectories, NEW i \in PathIds, HasDocuments(i, d)
        PROVE  <<d, i>> \in DOMAIN path_index'
    <3>1. Len(d) >= level
      BY <1>1, DirectoryIs
    <3>2. QED
      BY <1>1, <2>1, <2>2, <3>1 DEF RowsAreRight
  <2>3. ASSUME NEW r \in DOMAIN path_index'
        PROVE  path_index'[r] = DocumentsWithin(r[2], r[1])
    <3>1. r \in DOMAIN path_tmp /\ path_index'[r] = path_tmp[r].count + path_tmp[r].children
      BY <1>1
    <3>2. r[1] \in AllDirectories
      BY <3>1 DEF PathIInv, PathTypes, DirectoryRows
    <3>3. Len(r[1]) >= level
      BY <1>1, <3>2, DirectoryIs
    <3>4. QED
      BY <2>1, <3>1, <3>3 DEF RowsAreRight
  <2>4. QED
    BY <1>1, <2>2, <2>3, HoldsStay DEF IndexIsRight
<1>8. Counted'
  BY <1>1, <1>3, <1>7, HoldsStay DEF Counted
<1>9. QED
  BY <1>4, <1>6, <1>8 DEF PathIInv

LEMMA OpenStep ==
    ASSUME PathIInv, NEW i \in PathIds, NEW d \in AllDirectories \cup {NoPrefix}, Open(i, d)
    PROVE  PathIInv'
<1>1. /\ Published /\ UNCHANGED <<holds, path_tmp, level, path_index>>
      /\ tree' = tree \cup {<<i, a[1], a[2]>> : a \in SearchPaths(i, Depth(d) + 1, Depth(d) + 1, d)}
      /\ opened' = opened \cup {<<i, d>>}
  BY DEF Open
<1>2. Published'
  BY <1>1 DEF Published
<1>3. PathTypes'
  BY <1>1, <1>2 DEF PathIInv, PathTypes
<1>4. i # 0 /\ Depth(d) \in Nat
  BY PathAssumption, DirectoryIs DEF NoPrefix, Depth
<1>5. ASSUME NEW a \in SearchPaths(i, Depth(d) + 1, Depth(d) + 1, d)
      PROVE  <<a[1], i>> \in DOMAIN path_index /\ a[2] = path_index[<<a[1], i>>]
  <2>1. PICK r \in DOMAIN path_index : r[2] = i /\ a = <<r[1], path_index[r]>>
    BY <1>4 DEF SearchPaths
  <2>2. r = <<r[1], i>>
    BY <2>1 DEF PathIInv, PathTypes, DirectoryRows
  <2>3. QED
    BY <2>1, <2>2
<1>6. ASSUME NEW r \in DOMAIN path_index, r[2] = i, Depth(r[1]) = Depth(d) + 1, Within(r[1], d)
      PROVE  <<i, r[1], path_index[r]>> \in tree'
  <2>1. <<r[1], path_index[r]>> \in SearchPaths(i, Depth(d) + 1, Depth(d) + 1, d)
    BY <1>4, <1>6 DEF SearchPaths
  <2>2. QED
    BY <1>1, <2>1
<1>7. ASSUME NEW n \in tree'
      PROVE  <<n[2], n[1]>> \in DOMAIN path_index /\ n[3] = path_index[<<n[2], n[1]>>]
  <2>1. CASE n \in tree
    BY <2>1 DEF PathIInv, TreeIsOpened
  <2>2. CASE n \notin tree
    <3>1. PICK a \in SearchPaths(i, Depth(d) + 1, Depth(d) + 1, d) : n = <<i, a[1], a[2]>>
      BY <1>1, <2>2
    <3>2. QED
      BY <1>5, <3>1
  <2>3. QED
    BY <2>1, <2>2
<1>8. ASSUME NEW o \in opened', NEW r \in DOMAIN path_index,
             r[2] = o[1], Depth(r[1]) = Depth(o[2]) + 1, Within(r[1], o[2])
      PROVE  <<r[2], r[1], path_index[r]>> \in tree'
  <2>1. CASE o \in opened
    BY <1>1, <1>8, <2>1 DEF PathIInv, TreeIsOpened
  <2>2. CASE o = <<i, d>>
    BY <1>6, <1>8, <2>2
  <2>3. QED
    BY <1>1, <2>1, <2>2
<1>9. TreeIsOpened'
  BY <1>1, <1>7, <1>8 DEF TreeIsOpened
<1>10. Counted'
  <2>1. Separate => IndexIsRight
    BY <1>1 DEF PathIInv, Counted
  <2>2. IndexIsRight => IndexIsRight'
    BY <1>1, HoldsStay DEF IndexIsRight
  <2>3. QED
    BY <1>1, <1>2, <2>1, <2>2, HoldsStay DEF Counted
<1>11. QED
  BY <1>3, <1>9, <1>10 DEF PathIInv

LEMMA RowsStep ==
    ASSUME PathIInv, GroupByPath \/ InsertParents
    PROVE  PathIInv'
<1>1. PathTypes' /\ ~Published /\ UNCHANGED <<holds, path_index, tree, opened>>
  <2>1. PathTypes'
    BY GroupTypes, InsertTypes DEF PathIInv
  <2>2. level = 0 \/ (level > 1 /\ level \in Nat)
    BY InsertTypes DEF PathIInv, GroupByPath
  <2>3. UNCHANGED <<holds, path_index, tree, opened>>
    BY DEF GroupByPath, InsertParents
  <2>4. QED
    BY <2>1, <2>2, <2>3 DEF Published
<1>2. tree' = {} /\ opened' = {} /\ DOMAIN path_index' = {}
  BY <1>1 DEF PathIInv, PathTypes
<1>3. TreeIsOpened'
  BY <1>2 DEF TreeIsOpened
<1>4. Separate => RowsAreRight'
  <2>1. CASE GroupByPath
    BY <2>1, GroupCounts DEF PathIInv
  <2>2. CASE InsertParents
    <3>1. Separate => RowsAreRight
      BY <1>1, <2>2, InsertTypes DEF PathIInv, Counted
    <3>2. QED
      BY <2>2, <3>1, InsertCounts DEF PathIInv
  <2>3. QED
    BY <2>1, <2>2
<1>5. Counted'
  <2>1. Separate /\ Published' => IndexIsRight'
    BY <1>1, <1>2, <1>4, NothingToPublish
  <2>2. QED
    BY <1>1, <1>4, <2>1, HoldsStay DEF Counted
<1>6. QED
  BY <1>1, <1>3, <1>5 DEF PathIInv

LEMMA PathStep == PathIInv /\ [PathNext]_pathVars => PathIInv'
<1> SUFFICES ASSUME PathIInv, [PathNext]_pathVars
             PROVE  PathIInv'
  OBVIOUS
<1>1. CASE GroupByPath \/ InsertParents
  BY <1>1, RowsStep
<1>2. CASE PublishPaths
  BY <1>2, PublishStep
<1>3. ASSUME NEW i \in PathIds, NEW d \in AllDirectories \cup {NoPrefix}, Open(i, d)
      PROVE  PathIInv'
  BY <1>3, OpenStep
<1>4. CASE UNCHANGED pathVars
  <2>1. UNCHANGED <<holds, path_tmp, level, path_index, tree, opened>>
    BY <1>4 DEF pathVars
  <2>2. PathTypes' /\ TreeIsOpened'
    BY <2>1 DEF PathIInv, PathTypes, TreeIsOpened, Published
  <2>3. RowsAreRight => RowsAreRight'
    BY <2>1, HoldsStay DEF RowsAreRight
  <2>4. IndexIsRight => IndexIsRight'
    BY <2>1, HoldsStay DEF IndexIsRight
  <2>5. Published' <=> Published
    BY <2>1 DEF Published
  <2>6. Counted'
    BY <2>1, <2>3, <2>4, <2>5, HoldsStay DEF PathIInv, Counted
  <2>7. QED
    BY <2>2, <2>6 DEF PathIInv
<1>5. QED
  BY <1>1, <1>2, <1>3, <1>4 DEF PathNext

\* The invariant of the directory tree, from the first statement to the last node opened.
THEOREM PathInvariant == PathSpec => []PathIInv
<1>1. PathInit => PathIInv
  <2> SUFFICES ASSUME PathInit
               PROVE  PathIInv
    OBVIOUS
  <2>1. level = 0 /\ tree = {} /\ opened = {} /\ DOMAIN path_tmp = {} /\ DOMAIN path_index = {}
    BY DEF PathInit
  <2>2. PathTypes
    BY <2>1, DeepestIs DEF PathInit, PathTypes
  <2>3. ~Published
    BY <2>1 DEF Published
  <2>4. QED
    BY <2>1, <2>2, <2>3 DEF PathIInv, TreeIsOpened, Counted
<1>2. QED
  BY <1>1, PathStep, PTL DEF PathSpec

\* The types of the tables behind the directory tree, whatever directories there are.
THEOREM PathTypeCorrect == PathSpec => []PathTypeOK
<1>1. PathIInv => PathTypeOK
  <2> SUFFICES ASSUME PathIInv
               PROVE  PathTypeOK
    OBVIOUS
  <2>1. \A n \in tree : n[1] \in PathIds /\ n[2] \in AllDirectories /\ n[3] \in Nat
    BY DEF PathIInv, PathTypes, TreeIsOpened, DirectoryRows
  <2>2. QED
    BY <2>1 DEF PathIInv, PathTypes, PathTypeOK, DirectoryRows
<1>2. QED
  BY <1>1, PathInvariant, PTL

\* A user who opens every node of the tree sees every directory that has documents in it or
\* below it, with their number, for all trees of directories and all index files that share
\* none (database_fts_index and database_fts_get_paths).
THEOREM TreeCorrect == PathSpec => []TreeShowsDocuments
<1>1. PathIInv => TreeShowsDocuments
  <2> SUFFICES ASSUME PathIInv
               PROVE  TreeShowsDocuments
    OBVIOUS
  <2>1. \A n \in tree : Separate => n[3] = DocumentsWithin(n[1], n[2])
    <3> SUFFICES ASSUME NEW n \in tree, Separate
                 PROVE  n[3] = DocumentsWithin(n[1], n[2])
      OBVIOUS
    <3>1. <<n[2], n[1]>> \in DOMAIN path_index /\ n[3] = path_index[<<n[2], n[1]>>]
      BY DEF PathIInv, TreeIsOpened
    <3>2. IndexIsRight
      BY DEF PathIInv, PathTypes, Counted
    <3>3. path_index[<<n[2], n[1]>>] = DocumentsWithin(n[1], n[2])
      BY <3>1, <3>2 DEF IndexIsRight
    <3>4. QED
      BY <3>1, <3>3
  <2>2. ASSUME NEW i \in PathIds, NEW d \in AllDirectories,
               \A e \in (Ancestors(d) \ {d}) \cup {NoPrefix} : <<i, e>> \in opened,
               DocumentsWithin(i, d) > 0, Separate
        PROVE  \E n \in tree : n[1] = i /\ n[2] = d
    <3>1. PICK e : e = Front(d)
      OBVIOUS
    <3>2. d \in Seq(STRING) /\ Len(d) \in Nat \ {0} /\ e \in Seq(STRING) /\ Len(e) = Len(d) - 1 /\ Within(d, e)
      BY <3>1, DirectoryIs, ParentOf
    <3>3. e \in (Ancestors(d) \ {d}) \cup {NoPrefix}
      <4>1. CASE Len(d) = 1
        <5>1. e = <<>>
          BY <3>2, <4>1
        <5>2. QED
          BY <5>1 DEF NoPrefix
      <4>2. CASE Len(d) > 1
        <5>1. e = SubSeq(d, 1, Len(d) - 1) /\ Len(d) - 1 \in 1 .. Len(d)
          BY <3>1, <3>2, <4>2 DEF Front
        <5>2. e \in Ancestors(d)
          BY <5>1 DEF Ancestors
        <5>3. QED
          BY <3>2, <5>2
      <4>3. QED
        BY <3>2, <4>1, <4>2
    <3>4. <<i, e>> \in opened /\ Published
      BY <2>2, <3>3 DEF PathIInv, PathTypes
    <3>5. IndexIsRight
      BY <2>2, <3>4 DEF PathIInv, Counted
    <3>6. HasDocuments(i, d)
      BY <2>2, SomeAreWithin DEF PathIInv
    <3>7. PICK r \in DOMAIN path_index : r = <<d, i>>
      BY <3>5, <3>6 DEF IndexIsRight
    <3>8. r[1] = d /\ r[2] = i /\ Depth(r[1]) = Depth(e) + 1 /\ Within(r[1], e)
      BY <3>2, <3>7 DEF Depth
    <3>9. PICK o \in opened : o = <<i, e>>
      BY <3>4
    <3>10. o[1] = i /\ o[2] = e
      BY <3>9
    <3>11. <<r[2], r[1], path_index[r]>> \in tree
      BY <3>8, <3>10 DEF PathIInv, TreeIsOpened
    <3>12. QED
      BY <3>8, <3>11
  <2>3. QED
    BY <2>1, <2>2 DEF TreeShowsDocuments
<1>2. QED
  BY <1>1, PathInvariant, PTL

-----------------------------------------------------------------------------
(* Positions in an order.                                                  *)

Position(R, Rel, x) == Cardinality({y \in R : <<y, x>> \in Rel})
TotalOrder(R, Rel) ==
    /\ \A x \in R : <<x, x>> \notin Rel
    /\ \A x, y, z \in R : <<x, y>> \in Rel /\ <<y, z>> \in Rel => <<x, z>> \in Rel
    /\ \A x, y \in R : x = y \/ <<x, y>> \in Rel \/ <<y, x>> \in Rel

\* Who has more before himself comes later, and there is one for every position.
LEMMA Positions ==
    ASSUME NEW R, IsFiniteSet(R), NEW Rel, TotalOrder(R, Rel)
    PROVE  /\ Cardinality(R) \in Nat
           /\ \A x \in R : Position(R, Rel, x) \in 0 .. Cardinality(R) - 1
           /\ \A x, y \in R : <<x, y>> \in Rel => Position(R, Rel, x) < Position(R, Rel, y)
           /\ \A x, y \in R : Position(R, Rel, x) = Position(R, Rel, y) => x = y
           /\ \A n \in 0 .. Cardinality(R) - 1 : \E x \in R : Position(R, Rel, x) = n
<1> DEFINE B(x) == {y \in R : <<y, x>> \in Rel}
<1>1. Cardinality(R) \in Nat
  BY FS_CardinalityType
<1>2. \A x \in R : IsFiniteSet(B(x)) /\ Cardinality(B(x)) \in Nat /\ B(x) \subseteq R /\ x \notin B(x)
  <2> SUFFICES ASSUME NEW x \in R
               PROVE  IsFiniteSet(B(x)) /\ Cardinality(B(x)) \in Nat /\ B(x) \subseteq R /\ x \notin B(x)
    OBVIOUS
  <2>1. B(x) \subseteq R /\ x \notin B(x)
    BY DEF TotalOrder
  <2> HIDE DEF B
  <2>2. IsFiniteSet(B(x))
    BY <2>1, FS_Subset
  <2>3. QED
    BY <2>1, <2>2, FS_CardinalityType
<1>3. ASSUME NEW x \in R
      PROVE  Position(R, Rel, x) \in 0 .. Cardinality(R) - 1
  <2>1. Position(R, Rel, x) = Cardinality(B(x))
    BY DEF Position
  <2> HIDE DEF B
  <2>2. Cardinality(B(x)) <= Cardinality(R) /\ Cardinality(B(x)) # Cardinality(R)
    BY <1>2, FS_Subset
  <2>3. QED
    BY <1>1, <1>2, <2>1, <2>2
<1>4. ASSUME NEW x \in R, NEW y \in R, <<x, y>> \in Rel
      PROVE  Position(R, Rel, x) < Position(R, Rel, y)
  <2>1. Position(R, Rel, x) = Cardinality(B(x)) /\ Position(R, Rel, y) = Cardinality(B(y))
    BY DEF Position
  <2>2. B(x) \subseteq B(y) /\ x \in B(y)
    BY <1>4 DEF TotalOrder
  <2> HIDE DEF B
  <2>3. Cardinality(B(x)) <= Cardinality(B(y)) /\ Cardinality(B(x)) # Cardinality(B(y))
    BY <1>2, <2>2, FS_Subset
  <2>4. QED
    BY <1>2, <2>1, <2>3
<1>5. \A x, y \in R : Position(R, Rel, x) = Position(R, Rel, y) => x = y
  <2>1. \A x \in R : Position(R, Rel, x) \in Int
    BY <1>1, <1>3
  <2>2. \A x, y \in R : <<x, y>> \in Rel => Position(R, Rel, x) # Position(R, Rel, y)
    BY <1>4, <2>1
  <2>3. QED
    BY <2>2 DEF TotalOrder
<1>6. \A n \in 0 .. Cardinality(R) - 1 : \E x \in R : Position(R, Rel, x) = n
  <2> DEFINE N == 0 .. Cardinality(R) - 1
             f == [x \in R |-> Position(R, Rel, x)]
  <2>1. IsFiniteSet(N) /\ Cardinality(N) = Cardinality(R)
    BY <1>1, FS_Interval
  <2>2. f \in Injection(R, N)
    <3>1. f \in [R -> N]
      BY <1>3
    <3>2. \A x, y \in R : f[x] = f[y] => x = y
      BY <1>5
    <3>3. QED
      BY <3>1, <3>2 DEF Injection, IsInjective
  <2>3. f \in Surjection(R, N)
    <3> HIDE DEF f, N
    <3> QED
      BY <2>1, <2>2, FS_Injection
  <2>4. QED
    BY <2>3 DEF Surjection
<1>7. QED
  BY <1>1, <1>3, <1>4, <1>5, <1>6

-----------------------------------------------------------------------------
(* The pages of a search: the order of the documents.                      *)

Before(i, j) == Precedes(Pair(i, request), Pair(j, request), request)

\* A request that is answered.
Answered ==
    /\ request \in SearchForms /\ request.sort \in SortModes /\ request.pageSize \in Nat
    /\ present \subseteq DOMAIN Catalogue

LEMMA SortKeys ==
    ASSUME Answered, NEW id \in DOMAIN Catalogue
    PROVE  SortVar(id, request) \in Int /\ id \in Nat /\ Pair(id, request) \in Int \X DOMAIN Catalogue
<1>1. /\ id \in Nat
      /\ \A m \in {"size", "mtime", "random", "name", "score", "embedding"} : Catalogue[id][m] \in Int
  BY PagingAssumption
<1>2. Cardinality(present) \in Nat
  BY PagingAssumption, FS_Subset, FS_CardinalityType DEF Answered
<1>3. Catalogue[id].score \in Int /\ Catalogue[id].embedding \in Int
  BY <1>1
<1>4. Rank(id) \in Int
  BY <1>2, <1>3, PagingAssumption DEF Rank
<1>5. request.sort \in SortModes
  BY DEF Answered
<1>6. CASE request.sort = "score"
  BY <1>1, <1>4, <1>6 DEF SortVar, Pair
<1>7. CASE request.sort = "embedding"
  BY <1>1, <1>3, <1>7 DEF SortVar, Pair
<1>8. CASE request.sort \in {"size", "mtime", "random", "name"}
  BY <1>1, <1>8 DEF SortVar, Pair
<1>9. QED
  BY <1>5, <1>6, <1>7, <1>8 DEF SortModes

LEMMA DocumentOrder ==
    ASSUME Answered
    PROVE  /\ \A i \in DOMAIN Catalogue : ~Before(i, i)
           /\ \A i, j, k \in DOMAIN Catalogue : Before(i, j) /\ Before(j, k) => Before(i, k)
           /\ \A i, j \in DOMAIN Catalogue : i = j \/ Before(i, j) \/ Before(j, i)
<1> DEFINE v(i) == SortVar(i, request)
<1>1. \A i \in DOMAIN Catalogue : v(i) \in Int /\ i \in Nat
  BY SortKeys
<1>2. \A i, j : Before(i, j) <=> IF Ascending(request) THEN v(i) < v(j) \/ (v(i) = v(j) /\ i < j)
                                 ELSE v(i) > v(j) \/ (v(i) = v(j) /\ i < j)
  BY DEF Before, Precedes, Pair, Less
<1> HIDE DEF v
<1>3. QED
  BY <1>1, <1>2

\* Where no two sort alike, or the order ascends, the row value comparison is the order.
LEMMA AfterIsBefore ==
    ASSUME Answered, NEW S, S \subseteq DOMAIN Catalogue, Ordered(S), NEW i \in S, NEW j \in S
    PROVE  IsAfter(Pair(i, request), Pair(j, request), request) <=> Before(j, i)
<1>1. /\ SortVar(i, request) \in Int /\ i \in Nat
      /\ SortVar(j, request) \in Int /\ j \in Nat
  BY SortKeys
<1>2. /\ Pair(i, request)[1] = SortVar(i, request) /\ Pair(i, request)[2] = i
      /\ Pair(j, request)[1] = SortVar(j, request) /\ Pair(j, request)[2] = j
  BY DEF Pair
<1>3. Ascending(request) \/ (SortVar(i, request) = SortVar(j, request) => i = j)
  BY DEF Ordered
<1>4. QED
  BY <1>1, <1>2, <1>3 DEF Before, Precedes, IsAfter, Less

\* Where the last page ended is not part of what is searched for.
LEMMA SameSearch ==
    ASSUME request \in SearchForms, NEW a, NEW r, r = [request EXCEPT !.after = a]
    PROVE  /\ \A doc : Where(doc, r) <=> Where(doc, request)
           /\ \A id : SortVar(id, r) = SortVar(id, request)
           /\ Ascending(r) <=> Ascending(request)
           /\ r.pageSize = request.pageSize /\ r.sort = request.sort
<1>1. \A m \in Members : m # "after" => r[m] = request[m]
  BY PagingAssumption
<1>2. /\ r.query = request.query /\ r.path = request.path /\ r.sort = request.sort
      /\ r.sizeMin = request.sizeMin /\ r.sizeMax = request.sizeMax
      /\ r.dateMin = request.dateMin /\ r.dateMax = request.dateMax
      /\ r.pageSize = request.pageSize /\ r.sortAsc = request.sortAsc
      /\ r.indexIds = request.indexIds /\ r.mimeTypes = request.mimeTypes
      /\ r.searchInPath = request.searchInPath /\ r.embedding = request.embedding
      /\ r.tags = request.tags
  BY <1>1 DEF Members
<1>3. ASSUME NEW doc
      PROVE  Where(doc, r) <=> Where(doc, request)
  <2>1. Words(doc, r) = Words(doc, request) /\ (HasQuery(r) <=> HasQuery(request))
        /\ (HasPath(r) <=> HasPath(request))
    BY <1>2 DEF Words, HasQuery, HasPath
  <2>2. QED
    BY <1>2, <2>1 DEF Where
<1>4. \A id : SortVar(id, r) = SortVar(id, request)
  BY <1>2 DEF SortVar, HasQuery
<1>5. Ascending(r) <=> Ascending(request)
  BY <1>2 DEF Ascending
<1>6. QED
  BY <1>2, <1>3, <1>4, <1>5

LEMMA SameRows ==
    ASSUME request \in SearchForms, NEW ids, NEW a, NEW r, r = [request EXCEPT !.after = a]
    PROVE  /\ Matching(ids, r) = Matching(ids, request)
           /\ \A id : Pair(id, r) = Pair(id, request)
           /\ \A x, y : RowBefore(x, y, r) <=> RowBefore(x, y, request)
           /\ RowsAfter(ids, r, a) = RowsAfter(ids, request, a)
           /\ r.pageSize = request.pageSize
<1>1. /\ \A doc : Where(doc, r) <=> Where(doc, request)
      /\ \A id : SortVar(id, r) = SortVar(id, request)
      /\ Ascending(r) <=> Ascending(request)
      /\ r.pageSize = request.pageSize
  BY SameSearch
<1>2. Matching(ids, r) = Matching(ids, request)
  BY <1>1 DEF Matching
<1>3. \A id : Pair(id, r) = Pair(id, request)
  BY <1>1 DEF Pair
<1>4. \A p, q : (IsAfter(p, q, r) <=> IsAfter(p, q, request))
                /\ (Precedes(p, q, r) <=> Precedes(p, q, request))
  BY <1>1 DEF IsAfter, Precedes
<1>5. \A x, y : RowBefore(x, y, r) <=> RowBefore(x, y, request)
  BY <1>3, <1>4 DEF RowBefore
<1>6. RowsAfter(ids, r, a) = RowsAfter(ids, request, a)
  BY <1>2, <1>3, <1>4 DEF RowsAfter
<1>7. QED
  BY <1>1, <1>2, <1>3, <1>5, <1>6

-----------------------------------------------------------------------------
(* The pages of a search: a page.                                          *)

Remaining(ids, a) == {i \in Matching(ids, request) : Given(a) => IsAfter(Pair(i, request), a, request)}

\* A document has one row, or one for each of its embeddings.
LEMMA RowsAre ==
    ASSUME NEW ids, ids \subseteq DOMAIN Catalogue, NEW a
    PROVE  /\ IsFiniteSet(RowsAfter(ids, request, a))
           /\ \A x \in RowsAfter(ids, request, a) :
                 x = <<x[1], x[2]>> /\ x[1] \in Remaining(ids, a) /\ x[2] \in Nat \ {0}
           /\ \A i \in Remaining(ids, a) : <<i, 1>> \in RowsAfter(ids, request, a)
           /\ \A x, y \in RowsAfter(ids, request, a) :
                 x[1] = y[1] /\ x[2] # y[2] => Catalogue[x[1]].embeddings > 1
<1> DEFINE S == Remaining(ids, a)
           rows == RowsAfter(ids, request, a)
           last(i) == Max({1, Catalogue[i].embeddings})
           f == [i \in S |-> RowsOf(i)]
<1>1. S \subseteq DOMAIN Catalogue /\ IsFiniteSet(S)
  BY PagingAssumption, FS_Subset DEF Remaining, Matching
<1>2. rows = UNION {RowsOf(i) : i \in S}
  BY DEF RowsAfter, Remaining
<1>3. ASSUME NEW i \in S
      PROVE  /\ last(i) \in Nat /\ last(i) >= 1
             /\ last(i) > 1 => Catalogue[i].embeddings > 1
             /\ IsFiniteSet(RowsOf(i))
  <2>1. Catalogue[i].embeddings \in Nat
    BY <1>1, PagingAssumption
  <2>2. IsFiniteSet({1, Catalogue[i].embeddings})
    <3>1. {1, Catalogue[i].embeddings} = {1} \cup {Catalogue[i].embeddings}
      OBVIOUS
    <3>2. IsFiniteSet({1})
      BY FS_Singleton
    <3>3. IsFiniteSet({1} \cup {Catalogue[i].embeddings})
      BY <3>2, FS_AddElement
    <3>4. QED
      BY <3>1, <3>3
  <2>3. last(i) \in {1, Catalogue[i].embeddings} /\ \A y \in {1, Catalogue[i].embeddings} : y <= last(i)
    BY <2>1, <2>2, MaxIs
  <2> HIDE DEF last
  <2>4. last(i) \in Nat /\ last(i) >= 1 /\ (last(i) > 1 => Catalogue[i].embeddings > 1)
    BY <2>1, <2>3
  <2>5. IsFiniteSet({i} \X (1 .. last(i)))
    <3>1. IsFiniteSet({i})
      BY FS_Singleton
    <3>2. IsFiniteSet(1 .. last(i))
      BY <2>4, FS_Interval
    <3>3. QED
      BY <3>1, <3>2, FS_Product
  <2>6. RowsOf(i) = {i} \X (1 .. last(i))
    BY DEF RowsOf, last
  <2>7. QED
    BY <2>4, <2>5, <2>6
<1>4. \A i \in S : RowsOf(i) = {<<i, n>> : n \in 1 .. last(i)}
  BY DEF RowsOf
<1> HIDE DEF S, rows, last
<1>5. IsFiniteSet(rows)
  <2>1. DOMAIN f = S /\ {f[i] : i \in S} = {RowsOf(i) : i \in S}
    OBVIOUS
  <2> HIDE DEF f
  <2>2. IsFiniteSet({f[i] : i \in S})
    BY <1>1, <2>1, FiniteImage
  <2>3. \A T \in {RowsOf(i) : i \in S} : IsFiniteSet(T)
    BY <1>3
  <2>4. IsFiniteSet(UNION {RowsOf(i) : i \in S})
    <3> DEFINE all == {RowsOf(i) : i \in S}
    <3>1. IsFiniteSet(all) /\ \A T \in all : IsFiniteSet(T)
      BY <2>1, <2>2, <2>3
    <3> HIDE DEF all
    <3>2. IsFiniteSet(UNION all)
      BY <3>1, FS_UNION
    <3>3. QED
      BY <3>2 DEF all
  <2>5. QED
    BY <1>2, <2>4
<1>6. ASSUME NEW x \in rows
      PROVE  x = <<x[1], x[2]>> /\ x[1] \in S /\ x[2] \in 1 .. last(x[1])
  <2>1. PICK i \in S : x \in RowsOf(i)
    BY <1>2
  <2>2. PICK n \in 1 .. last(i) : x = <<i, n>>
    BY <1>4, <2>1
  <2>3. QED
    BY <2>2
<1>7. ASSUME NEW i \in S
      PROVE  <<i, 1>> \in rows
  <2>1. 1 \in 1 .. last(i)
    BY <1>3
  <2>2. <<i, 1>> \in RowsOf(i)
    BY <1>4, <2>1
  <2>3. QED
    BY <1>2, <2>2
<1>8. ASSUME NEW x \in rows, NEW y \in rows, x[1] = y[1], x[2] # y[2]
      PROVE  Catalogue[x[1]].embeddings > 1
  <2>1. x[1] \in S /\ x[2] \in 1 .. last(x[1]) /\ y[2] \in 1 .. last(x[1])
    BY <1>6, <1>8
  <2>2. last(x[1]) \in Nat
    BY <1>3, <2>1
  <2>3. last(x[1]) > 1
    BY <1>8, <2>1, <2>2
  <2>4. QED
    BY <1>3, <2>1, <2>3
<1>9. \A x \in rows : x[2] \in Nat \ {0}
  <2> SUFFICES ASSUME NEW x \in rows
               PROVE  x[2] \in Nat \ {0}
    OBVIOUS
  <2>1. x[1] \in S /\ x[2] \in 1 .. last(x[1])
    BY <1>6
  <2>2. last(x[1]) \in Nat
    BY <1>3, <2>1
  <2>3. QED
    BY <2>1, <2>2
<1>10. QED
  BY <1>5, <1>6, <1>7, <1>8, <1>9 DEF S, rows

LEMMA MinIs ==
    ASSUME NEW m \in Nat, NEW n \in Nat
    PROVE  Min({m, n}) = IF m <= n THEN m ELSE n
<1>1. \E x \in {m, n} : \A y \in {m, n} : x <= y
  OBVIOUS
<1>2. Min({m, n}) \in {m, n} /\ \A y \in {m, n} : Min({m, n}) <= y
  BY <1>1 DEF Min
<1>3. PICK k : k = Min({m, n})
  OBVIOUS
<1>4. k = m \/ k = n
  BY <1>2, <1>3
<1>5. k <= m /\ k <= n
  BY <1>2, <1>3
<1>6. QED
  BY <1>3, <1>4, <1>5

\* A page is the first rows of those that are left, in order.
PageOf(page, ids, a) ==
    LET rows == RowsAfter(ids, request, a)
    IN  \E L \in Nat : \E s \in [1 .. L -> rows] :
          /\ page = [n \in 1 .. L |-> s[n][1]]
          /\ L <= request.pageSize
          /\ \A n, m \in 1 .. L : n < m => RowBefore(s[n], s[m], request)
          /\ \A x \in rows : \/ \E n \in 1 .. L : s[n] = x
                             \/ L = request.pageSize /\ \A n \in 1 .. L : RowBefore(s[n], x, request)

LEMMA RowOrder ==
    ASSUME Answered, NEW ids, ids \subseteq DOMAIN Catalogue, NEW a
    PROVE  TotalOrder(RowsAfter(ids, request, a),
                      {p \in RowsAfter(ids, request, a) \X RowsAfter(ids, request, a) :
                          RowBefore(p[1], p[2], request)})
<1> DEFINE R == RowsAfter(ids, request, a)
           Rel == {p \in R \X R : RowBefore(p[1], p[2], request)}
<1>1. \A x \in R : x = <<x[1], x[2]>> /\ x[1] \in DOMAIN Catalogue /\ x[2] \in Nat
  BY RowsAre DEF Remaining, Matching
<1>2. \A x, y : RowBefore(x, y, request) <=> IF x[1] = y[1] THEN x[2] < y[2] ELSE Before(x[1], y[1])
  BY DEF RowBefore, Before
<1> HIDE DEF R
<1>3. \A x, y \in R : <<x, y>> \in Rel <=> RowBefore(x, y, request)
  OBVIOUS
<1> HIDE DEF Rel
<1>4. \A x \in R : <<x, x>> \notin Rel
  BY <1>1, <1>2, <1>3
<1>5. \A x, y, z \in R : <<x, y>> \in Rel /\ <<y, z>> \in Rel => <<x, z>> \in Rel
  <2> SUFFICES ASSUME NEW x \in R, NEW y \in R, NEW z \in R,
                      RowBefore(x, y, request), RowBefore(y, z, request)
               PROVE  RowBefore(x, z, request)
    BY <1>3
  <2>1. /\ x[1] \in DOMAIN Catalogue /\ y[1] \in DOMAIN Catalogue /\ z[1] \in DOMAIN Catalogue
        /\ x[2] \in Nat /\ y[2] \in Nat /\ z[2] \in Nat
    BY <1>1
  <2>2. CASE x[1] = y[1]
    BY <1>2, <2>1, <2>2
  <2>3. CASE x[1] # y[1] /\ y[1] = z[1]
    BY <1>2, <2>1, <2>3
  <2>4. CASE x[1] # y[1] /\ y[1] # z[1]
    <3>1. Before(x[1], y[1]) /\ Before(y[1], z[1])
      BY <1>2, <2>4
    <3>2. Before(x[1], z[1]) /\ x[1] # z[1]
      BY <2>1, <3>1, DocumentOrder
    <3>3. QED
      BY <1>2, <3>2
  <2>5. QED
    BY <2>2, <2>3, <2>4
<1>6. \A x, y \in R : x = y \/ <<x, y>> \in Rel \/ <<y, x>> \in Rel
  <2> SUFFICES ASSUME NEW x \in R, NEW y \in R, x # y
               PROVE  RowBefore(x, y, request) \/ RowBefore(y, x, request)
    BY <1>3
  <2>1. /\ x[1] \in DOMAIN Catalogue /\ y[1] \in DOMAIN Catalogue
        /\ x[2] \in Nat /\ y[2] \in Nat /\ (x[1] # y[1] \/ x[2] # y[2])
    BY <1>1
  <2>2. CASE x[1] = y[1]
    BY <1>2, <2>1, <2>2
  <2>3. CASE x[1] # y[1]
    BY <1>2, <2>1, <2>3, DocumentOrder
  <2>4. QED
    BY <2>2, <2>3
<1>7. QED
  BY <1>4, <1>5, <1>6 DEF TotalOrder, R, Rel

LEMMA PageIs ==
    ASSUME Answered, NEW ids, ids \subseteq DOMAIN Catalogue, NEW a,
           NEW r, r = [request EXCEPT !.after = a]
    PROVE  PageOf(Page(ids, r, a), ids, a)
<1> DEFINE R == RowsAfter(ids, request, a)
           Rel == {p \in R \X R : RowBefore(p[1], p[2], request)}
           P(x) == Position(R, Rel, x)
           L == IF Cardinality(R) <= request.pageSize THEN Cardinality(R) ELSE request.pageSize
           s == [n \in 1 .. L |-> CHOOSE x \in R : P(x) = n - 1]
<1>1. IsFiniteSet(R) /\ TotalOrder(R, Rel)
  BY RowsAre, RowOrder
<1>2. /\ Cardinality(R) \in Nat
      /\ \A x \in R : P(x) \in 0 .. Cardinality(R) - 1
      /\ \A x, y \in R : <<x, y>> \in Rel => P(x) < P(y)
      /\ \A x, y \in R : P(x) = P(y) => x = y
      /\ \A n \in 0 .. Cardinality(R) - 1 : \E x \in R : P(x) = n
  <2> HIDE DEF R, Rel
  <2> QED
    BY <1>1, Positions
<1>3. \A x \in R : P(x) = Cardinality({y \in R : RowBefore(y, x, r)})
  <2> SUFFICES ASSUME NEW x \in R
               PROVE  P(x) = Cardinality({y \in R : RowBefore(y, x, r)})
    OBVIOUS
  <2>1. \A y \in R : <<y, x>> \in Rel <=> RowBefore(y, x, request)
    OBVIOUS
  <2>2. \A y : RowBefore(y, x, r) <=> RowBefore(y, x, request)
    BY SameRows DEF Answered
  <2> HIDE DEF R, Rel
  <2>3. {y \in R : <<y, x>> \in Rel} = {y \in R : RowBefore(y, x, r)}
    BY <2>1, <2>2
  <2>4. QED
    BY <2>3 DEF Position
<1>4. R = RowsAfter(ids, r, a) /\ r.pageSize = request.pageSize
  BY SameRows DEF Answered
<1>5. \A x, y \in R : <<x, y>> \in Rel <=> RowBefore(x, y, request)
  OBVIOUS
<1> HIDE DEF R, Rel, P
<1>6. L \in Nat /\ L <= Cardinality(R) /\ L <= request.pageSize
      /\ (L = Cardinality(R) \/ L = request.pageSize)
      /\ Min({Cardinality(R), r.pageSize}) = L
  BY <1>2, <1>4, MinIs DEF Answered
<1> HIDE DEF L
<1>7. ASSUME NEW n \in 1 .. L
      PROVE  /\ s[n] \in R /\ P(s[n]) = n - 1
             /\ s[n] = CHOOSE x \in R : Cardinality({y \in R : RowBefore(y, x, r)}) = n - 1
  <2>1. n - 1 \in 0 .. Cardinality(R) - 1
    BY <1>2, <1>6
  <2>2. PICK w \in R : P(w) = n - 1
    BY <1>2, <2>1
  <2>3. s[n] \in R /\ P(s[n]) = n - 1
    BY <2>2
  <2>4. PICK z : z = CHOOSE x \in R : Cardinality({y \in R : RowBefore(y, x, r)}) = n - 1
    OBVIOUS
  <2>5. z \in R /\ Cardinality({y \in R : RowBefore(y, z, r)}) = n - 1
    BY <1>3, <2>2, <2>4
  <2>6. P(z) = n - 1
    BY <1>3, <2>5
  <2>7. z = s[n]
    BY <1>2, <2>3, <2>5, <2>6
  <2>8. QED
    BY <2>3, <2>4, <2>7
<1>8. Page(ids, r, a) = [n \in 1 .. L |-> s[n][1]]
  <2>1. Page(ids, r, a) = [n \in 1 .. L |-> (CHOOSE x \in R : Cardinality({y \in R : RowBefore(y, x, r)}) = n - 1)[1]]
    BY <1>4, <1>6 DEF Page
  <2>2. QED
    BY <1>7, <2>1
<1>9. s \in [1 .. L -> R]
  BY <1>7
<1> HIDE DEF s
<1>10. \A x, y \in R : P(x) < P(y) => RowBefore(x, y, request)
  <2> SUFFICES ASSUME NEW x \in R, NEW y \in R, P(x) < P(y)
               PROVE  RowBefore(x, y, request)
    OBVIOUS
  <2>1. P(x) \in Int /\ P(y) \in Int
    BY <1>2
  <2>2. x # y /\ ~(P(y) < P(x))
    BY <2>1
  <2>3. <<x, y>> \in Rel
    BY <1>1, <1>2, <2>2 DEF TotalOrder
  <2>4. QED
    BY <1>5, <2>3
<1>11. ASSUME NEW n \in 1 .. L, NEW m \in 1 .. L, n < m
       PROVE  RowBefore(s[n], s[m], request)
  <2>1. s[n] \in R /\ P(s[n]) = n - 1 /\ s[m] \in R /\ P(s[m]) = m - 1
    BY <1>7
  <2>2. P(s[n]) < P(s[m])
    BY <1>6, <1>11, <2>1
  <2>3. QED
    BY <1>10, <2>1, <2>2
<1>12. ASSUME NEW x \in R, ~ \E n \in 1 .. L : s[n] = x
       PROVE  L = request.pageSize /\ \A n \in 1 .. L : RowBefore(s[n], x, request)
  <2>1. P(x) \in Nat /\ P(x) <= Cardinality(R) - 1
    BY <1>2
  <2>2. ~(P(x) < L)
    <3>1. ASSUME P(x) < L
          PROVE  FALSE
      <4>1. PICK n \in 1 .. L : n = P(x) + 1
        BY <1>6, <2>1, <3>1
      <4>2. P(s[n]) = n - 1 /\ s[n] \in R
        BY <1>7
      <4>3. P(s[n]) = P(x)
        BY <2>1, <4>1, <4>2
      <4>4. s[n] = x
        BY <1>2, <4>2, <4>3
      <4>5. QED
        BY <1>12, <4>4
    <3>2. QED
      BY <3>1
  <2>3. L = request.pageSize
    BY <1>2, <1>6, <2>1, <2>2
  <2>4. \A n \in 1 .. L : P(s[n]) < P(x) /\ s[n] \in R
    <3> SUFFICES ASSUME NEW n \in 1 .. L
                 PROVE  P(s[n]) < P(x) /\ s[n] \in R
      OBVIOUS
    <3>1. s[n] \in R /\ P(s[n]) = n - 1
      BY <1>7
    <3>2. n - 1 < L
      BY <1>6
    <3>3. L <= P(x)
      BY <1>6, <2>1, <2>2
    <3>4. QED
      BY <1>6, <2>1, <3>1, <3>2, <3>3
  <2>5. QED
    BY <1>10, <2>3, <2>4
<1>13. QED
  <2>1. /\ Page(ids, r, a) = [n \in 1 .. L |-> s[n][1]]
        /\ L <= request.pageSize
        /\ \A n, m \in 1 .. L : n < m => RowBefore(s[n], s[m], request)
    BY <1>6, <1>8, <1>11
  <2>2. \A x \in R : \/ \E n \in 1 .. L : s[n] = x
                     \/ L = request.pageSize /\ \A n \in 1 .. L : RowBefore(s[n], x, request)
    <3>1. ASSUME NEW x \in R
          PROVE  \/ \E n \in 1 .. L : s[n] = x
                 \/ L = request.pageSize /\ \A n \in 1 .. L : RowBefore(s[n], x, request)
      <4>1. CASE \E n \in 1 .. L : s[n] = x
        BY <4>1
      <4>2. CASE ~ \E n \in 1 .. L : s[n] = x
        BY <1>12, <4>2
      <4>3. QED
        BY <4>1, <4>2
    <3>2. QED
      BY <3>1
  <2>3. PICK page : page = Page(ids, r, a)
    OBVIOUS
  <2>4. \E LL \in Nat : \E ss \in [1 .. LL -> R] :
          /\ page = [n \in 1 .. LL |-> ss[n][1]]
          /\ LL <= request.pageSize
          /\ \A n, m \in 1 .. LL : n < m => RowBefore(ss[n], ss[m], request)
          /\ \A x \in R : \/ \E n \in 1 .. LL : ss[n] = x
                          \/ LL = request.pageSize /\ \A n \in 1 .. LL : RowBefore(ss[n], x, request)
    BY <1>6, <1>9, <2>1, <2>2, <2>3
  <2>5. PageOf(page, ids, a)
    BY <2>4 DEF PageOf, R
  <2>6. QED
    BY <2>3, <2>5

\* Rows of one document are next to each other, all others in the order of their documents.
InOrder(i, j) == Before(i, j) \/ (i = j /\ Catalogue[i].embeddings > 1)

LEMMA PageFacts ==
    ASSUME Answered, NEW ids, ids \subseteq DOMAIN Catalogue, NEW a, NEW page, PageOf(page, ids, a)
    PROVE  /\ page \in Seq(DOMAIN Catalogue) /\ Len(page) \in Nat /\ Len(page) <= request.pageSize
           /\ \A n \in 1 .. Len(page) : page[n] \in Remaining(ids, a)
           /\ \A n, m \in 1 .. Len(page) : n < m => InOrder(page[n], page[m])
           /\ \A i \in Remaining(ids, a) :
                 \/ \E n \in 1 .. Len(page) : page[n] = i
                 \/ /\ Len(page) = request.pageSize
                    /\ Len(page) > 0 => Before(page[Len(page)], i)
<1> DEFINE R == RowsAfter(ids, request, a)
<1>1. PICK L \in Nat : \E s \in [1 .. L -> R] :
          /\ page = [n \in 1 .. L |-> s[n][1]]
          /\ L <= request.pageSize
          /\ \A n, m \in 1 .. L : n < m => RowBefore(s[n], s[m], request)
          /\ \A x \in R : \/ \E n \in 1 .. L : s[n] = x
                          \/ L = request.pageSize /\ \A n \in 1 .. L : RowBefore(s[n], x, request)
  BY DEF PageOf
<1>2. PICK s \in [1 .. L -> R] :
          /\ page = [n \in 1 .. L |-> s[n][1]]
          /\ L <= request.pageSize
          /\ \A n, m \in 1 .. L : n < m => RowBefore(s[n], s[m], request)
          /\ \A x \in R : \/ \E n \in 1 .. L : s[n] = x
                          \/ L = request.pageSize /\ \A n \in 1 .. L : RowBefore(s[n], x, request)
  BY <1>1
<1>3. /\ \A x \in R : x[1] \in Remaining(ids, a) /\ x = <<x[1], x[2]>> /\ x[2] \in Nat
      /\ \A i \in Remaining(ids, a) : <<i, 1>> \in R
      /\ \A x, y \in R : x[1] = y[1] /\ x[2] # y[2] => Catalogue[x[1]].embeddings > 1
  BY RowsAre
<1> HIDE DEF R
<1>4. \A n \in 1 .. L : s[n] \in R /\ page[n] = s[n][1] /\ page[n] \in Remaining(ids, a)
  BY <1>2, <1>3
<1>5. Remaining(ids, a) \subseteq DOMAIN Catalogue
  BY DEF Remaining, Matching
<1>6. page \in Seq(DOMAIN Catalogue) /\ Len(page) = L
  <2>1. page \in [1 .. L -> DOMAIN Catalogue]
    BY <1>2, <1>4, <1>5
  <2>2. QED
    BY <2>1
<1>7. \A x, y : RowBefore(x, y, request) <=> IF x[1] = y[1] THEN x[2] < y[2] ELSE Before(x[1], y[1])
  BY DEF RowBefore, Before
<1>8. ASSUME NEW n \in 1 .. L, NEW m \in 1 .. L, n < m
      PROVE  InOrder(page[n], page[m])
  <2>1. RowBefore(s[n], s[m], request) /\ s[n] \in R /\ s[m] \in R
    BY <1>2, <1>4, <1>8
  <2>2. CASE s[n][1] # s[m][1]
    BY <1>4, <1>7, <2>1, <2>2 DEF InOrder
  <2>3. CASE s[n][1] = s[m][1]
    <3>1. s[n][2] < s[m][2] /\ s[n][2] \in Nat /\ s[m][2] \in Nat
      BY <1>3, <1>7, <2>1, <2>3
    <3>2. s[n][2] # s[m][2]
      BY <3>1
    <3>3. Catalogue[s[n][1]].embeddings > 1
      BY <1>3, <2>1, <2>3, <3>2
    <3>4. QED
      BY <1>4, <2>3, <3>3 DEF InOrder
  <2>4. QED
    BY <2>2, <2>3
<1>9. ASSUME NEW i \in Remaining(ids, a), ~ \E n \in 1 .. L : page[n] = i
      PROVE  L = request.pageSize /\ (L > 0 => Before(page[L], i))
  <2>1. PICK x \in R : x = <<i, 1>>
    BY <1>3
  <2>2. \A n \in 1 .. L : s[n] # x
    BY <1>4, <1>9, <2>1
  <2>3. L = request.pageSize /\ \A n \in 1 .. L : RowBefore(s[n], x, request)
    BY <1>2, <2>2
  <2>4. ASSUME L > 0
        PROVE  Before(page[L], i)
    <3>1. PICK n \in 1 .. L : n = L
      BY <2>4
    <3>2. RowBefore(s[n], x, request) /\ s[n][1] = page[n] /\ page[n] # i /\ x[1] = i
      BY <1>4, <1>9, <2>1, <2>3
    <3>3. QED
      BY <1>7, <3>1, <3>2
  <2>5. QED
    BY <2>3, <2>4
<1>10. \A i \in Remaining(ids, a) :
          \/ \E n \in 1 .. L : page[n] = i
          \/ L = request.pageSize /\ (L > 0 => Before(page[L], i))
  <2>1. ASSUME NEW i \in Remaining(ids, a)
        PROVE  \/ \E n \in 1 .. L : page[n] = i
               \/ L = request.pageSize /\ (L > 0 => Before(page[L], i))
    <3>1. CASE \E n \in 1 .. L : page[n] = i
      BY <3>1
    <3>2. CASE ~ \E n \in 1 .. L : page[n] = i
      BY <1>9, <3>2
    <3>3. QED
      BY <3>1, <3>2
  <2>2. QED
    BY <2>1
<1>11. QED
  BY <1>2, <1>4, <1>6, <1>8, <1>10

-----------------------------------------------------------------------------
(* The pages of a search: the inductive invariant.                         *)

PagingTypes ==
    /\ request \in SearchForms
    /\ always \subseteq present /\ present \subseteq seen /\ seen \subseteq DOMAIN Catalogue
    /\ outcome \in {"more", "end", "bad request", "server exits"}
    /\ hits \in Seq(DOMAIN Catalogue)
    /\ \A n \in 1 .. Len(hits) : hits[n] \in Matching(seen, request)
    /\ IF Len(hits) = 0 THEN after = None ELSE after \in Int \X DOMAIN Catalogue /\ Answered
    /\ changes \in Nat
    /\ changes = 0 => always = present /\ seen = present
    /\ Given(aggregation) /\ changes = 0 => aggregation = Cardinality(Matching(present, request))

\* What the pages are complete for.
Promised ==
    /\ request.pageSize > 0 /\ Ordered(Matching(seen, request))
    /\ request.sort = "score" /\ HasQuery(request) => changes = 0

\* What was there all along was received, or comes after all that was received.
HitsAreRight ==
    /\ Len(hits) > 0 => after = Pair(hits[Len(hits)], request)
    /\ \A n, m \in 1 .. Len(hits) : n < m => InOrder(hits[n], hits[m])
    /\ \A i \in Matching(always, request) :
          \/ \E n \in 1 .. Len(hits) : hits[n] = i
          \/ outcome # "end" /\ (Len(hits) > 0 => Before(hits[Len(hits)], i))

PagingIInv == PagingTypes /\ (Promised => HitsAreRight)

-----------------------------------------------------------------------------
(* The pages of a search: one step.                                        *)

\* A page that was answered.
Received(page) ==
    /\ Answered /\ PageOf(page, present, after)
    /\ hits' = hits \o page
    /\ after' = (IF page = <<>> THEN after ELSE Pair(page[Len(page)], request))
    /\ aggregation' \in {aggregation, Cardinality(Matching(present, request))}
    /\ outcome' = (IF Len(page) < request.pageSize \/ request.pageSize = 0 THEN "end" ELSE "more")

LEMMA AskedPage ==
    ASSUME PagingTypes, AskPage
    PROVE  \/ /\ outcome' \in {"bad request", "server exits"}
              /\ UNCHANGED <<hits, after, aggregation>>
           \/ \E page : Received(page)
<1>1. PICK r : r = [request EXCEPT !.after = after]
  OBVIOUS
<1>2. CASE BadRequest(r) \/ NoSearchInPath(r) \/ WrongModel(r) \/ Ambiguous(r)
  BY <1>1, <1>2 DEF AskPage
<1>3. CASE ~(BadRequest(r) \/ NoSearchInPath(r) \/ WrongModel(r) \/ Ambiguous(r))
  <2>1. r.pageSize = request.pageSize /\ r.sort = request.sort /\ request \in SearchForms
    BY <1>1, SameSearch DEF PagingTypes
  <2>2. r.sort \in SortModes /\ Given(r.pageSize) /\ r.pageSize # Wrong /\ ~(r.pageSize < 0)
    BY <1>3 DEF BadRequest, Members
  <2>3. request.pageSize \in Int \cup {None, Wrong}
    BY <2>1, PagingAssumption
  <2>4. Answered
    <3>1. PICK z : z = request.pageSize
      OBVIOUS
    <3>2. z # Wrong /\ z # None /\ ~(z < 0) /\ z \in Int \cup {None, Wrong}
      BY <2>1, <2>2, <2>3, <3>1 DEF Given
    <3>3. z \in Nat
      BY <3>2
    <3>4. request.sort \in SortModes /\ present \subseteq DOMAIN Catalogue
      BY <2>1, <2>2 DEF PagingTypes
    <3>5. QED
      BY <2>1, <3>1, <3>3, <3>4 DEF Answered
  <2>5. PICK page : page = Page(present, r, after)
    OBVIOUS
  <2>6. PageOf(page, present, after)
    BY <1>1, <2>4, <2>5, PageIs DEF PagingTypes
  <2>7. /\ hits' = hits \o page
        /\ after' = IF page = <<>> THEN after ELSE Pair(Last(page), r)
        /\ aggregation' \in {aggregation, TotalCount(r)}
        /\ outcome' = IF Len(page) < r.pageSize \/ r.pageSize = 0 THEN "end" ELSE "more"
    BY <1>1, <1>3, <2>5 DEF AskPage
  <2>8. \A id : Pair(id, r) = Pair(id, request)
    BY <1>1, <2>1, SameRows
  <2>9. Matching(present, r) = Matching(present, request)
    BY <1>1, <2>1, SameRows
  <2>10. Received(page)
    BY <2>1, <2>4, <2>6, <2>7, <2>8, <2>9 DEF Received, TotalCount, Last
  <2>11. QED
    BY <2>10
<1>4. QED
  BY <1>2, <1>3

\* The hits after a page.
LEMMA HitsGrow ==
    ASSUME PagingTypes, NEW page, Received(page)
    PROVE  /\ page \in Seq(DOMAIN Catalogue) /\ hits \in Seq(DOMAIN Catalogue)
           /\ hits' \in Seq(DOMAIN Catalogue) /\ Len(hits') = Len(hits) + Len(page)
           /\ Len(hits) \in Nat /\ Len(page) \in Nat
           /\ \A n \in 1 .. Len(hits) : hits'[n] = hits[n]
           /\ \A n \in Len(hits) + 1 .. Len(hits) + Len(page) :
                 n - Len(hits) \in 1 .. Len(page) /\ hits'[n] = page[n - Len(hits)]
           /\ \A n \in 1 .. Len(page) : hits'[Len(hits) + n] = page[n]
<1>1. page \in Seq(DOMAIN Catalogue) /\ hits \in Seq(DOMAIN Catalogue) /\ hits' = hits \o page
  <2>1. Answered /\ PageOf(page, present, after) /\ present \subseteq DOMAIN Catalogue
    BY DEF PagingTypes, Received
  <2>2. page \in Seq(DOMAIN Catalogue)
    BY <2>1, PageFacts
  <2>3. QED
    BY <2>2 DEF PagingTypes, Received
<1>2. PICK h : h = hits'
  OBVIOUS
<1>3. h = hits \o page
  BY <1>1, <1>2
<1>4. h \in Seq(DOMAIN Catalogue) /\ Len(h) = Len(hits) + Len(page)
  BY <1>1, <1>3
<1>5. Len(hits) \in Nat /\ Len(page) \in Nat
  BY <1>1
<1>6. \A n \in 1 .. Len(hits) : h[n] = hits[n]
  BY <1>1, <1>3
<1>7. \A n \in Len(hits) + 1 .. Len(hits) + Len(page) :
         n - Len(hits) \in 1 .. Len(page) /\ h[n] = page[n - Len(hits)]
  BY <1>1, <1>3
<1>8. \A n \in 1 .. Len(page) : h[Len(hits) + n] = page[n]
  BY <1>1, <1>3
<1>9. QED
  BY <1>1, <1>2, <1>4, <1>5, <1>6, <1>7, <1>8

LEMMA OrderStays ==
    ASSUME UNCHANGED request,
           UNCHANGED present \/ ~(request.sort = "score" /\ HasQuery(request))
    PROVE  /\ \A id : SortVar(id, request)' = SortVar(id, request)
           /\ \A id : Pair(id, request)' = Pair(id, request)
           /\ \A i, j : Before(i, j)' <=> Before(i, j)
           /\ \A i, j : InOrder(i, j)' <=> InOrder(i, j)
<1>1. \A id : SortVar(id, request)' = SortVar(id, request)
  <2>1. CASE UNCHANGED present
    BY <2>1 DEF SortVar, Rank
  <2>2. CASE ~(request.sort = "score" /\ HasQuery(request))
    BY <2>2 DEF SortVar
  <2>3. QED
    BY <2>1, <2>2
<1>2. \A id : Pair(id, request)' = Pair(id, request)
  BY <1>1 DEF Pair
<1>3. \A i, j : Before(i, j)' <=> Before(i, j)
  BY <1>2 DEF Before, Precedes, Less, Ascending
<1>4. \A i, j : InOrder(i, j)' <=> InOrder(i, j)
  BY <1>3 DEF InOrder
<1>5. QED
  BY <1>1, <1>2, <1>3, <1>4

\* A document that comes is no reason to expect more of the pages.
LEMMA PromisedBefore ==
    ASSUME PagingTypes, UNCHANGED request, seen \subseteq seen', Promised',
           UNCHANGED <<present, changes>> \/ changes' = changes + 1
    PROVE  Promised /\ (UNCHANGED present \/ ~(request.sort = "score" /\ HasQuery(request)))
<1>1. UNCHANGED present \/ ~(request.sort = "score" /\ HasQuery(request))
  <2>1. changes \in Nat
    BY DEF PagingTypes
  <2>2. request.sort = "score" /\ HasQuery(request) => changes' = 0
    BY DEF Promised, HasQuery, Given
  <2>3. QED
    BY <2>1, <2>2
<1>2. \A id : SortVar(id, request)' = SortVar(id, request)
  BY <1>1, OrderStays
<1>3. Matching(seen, request) \subseteq Matching(seen', request)
  BY DEF Matching
<1>4. Ordered(Matching(seen, request))
  <2>1. Ascending(request) \/ \A i, j \in Matching(seen', request) :
                                  SortVar(i, request)' = SortVar(j, request)' => i = j
    BY DEF Promised, Ordered
  <2>2. QED
    BY <1>2, <1>3, <2>1 DEF Ordered
<1>5. QED
  <2>1. changes \in Nat /\ request.pageSize > 0
    BY DEF PagingTypes, Promised
  <2>2. request.sort = "score" /\ HasQuery(request) => changes' = 0
    BY DEF Promised, HasQuery, Given
  <2>3. request.sort = "score" /\ HasQuery(request) => changes = 0
    BY <2>1, <2>2
  <2>4. QED
    BY <1>1, <1>4, <2>1, <2>3 DEF Promised

LEMMA PageTypes ==
    ASSUME PagingTypes, AskPage, NEW page, Received(page)
    PROVE  PagingTypes'
<1>1. UNCHANGED <<request, present, always, seen, changes>>
  BY DEF AskPage
<1>2. /\ Answered /\ PageOf(page, present, after) /\ present \subseteq DOMAIN Catalogue
      /\ outcome' \in {"more", "end"}
  BY DEF Received, PagingTypes
<1>3. \A n \in 1 .. Len(page) : page[n] \in Remaining(present, after)
  BY <1>2, PageFacts
<1>4. \A n \in 1 .. Len(page) : page[n] \in Matching(seen, request) /\ page[n] \in DOMAIN Catalogue
  BY <1>2, <1>3 DEF Remaining, Matching, PagingTypes
<1>5. hits' \in Seq(DOMAIN Catalogue)
  BY HitsGrow
<1>6. \A n \in 1 .. Len(hits') : hits'[n] \in Matching(seen, request)
  <2> SUFFICES ASSUME NEW n \in 1 .. Len(hits')
               PROVE  hits'[n] \in Matching(seen, request)
    OBVIOUS
  <2>1. Len(hits') = Len(hits) + Len(page) /\ Len(hits) \in Nat /\ Len(page) \in Nat
    BY HitsGrow
  <2>2. CASE n \in 1 .. Len(hits)
    BY <2>2, HitsGrow DEF PagingTypes
  <2>3. CASE n \in Len(hits) + 1 .. Len(hits) + Len(page)
    BY <1>4, <2>3, HitsGrow
  <2>4. QED
    BY <2>1, <2>2, <2>3
<1>7. IF Len(hits') = 0 THEN after' = None ELSE after' \in Int \X DOMAIN Catalogue
  <2>1. Len(hits') = Len(hits) + Len(page) /\ Len(hits) \in Nat /\ page \in Seq(DOMAIN Catalogue)
    BY HitsGrow
  <2>2. CASE page = <<>>
    <3>1. Len(page) = 0
      BY <2>2
    <3>2. after' = after /\ Len(hits') = Len(hits)
      BY <2>1, <2>2, <3>1 DEF Received
    <3>3. QED
      BY <3>2 DEF PagingTypes
  <2>3. CASE page # <<>>
    <3>1. Len(page) \in Nat \ {0} /\ page[Len(page)] \in DOMAIN Catalogue
      BY <2>1, <2>3
    <3>2. Pair(page[Len(page)], request) \in Int \X DOMAIN Catalogue
      BY <1>2, <3>1, SortKeys
    <3>3. QED
      BY <2>1, <2>3, <3>1, <3>2 DEF Received
  <2>4. QED
    BY <2>2, <2>3
<1>8. Answered'
  BY <1>1, <1>2 DEF Answered
<1>9. Given(aggregation') /\ changes = 0 => aggregation' = Cardinality(Matching(present, request))
  BY DEF Received, PagingTypes
<1>10. QED
  BY <1>1, <1>2, <1>5, <1>6, <1>7, <1>8, <1>9 DEF PagingTypes, Given

\* The next page continues where the last one ended.
LEMMA PageContinues ==
    ASSUME PagingTypes, Promised, HitsAreRight, NEW page, Received(page)
    PROVE  /\ \A n \in 1 .. Len(hits), m \in 1 .. Len(page) : InOrder(hits[n], page[m])
           /\ \A i \in Matching(always, request) :
                 (outcome # "end" /\ (Len(hits) > 0 => Before(hits[Len(hits)], i)))
                    => i \in Remaining(present, after)
<1>1. /\ Answered /\ PageOf(page, present, after) /\ present \subseteq DOMAIN Catalogue
      /\ seen \subseteq DOMAIN Catalogue /\ Matching(seen, request) \subseteq DOMAIN Catalogue
  BY DEF Received, PagingTypes, Matching
<1>2. hits \in Seq(DOMAIN Catalogue) /\ Len(hits) \in Nat
  BY HitsGrow
<1>3. (Len(hits) = 0 => after = None) /\ (Len(hits) # 0 => after \in Int \X DOMAIN Catalogue)
  BY DEF PagingTypes
<1>4. Len(hits) > 0 => Given(after) /\ after = Pair(hits[Len(hits)], request)
  <2>1. ASSUME Len(hits) > 0
        PROVE  Given(after)
    <3>1. after \in Int \X Int
      BY <1>2, <1>3, <2>1, PagingAssumption
    <3>2. QED
      BY <3>1, PagingAssumption DEF Given
  <2>2. QED
    BY <2>1 DEF HitsAreRight
<1>5. ASSUME NEW i \in Matching(seen, request), Len(hits) > 0
      PROVE  IsAfter(Pair(i, request), after, request) <=> Before(hits[Len(hits)], i)
  <2>1. hits[Len(hits)] \in Matching(seen, request)
    <3>1. PICK k \in 1 .. Len(hits) : k = Len(hits)
      BY <1>2, <1>5
    <3>2. QED
      BY <3>1 DEF PagingTypes
  <2>2. QED
    BY <1>1, <1>4, <1>5, <2>1, AfterIsBefore DEF Promised
<1>6. ASSUME NEW n \in 1 .. Len(hits), NEW m \in 1 .. Len(page)
      PROVE  InOrder(hits[n], page[m])
  <2>1. page[m] \in Remaining(present, after) /\ Len(hits) > 0
    BY <1>1, <1>2, PageFacts
  <2>2. page[m] \in Matching(seen, request) /\ IsAfter(Pair(page[m], request), after, request)
    BY <1>4, <2>1 DEF Remaining, Matching, PagingTypes
  <2>3. Before(hits[Len(hits)], page[m])
    BY <1>5, <2>1, <2>2
  <2>4. PICK k \in 1 .. Len(hits) : k = Len(hits)
    BY <1>2, <2>1
  <2>5. n = k \/ InOrder(hits[n], hits[k])
    BY <1>2, <2>4 DEF HitsAreRight
  <2>6. hits[n] \in DOMAIN Catalogue /\ hits[k] \in DOMAIN Catalogue /\ page[m] \in DOMAIN Catalogue
    BY <1>1, <1>2, <2>2
  <2>7. Before(hits[n], page[m])
    BY <1>1, <2>3, <2>4, <2>5, <2>6, DocumentOrder DEF InOrder
  <2>8. QED
    BY <2>7 DEF InOrder
<1>7. ASSUME NEW i \in Matching(always, request), outcome # "end",
             Len(hits) > 0 => Before(hits[Len(hits)], i)
      PROVE  i \in Remaining(present, after)
  <2>1. i \in Matching(present, request) /\ i \in Matching(seen, request)
    BY DEF PagingTypes, Matching
  <2>2. Given(after) => Len(hits) > 0
    BY <1>2, <1>3 DEF Given
  <2>3. Given(after) => IsAfter(Pair(i, request), after, request)
    BY <1>5, <1>7, <2>1, <2>2
  <2>4. QED
    BY <2>1, <2>3 DEF Remaining
<1>8. QED
  BY <1>6, <1>7

LEMMA PageHits ==
    ASSUME PagingTypes, Promised, HitsAreRight, AskPage, NEW page, Received(page)
    PROVE  HitsAreRight'
<1>1. /\ Answered /\ PageOf(page, present, after) /\ present \subseteq DOMAIN Catalogue
      /\ UNCHANGED <<request, present, always>>
      /\ request.pageSize > 0 /\ request.pageSize \in Nat
  BY DEF Received, PagingTypes, AskPage, Promised, Answered
<1>2. /\ page \in Seq(DOMAIN Catalogue) /\ Len(page) \in Nat
      /\ \A n, m \in 1 .. Len(page) : n < m => InOrder(page[n], page[m])
      /\ \A i \in Remaining(present, after) :
            \/ \E n \in 1 .. Len(page) : page[n] = i
            \/ /\ Len(page) = request.pageSize
               /\ Len(page) > 0 => Before(page[Len(page)], i)
  BY <1>1, PageFacts
<1>3. /\ Len(hits) \in Nat /\ Len(hits') = Len(hits) + Len(page)
      /\ \A n \in 1 .. Len(hits) : hits'[n] = hits[n]
      /\ \A n \in Len(hits) + 1 .. Len(hits) + Len(page) :
            n - Len(hits) \in 1 .. Len(page) /\ hits'[n] = page[n - Len(hits)]
      /\ \A n \in 1 .. Len(page) : hits'[Len(hits) + n] = page[n]
  BY HitsGrow
<1>4. Len(page) > 0 => hits'[Len(hits')] = page[Len(page)]
  BY <1>2, <1>3
<1>5. /\ \A i, j : Before(i, j)' <=> Before(i, j)
      /\ \A i, j : InOrder(i, j)' <=> InOrder(i, j)
      /\ \A id : Pair(id, request)' = Pair(id, request)
  BY <1>1, OrderStays
<1>6. Len(hits') > 0 => after' = Pair(hits'[Len(hits')], request)
  <2>1. CASE Len(page) = 0
    <3>1. page = <<>>
      BY <1>2, <2>1
    <3>2. after' = after /\ Len(hits') = Len(hits)
      BY <1>2, <1>3, <2>1, <3>1 DEF Received
    <3>3. Len(hits') > 0 => hits'[Len(hits')] = hits[Len(hits)]
      BY <1>3, <3>2
    <3>4. QED
      BY <3>2, <3>3 DEF HitsAreRight
  <2>2. CASE Len(page) # 0
    <3>1. page # <<>> /\ Len(page) > 0
      BY <1>2, <2>2
    <3>2. QED
      BY <1>4, <3>1 DEF Received
  <2>3. QED
    BY <2>1, <2>2
<1>7. ASSUME NEW n \in 1 .. Len(hits'), NEW m \in 1 .. Len(hits'), n < m
      PROVE  InOrder(hits'[n], hits'[m])
  <2>1. CASE m \in 1 .. Len(hits)
    <3>1. n \in 1 .. Len(hits)
      BY <1>2, <1>3, <1>7, <2>1
    <3>2. InOrder(hits[n], hits[m])
      BY <1>7, <2>1, <3>1 DEF HitsAreRight
    <3>3. QED
      BY <1>3, <2>1, <3>1, <3>2
  <2>2. CASE n \in 1 .. Len(hits) /\ m \in Len(hits) + 1 .. Len(hits) + Len(page)
    <3>1. InOrder(hits[n], page[m - Len(hits)])
      BY <1>3, <2>2, PageContinues
    <3>2. QED
      BY <1>3, <2>2, <3>1
  <2>3. CASE n \in Len(hits) + 1 .. Len(hits) + Len(page) /\ m \in Len(hits) + 1 .. Len(hits) + Len(page)
    <3>1. n - Len(hits) < m - Len(hits)
      BY <1>2, <1>3, <1>7
    <3>2. InOrder(page[n - Len(hits)], page[m - Len(hits)])
      BY <1>2, <1>3, <2>3, <3>1
    <3>3. QED
      BY <1>3, <2>3, <3>2
  <2>4. QED
    BY <1>2, <1>3, <1>7, <2>1, <2>2, <2>3
<1>8. ASSUME NEW i \in Matching(always, request), ~ \E n \in 1 .. Len(hits') : hits'[n] = i
      PROVE  outcome' # "end" /\ (Len(hits') > 0 => Before(hits'[Len(hits')], i))
  <2>1. ~ \E n \in 1 .. Len(hits) : hits[n] = i
    <3>1. ASSUME NEW n \in 1 .. Len(hits), hits[n] = i
          PROVE  FALSE
      <4>1. n \in 1 .. Len(hits') /\ hits'[n] = i
        BY <1>2, <1>3, <3>1
      <4>2. QED
        BY <1>8, <4>1
    <3>2. QED
      BY <3>1
  <2>2. ~ \E n \in 1 .. Len(page) : page[n] = i
    <3>1. ASSUME NEW n \in 1 .. Len(page), page[n] = i
          PROVE  FALSE
      <4>1. PICK m \in 1 .. Len(hits') : m = Len(hits) + n
        BY <1>2, <1>3
      <4>2. hits'[m] = i
        BY <1>3, <3>1, <4>1
      <4>3. QED
        BY <1>8, <4>2
    <3>2. QED
      BY <3>1
  <2>3. outcome # "end" /\ (Len(hits) > 0 => Before(hits[Len(hits)], i))
    BY <2>1 DEF HitsAreRight
  <2>4. i \in Remaining(present, after)
    BY <2>3, PageContinues
  <2>5. Len(page) = request.pageSize /\ (Len(page) > 0 => Before(page[Len(page)], i))
    BY <1>2, <2>2, <2>4
  <2>6. Len(page) > 0
    BY <1>1, <2>5
  <2>7. outcome' = "more"
    <3>1. ~(Len(page) < request.pageSize \/ request.pageSize = 0)
      BY <1>1, <2>5
    <3>2. QED
      BY <3>1 DEF Received
  <2>8. QED
    BY <1>4, <2>5, <2>6, <2>7
<1>9. \A i \in Matching(always, request) :
          \/ \E n \in 1 .. Len(hits') : hits'[n] = i
          \/ outcome' # "end" /\ (Len(hits') > 0 => Before(hits'[Len(hits')], i))
  <2>1. ASSUME NEW i \in Matching(always, request)
        PROVE  \/ \E n \in 1 .. Len(hits') : hits'[n] = i
               \/ outcome' # "end" /\ (Len(hits') > 0 => Before(hits'[Len(hits')], i))
    <3>1. CASE \E n \in 1 .. Len(hits') : hits'[n] = i
      BY <3>1
    <3>2. CASE ~ \E n \in 1 .. Len(hits') : hits'[n] = i
      BY <1>8, <3>2
    <3>3. QED
      BY <3>1, <3>2
  <2>2. QED
    BY <2>1
<1>10. Matching(always', request') = Matching(always, request)
  BY <1>1
<1>11. QED
  BY <1>5, <1>6, <1>7, <1>9, <1>10 DEF HitsAreRight

LEMMA AskStep ==
    ASSUME PagingIInv, AskPage
    PROVE  PagingIInv'
<1>1. /\ UNCHANGED <<request, present, always, seen, changes>> /\ PagingTypes
      /\ outcome = "more"
  BY DEF AskPage, PagingIInv
<1>2. Promised' => Promised
  BY <1>1, PromisedBefore
<1>3. CASE \E page : Received(page)
  <2>1. PICK page : Received(page)
    BY <1>3
  <2>2. PagingTypes'
    BY <1>1, <2>1, PageTypes
  <2>3. Promised' => HitsAreRight'
    BY <1>1, <1>2, <2>1, PageHits DEF PagingIInv
  <2>4. QED
    BY <2>2, <2>3 DEF PagingIInv
<1>4. CASE outcome' \in {"bad request", "server exits"} /\ UNCHANGED <<hits, after, aggregation>>
  <2>1. PagingTypes'
    BY <1>1, <1>4 DEF PagingTypes, Answered, Given
  <2>2. ASSUME HitsAreRight
        PROVE  HitsAreRight'
    <3>1. /\ \A i, j : Before(i, j)' <=> Before(i, j)
          /\ \A i, j : InOrder(i, j)' <=> InOrder(i, j)
          /\ \A id : Pair(id, request)' = Pair(id, request)
      BY <1>1, OrderStays
    <3>2. outcome' # "end" /\ outcome # "end" /\ UNCHANGED <<hits, after, always, request>>
      BY <1>1, <1>4
    <3>3. QED
      BY <2>2, <3>1, <3>2 DEF HitsAreRight
  <2>3. QED
    BY <1>2, <2>1, <2>2 DEF PagingIInv
<1>5. QED
  BY <1>1, <1>3, <1>4, AskedPage

LEMMA ChangeStep ==
    ASSUME PagingIInv, ChangeIndex
    PROVE  PagingIInv'
<1>1. PICK id \in DOMAIN Catalogue :
          /\ present' = IF id \in present THEN present \ {id} ELSE present \cup {id}
          /\ always' = always \ {id} /\ seen' = seen \cup {id}
  BY DEF ChangeIndex
<1>2. /\ UNCHANGED <<request, after, hits, aggregation, outcome>>
      /\ changes' = changes + 1 /\ PagingTypes
  BY DEF ChangeIndex, PagingIInv
<1>3. /\ always' \subseteq present' /\ present' \subseteq seen' /\ seen' \subseteq DOMAIN Catalogue
      /\ seen \subseteq seen' /\ always' \subseteq always /\ present' \subseteq DOMAIN Catalogue
  BY <1>1, <1>2 DEF PagingTypes
<1>4. Matching(seen, request) \subseteq Matching(seen', request)
      /\ Matching(always', request) \subseteq Matching(always, request)
  BY <1>3 DEF Matching
<1>5. changes' \in Nat /\ changes' # 0
  <2>1. changes \in Nat
    BY <1>2 DEF PagingTypes
  <2>2. QED
    BY <1>2, <2>1
<1>6. PagingTypes'
  <2>1. \A n \in 1 .. Len(hits') : hits'[n] \in Matching(seen', request')
    BY <1>2, <1>4 DEF PagingTypes
  <2>2. Answered => Answered'
    BY <1>2, <1>3 DEF Answered
  <2>3. QED
    BY <1>2, <1>3, <1>5, <2>1, <2>2 DEF PagingTypes
<1>7. ASSUME Promised'
      PROVE  HitsAreRight'
  <2>1. Promised /\ (UNCHANGED present \/ ~(request.sort = "score" /\ HasQuery(request)))
    BY <1>2, <1>3, <1>7, PromisedBefore
  <2>2. HitsAreRight
    BY <2>1 DEF PagingIInv
  <2>3. /\ \A i, j : Before(i, j)' <=> Before(i, j)
        /\ \A i, j : InOrder(i, j)' <=> InOrder(i, j)
        /\ \A i : Pair(i, request)' = Pair(i, request)
    BY <1>2, <2>1, OrderStays
  <2>4. QED
    BY <1>2, <1>4, <2>2, <2>3 DEF HitsAreRight
<1>8. QED
  BY <1>6, <1>7 DEF PagingIInv

LEMMA PagingStep == PagingIInv /\ [PagingNext]_pagingVars => PagingIInv'
<1> SUFFICES ASSUME PagingIInv, [PagingNext]_pagingVars
             PROVE  PagingIInv'
  OBVIOUS
<1>1. CASE AskPage
  BY <1>1, AskStep
<1>2. CASE ChangeIndex
  BY <1>2, ChangeStep
<1>3. CASE UNCHANGED pagingVars
  <2>1. UNCHANGED <<request, after, present, always, seen, hits, aggregation, outcome, changes>>
    BY <1>3 DEF pagingVars
  <2>2. PagingTypes'
    BY <2>1 DEF PagingIInv, PagingTypes, Answered, Given
  <2>3. Promised' => Promised
    BY <2>1, PromisedBefore DEF PagingIInv
  <2>4. /\ \A i, j : Before(i, j)' <=> Before(i, j)
        /\ \A i, j : InOrder(i, j)' <=> InOrder(i, j)
        /\ \A i : Pair(i, request)' = Pair(i, request)
    BY <2>1, OrderStays
  <2>5. HitsAreRight => HitsAreRight'
    BY <2>1, <2>4 DEF HitsAreRight
  <2>6. QED
    BY <2>2, <2>3, <2>5 DEF PagingIInv
<1>4. QED
  BY <1>1, <1>2, <1>3 DEF PagingNext

\* The invariant of a search, from its first page to its last.
THEOREM PagingInvariant == PagingSpec => []PagingIInv
<1>1. PagingInit => PagingIInv
  <2> SUFFICES ASSUME PagingInit
               PROVE  PagingIInv
    OBVIOUS
  <2>1. /\ request \in SearchForms /\ present \subseteq DOMAIN Catalogue
        /\ after = None /\ always = present /\ seen = present /\ hits = <<>>
        /\ aggregation = None /\ outcome = "more" /\ changes = 0
    BY DEF PagingInit
  <2>2. hits \in Seq(DOMAIN Catalogue) /\ Len(hits) = 0
    BY <2>1
  <2>3. PagingTypes
    BY <2>1, <2>2 DEF PagingTypes, Given
  <2>4. HitsAreRight
    BY <2>1, <2>2 DEF HitsAreRight
  <2>5. QED
    BY <2>3, <2>4 DEF PagingIInv
<1>2. QED
  BY <1>1, PagingStep, PTL DEF PagingSpec

\* The types of a search's state, whatever documents there are and whatever is searched for.
THEOREM PagingTypeCorrect == PagingSpec => []PagingTypeOK
<1>1. PagingIInv => PagingTypeOK
  <2> SUFFICES ASSUME PagingTypes
               PROVE  PagingTypeOK
    BY DEF PagingIInv
  <2>1. ToSet(hits) \subseteq seen
    <3>1. hits \in Seq(DOMAIN Catalogue) /\ \A n \in 1 .. Len(hits) : hits[n] \in seen
      BY DEF PagingTypes, Matching
    <3>2. QED
      BY <3>1 DEF ToSet
  <2>2. after = None \/ (after[1] \in Int /\ after[2] \in DOMAIN Catalogue)
    <3>1. after = None \/ after \in Int \X DOMAIN Catalogue
      BY DEF PagingTypes
    <3>2. QED
      BY <3>1
  <2>3. QED
    BY <2>1, <2>2 DEF PagingTypes, PagingTypeOK
<1>2. QED
  BY <1>1, PagingInvariant, PTL

\* Who reads to the last page has been shown all that matches and was there all along, and
\* nothing twice, for every catalogue, every request and every size of the pages
\* (database_fts_search with its ORDER BY and the position of get_after_where).
THEOREM PagesCorrect == PagingSpec => []PagesAreComplete
<1>1. PagingIInv => PagesAreComplete
  <2> SUFFICES ASSUME PagingIInv, outcome = "end", Promised
               PROVE  /\ Matching(always, request) \subseteq ToSet(hits)
                      /\ \A n, m \in DOMAIN hits :
                            n < m /\ hits[n] = hits[m] => Catalogue[hits[n]].embeddings > 1
                      /\ Given(aggregation) /\ changes = 0 => aggregation = Cardinality(ToSet(hits))
    BY DEF PagesAreComplete, Promised
  <2>1. /\ PagingTypes /\ HitsAreRight
        /\ hits \in Seq(DOMAIN Catalogue) /\ Len(hits) \in Nat /\ DOMAIN hits = 1 .. Len(hits)
    <3>1. PagingTypes /\ HitsAreRight
      BY DEF PagingIInv
    <3>2. hits \in Seq(DOMAIN Catalogue)
      BY <3>1 DEF PagingTypes
    <3>3. QED
      BY <3>1, <3>2
  <2>2. \A i \in Matching(always, request) : \E n \in 1 .. Len(hits) : hits[n] = i
    BY <2>1 DEF HitsAreRight
  <2>3. Matching(always, request) \subseteq ToSet(hits)
    BY <2>1, <2>2 DEF ToSet
  <2>4. ASSUME NEW n \in 1 .. Len(hits), NEW m \in 1 .. Len(hits), n < m, hits[n] = hits[m]
        PROVE  Catalogue[hits[n]].embeddings > 1
    <3>1. Len(hits) # 0
      BY <2>1
    <3>2. Answered /\ hits[n] \in DOMAIN Catalogue
      BY <2>1, <3>1 DEF PagingTypes
    <3>3. ~Before(hits[n], hits[n])
      BY <3>2, DocumentOrder
    <3>4. InOrder(hits[n], hits[n])
      BY <2>1, <2>4 DEF HitsAreRight
    <3>5. QED
      BY <3>3, <3>4 DEF InOrder
  <2>5. ASSUME Given(aggregation), changes = 0
        PROVE  aggregation = Cardinality(ToSet(hits))
    <3>1. /\ aggregation = Cardinality(Matching(present, request))
          /\ always = present /\ seen = present
      BY <2>1, <2>5 DEF PagingTypes
    <3>2. ToSet(hits) \subseteq Matching(seen, request)
      <4>1. \A n \in 1 .. Len(hits) : hits[n] \in Matching(seen, request)
        BY <2>1 DEF PagingTypes
      <4>2. QED
        BY <2>1, <4>1 DEF ToSet
    <3>3. ToSet(hits) = Matching(present, request)
      BY <2>3, <3>1, <3>2
    <3>4. QED
      BY <3>1, <3>3
  <2>6. QED
    BY <2>1, <2>3, <2>4, <2>5
<1>2. QED
  BY <1>1, PagingInvariant, PTL
=============================================================================
