------------------------------ MODULE LoopProofs ------------------------------
(***************************************************************************)
(* Proofs about the loops of prepare_context, for any context, window and  *)
(* token counter, and of a graph transition, for any graph.                *)
(***************************************************************************)
EXTENDS GraphTransition, ContextPreparation, FiniteSetTheorems, FunctionTheorems, SequenceTheorems, TLAPS

-----------------------------------------------------------------------------
(* Finite sets and strict total orders *)

TotalOrder(R, S) ==
  /\ \A a \in S : <<a, a>> \notin R
  /\ \A a, b \in S : a # b => <<a, b>> \in R \/ <<b, a>> \in R
  /\ \A a, b, c \in S : <<a, b>> \in R /\ <<b, c>> \in R => <<a, c>> \in R

\* A place in the order is the number of what comes before.
LEMMA Places ==
  ASSUME NEW S, IsFiniteSet(S), NEW R, TotalOrder(R, S)
  PROVE  \E pos \in [S -> 1..Cardinality(S)] : \A a, b \in S : <<a, b>> \in R => pos[a] < pos[b]
<1> DEFINE Before(d) == {e \in S : <<e, d>> \in R}
           n == Cardinality(S)
           pos == [d \in S |-> Cardinality(Before(d)) + 1]
<1>1. n \in Nat
  BY FS_CardinalityType
<1>2. ASSUME NEW d \in S
      PROVE  /\ Before(d) \in SUBSET S /\ IsFiniteSet(Before(d)) /\ d \notin Before(d)
             /\ Cardinality(Before(d)) \in Nat /\ Cardinality(Before(d)) + 1 \in 1..n
  <2>1. Before(d) \in SUBSET S /\ d \notin Before(d)
    BY DEF TotalOrder
  <2>2. IsFiniteSet(Before(d)) /\ Cardinality(Before(d)) <= n /\ Cardinality(Before(d)) # n
    BY <2>1, FS_Subset
  <2>3. Cardinality(Before(d)) \in Nat
    BY <2>2, FS_CardinalityType
  <2>4. Cardinality(Before(d)) + 1 \in 1..n
    <3> HIDE DEF Before, n
    <3>1. QED
      BY <1>1, <2>2, <2>3
  <2>5. QED
    BY <2>1, <2>2, <2>3, <2>4
<1>3. ASSUME NEW d \in S, NEW e \in S, <<d, e>> \in R
      PROVE  Cardinality(Before(d)) < Cardinality(Before(e))
  <2>1. Before(d) \in SUBSET Before(e)
    BY <1>3 DEF TotalOrder
  <2>2. d \in Before(e) /\ d \notin Before(d)
    BY <1>2, <1>3
  <2>3. Cardinality(Before(d)) <= Cardinality(Before(e)) /\ Cardinality(Before(d)) # Cardinality(Before(e))
    BY <1>2, <2>1, <2>2, FS_Subset
  <2>4. Cardinality(Before(d)) \in Nat /\ Cardinality(Before(e)) \in Nat
    BY <1>2
  <2>5. QED
    BY <2>3, <2>4
<1>4. pos \in [S -> 1..n]
  BY <1>2
<1>5. ASSUME NEW a \in S, NEW b \in S, <<a, b>> \in R
      PROVE  pos[a] < pos[b]
  <2>1. Cardinality(Before(a)) < Cardinality(Before(b))
    BY <1>3, <1>5
  <2>2. Cardinality(Before(a)) \in Nat /\ Cardinality(Before(b)) \in Nat
    BY <1>2
  <2>3. pos[a] = Cardinality(Before(a)) + 1 /\ pos[b] = Cardinality(Before(b)) + 1
    OBVIOUS
  <2> HIDE DEF pos, Before
  <2>4. QED
    BY <2>1, <2>2, <2>3
<1> HIDE DEF pos
<1>6. QED
  BY <1>4, <1>5

LEMMA FirstExists ==
  ASSUME NEW S, IsFiniteSet(S), S # {}, NEW R, TotalOrder(R, S)
  PROVE  \E a \in S : \A b \in S : a = b \/ <<a, b>> \in R
<1>1. PICK pos \in [S -> 1..Cardinality(S)] : \A a, b \in S : <<a, b>> \in R => pos[a] < pos[b]
  BY Places
<1>2. PICK P : P = {pos[a] : a \in S}
  OBVIOUS
<1>3. P \in SUBSET Nat /\ P # {}
  <2>1. Cardinality(S) \in Nat
    BY FS_CardinalityType
  <2>2. 1..Cardinality(S) \subseteq Nat
    BY <2>1
  <2>3. QED
    BY <1>1, <1>2, <2>2
<1>4. IsWellFoundedOn(OpToRel(<, Nat), Nat)
  BY NatLessThanWellFounded
<1>5. PICK i \in P : \A j \in P : ~ (<<j, i>> \in OpToRel(<, Nat))
  BY <1>3, <1>4, WFMin
<1>6. ASSUME NEW j \in P
      PROVE  ~ (j < i)
  <2>1. SUFFICES ASSUME j < i
                 PROVE  FALSE
    OBVIOUS
  <2>2. <<j, i>> \in Nat \X Nat /\ <<j, i>>[1] < <<j, i>>[2]
    BY <1>3, <2>1
  <2>3. <<j, i>> \in OpToRel(<, Nat)
    BY <2>2, Zenon DEF OpToRel
  <2>4. QED
    BY <1>5, <2>3, Zenon
<1>7. PICK a \in S : pos[a] = i
  BY <1>2, <1>5
<1>8. ASSUME NEW b \in S, a # b
      PROVE  <<a, b>> \in R
  <2>1. pos[b] \in P
    BY <1>2
  <2>2. <<b, a>> \notin R
    BY <1>1, <1>6, <1>7, <2>1
  <2>3. QED
    BY <1>8, <2>2 DEF TotalOrder
<1>9. QED
  BY <1>8

LEMMA SortExists ==
  ASSUME NEW S, IsFiniteSet(S), NEW R, TotalOrder(R, S), NEW n, n = Cardinality(S)
  PROVE  \E s \in [1..n -> S] : \A i, j \in 1..n : i < j => <<s[i], s[j]>> \in R
<1>1. PICK pos \in [S -> 1..n] : \A a, b \in S : <<a, b>> \in R => pos[a] < pos[b]
  BY Places
<1>2. n \in Nat
  BY FS_CardinalityType
<1>3. \A a, b \in S : pos[a] = pos[b] => a = b
  <2>1. SUFFICES ASSUME NEW a \in S, NEW b \in S, a # b
                 PROVE  pos[a] # pos[b]
    OBVIOUS
  <2>2. pos[a] < pos[b] \/ pos[b] < pos[a]
    BY <1>1, <2>1 DEF TotalOrder
  <2>3. pos[a] \in Nat /\ pos[b] \in Nat
    BY <1>1, <1>2
  <2>4. QED
    BY <2>2, <2>3
<1>4. pos \in Injection(S, 1..n)
  BY <1>1, <1>3, Fun_IsInj
<1>5. IsFiniteSet(1..n) /\ Cardinality(1..n) = n
  BY <1>2, FS_Interval
<1>6. pos \in Surjection(S, 1..n)
  BY <1>4, <1>5, FS_Injection
<1>7. \A i \in 1..n : \E d \in S : pos[d] = i
  BY <1>6 DEF Surjection
<1> DEFINE s == [i \in 1..n |-> CHOOSE d \in S : pos[d] = i]
<1>8. \A i \in 1..n : s[i] \in S /\ pos[s[i]] = i
  BY <1>7
<1>9. s \in [1..n -> S]
  BY <1>8
<1> HIDE DEF s
<1>10. ASSUME NEW i \in 1..n, NEW j \in 1..n, i < j
       PROVE  <<s[i], s[j]>> \in R
  <2>1. pos[s[i]] = i /\ pos[s[j]] = j /\ s[i] \in S /\ s[j] \in S
    BY <1>8
  <2>2. i \in Nat /\ j \in Nat /\ ~ (j < i) /\ i # j
    BY <1>2, <1>10
  <2>3. s[i] # s[j]
    BY <2>1, <2>2
  <2>4. <<s[j], s[i]>> \notin R
    BY <1>1, <2>1, <2>2
  <2>5. QED
    BY <2>1, <2>3, <2>4 DEF TotalOrder
<1>11. QED
  BY <1>9, <1>10

LEMMA SortedExists ==
  ASSUME NEW S, IsFiniteSet(S), S \subseteq Int, NEW n, n = Cardinality(S)
  PROVE  \E s \in [1..n -> S] : \A i, j \in 1..n : i < j => s[i] < s[j]
<1>1. PICK R : R = {p \in S \X S : p[1] < p[2]}
  OBVIOUS
<1>2. \A a, b \in S : <<a, b>> \in R <=> a < b
  BY <1>1
<1>3. TotalOrder(R, S)
  BY <1>2 DEF TotalOrder
<1>4. PICK s \in [1..n -> S] : \A i, j \in 1..n : i < j => <<s[i], s[j]>> \in R
  BY <1>3, SortExists
<1>5. \A i \in 1..n : s[i] \in S
  BY <1>4
<1>6. QED
  BY <1>2, <1>4, <1>5

\* Sorted lists every element of a finite set of integers once, ascending.
Listing(S, n, s) ==
  /\ n \in Nat /\ n = Cardinality(S) /\ s = Sorted(S) /\ s \in [1..n -> S]
  /\ \A i, j \in 1..n : i < j => s[i] < s[j]
  /\ \A i, j \in 1..n : s[i] = s[j] => i = j
  /\ \A x \in S : \E i \in 1..n : s[i] = x

LEMMA SortedFacts ==
  ASSUME NEW S, IsFiniteSet(S), S \subseteq Int
  PROVE  \E n, s : Listing(S, n, s)
<1>1. PICK n : n = Cardinality(S)
  OBVIOUS
<1>2. n \in Nat
  BY <1>1, FS_CardinalityType
<1>3. PICK s : s = Sorted(S)
  OBVIOUS
<1>4. s \in [1..n -> S] /\ \A i, j \in 1..n : i < j => s[i] < s[j]
  <2>1. \E f \in [1..n -> S] : \A i, j \in 1..n : i < j => f[i] < f[j]
    BY <1>1, SortedExists
  <2>2. s = CHOOSE f \in [1..n -> S] : \A i, j \in 1..n : i < j => f[i] < f[j]
    BY <1>1, <1>3 DEF Sorted
  <2>3. QED
    BY <2>1, <2>2
<1>5. \A i, j \in 1..n : s[i] = s[j] => i = j
  <2>1. SUFFICES ASSUME NEW i \in 1..n, NEW j \in 1..n, i # j
                 PROVE  s[i] # s[j]
    OBVIOUS
  <2>2. i < j \/ j < i
    BY <1>2, <2>1
  <2>3. s[i] < s[j] \/ s[j] < s[i]
    BY <1>4, <2>2
  <2>4. s[i] \in Int /\ s[j] \in Int
    BY <1>4
  <2>5. QED
    BY <2>3, <2>4
<1>6. s \in Injection(1..n, S)
  BY <1>4, <1>5, Fun_IsInj
<1>7. IsFiniteSet(1..n) /\ Cardinality(1..n) = n
  BY <1>2, FS_Interval
<1>8. s \in Surjection(1..n, S)
  BY <1>1, <1>6, <1>7, FS_Injection
<1>9. \A x \in S : \E i \in 1..n : s[i] = x
  BY <1>8 DEF Surjection
<1>10. Listing(S, n, s)
  BY <1>1, <1>2, <1>3, <1>4, <1>5, <1>9 DEF Listing
<1>11. QED
  BY <1>10

-----------------------------------------------------------------------------
(* prepare_context *)

LEMMA SegmentFacts ==
  ASSUME segments \in Inputs
  PROVE  /\ IsFiniteSet(DOMAIN segments) /\ DOMAIN segments \subseteq Nat
         /\ Optional \subseteq DOMAIN segments
         /\ \A S \in SUBSET DOMAIN segments : IsFiniteSet(S)
         /\ \A i \in DOMAIN segments : segments[i].priority \in Int
         /\ \A S \in SUBSET DOMAIN segments : Count(Chat(S)) \in Nat
<1>1. /\ DOMAIN segments = 1..Len(segments) /\ Len(segments) \in Nat
      /\ \A i \in DOMAIN segments : segments[i].priority \in Int
      /\ \A S \in SUBSET DOMAIN segments : Count(ChatOf(segments, S)) \in Nat
  BY PreparationConstants
<1>2. IsFiniteSet(1..Len(segments))
  BY <1>1, FS_Interval
<1>3. IsFiniteSet(DOMAIN segments) /\ DOMAIN segments \subseteq Nat
  BY <1>1, <1>2
<1>4. \A S \in SUBSET DOMAIN segments : IsFiniteSet(S)
  BY <1>3, FS_Subset
<1>5. \A S \in SUBSET DOMAIN segments : Count(Chat(S)) \in Nat
  BY <1>1 DEF Chat
<1>6. QED
  BY <1>1, <1>3, <1>4, <1>5 DEF Optional

\* chosen[key] exists, and is one for all equal segments.
LEMMA WinnerFacts ==
  ASSUME segments \in Inputs, NEW i \in Optional
  PROVE  /\ Winner(i) \in Optional /\ Same(i, Winner(i))
         /\ \A k \in Optional : Same(i, k) =>
              \/ segments[k].priority < segments[Winner(i)].priority
              \/ segments[k].priority = segments[Winner(i)].priority /\ k >= Winner(i)
<1>1. PICK C : C = {k \in Optional : Same(i, k)}
  OBVIOUS
<1>2. C \subseteq DOMAIN segments /\ IsFiniteSet(C) /\ i \in C
  BY <1>1, SegmentFacts DEF Same
<1>3. PICK R : R = {p \in C \X C : \/ segments[p[2]].priority < segments[p[1]].priority
                                   \/ segments[p[2]].priority = segments[p[1]].priority /\ p[1] < p[2]}
  OBVIOUS
<1>4. \A a, b \in C : <<a, b>> \in R <=>
        \/ segments[b].priority < segments[a].priority
        \/ segments[b].priority = segments[a].priority /\ a < b
  BY <1>3
<1>5. \A a \in C : a \in Nat /\ segments[a].priority \in Int
  BY <1>2, SegmentFacts
<1>6. TotalOrder(R, C)
  BY <1>4, <1>5 DEF TotalOrder
<1>7. PICK w \in C : \A k \in C : w = k \/ <<w, k>> \in R
  BY <1>2, <1>6, FirstExists
<1>8. ASSUME NEW k \in C
      PROVE  \/ segments[k].priority < segments[w].priority
             \/ segments[k].priority = segments[w].priority /\ k >= w
  <2>1. CASE w = k
    BY <1>5, <2>1
  <2>2. CASE <<w, k>> \in R
    <3>1. \/ segments[k].priority < segments[w].priority
          \/ segments[k].priority = segments[w].priority /\ w < k
      BY <1>4, <2>2
    <3>2. w \in Nat /\ k \in Nat
      BY <1>5
    <3>3. w < k => k >= w
      BY <3>2
    <3>4. QED
      BY <3>1, <3>3
  <2>3. QED
    BY <1>7, <2>1, <2>2
<1>9. /\ w \in Optional /\ Same(i, w)
      /\ \A k \in Optional : Same(i, k) =>
           \/ segments[k].priority < segments[w].priority
           \/ segments[k].priority = segments[w].priority /\ k >= w
  BY <1>1, <1>8
<1>10. QED
  BY <1>9 DEF Winner

LEMMA WinnerOfSame ==
  ASSUME segments \in Inputs, NEW i \in Optional, NEW j \in Optional, Same(i, j)
  PROVE  Winner(i) = Winner(j)
<1>1. PICK v, w : v = Winner(i) /\ w = Winner(j)
  OBVIOUS
<1>2. /\ v \in Optional /\ Same(i, v)
      /\ \A k \in Optional : Same(i, k) =>
           \/ segments[k].priority < segments[v].priority
           \/ segments[k].priority = segments[v].priority /\ k >= v
  BY <1>1, WinnerFacts
<1>3. /\ w \in Optional /\ Same(j, w)
      /\ \A k \in Optional : Same(j, k) =>
           \/ segments[k].priority < segments[w].priority
           \/ segments[k].priority = segments[w].priority /\ k >= w
  BY <1>1, WinnerFacts
<1>4. Same(i, w) /\ Same(j, v)
  BY <1>2, <1>3 DEF Same
<1>5. /\ v \in Nat /\ w \in Nat /\ segments[v].priority \in Int /\ segments[w].priority \in Int
  BY <1>2, <1>3, SegmentFacts
<1>6. v = w
  BY <1>2, <1>3, <1>4, <1>5
<1>7. QED
  BY <1>1, <1>6

LEMMA WinnerWins ==
  ASSUME segments \in Inputs, NEW i \in Optional
  PROVE  Winner(Winner(i)) = Winner(i)
BY WinnerFacts, WinnerOfSame

\* What the loop keeps while it counts: K is kept, X the exclusions.  The losses
\* are listed once; a duplicate names the winner of its text, and only winners
\* are dropped for space, in the order of drop_order.
Fitting(K, X) ==
  /\ K \subseteq DOMAIN segments
  /\ DOMAIN segments \ Optional \subseteq K
  /\ \A i \in K \cap Optional : Winner(i) = i
  /\ Len(X) \in Nat /\ DOMAIN X = 1..Len(X)
  /\ \A m, n \in DOMAIN X : X[m].of = X[n].of => m = n
  /\ \A n \in DOMAIN X : X[n].of \in Optional \ K
  /\ \A i \in Optional \ K : \E n \in DOMAIN X : X[n].of = i
  /\ \A n \in DOMAIN X : X[n].reason \in {"duplicate", "over_budget"}
  /\ \A n \in DOMAIN X : X[n].reason = "duplicate" =>
       X[n].by = Winner(X[n].of) /\ X[n].by # X[n].of
  /\ \A n \in DOMAIN X : X[n].reason = "over_budget" =>
       Winner(X[n].of) = X[n].of /\ \A j \in K \cap Optional : GoesFirst(X[n].of, j)
  /\ \A n \in DOMAIN X : n = Len(X) /\ X[n].reason = "over_budget" =>
       Count(Chat(K \cup {X[n].of})) > Available

PrepareInv ==
  /\ segments \in Inputs
  /\ profile \in Profiles
  /\ phase \in {"count", "prepared", "overflow"} => Fitting(kept, excluded)
  /\ phase = "prepared" => Fits
  /\ phase = "overflow" => ~ Fits /\ Droppable = {}

LEMMA ArgumentsStay ==
  ASSUME UNCHANGED <<segments, profile>>
  PROVE  /\ Fitting(kept', excluded') => Fitting(kept, excluded)'
         /\ Count(Chat(kept')) <= Available => Fits'
         /\ ~ (Count(Chat(kept')) <= Available) => ~ Fits'
         /\ kept' \cap Optional = {} => (Droppable = {})'
<1>1. Optional' = Optional /\ \A i : Winner(i)' = Winner(i)
  BY DEF Optional, Winner, Same
<1>2. \A i, j : GoesFirst(i, j)' <=> GoesFirst(i, j)
  BY DEF GoesFirst
<1>3. \A S : Chat(S)' = Chat(S)
  BY DEF Chat
<1>4. Available' = Available
  BY DEF Available
<1>5. Fitting(kept', excluded') => Fitting(kept, excluded)'
  BY <1>1, <1>2, <1>3, <1>4 DEF Fitting
<1>6. QED
  BY <1>1, <1>3, <1>4, <1>5 DEF Fits, Droppable

LEMMA DeduplicateStep ==
  ASSUME PrepareInv, Deduplicate
  PROVE  PrepareInv'
<1>1. segments \in Inputs /\ profile \in Profiles /\ UNCHANGED <<segments, profile>> /\ phase' = "count"
  BY DEF PrepareInv, Deduplicate
<1>2. PICK L : L = {i \in Optional : Winner(i) # i}
  OBVIOUS
<1>3. L \subseteq Optional /\ L \subseteq Int /\ IsFiniteSet(L)
  BY <1>1, <1>2, SegmentFacts
<1>4. PICK n, s : Listing(L, n, s)
  BY <1>3, SortedFacts
<1>5. /\ n \in Nat /\ n = Cardinality(L) /\ s = Sorted(L) /\ s \in [1..n -> L]
      /\ \A x \in L : \E i \in 1..n : s[i] = x
  BY <1>4 DEF Listing
<1>6. \A i, j \in 1..n : s[i] = s[j] => i = j
  BY <1>4 DEF Listing
<1>7. PICK X : X = [m \in 1..n |-> [of |-> s[m], reason |-> "duplicate", by |-> Winner(s[m])]]
  OBVIOUS
<1>8. kept' = DOMAIN segments \ L /\ excluded' = X
  BY <1>2, <1>5, <1>7 DEF Deduplicate
<1>9. /\ DOMAIN X = 1..n
      /\ \A m \in 1..n : X[m].of = s[m] /\ X[m].reason = "duplicate" /\ X[m].by = Winner(s[m])
  BY <1>7
<1>10. Len(X) = n
  BY <1>5, <1>9
<1>11. PICK K : K = DOMAIN segments \ L
  OBVIOUS
<1>12. /\ K \subseteq DOMAIN segments /\ DOMAIN segments \ Optional \subseteq K
       /\ \A i \in K \cap Optional : Winner(i) = i /\ Optional \ K = L
       /\ Optional \ K = L
  BY <1>1, <1>2, <1>3, <1>11, SegmentFacts
<1>13. \A m \in 1..n : s[m] \in L /\ Winner(s[m]) # s[m]
  BY <1>2, <1>5
<1>14. \A i \in L : \E m \in 1..n : s[m] = i
  BY <1>5
<1>15. Fitting(K, X)
  BY <1>5, <1>6, <1>9, <1>10, <1>12, <1>13, <1>14 DEF Fitting
<1>16. Fitting(kept, excluded)'
  BY <1>1, <1>8, <1>11, <1>15, ArgumentsStay
<1>17. QED
  BY <1>1, <1>16 DEF PrepareInv

\* drop_order has a first, because the loop only drops while it can.
LEMMA DroppedFirst ==
  ASSUME segments \in Inputs, Droppable # {}
  PROVE  Dropped \in Droppable /\ \A j \in Droppable : GoesFirst(Dropped, j) \/ Dropped = j
<1>1. PICK C : C = Droppable
  OBVIOUS
<1>2. C \subseteq DOMAIN segments /\ IsFiniteSet(C) /\ C # {}
  BY <1>1, SegmentFacts DEF Droppable
<1>3. PICK R : R = {p \in C \X C : GoesFirst(p[1], p[2])}
  OBVIOUS
<1>4. \A a, b \in C : <<a, b>> \in R <=> GoesFirst(a, b)
  BY <1>3
<1>5. \A a \in C : a \in Nat /\ segments[a].priority \in Int
  BY <1>2, SegmentFacts
<1>6. TotalOrder(R, C)
  BY <1>4, <1>5 DEF TotalOrder, GoesFirst
<1>7. PICK w \in C : \A k \in C : w = k \/ <<w, k>> \in R
  BY <1>2, <1>6, FirstExists
<1>8. \E i \in Droppable : \A j \in Droppable : GoesFirst(i, j) \/ i = j
  BY <1>1, <1>4, <1>7
<1>9. QED
  BY <1>8 DEF Dropped

LEMMA DropStep ==
  ASSUME PrepareInv, phase = "count", ~ Fits, Droppable # {},
         kept' = kept \ {Dropped},
         excluded' = Append(excluded, [of |-> Dropped, reason |-> "over_budget", by |-> Dropped]),
         UNCHANGED <<segments, profile>>
  PROVE  Fitting(kept, excluded)'
<1>1. segments \in Inputs /\ Fitting(kept, excluded)
  BY DEF PrepareInv
<1>2. PICK d : d = Dropped
  OBVIOUS
<1>3. d \in kept \cap Optional /\ \A j \in kept \cap Optional : GoesFirst(d, j) \/ d = j
  BY <1>1, <1>2, DroppedFirst DEF Droppable
<1>4. PICK K, x, X, n : /\ K = kept \ {d} /\ x = [of |-> d, reason |-> "over_budget", by |-> d]
                        /\ X = Append(excluded, x) /\ n = Len(excluded)
  OBVIOUS
<1>5. /\ n \in Nat /\ DOMAIN excluded = 1..n
  BY <1>1, <1>4 DEF Fitting
<1>6. /\ Len(X) = n + 1 /\ DOMAIN X = 1..(n + 1) /\ X[n + 1] = x
      /\ \A m \in 1..n : X[m] = excluded[m]
  <2>1. X = [m \in 1..(n + 1) |-> IF m = n + 1 THEN x ELSE excluded[m]]
    BY <1>4, <1>5
  <2>2. QED
    BY <1>5, <2>1
<1>7. x.of = d /\ x.reason = "over_budget"
  BY <1>4
<1>8. \A m \in 1..(n + 1) : m = n + 1 \/ m \in 1..n
  BY <1>5
<1>9. /\ K \subseteq DOMAIN segments /\ DOMAIN segments \ Optional \subseteq K
      /\ \A i \in K \cap Optional : Winner(i) = i
  BY <1>1, <1>3, <1>4 DEF Fitting
<1>10. \A a, b \in DOMAIN X : X[a].of = X[b].of => a = b
  <2>1. \A m \in 1..n : excluded[m].of # d
    BY <1>1, <1>3, <1>5 DEF Fitting
  <2>2. \A a, b \in 1..n : excluded[a].of = excluded[b].of => a = b
    BY <1>1, <1>5 DEF Fitting
  <2>3. QED
    BY <1>6, <1>7, <1>8, <2>1, <2>2
<1>11. \A m \in DOMAIN X : X[m].of \in Optional \ K
  <2>1. \A m \in 1..n : excluded[m].of \in Optional \ kept
    BY <1>1, <1>5 DEF Fitting
  <2>2. QED
    BY <1>3, <1>4, <1>6, <1>7, <1>8, <2>1
<1>12. \A i \in Optional \ K : \E m \in DOMAIN X : X[m].of = i
  <2>1. SUFFICES ASSUME NEW i \in Optional \ K
                 PROVE  \E m \in DOMAIN X : X[m].of = i
    OBVIOUS
  <2>2. CASE i = d
    <3>1. n + 1 \in DOMAIN X /\ X[n + 1].of = i
      BY <1>5, <1>6, <1>7, <2>2
    <3>2. QED
      BY <3>1
  <2>3. CASE i # d
    <3>1. PICK m \in 1..n : excluded[m].of = i
      BY <1>1, <1>4, <1>5, <2>1, <2>3 DEF Fitting
    <3>2. m \in DOMAIN X /\ X[m].of = i
      BY <1>5, <1>6, <3>1
    <3>3. QED
      BY <3>2
  <2>4. QED
    BY <2>2, <2>3
<1>13. ASSUME NEW m \in DOMAIN X
       PROVE  /\ X[m].reason \in {"duplicate", "over_budget"}
              /\ X[m].reason = "duplicate" => X[m].by = Winner(X[m].of) /\ X[m].by # X[m].of
              /\ X[m].reason = "over_budget" =>
                   Winner(X[m].of) = X[m].of /\ \A j \in K \cap Optional : GoesFirst(X[m].of, j)
  <2>1. CASE m = n + 1
    <3>1. Winner(d) = d
      BY <1>1, <1>3 DEF Fitting
    <3>2. \A j \in K \cap Optional : GoesFirst(d, j)
      BY <1>3, <1>4
    <3>3. QED
      BY <1>6, <1>7, <2>1, <3>1, <3>2
  <2>2. CASE m # n + 1
    <3>1. m \in DOMAIN excluded /\ X[m] = excluded[m]
      BY <1>5, <1>6, <1>8, <2>2
    <3>2. K \cap Optional \subseteq kept \cap Optional
      BY <1>4
    <3>3. QED
      BY <1>1, <3>1, <3>2 DEF Fitting
  <2>3. QED
    BY <2>1, <2>2
<1>14. Count(Chat(K \cup {d})) > Available
  <2>1. K \cup {d} = kept
    BY <1>3, <1>4
  <2>2. Count(Chat(kept)) \in Nat /\ Available \in Int
    <3>1. kept \in SUBSET DOMAIN segments
      BY <1>1 DEF Fitting
    <3>2. profile.max_context \in Nat /\ profile.reserved_output \in Nat /\ profile.margin \in Nat
      BY PreparationConstants DEF PrepareInv
    <3>3. QED
      BY <1>1, <3>1, <3>2, SegmentFacts DEF Available
  <2>3. ~ (Count(Chat(kept)) <= Available)
    BY DEF Fits
  <2>4. Count(Chat(kept)) > Available
    <3>1. PICK c, a : c = Count(Chat(kept)) /\ a = Available
      OBVIOUS
    <3>2. c \in Nat /\ a \in Int /\ ~ (c <= a)
      BY <2>2, <2>3, <3>1
    <3>3. c > a
      BY <3>2
    <3>4. QED
      BY <3>1, <3>3
  <2>5. QED
    BY <2>1, <2>4
<1>15. Fitting(K, X)
  <2>1. Len(X) \in Nat /\ DOMAIN X = 1..Len(X)
    BY <1>5, <1>6
  <2>2. \A m \in DOMAIN X : m = Len(X) /\ X[m].reason = "over_budget" =>
          Count(Chat(K \cup {X[m].of})) > Available
    BY <1>6, <1>7, <1>14
  <2>3. QED
    BY <1>9, <1>10, <1>11, <1>12, <1>13, <2>1, <2>2 DEF Fitting
<1>16. kept' = K /\ excluded' = X
  BY <1>2, <1>4
<1>17. QED
  BY <1>15, <1>16, ArgumentsStay

LEMMA CountStep ==
  ASSUME PrepareInv, NEW expected \in BOOLEAN, CountAndDrop(expected)
  PROVE  PrepareInv'
<1>1. segments \in Inputs /\ profile \in Profiles /\ UNCHANGED <<segments, profile>>
  BY DEF PrepareInv, CountAndDrop
<1>2. phase = "count" /\ Fitting(kept, excluded)
  BY DEF PrepareInv, CountAndDrop
<1>3. CASE expected /\ ~ Fits /\ Droppable # {}
  <2>1. /\ kept' = kept \ {Dropped}
        /\ excluded' = Append(excluded, [of |-> Dropped, reason |-> "over_budget", by |-> Dropped])
        /\ phase' = phase
    BY <1>3 DEF CountAndDrop
  <2>2. Fitting(kept, excluded)'
    BY <1>1, <1>2, <1>3, <2>1, DropStep
  <2>3. QED
    BY <1>1, <1>2, <2>1, <2>2 DEF PrepareInv
<1>4. CASE ~ (expected /\ ~ Fits /\ Droppable # {})
  <2>1. /\ phase' = IF ~ expected THEN "invalid" ELSE IF Fits THEN "prepared" ELSE "overflow"
        /\ kept' = kept /\ excluded' = excluded
    BY <1>4 DEF CountAndDrop
  <2>2. Fitting(kept, excluded)'
    BY <1>1, <1>2, <2>1, ArgumentsStay
  <2>3. phase' = "prepared" => Fits
    BY <2>1
  <2>4. phase' = "overflow" => ~ Fits /\ Droppable = {}
    BY <1>4, <2>1
  <2>5. (Fits => Fits') /\ (~ Fits => ~ Fits') /\ (Droppable = {} => (Droppable = {})')
    BY <1>1, <2>1, ArgumentsStay DEF Fits, Droppable
  <2>6. QED
    BY <1>1, <2>2, <2>3, <2>4, <2>5 DEF PrepareInv
<1>5. QED
  BY <1>3, <1>4

\* For every context, profile and token counter, and for any number of counts,
\* prepare_context has at each count listed every lost segment once with the
\* reason it was lost, and has kept the required ones and winners only.
THEOREM PrepareInvariant == PrepareSpec => []PrepareInv
<1>1. PrepareInit => PrepareInv
  BY DEF PrepareInit, PrepareInv
<1>2. PrepareInv /\ [PrepareNext]_preparationVars => PrepareInv'
  <2>1. SUFFICES ASSUME PrepareInv, [PrepareNext]_preparationVars
                 PROVE  PrepareInv'
    OBVIOUS
  <2>2. CASE Deduplicate
    BY <2>1, <2>2, DeduplicateStep
  <2>3. CASE \E expected \in BOOLEAN : CountAndDrop(expected)
    BY <2>1, <2>3, CountStep
  <2>4. CASE UNCHANGED preparationVars
    <3>1. UNCHANGED <<segments, profile>> /\ kept' = kept /\ excluded' = excluded /\ phase' = phase
      BY <2>4 DEF preparationVars
    <3>2. /\ Fitting(kept, excluded) => Fitting(kept, excluded)'
          /\ (Fits => Fits') /\ (~ Fits => ~ Fits') /\ (Droppable = {} => (Droppable = {})')
      BY <3>1, ArgumentsStay DEF Fits, Droppable
    <3>3. QED
      BY <2>1, <3>1, <3>2 DEF PrepareInv
  <2>5. QED
    BY <2>1, <2>2, <2>3, <2>4 DEF PrepareNext
<1>3. QED
  BY <1>1, <1>2, PTL DEF PrepareSpec

LEMMA LossesOnce ==
  ASSUME segments \in Inputs, Fitting(kept, excluded)
  PROVE  /\ kept \cap Losses = {} /\ kept \cup Losses = DOMAIN segments
         /\ Cardinality(Losses) = Len(excluded)
<1>1. PICK n : n = Len(excluded)
  OBVIOUS
<1>2. n \in Nat /\ DOMAIN excluded = 1..n
  BY <1>1 DEF Fitting
<1>3. PICK L, f : L = Losses /\ f = [m \in 1..n |-> excluded[m].of]
  OBVIOUS
<1>4. \A m \in 1..n : f[m] = excluded[m].of /\ f[m] \in L
  BY <1>2, <1>3 DEF Losses
<1>5. \A x \in L : \E m \in 1..n : f[m] = x
  BY <1>2, <1>3, <1>4 DEF Losses
<1>6. L = Optional \ kept
  <2>1. \A m \in 1..n : f[m] \in Optional \ kept
    BY <1>2, <1>4 DEF Fitting
  <2>2. \A x \in Optional \ kept : \E m \in 1..n : f[m] = x
    BY <1>2, <1>4 DEF Fitting
  <2>3. QED
    BY <1>4, <1>5, <2>1, <2>2
<1>7. kept \subseteq DOMAIN segments /\ DOMAIN segments \ Optional \subseteq kept /\ Optional \subseteq DOMAIN segments
  BY SegmentFacts DEF Fitting
<1>8. Cardinality(L) = n
  <2>1. f \in [1..n -> L]
    BY <1>3, <1>4
  <2>2. \A a, b \in 1..n : f[a] = f[b] => a = b
    BY <1>2, <1>4 DEF Fitting
  <2>3. f \in Bijection(1..n, L)
    <3>1. f \in Injection(1..n, L)
      BY <2>1, <2>2, Fun_IsInj
    <3>2. f \in Surjection(1..n, L)
      BY <1>5, <2>1 DEF Surjection
    <3>3. QED
      BY <3>1, <3>2 DEF Bijection
  <2>4. IsFiniteSet(1..n) /\ Cardinality(1..n) = n
    BY <1>2, FS_Interval
  <2>5. ExistsBijection(1..n, L)
    BY <2>3 DEF ExistsBijection
  <2>6. QED
    BY <2>4, <2>5, FS_Bijection
<1>9. QED
  BY <1>1, <1>3, <1>6, <1>7, <1>8

\* What prepare_context returns holds every required segment and fits with its
\* reserve and margin, accounts once for all that is left out, and would not
\* fit with the source dropped last; it overflows only when the required
\* segments alone do.
THEOREM FitsCorrect == PrepareSpec => []FitsWithRequired
<1>1. PrepareInv => FitsWithRequired
  <2>1. SUFFICES ASSUME PrepareInv
                 PROVE  FitsWithRequired
    OBVIOUS
  <2>2. segments \in Inputs /\ profile \in Profiles
    BY <2>1 DEF PrepareInv
  <2>3. profile.max_context \in Nat /\ profile.reserved_output \in Nat /\ profile.margin \in Nat
    BY <2>2, PreparationConstants
  <2>4. CASE phase = "prepared"
    <3>1. Fitting(kept, excluded) /\ Fits
      BY <2>1, <2>4 DEF PrepareInv
    <3>2. DOMAIN segments \ Optional \subseteq kept /\ kept \subseteq DOMAIN segments
      BY <3>1 DEF Fitting
    <3>3. Count(Chat(kept)) + profile.reserved_output + profile.margin <= profile.max_context
      <4>1. PICK c, w, r, g : c = Count(Chat(kept)) /\ w = profile.max_context
                              /\ r = profile.reserved_output /\ g = profile.margin
        OBVIOUS
      <4>2. kept \in SUBSET DOMAIN segments
        BY <3>2
      <4>3. c \in Nat /\ w \in Nat /\ r \in Nat /\ g \in Nat
        BY <2>2, <2>3, <4>1, <4>2, SegmentFacts
      <4>4. c <= w - r - g
        BY <3>1, <4>1 DEF Fits, Available
      <4>5. c + r + g <= w
        BY <4>3, <4>4
      <4>6. QED
        BY <4>1, <4>5
    <3>4. \A n \in DOMAIN excluded : n = Len(excluded) /\ excluded[n].reason = "over_budget"
            => Count(Chat(kept \cup {excluded[n].of})) > Available
      BY <3>1 DEF Fitting
    <3>5. /\ kept \cap Losses = {} /\ kept \cup Losses = DOMAIN segments
          /\ Cardinality(Losses) = Len(excluded)
      BY <2>2, <3>1, LossesOnce
    <3>6. QED
      BY <2>4, <3>2, <3>3, <3>4, <3>5 DEF FitsWithRequired
  <2>5. CASE phase = "overflow"
    <3>1. Fitting(kept, excluded) /\ ~ Fits /\ Droppable = {}
      BY <2>1, <2>5 DEF PrepareInv
    <3>2. kept = DOMAIN segments \ Optional
      <4>1. /\ kept \subseteq DOMAIN segments /\ DOMAIN segments \ Optional \subseteq kept
            /\ kept \cap Optional = {}
        BY <3>1 DEF Fitting, Droppable
      <4>2. QED
        BY <4>1
    <3>3. PICK c, a : c = Count(Chat(kept)) /\ a = Available
      OBVIOUS
    <3>4. c \in Nat /\ a \in Int
      <4>1. kept \in SUBSET DOMAIN segments
        BY <3>2
      <4>2. QED
        BY <2>2, <2>3, <3>3, <4>1, SegmentFacts DEF Available
    <3>5. ~ (c <= a)
      BY <3>1, <3>3 DEF Fits
    <3>6. c > a
      BY <3>4, <3>5
    <3>7. Count(Chat(DOMAIN segments \ Optional)) > Available
      BY <3>2, <3>3, <3>6
    <3>8. QED
      BY <2>5, <3>7 DEF FitsWithRequired
  <2>6. CASE phase \notin {"prepared", "overflow"}
    BY <2>6 DEF FitsWithRequired
  <2>7. QED
    BY <2>4, <2>5, <2>6
<1>2. QED
  BY <1>1, PrepareInvariant, PTL

\* Nothing optional stays in the context while something that outranks it is
\* dropped, a duplicate gives way to the better of its text, and no text is in
\* the context twice.
THEOREM PriorityCorrect == PrepareSpec => []PriorityIsKept
<1>1. PrepareInv => PriorityIsKept
  <2>1. SUFFICES ASSUME PrepareInv, phase = "prepared"
                 PROVE  PriorityIsKept
    BY DEF PriorityIsKept
  <2>2. segments \in Inputs /\ Fitting(kept, excluded)
    BY <2>1 DEF PrepareInv
  <2>3. \A i \in Optional : i \in Nat /\ segments[i].priority \in Int
    BY <2>2, SegmentFacts
  <2>4. ASSUME NEW n \in DOMAIN excluded, NEW j \in kept \cap Optional,
               excluded[n].reason = "over_budget"
        PROVE  /\ segments[excluded[n].of].priority <= segments[j].priority
               /\ segments[excluded[n].of].priority = segments[j].priority => j < excluded[n].of
    <3>1. PICK i : i = excluded[n].of
      OBVIOUS
    <3>2. i \in Optional /\ GoesFirst(i, j)
      BY <2>2, <2>4, <3>1 DEF Fitting
    <3>3. PICK p, q : p = segments[i].priority /\ q = segments[j].priority
      OBVIOUS
    <3>4. p \in Int /\ q \in Int /\ i \in Nat /\ j \in Nat
      BY <2>3, <3>2, <3>3
    <3>5. p < q \/ (p = q /\ i > j)
      BY <3>2, <3>3 DEF GoesFirst
    <3>6. p <= q /\ (p = q => j < i)
      BY <3>4, <3>5
    <3>7. QED
      BY <3>1, <3>3, <3>6
  <2>5. ASSUME NEW n \in DOMAIN excluded, excluded[n].reason = "duplicate",
               NEW i, i = excluded[n].of, NEW w, w = excluded[n].by
        PROVE  /\ w \in Optional \ {i} /\ Same(i, w)
               /\ segments[w].priority >= segments[i].priority
               /\ segments[w].priority = segments[i].priority => w < i
               /\ w \in kept \/ \E m \in DOMAIN excluded :
                    excluded[m].of = w /\ excluded[m].reason = "over_budget"
    <3>1. i \in Optional /\ w = Winner(i) /\ w # i
      BY <2>2, <2>5 DEF Fitting
    <3>2. /\ w \in Optional /\ Same(i, w)
          /\ \A k \in Optional : Same(i, k) =>
               \/ segments[k].priority < segments[w].priority
               \/ segments[k].priority = segments[w].priority /\ k >= w
      BY <2>2, <3>1, WinnerFacts
    <3>3. PICK p, q : p = segments[i].priority /\ q = segments[w].priority
      OBVIOUS
    <3>4. p \in Int /\ q \in Int /\ i \in Nat /\ w \in Nat
      BY <2>3, <3>1, <3>2, <3>3
    <3>5. Same(i, i)
      BY DEF Same
    <3>6. p < q \/ (p = q /\ i >= w)
      BY <3>1, <3>2, <3>3, <3>5
    <3>7. q >= p /\ (q = p => w < i)
      BY <3>1, <3>4, <3>6
    <3>8. Winner(w) = w
      BY <2>2, <3>1, WinnerWins
    <3>9. ASSUME w \notin kept
          PROVE  \E m \in DOMAIN excluded : excluded[m].of = w /\ excluded[m].reason = "over_budget"
      <4>1. PICK m \in DOMAIN excluded : excluded[m].of = w
        BY <2>2, <3>2, <3>9 DEF Fitting
      <4>2. excluded[m].reason # "duplicate"
        BY <2>2, <3>8, <4>1 DEF Fitting
      <4>3. excluded[m].reason = "over_budget"
        BY <2>2, <4>1, <4>2 DEF Fitting
      <4>4. QED
        BY <4>1, <4>3
    <3>10. QED
      BY <3>1, <3>2, <3>3, <3>7, <3>9
  <2>6. ASSUME NEW i \in kept \cap Optional, NEW j \in kept \cap Optional, Same(i, j)
        PROVE  i = j
    <3>1. Winner(i) = i /\ Winner(j) = j
      BY <2>2 DEF Fitting
    <3>2. QED
      BY <2>2, <2>6, <3>1, WinnerOfSame
  <2>7. QED
    BY <2>4, <2>5, <2>6 DEF PriorityIsKept
<1>2. QED
  BY <1>1, PrepareInvariant, PTL

-----------------------------------------------------------------------------
(* A graph and one transition of it *)

\* A circle among the nodes is never peeled, and a graph that leaves the peeling
\* loop has none.
GraphInv ==
  /\ deps \in [Nodes -> SUBSET Nodes]
  /\ remaining \in SUBSET Nodes
  /\ at \in {"peel", "cyclic", "refresh", "compare", "order"}
  /\ \A C \in SUBSET Nodes : Circular(C) => C \subseteq remaining
  /\ at = "cyclic" => Circular(remaining)
  /\ at \in {"refresh", "compare", "order"} => remaining = {}

First == [before EXCEPT ![node] = target]

\* Nothing is left to do for n.
Settled(n) ==
  states[n] = "blocked" =>
    /\ \E m \in deps[n] : states[m] # "succeeded"
    /\ \A m \in deps[n] : states[m] \notin Unsuccessful

\* What the refresh loop has done so far is right, and what it passed without a
\* change since its last start is settled.
Refreshing ==
  /\ before \in [Nodes -> NodeStates] /\ node \in Nodes /\ target \in NodeStates
  /\ \A n \in Nodes : Consistent(deps, before, n)
  /\ <<before[node], target>> \in Allowed
  /\ states \in [Nodes -> NodeStates]
  /\ \A n \in Nodes :
       \/ states[n] = First[n]
       \/ First[n] = "blocked" /\ states[n] = "skipped" /\ \E m \in deps[n] : states[m] \in Unsuccessful
       \/ First[n] = "blocked" /\ states[n] = "ready" /\ \A m \in deps[n] : First[m] = "succeeded"

RefreshInv ==
  /\ at \in {"refresh", "compare", "order"} => Refreshing
  /\ at = "refresh" =>
       /\ next \in 1..(Cardinality(Nodes) + 1)
       /\ ~ changed => \A n \in 1..(next - 1) : Settled(n)
  /\ at \in {"compare", "order"} => \A n \in Nodes : Settled(n)

Changed == {n \in Nodes : before[n] # states[n]}

\* What is written is a prefix of a causal order of the changed nodes, closed
\* under the changed dependencies.
Causal(o, P) ==
  /\ Len(o) \in Nat \ {0} /\ o \in [1..Len(o) -> Changed]
  /\ o[1] = node
  /\ P \subseteq Changed
  /\ \A n \in Changed \ P : \E i \in 1..Len(o) : o[i] = n
  /\ \A i \in 1..Len(o) : o[i] \notin P
  /\ \A i, j \in 1..Len(o) : o[i] = o[j] => i = j
  /\ \A i \in 1..Len(o) : deps[o[i]] \cap P = {}
  /\ \A i, j \in 1..Len(o) : o[j] \in deps[o[i]] => j < i
  /\ \A i \in 2..Len(o) : \E j \in 1..(i - 1) : o[j] \in deps[o[i]]

OrderInv ==
  /\ at \in {"peel", "cyclic", "refresh", "compare"} => ordered = <<>>
  /\ at = "order" => Causal(ordered, pending)

TransitionInv == GraphInv /\ RefreshInv /\ OrderInv

LEMMA NoCircle ==
  ASSUME GraphInv, at \in {"refresh", "compare", "order"}
  PROVE  \A C \in SUBSET Nodes : ~ Circular(C)
BY DEF GraphInv, Circular

\* A changed node that waits for no other changed one can always be found.
LEMMA SomeEligible ==
  ASSUME GraphInv, OrderInv, at = "order", pending # {}
  PROVE  Eligible # {}
<1>1. pending \in SUBSET Nodes
  BY DEF OrderInv, Causal, Changed
<1>2. ~ Circular(pending)
  BY <1>1, NoCircle
<1>3. QED
  BY <1>2 DEF Circular, Eligible

LEMMA PeelStep ==
  ASSUME GraphInv, Peel
  PROVE  GraphInv'
<1>1. deps' = deps /\ at = "peel" /\ remaining # {}
  BY DEF Peel
<1>2. \A C : Circular(C)' <=> Circular(C)
  BY <1>1 DEF Circular
<1>3. CASE Peelable = {}
  <2>1. at' = "cyclic" /\ remaining' = remaining
    BY <1>3 DEF Peel
  <2>2. Circular(remaining)
    BY <1>1, <1>3 DEF Peelable, Circular
  <2>3. Circular(remaining)'
    BY <1>1, <2>1, <2>2 DEF Circular
  <2>4. QED
    BY <1>1, <1>2, <2>1, <2>3 DEF GraphInv
<1>4. CASE Peelable # {}
  <2>1. at' = at /\ remaining' = remaining \ Peelable
    BY <1>4 DEF Peel
  <2>2. ASSUME NEW C \in SUBSET Nodes, Circular(C)
        PROVE  C \subseteq remaining'
    <3>1. C \subseteq remaining
      BY <2>2 DEF GraphInv
    <3>2. \A n \in C : n \notin Peelable
      BY <2>2, <3>1 DEF Circular, Peelable
    <3>3. QED
      BY <2>1, <3>1, <3>2
  <2>3. QED
    BY <1>1, <1>2, <2>1, <2>2 DEF GraphInv
<1>5. QED
  BY <1>3, <1>4

LEMMA GraphStep ==
  ASSUME GraphInv, OrderInv, [Next]_transitionVars
  PROVE  GraphInv'
<1>1. CASE Peel
  BY <1>1, PeelStep
<1>2. ASSUME deps' = deps, remaining' = remaining, at' \in {at, "refresh", "compare", "order"},
             at' # at => remaining = {}
      PROVE  GraphInv'
  <2>1. \A C : Circular(C)' <=> Circular(C)
    BY <1>2 DEF Circular
  <2>2. Circular(remaining) => Circular(remaining)'
    BY <1>2 DEF Circular
  <2>3. QED
    BY <1>2, <2>1, <2>2 DEF GraphInv
<1>3. CASE Transition
  BY <1>2, <1>3 DEF Transition
<1>4. CASE RefreshNode \/ RefreshAgain
  BY <1>2, <1>4 DEF RefreshNode, RefreshAgain
<1>5. CASE RefreshDone
  <2>1. remaining = {}
    BY <1>5 DEF RefreshDone, GraphInv
  <2>2. QED
    BY <1>2, <1>5, <2>1 DEF RefreshDone
<1>6. CASE Compare
  <2>1. remaining = {}
    BY <1>6 DEF Compare, GraphInv
  <2>2. QED
    BY <1>2, <1>6, <2>1 DEF Compare
<1>7. CASE Order
  <2>1. Eligible # {}
    BY <1>7, SomeEligible DEF Order
  <2>2. QED
    BY <1>2, <1>7, <2>1 DEF Order
<1>8. CASE UNCHANGED transitionVars
  BY <1>2, <1>8 DEF transitionVars
<1>9. QED
  BY <1>1, <1>3, <1>4, <1>5, <1>6, <1>7, <1>8 DEF Next, LoopStep

-----------------------------------------------------------------------------
(* _refresh_waiting_nodes *)

LEMMA StateKinds ==
  /\ \A s, t : <<s, t>> \in Allowed =>
       /\ s \in {"ready", "running", "awaiting_validation", "uncertain"}
       /\ t \in {"running", "awaiting_validation", "succeeded", "failed", "rejected", "cancelled", "uncertain"}
       /\ s # t
  /\ "blocked" \notin Unsuccessful /\ "succeeded" \notin Unsuccessful /\ "ready" \notin Unsuccessful
  /\ "skipped" \in Unsuccessful
  /\ \A t \in NodeStates \ TerminalStates : t # "succeeded" /\ t \notin Unsuccessful
  /\ {"ready", "skipped", "blocked"} \subseteq NodeStates
BY DEF Allowed, Unsuccessful, TerminalStates, NodeStates

LEMMA FirstFacts ==
  ASSUME Refreshing
  PROVE  /\ First \in [Nodes -> NodeStates] /\ First[node] = target
         /\ \A n \in Nodes \ {node} : First[n] = before[n]
         /\ before[node] \notin {"blocked", "skipped", "succeeded"} /\ before[node] \notin Unsuccessful
         /\ target \notin {"blocked", "skipped"} /\ before[node] # target
<1>1. /\ before \in [Nodes -> NodeStates] /\ node \in Nodes /\ target \in NodeStates
      /\ <<before[node], target>> \in Allowed
  BY DEF Refreshing
<1>2. /\ First \in [Nodes -> NodeStates] /\ First[node] = target
      /\ \A n \in Nodes \ {node} : First[n] = before[n]
  BY <1>1 DEF First
<1>3. PICK s : s = before[node]
  OBVIOUS
<1>4. /\ s \in {"ready", "running", "awaiting_validation", "uncertain"}
      /\ target \in {"running", "awaiting_validation", "succeeded", "failed", "rejected", "cancelled", "uncertain"}
      /\ s # target
  BY <1>1, <1>3, StateKinds
<1>5. s \notin Unsuccessful
  BY <1>4 DEF Unsuccessful, TerminalStates
<1>6. QED
  BY <1>2, <1>3, <1>4, <1>5

LEMMA RefreshedFacts ==
  ASSUME Refreshing, NEW n \in Nodes
  PROVE  /\ First[n] # "blocked" => states[n] = First[n]
         /\ states[n] = "blocked" => First[n] = "blocked"
         /\ states[n] = "succeeded" <=> First[n] = "succeeded"
         /\ states[n] \in Unsuccessful => First[n] \in Unsuccessful \/ (First[n] = "blocked" /\ states[n] = "skipped")
         /\ First[n] \in Unsuccessful => states[n] = First[n]
         /\ First[n] = "blocked" => states[n] \in {"blocked", "ready", "skipped"}
<1>1. \/ states[n] = First[n]
      \/ First[n] = "blocked" /\ states[n] = "skipped"
      \/ First[n] = "blocked" /\ states[n] = "ready"
  BY DEF Refreshing
<1>2. QED
  BY <1>1, StateKinds

LEMMA ArgumentsKept ==
  ASSUME UNCHANGED <<deps, transition>>
  PROVE  /\ First' = First
         /\ UNCHANGED states => /\ Refreshing => Refreshing'
                                /\ \A n : Settled(n)' <=> Settled(n)
<1>1. deps' = deps /\ before' = before /\ node' = node /\ target' = target
  BY DEF transition
<1>2. First' = First
  BY <1>1 DEF First
<1>3. ASSUME states' = states
      PROVE  \A n : Settled(n)' <=> Settled(n)
  BY <1>1, <1>3 DEF Settled
<1>4. ASSUME states' = states, Refreshing
      PROVE  Refreshing'
  <2>1. \A n : Consistent(deps, before, n)' <=> Consistent(deps, before, n)
    BY <1>1
  <2>2. QED
    BY <1>1, <1>2, <1>4, <2>1 DEF Refreshing
<1>5. QED
  BY <1>2, <1>3, <1>4

LEMMA TransitionStep ==
  ASSUME GraphInv, Transition
  PROVE  RefreshInv'
<1>1. PICK s \in {v \in [Nodes -> NodeStates] : \A m \in Nodes : Consistent(deps, v, m)},
           n \in Nodes, t \in NodeStates :
        /\ <<s[n], t>> \in Allowed
        /\ before' = s /\ node' = n /\ target' = t
        /\ states' = [s EXCEPT ![n] = t]
        /\ at' = IF t \in TerminalStates THEN "refresh" ELSE "compare"
  BY DEF Transition
<1>2. s \in [Nodes -> NodeStates] /\ \A m \in Nodes : Consistent(deps, s, m)
  BY <1>1
<1>3. deps' = deps /\ next' = 1 /\ deps \in [Nodes -> SUBSET Nodes]
  BY DEF Transition, GraphInv
<1>4. states' \in [Nodes -> NodeStates] /\ states'[n] = t /\ \A m \in Nodes \ {n} : states'[m] = s[m]
  BY <1>1, <1>2
<1>5. First' = states'
  BY <1>1 DEF First
<1>6. Refreshing'
  <2>1. \A m \in Nodes : Consistent(deps, before, m)'
    BY <1>1, <1>2, <1>3 DEF Consistent
  <2>2. <<before'[node'], target'>> \in Allowed
    BY <1>1
  <2>3. QED
    BY <1>1, <1>2, <1>4, <1>5, <2>1, <2>2 DEF Refreshing
<1>7. ASSUME t \notin TerminalStates, NEW m \in Nodes
      PROVE  Settled(m)'
  <2>1. SUFFICES ASSUME states'[m] = "blocked"
                 PROVE  /\ \E k \in deps[m] : states'[k] # "succeeded"
                        /\ \A k \in deps[m] : states'[k] \notin Unsuccessful
    BY <1>3 DEF Settled
  <2>2. m # n
    BY <1>1, <1>4, <2>1, StateKinds
  <2>3. s[m] = "blocked"
    BY <1>4, <2>1, <2>2
  <2>4. /\ \E k \in deps[m] : s[k] # "succeeded"
        /\ \A k \in deps[m] : s[k] \notin Unsuccessful
    BY <1>2, <2>3 DEF Consistent
  <2>5. t # "succeeded" /\ t \notin Unsuccessful
    BY <1>7, StateKinds
  <2>6. deps[m] \subseteq Nodes
    BY <1>3
  <2>7. QED
    BY <1>4, <2>4, <2>5, <2>6
<1>8. 1 \in 1..(Cardinality(Nodes) + 1) /\ \A i \in 1..(1 - 1) : FALSE
  <2>1. Cardinality(Nodes) \in Nat
    BY NodeNumbers, FS_CardinalityType
  <2>2. QED
    BY <2>1
<1>9. /\ at' = "refresh" => \A i \in 1..(next' - 1) : Settled(i)'
      /\ at' = "refresh" => next' \in 1..(Cardinality(Nodes) + 1)
  BY <1>3, <1>8
<1>10. at' = "compare" => t \notin TerminalStates
  BY <1>1
<1>11. at' \in {"refresh", "compare"}
  BY <1>1
<1>12. QED
  BY <1>6, <1>7, <1>9, <1>10, <1>11 DEF RefreshInv

LEMMA RefreshNodeStep ==
  ASSUME GraphInv, RefreshInv, RefreshNode
  PROVE  RefreshInv'
<1>1. at = "refresh" /\ Refreshing /\ at' = at /\ UNCHANGED <<deps, transition>>
  BY DEF RefreshInv, RefreshNode
<1>2. PICK k, N : k = next /\ N = Cardinality(Nodes)
  OBVIOUS
<1>3. N \in Nat /\ Nodes = 1..N
  BY <1>2, NodeNumbers, FS_CardinalityType
<1>4. k \in 1..N /\ next' = k + 1 /\ k + 1 \in 1..(N + 1)
  <2>1. k \in 1..(N + 1) /\ k <= N /\ next' = k + 1
    BY <1>1, <1>2 DEF RefreshInv, RefreshNode
  <2>2. QED
    BY <1>3, <2>1
<1>5. k \in Nodes /\ deps \in [Nodes -> SUBSET Nodes] /\ states \in [Nodes -> NodeStates]
  BY <1>1, <1>3, <1>4 DEF GraphInv, Refreshing
<1>6. PICK v : v = IF Skips(k) THEN "skipped"
                   ELSE IF Waiting(k) /\ \A m \in deps[k] : states[m] = "succeeded"
                        THEN "ready" ELSE states[k]
  OBVIOUS
<1>7. states' = [states EXCEPT ![k] = v] /\ changed' = (changed \/ states' # states)
  BY <1>2, <1>6 DEF RefreshNode
<1>8. states'[k] = v /\ \A m \in Nodes \ {k} : states'[m] = states[m]
  BY <1>5, <1>7
<1>9. First' = First
  BY <1>1, ArgumentsKept
<1>10. deps' = deps
  BY <1>1
<1>11. v = states[k] \/ states[k] = "blocked"
  BY <1>6 DEF Skips, Waiting
<1>12. \A m \in Nodes : states[m] \in Unsuccessful => states'[m] = states[m]
  BY <1>8, <1>11, StateKinds
<1>13. v \in NodeStates
  BY <1>5, <1>6, StateKinds
<1>14. states' \in [Nodes -> NodeStates]
  BY <1>5, <1>7, <1>13
<1>15. ASSUME NEW n \in Nodes
       PROVE  \/ states'[n] = First[n]
              \/ First[n] = "blocked" /\ states'[n] = "skipped" /\ \E m \in deps[n] : states'[m] \in Unsuccessful
              \/ First[n] = "blocked" /\ states'[n] = "ready" /\ \A m \in deps[n] : First[m] = "succeeded"
  <2>1. deps[n] \subseteq Nodes
    BY <1>5
  <2>2. CASE states'[n] = states[n]
    <3>1. \/ states[n] = First[n]
          \/ First[n] = "blocked" /\ states[n] = "skipped" /\ \E m \in deps[n] : states[m] \in Unsuccessful
          \/ First[n] = "blocked" /\ states[n] = "ready" /\ \A m \in deps[n] : First[m] = "succeeded"
      BY <1>1 DEF Refreshing
    <3>2. QED
      BY <1>12, <2>1, <2>2, <3>1
  <2>3. CASE states'[n] # states[n]
    <3>1. n = k /\ states[k] = "blocked"
      BY <1>8, <1>11, <2>3
    <3>2. First[k] = "blocked"
      BY <1>1, <1>5, <3>1, RefreshedFacts
    <3>3. CASE Skips(k)
      <4>1. v = "skipped" /\ \E m \in deps[k] : states[m] \in Unsuccessful
        BY <1>6, <3>3 DEF Skips
      <4>2. \E m \in deps[k] : states'[m] \in Unsuccessful
        BY <1>12, <2>1, <3>1, <4>1
      <4>3. QED
        BY <1>8, <3>1, <3>2, <4>1, <4>2
    <3>4. CASE ~ Skips(k)
      <4>1. v = "ready" /\ \A m \in deps[k] : states[m] = "succeeded"
        BY <1>6, <1>8, <2>3, <3>1, <3>4
      <4>2. \A m \in deps[k] : First[m] = "succeeded"
        BY <1>1, <2>1, <3>1, <4>1, RefreshedFacts
      <4>3. QED
        BY <1>8, <3>1, <3>2, <4>1, <4>2
    <3>5. QED
      BY <3>3, <3>4
  <2>4. QED
    BY <2>2, <2>3
<1>16. Refreshing'
  <2>1. /\ before' = before /\ node' = node /\ target' = target
    BY <1>1 DEF transition
  <2>2. \A n \in Nodes : Consistent(deps, before, n)'
    BY <1>1, <1>10, <2>1 DEF Refreshing, Consistent
  <2>3. QED
    BY <1>1, <1>9, <1>10, <1>14, <1>15, <2>1, <2>2 DEF Refreshing
<1>17. ASSUME ~ changed', NEW n \in 1..k
       PROVE  Settled(n)'
  <2>1. ~ changed /\ states' = states
    BY <1>7, <1>17
  <2>2. Settled(n)' <=> Settled(n)
    BY <1>1, <2>1, ArgumentsKept
  <2>3. CASE n = k
    <3>1. v = states[k]
      BY <1>8, <2>1
    <3>2. states[k] = "blocked" => ~ Skips(k) /\ ~ \A m \in deps[k] : states[m] = "succeeded"
      BY <1>6, <3>1 DEF Waiting
    <3>3. QED
      BY <2>2, <2>3, <3>2 DEF Settled, Skips, Waiting
  <2>4. CASE n # k
    <3>1. n \in 1..(k - 1)
      BY <1>3, <1>4, <2>4
    <3>2. QED
      BY <1>1, <1>2, <2>1, <2>2, <3>1 DEF RefreshInv
  <2>5. QED
    BY <2>3, <2>4
<1>18. next' - 1 = k
  BY <1>3, <1>4
<1>19. QED
  BY <1>1, <1>2, <1>4, <1>16, <1>17, <1>18 DEF RefreshInv

LEMMA RefreshStep ==
  ASSUME TransitionInv, [Next]_transitionVars
  PROVE  RefreshInv'
<1>1. GraphInv /\ RefreshInv /\ OrderInv
  BY DEF TransitionInv
<1>2. PICK N : N = Cardinality(Nodes)
  OBVIOUS
<1>3. N \in Nat /\ Nodes = 1..N
  BY <1>2, NodeNumbers, FS_CardinalityType
<1>4. CASE Transition
  BY <1>1, <1>4, TransitionStep
<1>5. CASE RefreshNode
  BY <1>1, <1>5, RefreshNodeStep
<1>6. CASE Peel
  <2>1. at' \in {"peel", "cyclic"}
    BY <1>6 DEF Peel
  <2>2. QED
    BY <2>1 DEF RefreshInv
<1>7. ASSUME UNCHANGED <<deps, transition, states>>
      PROVE  /\ Refreshing => Refreshing'
             /\ \A n : Settled(n)' <=> Settled(n)
  BY <1>7, ArgumentsKept
<1>8. CASE RefreshAgain
  <2>1. at = "refresh" /\ at' = "refresh" /\ next' = 1 /\ UNCHANGED <<deps, transition, states>>
    BY <1>8 DEF RefreshAgain
  <2>2. 1 \in 1..(N + 1) /\ \A i \in 1..(1 - 1) : FALSE
    BY <1>3
  <2>3. \A i \in 1..(next' - 1) : Settled(i)'
    BY <2>1, <2>2
  <2>4. next' \in 1..(Cardinality(Nodes) + 1)
    BY <1>2, <2>1, <2>2
  <2>5. QED
    BY <1>1, <1>7, <2>1, <2>3, <2>4 DEF RefreshInv
<1>9. CASE RefreshDone
  <2>1. /\ at = "refresh" /\ at' = "compare" /\ ~ changed /\ next > N
        /\ UNCHANGED <<deps, transition, states>>
    BY <1>2, <1>9 DEF RefreshDone, RefreshEnds
  <2>2. next \in 1..(N + 1)
    BY <1>1, <1>2, <2>1 DEF RefreshInv
  <2>3. 1..(next - 1) = Nodes
    <3>1. next = N + 1
      BY <1>3, <2>1, <2>2
    <3>2. next - 1 = N
      BY <1>3, <3>1
    <3>3. QED
      BY <1>3, <3>2
  <2>4. \A n \in Nodes : Settled(n)
    BY <1>1, <2>1, <2>3 DEF RefreshInv
  <2>5. Refreshing
    BY <1>1, <2>1 DEF RefreshInv
  <2>6. QED
    BY <1>7, <2>1, <2>4, <2>5 DEF RefreshInv
<1>10. CASE Compare
  <2>1. at = "compare" /\ at' = "order" /\ UNCHANGED <<deps, transition, states>>
    BY <1>10 DEF Compare
  <2>2. QED
    BY <1>1, <1>7, <2>1 DEF RefreshInv
<1>11. CASE Order
  <2>1. at = "order" /\ at' \in {"order", "stuck"} /\ UNCHANGED <<deps, transition, states>>
    BY <1>11 DEF Order
  <2>2. QED
    BY <1>1, <1>7, <2>1 DEF RefreshInv
<1>12. CASE UNCHANGED transitionVars
  <2>1. at' = at /\ next' = next /\ changed' = changed /\ UNCHANGED <<deps, transition, states>>
    BY <1>12 DEF transitionVars, transition
  <2>2. QED
    BY <1>1, <1>7, <2>1 DEF RefreshInv
<1>13. QED
  BY <1>4, <1>5, <1>6, <1>8, <1>9, <1>10, <1>11, <1>12 DEF Next, LoopStep

-----------------------------------------------------------------------------
(* The order of the events *)

\* What the transition's own node waits for does not change, and a node that
\* changed with it has a dependency that changed.
LEMMA Causes ==
  ASSUME GraphInv, Refreshing
  PROVE  /\ node \in Changed
         /\ deps[node] \cap Changed = {}
         /\ \A n \in Changed \ {node} : deps[n] \cap Changed # {}
<1>1. /\ before \in [Nodes -> NodeStates] /\ node \in Nodes /\ deps \in [Nodes -> SUBSET Nodes]
      /\ \A n \in Nodes : Consistent(deps, before, n)
  BY DEF GraphInv, Refreshing
<1>2. /\ First[node] = target /\ \A n \in Nodes \ {node} : First[n] = before[n]
      /\ before[node] \notin {"blocked", "skipped", "succeeded"} /\ before[node] \notin Unsuccessful
      /\ target \notin {"blocked", "skipped"} /\ before[node] # target
  BY FirstFacts
<1>3. node \in Changed
  <2>1. states[node] = target
    BY <1>1, <1>2, RefreshedFacts
  <2>2. QED
    BY <1>1, <1>2, <2>1 DEF Changed
<1>4. ASSUME NEW m \in deps[node], m \in Changed
      PROVE  FALSE
  <2>1. m \in Nodes /\ before[m] = "succeeded"
    BY <1>1, <1>2 DEF Consistent
  <2>2. m # node
    BY <1>2, <2>1
  <2>3. First[m] = "succeeded"
    BY <1>2, <2>1, <2>2
  <2>4. states[m] = "succeeded"
    BY <2>1, <2>3, RefreshedFacts
  <2>5. QED
    BY <1>4, <2>1, <2>4 DEF Changed
<1>5. ASSUME NEW n \in Changed, n # node
      PROVE  deps[n] \cap Changed # {}
  <2>1. n \in Nodes /\ First[n] = before[n] /\ before[n] # states[n] /\ deps[n] \subseteq Nodes
    BY <1>1, <1>2, <1>5 DEF Changed
  <2>2. /\ before[n] = "blocked"
        /\ \/ states[n] = "skipped" /\ \E m \in deps[n] : states[m] \in Unsuccessful
           \/ states[n] = "ready" /\ \A m \in deps[n] : First[m] = "succeeded"
    BY <2>1 DEF Refreshing
  <2>3. /\ \E m \in deps[n] : before[m] # "succeeded"
        /\ \A m \in deps[n] : before[m] \notin Unsuccessful
    BY <1>1, <2>1, <2>2 DEF Consistent
  <2>4. CASE \E m \in deps[n] : states[m] \in Unsuccessful
    BY <2>1, <2>3, <2>4 DEF Changed
  <2>5. CASE \A m \in deps[n] : First[m] = "succeeded"
    <3>1. PICK m \in deps[n] : before[m] # "succeeded"
      BY <2>3
    <3>2. states[m] = "succeeded"
      BY <2>1, <2>5, RefreshedFacts
    <3>3. m \in Changed
      BY <2>1, <3>1, <3>2 DEF Changed
    <3>4. QED
      BY <3>3
  <2>6. QED
    BY <2>2, <2>4, <2>5
<1>6. QED
  BY <1>3, <1>4, <1>5

LEMMA CausalKept ==
  ASSUME UNCHANGED <<deps, transition, states>>
  PROVE  /\ Changed' = Changed
         /\ Causal(ordered', pending') => Causal(ordered, pending)'
<1>1. deps' = deps /\ before' = before /\ node' = node /\ states' = states
  BY DEF transition
<1>2. Changed' = Changed
  BY <1>1 DEF Changed
<1>3. QED
  BY <1>1, <1>2 DEF Causal

LEMMA CompareStep ==
  ASSUME TransitionInv, Compare
  PROVE  OrderInv'
<1>1. at = "compare" /\ at' = "order" /\ UNCHANGED <<deps, transition, states>>
  BY DEF Compare
<1>2. GraphInv /\ Refreshing
  BY <1>1 DEF TransitionInv, RefreshInv
<1>3. PICK o, P : o = <<node>> /\ P = Changed \ {node}
  OBVIOUS
<1>4. ordered' = o /\ pending' = P
  BY <1>3 DEF Compare, Changed
<1>5. Len(o) = 1 /\ DOMAIN o = 1..1 /\ o[1] = node
  BY <1>3
<1>6. \A i : i \in 1..1 <=> i = 1
  OBVIOUS
<1>7. node \in Changed /\ deps[node] \cap Changed = {}
  BY <1>2, Causes
<1>8. o \in [1..1 -> Changed]
  BY <1>3, <1>7
<1>9. \A i : i \notin 2..1
  OBVIOUS
<1>10. Causal(o, P)
  BY <1>3, <1>5, <1>6, <1>7, <1>8, <1>9 DEF Causal
<1>11. Causal(ordered, pending)'
  BY <1>1, <1>4, <1>10, CausalKept
<1>12. QED
  BY <1>1, <1>11 DEF OrderInv

LEMMA OrderStep ==
  ASSUME TransitionInv, Order
  PROVE  OrderInv'
<1>1. at = "order" /\ pending # {} /\ UNCHANGED <<deps, transition, states>>
  BY DEF Order
<1>2. GraphInv /\ Refreshing /\ OrderInv /\ Causal(ordered, pending)
  BY <1>1 DEF TransitionInv, RefreshInv, OrderInv
<1>3. PICK o, a, P, L : o = ordered /\ a = Len(o) /\ P = pending /\ L = Eligible
  OBVIOUS
<1>4. L # {}
  BY <1>1, <1>2, <1>3, SomeEligible
<1>5. /\ a \in Nat \ {0} /\ o \in [1..a -> Changed] /\ o[1] = node /\ P \subseteq Changed
      /\ \A n \in Changed \ P : \E i \in 1..a : o[i] = n
  BY <1>2, <1>3 DEF Causal
<1>6. /\ \A i \in 1..a : o[i] \notin P
      /\ \A i, j \in 1..a : o[i] = o[j] => i = j
      /\ \A i \in 1..a : deps[o[i]] \cap P = {}
  BY <1>2, <1>3 DEF Causal
<1>7. /\ \A i, j \in 1..a : o[j] \in deps[o[i]] => j < i
      /\ \A i \in 2..a : \E j \in 1..(i - 1) : o[j] \in deps[o[i]]
  BY <1>2, <1>3 DEF Causal
<1>8. L \subseteq P /\ \A n \in L : deps[n] \cap P = {}
  BY <1>3 DEF Eligible
<1>9. L \subseteq Nodes /\ L \subseteq Int /\ IsFiniteSet(L)
  <2>1. L \subseteq Nodes
    BY <1>5, <1>8 DEF Changed
  <2>2. Nodes \subseteq Int
    <3>1. Cardinality(Nodes) \in Nat
      BY NodeNumbers, FS_CardinalityType
    <3>2. QED
      BY <3>1, NodeNumbers
  <2>3. IsFiniteSet(L)
    BY <2>1, NodeNumbers, FS_Subset
  <2>4. QED
    BY <2>1, <2>2, <2>3
<1>10. PICK b, l : Listing(L, b, l)
  BY <1>9, SortedFacts
<1>11. /\ b \in Nat /\ l = Sorted(L) /\ l \in [1..b -> L]
       /\ \A i, j \in 1..b : l[i] = l[j] => i = j
       /\ \A x \in L : \E i \in 1..b : l[i] = x
  BY <1>10 DEF Listing
<1>12. PICK q, Q : q = o \o l /\ Q = P \ L
  OBVIOUS
<1>13. ordered' = q /\ pending' = Q /\ at' = "order"
  BY <1>1, <1>3, <1>4, <1>11, <1>12 DEF Order
<1>14. /\ Len(q) = a + b /\ q \in [1..(a + b) -> Changed]
       /\ \A i \in 1..a : q[i] = o[i]
       /\ \A i \in 1..b : q[a + i] = l[i]
  <2>1. l \in [1..b -> Changed] /\ o \in [1..a -> Changed] /\ a \in Nat /\ b \in Nat
    BY <1>5, <1>8, <1>11
  <2>2. o \in Seq(Changed) /\ Len(o) = a
    BY <2>1
  <2>3. l \in Seq(Changed) /\ Len(l) = b
    BY <2>1
  <2>4. q \in Seq(Changed) /\ Len(q) = a + b
    BY <1>12, <2>2, <2>3, ConcatProperties
  <2>5. q \in [1..(a + b) -> Changed]
    <3>1. q \in [1..Len(q) -> Changed]
      BY <2>4, LenProperties
    <3>2. QED
      BY <2>4, <3>1, Zenon
  <2>6. \A i \in 1..a : q[i] = o[i]
    BY <1>12, <2>1, <2>2, <2>3
  <2>7. ASSUME NEW i \in 1..b
        PROVE  q[a + i] = l[i]
    <3>1. \A j \in 1..(a + b) : q[j] = IF j <= a THEN o[j] ELSE l[j - a]
      BY <1>12, <2>2, <2>3, ConcatProperties
    <3>2. a + i \in 1..(a + b) /\ ~ (a + i <= a) /\ (a + i) - a = i
      BY <2>1
    <3>3. q[a + i] = l[(a + i) - a]
      BY <3>1, <3>2
    <3>4. QED
      BY <3>2, <3>3
  <2>8. QED
    BY <2>4, <2>5, <2>6, <2>7
<1>15. ASSUME NEW i \in 1..(a + b)
       PROVE  \/ i \in 1..a /\ q[i] = o[i]
              \/ i \in (a + 1)..(a + b) /\ i - a \in 1..b /\ q[i] = l[i - a] /\ q[i] \in L
  <2>1. CASE i <= a
    <3>1. i \in 1..a
      BY <1>5, <1>11, <2>1
    <3>2. QED
      BY <1>14, <3>1
  <2>2. CASE ~ (i <= a)
    <3>1. i \in (a + 1)..(a + b) /\ i - a \in 1..b /\ a + (i - a) = i
      BY <1>5, <1>11, <2>2
    <3>2. q[i] = l[i - a]
      BY <1>14, <3>1
    <3>3. QED
      BY <1>11, <3>1, <3>2
  <2>3. QED
    BY <2>1, <2>2
<1>16. \A i \in 1..a : i \in 1..(a + b) /\ \A j \in (a + 1)..(a + b) : i < j
  BY <1>5, <1>11
<1>17. \A n \in Changed \ Q : \E i \in 1..(a + b) : q[i] = n
  <2>1. SUFFICES ASSUME NEW n \in Changed \ Q
                 PROVE  \E i \in 1..(a + b) : q[i] = n
    OBVIOUS
  <2>2. CASE n \in L
    <3>1. PICK i \in 1..b : l[i] = n
      BY <1>11, <2>2
    <3>2. a + i \in 1..(a + b) /\ q[a + i] = n
      BY <1>5, <1>11, <1>14, <3>1
    <3>3. QED
      BY <3>2
  <2>3. CASE n \notin L
    <3>1. PICK i \in 1..a : o[i] = n
      BY <1>5, <1>12, <2>1, <2>3
    <3>2. QED
      BY <1>14, <1>16, <3>1
  <2>4. QED
    BY <2>2, <2>3
<1>18. \A i \in 1..(a + b) : q[i] \notin Q /\ deps[q[i]] \cap Q = {}
  <2>1. Q \subseteq P
    BY <1>12
  <2>2. QED
    BY <1>6, <1>8, <1>12, <1>15, <2>1
<1>19. \A i, j \in 1..(a + b) : q[i] = q[j] => i = j
  <2>1. SUFFICES ASSUME NEW i \in 1..(a + b), NEW j \in 1..(a + b), q[i] = q[j]
                 PROVE  i = j
    OBVIOUS
  <2>2. CASE i \in 1..a /\ j \in 1..a
    BY <1>6, <1>14, <2>1, <2>2
  <2>3. CASE i - a \in 1..b /\ q[i] = l[i - a] /\ j - a \in 1..b /\ q[j] = l[j - a]
    <3>1. i - a = j - a
      BY <1>11, <2>1, <2>3
    <3>2. QED
      BY <1>5, <1>11, <3>1
  <2>4. ASSUME q[i] \in L
        PROVE  ~ (j \in 1..a /\ q[j] = o[j])
    BY <1>6, <1>8, <2>1, <2>4
  <2>5. ASSUME q[j] \in L
        PROVE  ~ (i \in 1..a /\ q[i] = o[i])
    BY <1>6, <1>8, <2>1, <2>5
  <2>6. QED
    BY <1>15, <2>2, <2>3, <2>4, <2>5
<1>20. \A i, j \in 1..(a + b) : q[j] \in deps[q[i]] => j < i
  <2>1. SUFFICES ASSUME NEW i \in 1..(a + b), NEW j \in 1..(a + b), q[j] \in deps[q[i]]
                 PROVE  j < i
    OBVIOUS
  <2>2. q[j] \notin L
    BY <1>6, <1>8, <1>15, <2>1
  <2>3. j \in 1..a /\ q[j] = o[j]
    BY <1>15, <2>2
  <2>4. CASE i \in 1..a /\ q[i] = o[i]
    BY <1>7, <2>1, <2>3, <2>4
  <2>5. CASE i \in (a + 1)..(a + b)
    BY <1>16, <2>3, <2>5
  <2>6. QED
    BY <1>15, <2>4, <2>5
<1>21. \A i \in 2..(a + b) : \E j \in 1..(i - 1) : q[j] \in deps[q[i]]
  <2>1. SUFFICES ASSUME NEW i \in 2..(a + b)
                 PROVE  \E j \in 1..(i - 1) : q[j] \in deps[q[i]]
    OBVIOUS
  <2>2. i \in 1..(a + b)
    BY <1>5, <1>11
  <2>3. CASE i \in 1..a
    <3>1. i \in 2..a /\ \A j \in 1..(i - 1) : j \in 1..a
      BY <1>5, <1>11, <2>3
    <3>2. PICK j \in 1..(i - 1) : o[j] \in deps[o[i]]
      BY <1>7, <3>1
    <3>3. q[j] = o[j] /\ q[i] = o[i]
      BY <1>14, <2>3, <3>1
    <3>4. QED
      BY <3>2, <3>3
  <2>4. CASE q[i] \in L /\ i \in (a + 1)..(a + b)
    <3>1. q[i] \in Changed /\ q[i] # node
      <4>1. q[i] \in P
        BY <1>8, <2>4
      <4>2. 1 \in 1..a
        BY <1>5
      <4>3. QED
        BY <1>5, <1>6, <4>1, <4>2
    <3>2. PICK m \in deps[q[i]] : m \in Changed
      BY <1>2, <3>1, Causes
    <3>3. m \notin P
      BY <1>8, <2>4, <3>2
    <3>4. PICK j \in 1..a : o[j] = m
      BY <1>5, <3>2, <3>3
    <3>5. j \in 1..(i - 1)
      BY <1>5, <1>11, <2>4
    <3>6. QED
      BY <1>14, <3>2, <3>4, <3>5
  <2>5. QED
    BY <1>15, <2>2, <2>3, <2>4
<1>22. q[1] = node /\ Len(q) \in Nat \ {0}
  <2>1. 1 \in 1..a /\ a + b \in Nat \ {0}
    BY <1>5, <1>11
  <2>2. QED
    BY <1>5, <1>14, <2>1
<1>23. Causal(q, Q)
  <2>1. Q \subseteq Changed
    BY <1>5, <1>12
  <2>2. Len(q) = a + b /\ q \in [1..(a + b) -> Changed]
    BY <1>14
  <2>3. QED
    BY <1>17, <1>18, <1>19, <1>20, <1>21, <1>22, <2>1, <2>2 DEF Causal
<1>24. Causal(ordered, pending)'
  BY <1>1, <1>13, <1>23, CausalKept
<1>25. QED
  BY <1>13, <1>24 DEF OrderInv

LEMMA OrderingStep ==
  ASSUME TransitionInv, [Next]_transitionVars
  PROVE  OrderInv'
<1>1. CASE Compare
  BY <1>1, CompareStep
<1>2. CASE Order
  BY <1>2, OrderStep
<1>3. CASE UNCHANGED transitionVars
  <2>1. /\ at' = at /\ ordered' = ordered /\ pending' = pending
        /\ UNCHANGED <<deps, transition, states>>
    BY <1>3 DEF transitionVars, transition
  <2>2. QED
    BY <2>1, CausalKept DEF TransitionInv, OrderInv
<1>4. CASE Peel \/ Transition \/ RefreshNode \/ RefreshAgain \/ RefreshDone
  <2>1. /\ at \in {"peel", "refresh"} /\ at' \in {"peel", "cyclic", "refresh", "compare"}
        /\ ordered' = ordered
    BY <1>4 DEF Peel, Transition, RefreshNode, RefreshAgain, RefreshDone
  <2>2. QED
    BY <2>1 DEF TransitionInv, OrderInv
<1>5. QED
  BY <1>1, <1>2, <1>3, <1>4 DEF Next, LoopStep

\* For every graph over any number of nodes and every legal transition of every
\* state the constructor accepts: _require_acyclic peels no circle, what
\* _refresh_waiting_nodes has done is right at every iteration, and what is
\* ordered is a causal order of the changes it covers.
THEOREM TransitionInvariant == Spec => []TransitionInv
<1>1. Init => TransitionInv
  <2>1. SUFFICES ASSUME Init
                 PROVE  TransitionInv
    OBVIOUS
  <2>2. at = "peel" /\ remaining = Nodes /\ ordered = <<>> /\ deps \in [Nodes -> SUBSET Nodes]
    BY <2>1 DEF Init
  <2>3. QED
    BY <2>2 DEF TransitionInv, GraphInv, RefreshInv, OrderInv
<1>2. TransitionInv /\ [Next]_transitionVars => TransitionInv'
  BY GraphStep, RefreshStep, OrderingStep DEF TransitionInv
<1>3. QED
  BY <1>1, <1>2, PTL DEF Spec

\* The closed form has at most one solution on a graph without circles.
LEMMA DoomedOnce ==
  ASSUME GraphInv, at \in {"refresh", "compare", "order"}, NEW f,
         NEW S \in SUBSET Nodes, NEW T \in SUBSET Nodes, Doomed(deps, f, S), Doomed(deps, f, T)
  PROVE  S = T
<1>1. PICK D : D = (S \ T) \cup (T \ S)
  OBVIOUS
<1>2. ASSUME NEW n \in D
      PROVE  deps[n] \cap D # {}
  <2>1. ASSUME NEW A \in SUBSET Nodes, NEW B \in SUBSET Nodes,
               Doomed(deps, f, A), Doomed(deps, f, B), n \in A \ B
        PROVE  \E m \in deps[n] : m \in A \ B
    <3>1. f[n] = "blocked" /\ \E m \in deps[n] : f[m] \in Unsuccessful \/ m \in A
      BY <2>1 DEF Doomed
    <3>2. \A m \in deps[n] : f[m] \notin Unsuccessful /\ m \notin B
      BY <2>1, <3>1 DEF Doomed
    <3>3. QED
      BY <3>1, <3>2
  <2>2. CASE n \in S \ T
    BY <1>1, <2>1, <2>2
  <2>3. CASE n \in T \ S
    BY <1>1, <2>1, <2>3
  <2>4. QED
    BY <1>1, <2>2, <2>3
<1>3. D \in SUBSET Nodes /\ ~ Circular(D)
  BY <1>1, NoCircle
<1>4. D = {}
  BY <1>2, <1>3 DEF Circular
<1>5. QED
  BY <1>1, <1>4

\* What the loop skipped solves the closed form, and gives the states it left.
LEMMA SkippedIsDoomed ==
  ASSUME GraphInv, Refreshing, \A n \in Nodes : Settled(n),
         NEW S, S = {n \in Nodes : First[n] = "blocked" /\ states[n] = "skipped"}
  PROVE  Doomed(deps, First, S) /\ Refreshed(deps, First, S) = states
<1>1. deps \in [Nodes -> SUBSET Nodes] /\ states \in [Nodes -> NodeStates]
  BY DEF GraphInv, Refreshing
<1>2. ASSUME NEW n \in Nodes
      PROVE  n \in S <=> /\ First[n] = "blocked"
                         /\ \E m \in deps[n] : First[m] \in Unsuccessful \/ m \in S
  <2>1. deps[n] \subseteq Nodes
    BY <1>1
  <2>2. ASSUME n \in S
        PROVE  First[n] = "blocked" /\ \E m \in deps[n] : First[m] \in Unsuccessful \/ m \in S
    <3>1. First[n] = "blocked" /\ states[n] = "skipped"
      BY <2>2
    <3>2. PICK m \in deps[n] : states[m] \in Unsuccessful
      BY <3>1 DEF Refreshing
    <3>3. First[m] \in Unsuccessful \/ m \in S
      BY <2>1, <3>2, RefreshedFacts
    <3>4. QED
      BY <3>1, <3>3
  <2>3. ASSUME First[n] = "blocked", NEW m \in deps[n], First[m] \in Unsuccessful \/ m \in S
        PROVE  n \in S
    <3>1. states[m] \in Unsuccessful /\ First[m] # "succeeded"
      BY <2>1, <2>3, RefreshedFacts, StateKinds
    <3>2. states[n] # "blocked"
      BY <3>1 DEF Settled
    <3>3. \/ states[n] = "skipped"
          \/ states[n] = "ready" /\ \A k \in deps[n] : First[k] = "succeeded"
      BY <2>3, <3>2 DEF Refreshing
    <3>4. QED
      BY <2>3, <3>1, <3>3
  <2>4. QED
    BY <2>2, <2>3
<1>3. Doomed(deps, First, S)
  BY <1>2 DEF Doomed
<1>4. ASSUME NEW n \in Nodes
      PROVE  states[n] = IF n \in S THEN "skipped"
                         ELSE IF First[n] = "blocked" /\ \A m \in deps[n] : First[m] = "succeeded"
                              THEN "ready" ELSE First[n]
  <2>1. deps[n] \subseteq Nodes
    BY <1>1
  <2>2. CASE First[n] # "blocked"
    BY <2>2, RefreshedFacts
  <2>3. CASE First[n] = "blocked" /\ \A m \in deps[n] : First[m] = "succeeded"
    <3>1. \A m \in deps[n] : states[m] = "succeeded"
      BY <2>1, <2>3, RefreshedFacts
    <3>2. states[n] # "blocked"
      BY <3>1 DEF Settled
    <3>3. states[n] \in {"blocked", "ready", "skipped"}
      BY <2>3, RefreshedFacts
    <3>4. QED
      BY <2>3, <3>2, <3>3
  <2>4. CASE First[n] = "blocked" /\ ~ \A m \in deps[n] : First[m] = "succeeded"
    <3>1. states[n] # "ready"
      BY <2>4 DEF Refreshing
    <3>2. states[n] \in {"blocked", "ready", "skipped"}
      BY <2>4, RefreshedFacts
    <3>3. QED
      BY <2>4, <3>1, <3>2
  <2>5. QED
    BY <2>2, <2>3, <2>4
<1>5. states = Refreshed(deps, First, S)
  BY <1>1, <1>4 DEF Refreshed
<1>6. QED
  BY <1>3, <1>5

\* The refreshed states are what GraphState's constructor accepts.
LEMMA SettledIsConsistent ==
  ASSUME GraphInv, Refreshing, \A n \in Nodes : Settled(n), NEW n \in Nodes
  PROVE  Consistent(deps, states, n)
<1>1. /\ deps \in [Nodes -> SUBSET Nodes] /\ deps[n] \subseteq Nodes /\ node \in Nodes
      /\ Consistent(deps, before, n)
  BY DEF GraphInv, Refreshing
<1>2. /\ First[node] = target /\ \A m \in Nodes \ {node} : First[m] = before[m]
      /\ before[node] \notin {"blocked", "skipped", "succeeded"} /\ before[node] \notin Unsuccessful
      /\ target \notin {"blocked", "skipped"}
  BY FirstFacts
<1>3. ASSUME states[n] = "skipped"
      PROVE  \E m \in deps[n] : states[m] \in Unsuccessful
  <2>1. CASE First[n] = "blocked"
    BY <1>3, <2>1 DEF Refreshing
  <2>2. CASE First[n] # "blocked"
    <3>1. n # node /\ before[n] = "skipped"
      BY <1>1, <1>2, <1>3, <2>2, RefreshedFacts
    <3>2. PICK m \in deps[n] : before[m] \in Unsuccessful
      BY <1>1, <3>1 DEF Consistent
    <3>3. m # node /\ First[m] = before[m]
      BY <1>1, <1>2, <3>2
    <3>4. states[m] = before[m]
      BY <1>1, <3>2, <3>3, RefreshedFacts
    <3>5. QED
      BY <3>2, <3>4
  <2>3. QED
    BY <2>1, <2>2
<1>4. ASSUME states[n] \notin {"blocked", "skipped"}, NEW m \in deps[n]
      PROVE  states[m] = "succeeded"
  <2>1. m \in Nodes
    BY <1>1
  <2>2. CASE First[n] = "blocked"
    <3>1. First[m] = "succeeded"
      BY <1>4, <2>2 DEF Refreshing
    <3>2. QED
      BY <2>1, <3>1, RefreshedFacts
  <2>3. CASE First[n] # "blocked"
    <3>1. states[n] = First[n]
      BY <2>3, RefreshedFacts
    <3>2. before[n] \notin {"blocked", "skipped"}
      BY <1>2, <1>4, <3>1
    <3>3. before[m] = "succeeded"
      BY <1>1, <3>2 DEF Consistent
    <3>4. First[m] = "succeeded"
      BY <1>2, <2>1, <3>3
    <3>5. QED
      BY <2>1, <3>4, RefreshedFacts
  <2>4. QED
    BY <2>2, <2>3
<1>5. states[n] = "blocked" => /\ \E m \in deps[n] : states[m] # "succeeded"
                               /\ \A m \in deps[n] : states[m] \notin Unsuccessful
  BY DEF Settled
<1>6. QED
  BY <1>3, <1>4, <1>5 DEF Consistent

\* On every graph, _require_acyclic raises exactly when there is a circle, and
\* after every legal transition the refresh loop has left the one state vector
\* that the closed forms of WorkflowGraph describe, which the constructor takes.
THEOREM ClosureCorrect == Spec => []RefreshIsClosure
<1>1. TransitionInv => RefreshIsClosure
  <2>1. SUFFICES ASSUME TransitionInv
                 PROVE  RefreshIsClosure
    OBVIOUS
  <2>2. GraphInv /\ RefreshInv
    BY <2>1 DEF TransitionInv
  <2>3. at = "cyclic" => \E C \in SUBSET Nodes : Circular(C)
    BY <2>2 DEF GraphInv
  <2>4. remaining = {} => \A C \in SUBSET Nodes : ~ Circular(C)
    BY <2>2 DEF GraphInv, Circular
  <2>5. ASSUME at \in {"compare", "order", "stuck"}
        PROVE  /\ {Refreshed(deps, First, S) : S \in {S \in SUBSET Nodes : Doomed(deps, First, S)}} = {states}
               /\ \A n \in Nodes : Consistent(deps, states, n)
    <3>1. at \in {"refresh", "compare", "order"} /\ Refreshing /\ \A n \in Nodes : Settled(n)
      BY <2>2, <2>5 DEF GraphInv, RefreshInv
    <3>2. PICK S : S = {n \in Nodes : First[n] = "blocked" /\ states[n] = "skipped"}
      OBVIOUS
    <3>3. Doomed(deps, First, S) /\ Refreshed(deps, First, S) = states
      BY <2>2, <3>1, <3>2, SkippedIsDoomed
    <3>4. S \in SUBSET Nodes
      BY <3>2
    <3>5. \A T \in SUBSET Nodes : Doomed(deps, First, T) => T = S
      BY <2>2, <3>1, <3>3, <3>4, DoomedOnce
    <3>6. {T \in SUBSET Nodes : Doomed(deps, First, T)} = {S}
      BY <3>3, <3>4, <3>5
    <3>7. {Refreshed(deps, First, T) : T \in {T \in SUBSET Nodes : Doomed(deps, First, T)}} = {states}
      BY <3>3, <3>6
    <3>8. \A n \in Nodes : Consistent(deps, states, n)
      BY <2>2, <3>1, SettledIsConsistent
    <3>9. QED
      BY <3>7, <3>8
  <2>6. QED
    BY <2>3, <2>4, <2>5 DEF RefreshIsClosure, First
<1>2. QED
  BY <1>1, TransitionInvariant, PTL

\* On every graph, the events of a transition are each changed node once, every
\* derived change after a change it waits for, and none before one: the layers
\* of _transition_graph_node never run dry.
THEOREM CausalOrderCorrect == Spec => []EventsInCausalOrder
<1>1. TransitionInv => EventsInCausalOrder
  <2>1. SUFFICES ASSUME TransitionInv
                 PROVE  EventsInCausalOrder
    OBVIOUS
  <2>2. at \in {"peel", "cyclic", "refresh", "compare", "order"} /\ OrderInv
    BY <2>1 DEF TransitionInv, GraphInv
  <2>3. CASE at # "order"
    <3>1. ordered = <<>> /\ Len(<<>>) = 0
      BY <2>2, <2>3 DEF OrderInv
    <3>2. \A i : i \notin 2..0
      OBVIOUS
    <3>3. QED
      BY <2>2, <2>3, <3>1, <3>2 DEF EventsInCausalOrder
  <2>4. CASE at = "order"
    <3>1. Causal(ordered, pending)
      BY <2>2, <2>4 DEF OrderInv
    <3>2. PICK o, a : o = ordered /\ a = Len(ordered)
      OBVIOUS
    <3>3. /\ a \in Nat \ {0} /\ o \in [1..a -> Changed]
          /\ \A i, j \in 1..a : o[i] = o[j] => i = j
          /\ \A i, j \in 1..a : o[j] \in deps[o[i]] => j < i
          /\ \A i \in 2..a : \E j \in 1..(i - 1) : o[j] \in deps[o[i]]
      BY <3>1, <3>2 DEF Causal
    <3>4. \A i \in 2..a : i \in 1..a
      BY <3>3
    <3>5. ASSUME pending = {}
          PROVE  Range(o) = Changed /\ a = Cardinality(Range(o))
      <4>1. \A n \in Changed : \E i \in 1..a : o[i] = n
        BY <3>1, <3>2, <3>5 DEF Causal
      <4>2. Range(o) = Changed
        BY <3>3, <4>1 DEF Range
      <4>3. o \in Bijection(1..a, Changed)
        <5>1. o \in Injection(1..a, Changed)
          BY <3>3, Fun_IsInj
        <5>2. o \in Surjection(1..a, Changed)
          BY <3>3, <4>1 DEF Surjection
        <5>3. QED
          BY <5>1, <5>2 DEF Bijection
      <4>4. IsFiniteSet(1..a) /\ Cardinality(1..a) = a
        BY <3>3, FS_Interval
      <4>5. ExistsBijection(1..a, Changed)
        BY <4>3 DEF ExistsBijection
      <4>6. Cardinality(Changed) = a
        BY <4>4, <4>5, FS_Bijection
      <4>7. QED
        BY <4>2, <4>6
    <3>6. QED
      BY <2>4, <3>2, <3>3, <3>4, <3>5 DEF EventsInCausalOrder, Changed
  <2>5. QED
    BY <2>3, <2>4
<1>2. QED
  BY <1>1, TransitionInvariant, PTL
=============================================================================
