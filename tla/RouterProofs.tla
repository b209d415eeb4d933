----------------------------- MODULE RouterProofs -----------------------------
(***************************************************************************)
(* Proofs about Router, for any number of concurrent calls, any registry,  *)
(* tasks and budgets, and any retry policy.                                *)
(***************************************************************************)
EXTENDS Router, FiniteSetTheorems, FunctionTheorems, TLAPS

-----------------------------------------------------------------------------
(* rank_candidates orders any eligible deployments, whatever is observed.  *)

RuntimeState ==
  [liveness : {"unknown", "up", "down"}, admission : {"unknown", "accepting", "rejecting"},
   capacity : {"unknown", "available", "exhausted"}, expires : Nat, history : Seq(BOOLEAN)]

RuntimeType == runtime \in [Deployments -> RuntimeState]

LEMMA RegistryFinite ==
  /\ IsFiniteSet(Deployments)
  /\ \A d \in Deployments : Place(d) \in Nat /\ Registered[Place(d)] = d
<1>1. Registered \in Seq(Deployments) /\ Registered \in [1..Len(Registered) -> Deployments]
      /\ Len(Registered) \in Nat /\ DOMAIN Registered = 1..Len(Registered)
  BY RouterConstants
<1>2. IsFiniteSet(1..Len(Registered))
  BY <1>1, FS_Interval
<1>3. Registered \in Surjection(1..Len(Registered), Deployments)
  BY <1>1, Fun_RangeProperties DEF Deployments
<1>4. IsFiniteSet(Deployments)
  BY <1>2, <1>3, FS_Surjection
<1>5. ASSUME NEW d \in Deployments
      PROVE  Place(d) \in Nat /\ Registered[Place(d)] = d
  <2>1. \E i \in DOMAIN Registered : Registered[i] = d
    BY <1>1, <1>3, Fun_SurjectionProperties
  <2>2. Place(d) \in DOMAIN Registered /\ Registered[Place(d)] = d
    BY <2>1 DEF Place
  <2>3. QED
    BY <1>1, <2>2
<1>6. QED
  BY <1>4, <1>5

LEMMA ReliabilityType ==
  ASSUME NEW h \in Seq(BOOLEAN)
  PROVE  Reliability(h) \in Int
<1>1. CASE h = <<>>
  BY <1>1 DEF Reliability
<1>2. CASE h # <<>>
  <2>1. Len(h) \in Nat /\ Len(h) > 0 /\ DOMAIN h = 1..Len(h)
    BY <1>2
  <2>2. Failed(h) \in Nat
    <3>1. IsFiniteSet(1..Len(h)) /\ {i \in DOMAIN h : h[i]} \in SUBSET (1..Len(h))
      BY <2>1, FS_Interval
    <3>2. IsFiniteSet({i \in DOMAIN h : h[i]})
      BY <3>1, FS_Subset
    <3>3. QED
      BY <3>2, FS_CardinalityType DEF Failed
  <2> DEFINE p == 20 * (Len(h) - Failed(h))
             q == Len(h)
  <2>3. p \in Int /\ q \in Nat /\ q > 0
    BY <2>1, <2>2
  <2> HIDE DEF p, q
  <2>4. p \div q \in Int
    BY <2>3
  <2>5. Rounded(p, q) \in Int
    BY <2>4 DEF Rounded
  <2>6. QED
    BY <1>2, <2>5 DEF Reliability, p, q
<1>3. QED
  BY <1>1, <1>2

LEMMA ScoreType ==
  ASSUME NEW t \in Tasks, NEW rt \in [Deployments -> RuntimeState], NEW d \in Deployments
  PROVE  Score(t, d, rt) \in Int
<1>1. t.static[d] \in Int
  BY RouterConstants
<1>2. rt[d].history \in Seq(BOOLEAN)
  BY DEF RuntimeState
<1>3. Reliability(rt[d].history) \in Int
  BY <1>2, ReliabilityType
<1>4. QED
  BY <1>1, <1>3 DEF Score

\* A strict total order
LEMMA PrecedesOrder ==
  ASSUME NEW t \in Tasks, NEW rt \in [Deployments -> RuntimeState]
  PROVE  /\ \A a \in Deployments : ~ Precedes(t, rt, a, a)
         /\ \A a, b \in Deployments : a # b => Precedes(t, rt, a, b) \/ Precedes(t, rt, b, a)
         /\ \A a, b, c \in Deployments :
              Precedes(t, rt, a, b) /\ Precedes(t, rt, b, c) => Precedes(t, rt, a, c)
<1>1. \A d \in Deployments : /\ Score(t, d, rt) \in Int /\ Place(d) \in Nat
                             /\ Registered[Place(d)] = d
  BY ScoreType, RegistryFinite
<1>2. \A a, b \in Deployments : a # b => Place(a) # Place(b)
  BY <1>1
<1>3. QED
  BY <1>1, <1>2 DEF Precedes

\* rank_candidates returns every eligible deployment once.
LEMMA Ranking ==
  ASSUME NEW t \in Tasks, NEW rt \in [Deployments -> RuntimeState],
         NEW order, order = OrderedDeployments(t, rt)
  PROVE  /\ order \in Seq(Deployments)
         /\ \A i, j \in DOMAIN order : i # j => order[i] # order[j]
<1> DEFINE E == t.eligible
           n == Cardinality(E)
           Before(d) == {e \in E : Precedes(t, rt, e, d)}
           pos == [d \in E |-> Cardinality(Before(d)) + 1]
           Sorted(s) == \A i, j \in 1..n : i < j => Precedes(t, rt, s[i], s[j])
<1>1. E \in SUBSET Deployments /\ IsFiniteSet(E) /\ n \in Nat
  <2>1. E \in SUBSET Deployments
    BY RouterConstants
  <2>2. QED
    BY <2>1, RegistryFinite, FS_Subset, FS_CardinalityType
<1>2. ASSUME NEW d \in E
      PROVE  /\ Before(d) \in SUBSET E /\ IsFiniteSet(Before(d)) /\ d \notin Before(d)
             /\ Cardinality(Before(d)) \in Nat /\ pos[d] = Cardinality(Before(d)) + 1
             /\ pos[d] \in 1..n
  <2>1. Before(d) \in SUBSET E /\ d \notin Before(d)
    BY <1>1, PrecedesOrder
  <2>2. IsFiniteSet(Before(d)) /\ Cardinality(Before(d)) <= n /\ Cardinality(Before(d)) # n
    BY <1>1, <2>1, FS_Subset
  <2>3. Cardinality(Before(d)) \in Nat
    BY <2>2, FS_CardinalityType
  <2>4. QED
    BY <1>1, <2>1, <2>2, <2>3
<1>3. ASSUME NEW d \in E, NEW e \in E, Precedes(t, rt, d, e)
      PROVE  pos[d] < pos[e]
  <2>1. Before(d) \in SUBSET Before(e)
    BY <1>1, <1>3, PrecedesOrder
  <2>2. d \in Before(e) /\ d \notin Before(d)
    BY <1>2, <1>3
  <2>3. Cardinality(Before(d)) <= Cardinality(Before(e)) /\ Cardinality(Before(d)) # Cardinality(Before(e))
    BY <1>2, <2>1, <2>2, FS_Subset
  <2>4. QED
    BY <1>2, <2>3
<1>4. pos \in Bijection(E, 1..n)
  <2>1. pos \in [E -> 1..n]
    BY <1>2
  <2>2. \A d, e \in E : pos[d] = pos[e] => d = e
    <3>1. SUFFICES ASSUME NEW d \in E, NEW e \in E, d # e
                   PROVE  pos[d] # pos[e]
      OBVIOUS
    <3>2. Precedes(t, rt, d, e) \/ Precedes(t, rt, e, d)
      BY <1>1, <3>1, PrecedesOrder
    <3>3. pos[d] \in Nat /\ pos[e] \in Nat
      <4> HIDE DEF pos, n
      <4>1. pos[d] \in 1..n /\ pos[e] \in 1..n
        <5>1. \A f \in E : pos[f] \in 1..n
          BY <1>2
        <5>2. QED
          BY <5>1
      <4>2. QED
        BY <1>1, <4>1
    <3>4. pos[d] < pos[e] \/ pos[e] < pos[d]
      <4> HIDE DEF pos
      <4>1. QED
        BY <1>3, <3>2
    <3>5. QED
      BY <3>3, <3>4
  <2>3. pos \in Injection(E, 1..n)
    BY <2>1, <2>2, Fun_IsInj
  <2>4. IsFiniteSet(1..n) /\ Cardinality(1..n) = n
    BY <1>1, FS_Interval
  <2>5. pos \in Surjection(E, 1..n)
    BY <2>3, <2>4, FS_Injection
  <2>6. QED
    BY <2>3, <2>5, Fun_IsBij
<1> HIDE DEF pos, Before
<1>5. \E s \in [1..n -> E] : Sorted(s)
  <2> DEFINE s == [i \in 1..n |-> CHOOSE d \in E : pos[d] = i]
  <2>1. \A i \in 1..n : \E d \in E : pos[d] = i
    <3>1. pos \in Surjection(E, 1..n)
      BY <1>4, Fun_BijectionProperties
    <3>2. QED
      BY <3>1 DEF Surjection
  <2>2. \A i \in 1..n : s[i] \in E /\ pos[s[i]] = i
    BY <2>1
  <2>3. s \in [1..n -> E]
    BY <2>2
  <2> HIDE DEF s
  <2>4. ASSUME NEW i \in 1..n, NEW j \in 1..n, i < j
        PROVE  Precedes(t, rt, s[i], s[j])
    <3>1. pos[s[i]] = i /\ pos[s[j]] = j /\ s[i] \in E /\ s[j] \in E
      BY <2>2
    <3>2. i \in Nat /\ j \in Nat /\ ~ (j < i) /\ i # j
      BY <1>1, <2>4
    <3>3. s[i] # s[j]
      BY <3>1, <3>2
    <3>4. ~ Precedes(t, rt, s[j], s[i])
      BY <1>3, <3>1, <3>2
    <3>5. QED
      BY <1>1, <3>1, <3>3, <3>4, PrecedesOrder
  <2>5. QED
    BY <2>3, <2>4
<1>6. order \in [1..n -> E] /\ Sorted(order)
  BY <1>5 DEF OrderedDeployments
<1>7. order \in Seq(Deployments) /\ DOMAIN order = 1..n
  BY <1>1, <1>6
<1>8. ASSUME NEW i \in 1..n, NEW j \in 1..n, i # j
      PROVE  order[i] # order[j]
  <2>1. i < j \/ j < i
    BY <1>1, <1>8
  <2>2. order[i] \in Deployments /\ order[j] \in Deployments
    BY <1>1, <1>6
  <2>3. Precedes(t, rt, order[i], order[j]) \/ Precedes(t, rt, order[j], order[i])
    BY <1>6, <2>1
  <2>4. QED
    BY <2>2, <2>3, PrecedesOrder
<1>9. QED
  BY <1>7, <1>8

-----------------------------------------------------------------------------
\* A set of naturals has a least element.
LEMMA NatMinimum ==
  ASSUME NEW S \in SUBSET Nat, S # {}
  PROVE  \E i \in S : \A j \in S : i <= j
<1>1. PICK n \in S : TRUE
  OBVIOUS
<1>2. IsWellFoundedOn(OpToRel(<, Nat), Nat)
  BY NatLessThanWellFounded
<1>3. PICK i \in S : \A j \in S : ~ (<<j, i>> \in OpToRel(<, Nat))
  BY <1>1, <1>2, WFMin
<1>4. ASSUME NEW j \in S, j < i
      PROVE  <<j, i>> \in OpToRel(<, Nat)
  <2>1. <<j, i>> \in Nat \X Nat /\ <<j, i>>[1] < <<j, i>>[2]
    BY <1>3, <1>4
  <2>2. QED
    BY <2>1, Zenon DEF OpToRel
<1>5. \A j \in S : ~ (j < i)
  BY <1>3, <1>4, Zenon
<1>6. i \in Nat /\ \A j \in S : j \in Nat
  BY <1>1
<1>7. QED
  BY <1>5, <1>6

(* One call, between and during its attempts. *)

Attempts == [deployment : Deployments, retry : {"same_deployment", "other_deployment", "never"}]

BudgetState == [left : Int, attempts : Int, tokens : Nat]

LiveCall ==
  [at : {"ranked", "executing", "sleeping"}, order : Seq(Deployments), index : Nat \ {0},
   tries : Seq(Attempts), left : Int, wait : Int,
   budget : BudgetState \cup {None}, bound : BudgetState \cup {None}]

Ended == [at : {"ended"}, result : {"failed", "answered"}]

\* The attempts are at places of the order that only grow, and that grow after
\* every failure that asks for another deployment.
Follows(k) ==
  /\ \A i, j \in DOMAIN k.order : i # j => k.order[i] # k.order[j]
  /\ \A a \in DOMAIN k.tries :
       /\ k.tries[a].retry # "never"
       /\ \E i \in DOMAIN k.order :
            /\ k.order[i] = k.tries[a].deployment
            /\ i <= k.index
            /\ k.tries[a].retry # "same_deployment" => i < k.index
  /\ \A a \in 1..(Len(k.tries) - 1) : \A i, j \in DOMAIN k.order :
       k.order[i] = k.tries[a].deployment /\ k.order[j] = k.tries[a + 1].deployment =>
         /\ i <= j
         /\ k.tries[a].retry # "same_deployment" => i < j

\* m attempts were reserved.
Reserved(k, m) ==
  /\ k \in LiveCall
  /\ m <= MaxAttempts
  /\ k.bound = None <=> k.budget = None
  /\ k.bound # None => m = k.bound.attempts - k.budget.attempts /\ k.budget.attempts >= 0
  /\ k.left >= 0
  /\ Follows(k)

\* A timeout of an attempt fits the deadline of the task and of the budget, a
\* delay only that of the task.
Executing(k) ==
  /\ Reserved(k, Len(k.tries) + 1)
  /\ k.at = "executing"
  /\ k.index <= Len(k.order)
  /\ 0 <= k.wait /\ k.wait <= k.left
  /\ k.budget # None => k.wait <= k.budget.left

Sleeping(k) ==
  /\ Reserved(k, Len(k.tries))
  /\ k.at = "sleeping"
  /\ 0 <= k.wait /\ k.wait <= k.left

CallOK(k) == k = Unused \/ k \in Ended \/ Executing(k) \/ Sleeping(k)

\* Every attempt starts on a routable deployment, reserved and with a timeout.
LEMMA ProceedStep ==
  ASSUME NEW k, Reserved(k, Len(k.tries)), NEW rt, NEW r, r = Proceed(k, rt)
  PROVE  \/ r = Over("failed")
         \/ Executing(r) /\ Routable(rt[r.order[r.index]]) /\ r.tries = k.tries
<1> DEFINE open == {i \in k.index..Len(k.order) :
                      k.order[i] \notin CircuitOpen /\ Routable(rt[k.order[i]])}
           next == CHOOSE i \in open : \A j \in open : i <= j
<1>1. /\ k \in LiveCall /\ k.index \in Nat \ {0} /\ k.order \in Seq(Deployments)
      /\ k.tries \in Seq(Attempts) /\ Len(k.tries) \in Nat /\ Len(k.order) \in Nat /\ k.left \in Int
      /\ k.left >= 0 /\ MaxAttempts \in Nat
      /\ k.budget \in BudgetState \cup {None} /\ k.bound \in BudgetState \cup {None}
  BY RouterConstants DEF Reserved, LiveCall
<1>20. r = IF Len(k.tries) >= MaxAttempts \/ open = {} THEN Over("failed")
          ELSE IF ~ Reservable(k.budget) THEN Over("failed")
          ELSE [k EXCEPT !.at = "executing", !.index = next, !.wait = Limit(k), !.budget = Reserve(@)]
  BY DEF Proceed
<1>2. SUFFICES ASSUME ~ (Len(k.tries) >= MaxAttempts), open # {}, Reservable(k.budget)
               PROVE  Executing(r) /\ Routable(rt[r.order[r.index]]) /\ r.tries = k.tries
  <2> HIDE DEF open, next
  <2>1. QED
    BY <1>20
<1>3. r = [k EXCEPT !.at = "executing", !.index = next, !.wait = Limit(k), !.budget = Reserve(@)]
  <2> HIDE DEF open, next
  <2>1. QED
    BY <1>20, <1>2
<1>4. \E i \in open : \A j \in open : i <= j
  <2>1. open \subseteq Nat /\ open # {}
    BY <1>1, <1>2
  <2> HIDE DEF open
  <2>2. QED
    BY <2>1, NatMinimum
<1>5. next \in open
  <2> HIDE DEF open
  <2>1. QED
    BY <1>4
<1>6. /\ next \in Nat \ {0} /\ next >= k.index /\ next <= Len(k.order)
      /\ Routable(rt[k.order[next]])
  <2> HIDE DEF next
  <2>1. QED
    BY <1>1, <1>5
<1> HIDE DEF next, open
<1>7. /\ Limit(k) \in Int /\ 0 <= Limit(k) /\ Limit(k) <= k.left
      /\ k.budget # None => Limit(k) <= k.budget.left
  BY <1>1, <1>2 DEF Limit, Reservable, BudgetState
<1>8. /\ Reserve(k.budget) \in BudgetState \cup {None}
      /\ k.budget = None <=> Reserve(k.budget) = None
      /\ k.budget # None => /\ Reserve(k.budget).left = k.budget.left
                            /\ Reserve(k.budget).attempts = k.budget.attempts - 1
                            /\ k.budget.attempts > 0
  <2>1. CASE k.budget = None
    BY <2>1 DEF Reserve
  <2>2. CASE k.budget # None
    <3>1. k.budget \in BudgetState /\ Reserve(k.budget) = [k.budget EXCEPT !.attempts = @ - 1]
      BY <1>1, <2>2 DEF Reserve
    <3>2. /\ Reserve(k.budget) \in BudgetState /\ Reserve(k.budget).left = k.budget.left
          /\ Reserve(k.budget).attempts = k.budget.attempts - 1
      BY <3>1 DEF BudgetState
    <3>3. Reserve(k.budget) # None
      BY <3>2, RouterConstants DEF BudgetState
    <3>4. k.budget.attempts > 0
      BY <1>2, <2>2 DEF Reservable
    <3>5. QED
      BY <2>2, <3>2, <3>3, <3>4
  <2>3. QED
    BY <2>1, <2>2
<1>9. r = [k EXCEPT !.at = "executing", !.index = next, !.wait = Limit(k), !.budget = Reserve(k.budget)]
  BY <1>1, <1>3
<1>10. /\ r \in LiveCall /\ r.at = "executing" /\ r.index = next /\ r.wait = Limit(k)
       /\ r.budget = Reserve(k.budget)
       /\ r.order = k.order /\ r.tries = k.tries /\ r.left = k.left /\ r.bound = k.bound
  BY <1>1, <1>6, <1>7, <1>8, <1>9 DEF LiveCall
<1>11. Follows(r)
  <2>1. Follows(k) /\ DOMAIN k.order \subseteq Nat
    BY <1>1 DEF Reserved
  <2>2. \A i \in DOMAIN k.order : (i <= k.index => i <= next) /\ (i < k.index => i < next)
    BY <1>1, <1>6, <2>1
  <2>3. QED
    BY <1>10, <2>1, <2>2 DEF Follows
<1>12. Reserved(r, Len(r.tries) + 1)
  <2>1. /\ k.bound = None <=> k.budget = None
        /\ k.bound # None => Len(k.tries) = k.bound.attempts - k.budget.attempts /\ k.budget.attempts >= 0
    BY DEF Reserved
  <2>2. k.bound # None => /\ Len(k.tries) + 1 = k.bound.attempts - (k.budget.attempts - 1)
                          /\ k.budget.attempts - 1 >= 0
    <3>1. SUFFICES ASSUME k.bound # None
                   PROVE  /\ Len(k.tries) + 1 = k.bound.attempts - (k.budget.attempts - 1)
                          /\ k.budget.attempts - 1 >= 0
      OBVIOUS
    <3>2. k.budget \in BudgetState /\ k.bound \in BudgetState /\ k.budget.attempts > 0
      BY <1>1, <1>8, <2>1, <3>1
    <3>3. k.budget.attempts \in Int /\ k.bound.attempts \in Int
      BY <3>2 DEF BudgetState
    <3>4. /\ Len(k.tries) = k.bound.attempts - k.budget.attempts /\ Len(k.tries) \in Nat
          /\ k.budget.attempts > 0
      BY <1>1, <2>1, <3>1, <3>2
    <3>5. QED
      BY <3>3, <3>4
  <2>3. QED
    BY <1>1, <1>2, <1>8, <1>10, <1>11, <2>1, <2>2 DEF Reserved
<1>13. Executing(r)
  BY <1>6, <1>7, <1>8, <1>10, <1>12 DEF Executing
<1>14. QED
  BY <1>6, <1>10, <1>13

\* After a failure: the next attempt, a delay that fits, or the end.
Goes(r, rt) ==
  \/ r \in Ended
  \/ Sleeping(r)
  \/ Executing(r) /\ Routable(rt[r.order[r.index]])

LEMMA BackOffStep ==
  ASSUME NEW k, Reserved(k, Len(k.tries)), k.tries # <<>>, NEW rt
  PROVE  Goes(BackOff(k, rt), rt)
<1> DEFINE step == IF Len(k.tries) < Len(Backoff) THEN Len(k.tries) ELSE Len(Backoff)
<1>1. /\ k \in LiveCall /\ k.tries \in Seq(Attempts) /\ Len(k.tries) \in Nat /\ Len(k.tries) > 0
      /\ k.left \in Int /\ Backoff \in Seq(Nat) /\ Len(Backoff) \in Nat
  BY RouterConstants DEF Reserved, LiveCall
<1>2. Over("failed") \in Ended
  BY DEF Over, Ended
<1>3. Goes(Proceed(k, rt), rt)
  BY <1>2, ProceedStep DEF Goes
<1>4. CASE Backoff = <<>>
  BY <1>3, <1>4 DEF BackOff
<1>5. CASE Backoff # <<>>
  <2>1. step \in 1..Len(Backoff) /\ Backoff[step] \in Nat
    BY <1>1, <1>5
  <2>2. BackOff(k, rt) = IF Backoff[step] >= k.left THEN Over("failed")
                         ELSE IF Backoff[step] = 0 THEN Proceed(k, rt)
                         ELSE [k EXCEPT !.at = "sleeping", !.wait = Backoff[step]]
    BY <1>5 DEF BackOff
  <2> HIDE DEF step
  <2>3. ASSUME ~ (Backoff[step] >= k.left), NEW r,
               r = [k EXCEPT !.at = "sleeping", !.wait = Backoff[step]]
        PROVE  Sleeping(r)
    <3>1. /\ r \in LiveCall /\ r.at = "sleeping" /\ r.wait = Backoff[step]
          /\ r.order = k.order /\ r.tries = k.tries /\ r.left = k.left /\ r.bound = k.bound
          /\ r.budget = k.budget /\ r.index = k.index
      <4>1. PICK w \in Nat : w = Backoff[step]
        BY <2>1
      <4>2. r = [k EXCEPT !.at = "sleeping", !.wait = w]
        BY <2>3, <4>1
      <4>3. r \in LiveCall
        <5>1. k \in LiveCall /\ w \in Int
          BY <1>1, <4>1
        <5>2. QED
          BY <4>2, <5>1 DEF LiveCall
      <4>4. QED
        BY <1>1, <4>1, <4>2, <4>3 DEF LiveCall
    <3>2. Follows(r)
      BY <3>1 DEF Follows, Reserved
    <3>3. Reserved(r, Len(r.tries))
      BY <3>1, <3>2 DEF Reserved
    <3>4. 0 <= Backoff[step] /\ Backoff[step] <= k.left
      BY <1>1, <2>1, <2>3
    <3>5. QED
      BY <3>1, <3>3, <3>4 DEF Sleeping
  <2>4. QED
    BY <1>2, <1>3, <2>2, <2>3 DEF Goes
<1>6. QED
  BY <1>4, <1>5

\* What an attempt that may be retried leaves behind.
LEMMA TriedStep ==
  ASSUME NEW k, Executing(k), NEW outcome \in Failures, Retry(outcome) # "never",
         NEW q, q = IF Retry(outcome) = "same_deployment" THEN Tried(k, outcome)
                    ELSE [Tried(k, outcome) EXCEPT !.index = @ + 1]
  PROVE  Reserved(q, Len(q.tries)) /\ q.tries # <<>>
<1> DEFINE new == [deployment |-> k.order[k.index], retry |-> Retry(outcome)]
           m == Len(k.tries)
<1>1. /\ k \in LiveCall /\ k.tries \in Seq(Attempts) /\ m \in Nat /\ k.index \in Nat \ {0}
      /\ k.order \in Seq(Deployments) /\ Len(k.order) \in Nat /\ DOMAIN k.order = 1..Len(k.order)
      /\ k.index \in DOMAIN k.order /\ DOMAIN k.tries = 1..m
  BY DEF Executing, Reserved, LiveCall
<1>2. new \in Attempts /\ new.deployment = k.order[k.index] /\ new.retry = Retry(outcome)
      /\ Retry(outcome) \in {"same_deployment", "other_deployment"}
  BY <1>1 DEF Attempts, Retry
<1>3. /\ Append(k.tries, new) \in Seq(Attempts) /\ Len(Append(k.tries, new)) = m + 1
      /\ DOMAIN Append(k.tries, new) = 1..(m + 1) /\ Append(k.tries, new)[m + 1] = new
      /\ \A a \in 1..m : Append(k.tries, new)[a] = k.tries[a]
      /\ Append(k.tries, new) # <<>>
  BY <1>1, <1>2
<1>4. Tried(k, outcome) = [k EXCEPT !.tries = Append(k.tries, new)]
  BY <1>1 DEF Tried
<1> HIDE DEF new, m
<1>5. /\ q \in LiveCall /\ q.tries = Append(k.tries, new)
      /\ q.order = k.order /\ q.left = k.left /\ q.bound = k.bound /\ q.budget = k.budget
      /\ q.index = IF Retry(outcome) = "same_deployment" THEN k.index ELSE k.index + 1
  <2>1. PICK t : t = Append(k.tries, new)
    OBVIOUS
  <2>2. PICK u : u = [k EXCEPT !.tries = t]
    OBVIOUS
  <2>3. /\ u \in LiveCall /\ u.tries = t /\ u.order = k.order /\ u.left = k.left
        /\ u.bound = k.bound /\ u.budget = k.budget /\ u.index = k.index
    BY <1>1, <1>3, <2>1, <2>2 DEF LiveCall
  <2>4. q = IF Retry(outcome) = "same_deployment" THEN u ELSE [u EXCEPT !.index = @ + 1]
    BY <1>4, <2>1, <2>2
  <2>5. CASE Retry(outcome) = "same_deployment"
    <3>1. q = u
      BY <2>4, <2>5
    <3>2. QED
      BY <2>1, <2>3, <2>5, <3>1
  <2>6. CASE Retry(outcome) # "same_deployment"
    <3>1. PICK n \in Nat \ {0} : n = k.index + 1
      BY <1>1
    <3>2. q = [u EXCEPT !.index = n]
      BY <2>3, <2>4, <2>6, <3>1
    <3>3. q \in LiveCall /\ q.index = n
      BY <2>3, <3>2 DEF LiveCall
    <3>4. /\ q.tries = u.tries /\ q.order = u.order /\ q.left = u.left
          /\ q.bound = u.bound /\ q.budget = u.budget
      BY <2>3, <3>2 DEF LiveCall
    <3>5. QED
      BY <2>1, <2>3, <2>6, <3>1, <3>3, <3>4
  <2>7. QED
    BY <2>5, <2>6
<1>6. Follows(k)
  BY DEF Executing, Reserved
<1>7. ASSUME NEW a \in 1..(m + 1)
      PROVE  /\ q.tries[a].retry # "never"
             /\ \E i \in DOMAIN q.order :
                  /\ q.order[i] = q.tries[a].deployment
                  /\ i <= q.index
                  /\ q.tries[a].retry # "same_deployment" => i < q.index
  <2>1. CASE a = m + 1
    <3>1. q.tries[a] = new
      BY <1>3, <1>5, <2>1
    <3>2. /\ k.index <= q.index /\ (Retry(outcome) # "same_deployment" => k.index < q.index)
      BY <1>1, <1>5
    <3>3. QED
      BY <1>1, <1>2, <1>5, <3>1, <3>2
  <2>2. CASE a # m + 1
    <3>1. a \in 1..m /\ q.tries[a] = k.tries[a]
      BY <1>1, <1>3, <1>5, <2>2
    <3>2. k.tries[a].retry # "never"
      BY <1>1, <1>6, <3>1 DEF Follows
    <3>3. PICK i \in DOMAIN k.order : /\ k.order[i] = k.tries[a].deployment /\ i <= k.index
                                      /\ k.tries[a].retry # "same_deployment" => i < k.index
      BY <1>1, <1>6, <3>1 DEF Follows
    <3>4. i <= q.index /\ (k.tries[a].retry # "same_deployment" => i < q.index)
      BY <1>1, <1>5, <3>3
    <3>5. QED
      BY <1>5, <3>1, <3>2, <3>3, <3>4
  <2>3. QED
    BY <2>1, <2>2
<1>8. ASSUME NEW a \in 1..m, NEW i \in DOMAIN k.order, NEW j \in DOMAIN k.order,
             k.order[i] = q.tries[a].deployment, k.order[j] = q.tries[a + 1].deployment
      PROVE  i <= j /\ (q.tries[a].retry # "same_deployment" => i < j)
  <2>1. q.tries[a] = k.tries[a] /\ a \in DOMAIN k.tries
    BY <1>1, <1>3, <1>5
  <2>2. CASE a = m
    <3>1. q.tries[a + 1] = new
      BY <1>3, <1>5, <2>2
    <3>2. j = k.index
      BY <1>1, <1>2, <1>6, <1>8, <3>1 DEF Follows
    <3>3. PICK l \in DOMAIN k.order : /\ k.order[l] = k.tries[a].deployment /\ l <= k.index
                                      /\ k.tries[a].retry # "same_deployment" => l < k.index
      BY <1>6, <2>1 DEF Follows
    <3>4. l = i
      BY <1>6, <1>8, <2>1, <3>3 DEF Follows
    <3>5. QED
      BY <2>1, <3>2, <3>3, <3>4
  <2>3. CASE a # m
    <3>1. a \in 1..(m - 1) /\ a + 1 \in 1..m
      BY <1>1, <2>3
    <3>2. q.tries[a + 1] = k.tries[a + 1]
      BY <1>3, <1>5, <3>1
    <3>3. QED
      BY <1>6, <1>8, <2>1, <3>1, <3>2 DEF Follows, m
  <2>4. QED
    BY <2>2, <2>3
<1>9. Follows(q)
  <2>1. /\ DOMAIN q.tries = 1..(m + 1) /\ Len(q.tries) - 1 = m
    BY <1>1, <1>3, <1>5
  <2>2. \A i, j \in DOMAIN q.order : i # j => q.order[i] # q.order[j]
    BY <1>5, <1>6 DEF Follows
  <2>3. \A a \in DOMAIN q.tries :
          /\ q.tries[a].retry # "never"
          /\ \E i \in DOMAIN q.order :
               /\ q.order[i] = q.tries[a].deployment
               /\ i <= q.index
               /\ q.tries[a].retry # "same_deployment" => i < q.index
    BY <1>7, <2>1
  <2>4. \A a \in 1..(Len(q.tries) - 1) : \A i, j \in DOMAIN q.order :
          q.order[i] = q.tries[a].deployment /\ q.order[j] = q.tries[a + 1].deployment =>
            /\ i <= j
            /\ q.tries[a].retry # "same_deployment" => i < j
    <3>1. q.order = k.order /\ 1..(Len(q.tries) - 1) = 1..m
      BY <1>5, <2>1
    <3>2. \A a \in 1..m : \A i, j \in DOMAIN k.order :
            k.order[i] = q.tries[a].deployment /\ k.order[j] = q.tries[a + 1].deployment =>
              i <= j /\ (q.tries[a].retry # "same_deployment" => i < j)
      BY <1>8
    <3>3. SUFFICES ASSUME NEW a \in 1..(Len(q.tries) - 1),
                          NEW i \in DOMAIN q.order, NEW j \in DOMAIN q.order,
                          q.order[i] = q.tries[a].deployment, q.order[j] = q.tries[a + 1].deployment
                   PROVE  i <= j /\ (q.tries[a].retry # "same_deployment" => i < j)
      OBVIOUS
    <3>4. /\ a \in 1..m /\ i \in DOMAIN k.order /\ j \in DOMAIN k.order
          /\ k.order[i] = q.tries[a].deployment /\ k.order[j] = q.tries[a + 1].deployment
      BY <3>1, <3>3, Zenon
    <3>5. QED
      BY <3>2, <3>4, Zenon
  <2>5. QED
    BY <2>2, <2>3, <2>4, Zenon DEF Follows
<1>10. QED
  BY <1>3, <1>5, <1>9 DEF Executing, Reserved, m

\* Time passes for a call whose timer is not due.
LEMMA AgedStep ==
  ASSUME NEW k, CallOK(k), k.at \in {"executing", "sleeping"} => k.wait > 0
  PROVE  CallOK(Aged(k)) /\ Aged(k).at = k.at /\ (k.at = "executing" => Aged(k).tries = k.tries)
<1>1. CASE k = Unused \/ k \in Ended
  BY <1>1 DEF Unused, Ended, Aged, CallOK
<1>2. CASE Executing(k) \/ Sleeping(k)
  <2> DEFINE b == Shortened(k.budget)
  <2>1. /\ k \in LiveCall /\ k.at \in {"executing", "sleeping"} /\ k.wait > 0 /\ k.wait <= k.left
        /\ k.left \in Int /\ k.wait \in Int /\ k.budget \in BudgetState \cup {None} /\ Follows(k)
        /\ k.at = "executing" /\ k.budget # None => k.wait <= k.budget.left
    BY <1>2 DEF Executing, Sleeping, Reserved, LiveCall
  <2>2. Less(k.left) = k.left - 1
    BY <2>1 DEF Less
  <2>3. /\ b \in BudgetState \cup {None} /\ (b = None <=> k.budget = None)
        /\ k.budget # None => /\ b.attempts = k.budget.attempts
                              /\ k.budget.left > 0 => b.left = k.budget.left - 1
    <3>1. CASE k.budget = None
      BY <3>1 DEF Shortened
    <3>2. CASE k.budget # None
      <4>1. k.budget \in BudgetState /\ b = [k.budget EXCEPT !.left = Less(k.budget.left)]
        BY <2>1, <3>2 DEF Shortened
      <4>2. /\ k.budget.left \in Int /\ Less(k.budget.left) \in Int
            /\ (k.budget.left > 0 => Less(k.budget.left) = k.budget.left - 1)
        BY <4>1 DEF BudgetState, Less
      <4>3. b \in BudgetState /\ b.attempts = k.budget.attempts /\ b.left = Less(k.budget.left)
        BY <4>1, <4>2 DEF BudgetState
      <4>4. b # None
        BY <4>3, RouterConstants DEF BudgetState
      <4>5. QED
        BY <3>2, <4>2, <4>3, <4>4
    <3>3. QED
      BY <3>1, <3>2
  <2>4. Aged(k) = [k EXCEPT !.left = k.left - 1, !.wait = k.wait - 1, !.budget = b]
    <3>1. k.at \notin {"unused", "ended"}
      BY <2>1
    <3>2. Aged(k) = [k EXCEPT !.left = Less(k.left), !.wait = k.wait - 1, !.budget = b]
      <4>1. k \in LiveCall
        BY <2>1
      <4>2. Aged(k) = [k EXCEPT !.left = Less(@), !.wait = @ - 1, !.budget = Shortened(@)]
        BY <3>1 DEF Aged
      <4>3. QED
        BY <4>1, <4>2 DEF LiveCall
    <3>3. QED
      BY <2>2, <3>2
  <2> HIDE DEF b
  <2>5. PICK r : r = Aged(k)
    OBVIOUS
  <2>6. /\ r \in LiveCall /\ r.at = k.at /\ r.left = k.left - 1 /\ r.wait = k.wait - 1 /\ r.budget = b
        /\ r.order = k.order /\ r.tries = k.tries /\ r.bound = k.bound /\ r.index = k.index
    <3>1. PICK n \in Int, w \in Int : n = k.left - 1 /\ w = k.wait - 1
      BY <2>1
    <3>2. r = [k EXCEPT !.left = n, !.wait = w, !.budget = b]
      BY <2>4, <2>5, <3>1
    <3>3. r \in LiveCall
      BY <2>1, <2>3, <3>2 DEF LiveCall
    <3>4. r.at = k.at /\ r.left = n /\ r.wait = w /\ r.budget = b
      BY <2>1, <3>2 DEF LiveCall
    <3>5. r.order = k.order /\ r.tries = k.tries /\ r.bound = k.bound /\ r.index = k.index
      BY <2>1, <3>2 DEF LiveCall
    <3>6. QED
      BY <3>1, <3>3, <3>4, <3>5
  <2>7. Follows(r)
    BY <2>1, <2>6 DEF Follows
  <2>8. 0 <= r.wait /\ r.wait <= r.left /\ r.left >= 0
    BY <2>1, <2>6
  <2>9. ASSUME NEW n, Reserved(k, n)
        PROVE  Reserved(r, n)
    BY <2>3, <2>6, <2>7, <2>8, <2>9 DEF Reserved
  <2>10. CASE Executing(k)
    <3>1. r.budget # None => r.wait <= r.budget.left
      <4>1. SUFFICES ASSUME k.budget # None
                     PROVE  k.wait - 1 <= b.left
        BY <2>3, <2>6
      <4>2. k.wait <= k.budget.left /\ k.budget \in BudgetState
        BY <2>1, <2>10, <4>1 DEF Executing
      <4>3. k.budget.left \in Int
        BY <4>2 DEF BudgetState
      <4>4. b.left = k.budget.left - 1
        BY <2>1, <2>3, <4>1, <4>2, <4>3
      <4>5. QED
        BY <2>1, <4>2, <4>3, <4>4
    <3>2. Executing(r)
      BY <2>6, <2>8, <2>9, <2>10, <3>1 DEF Executing
    <3>3. QED
      BY <2>5, <2>6, <3>2 DEF CallOK
  <2>11. CASE Sleeping(k)
    <3>1. Sleeping(r)
      BY <2>6, <2>8, <2>9, <2>11 DEF Sleeping
    <3>2. QED
      BY <2>5, <2>6, <3>1 DEF CallOK
  <2>12. QED
    BY <1>2, <2>10, <2>11
<1>3. QED
  BY <1>1, <1>2 DEF CallOK

-----------------------------------------------------------------------------
(* What attempts and probes learned of a deployment shows in its state. *)

Verdicts == {"good", "full", "down"}

Observed(s, g) ==
  /\ s \in RuntimeState
  /\ g \in Verdicts
  /\ g = "down" => s.liveness # "up"
  /\ g = "full" => s.admission = "rejecting"

ObservedInv ==
  /\ RuntimeType
  /\ known \in [Deployments -> Verdicts]
  /\ \A d \in Deployments : Observed(runtime[d], known[d])
  /\ probe \in [Deployments -> Nat \cup {None}]

CallInv ==
  /\ call \in [Calls -> {Unused} \cup Ended \cup LiveCall]
  /\ \A c \in Calls : CallOK(call[c])

\* Conjoined: every timer, reservation and place in the order of every call,
\* and every runtime state, is as the code's last step left it.
RouterInv == ObservedInv /\ CallInv

\* A call does not start an attempt in this step.
Stays(c) ==
  /\ call'[c].at = call[c].at
  /\ call[c].at = "executing" => call'[c].tries = call[c].tries

CallsStep == \A c \in Calls : Stays(c) \/ Goes(call'[c], runtime')

Outcomes == Failures \cup {"succeeded", "deadline_exceeded", "cancelled"}

LEMMA RoutableIsGood ==
  ASSUME NEW s, NEW g, Observed(s, g), Routable(s)
  PROVE  s.expires > 0 /\ g = "good"
BY DEF Observed, Routable, Fresh, Verdicts

LEMMA RememberType ==
  ASSUME NEW h \in Seq(BOOLEAN), NEW failed \in BOOLEAN
  PROVE  Remember(h, failed) \in Seq(BOOLEAN)
<1>1. PICK all : all = Append(h, failed)
  OBVIOUS
<1>2. all \in Seq(BOOLEAN) /\ Len(all) = Len(h) + 1 /\ all # <<>>
  BY <1>1
<1>3. Tail(all) \in Seq(BOOLEAN)
  BY <1>2
<1>4. QED
  BY <1>1, <1>2, <1>3 DEF Remember

\* record_attempt
LEMMA RecordedObserved ==
  ASSUME NEW s, NEW g, Observed(s, g), NEW outcome \in Outcomes
  PROVE  Observed(Recorded(s, outcome),
                  CASE outcome = "succeeded" /\ g # "down" -> "good"
                    [] outcome = "capacity_exceeded" /\ g # "down" -> "full"
                    [] outcome = "deployment_unavailable" -> "down"
                    [] OTHER -> g)
<1>1. s \in RuntimeState /\ s.history \in Seq(BOOLEAN)
  BY DEF Observed, RuntimeState
<1>2. PICK h : h = Remember(s.history, outcome # "succeeded")
  OBVIOUS
<1>3. h \in Seq(BOOLEAN)
  BY <1>1, <1>2, RememberType
<1>4. PICK seen : seen = [s EXCEPT !.history = h]
  OBVIOUS
<1>5. /\ seen \in RuntimeState /\ seen.liveness = s.liveness /\ seen.admission = s.admission
  BY <1>1, <1>3, <1>4 DEF RuntimeState
<1>6. Recorded(s, outcome) =
        CASE outcome = "succeeded" ->
               [seen EXCEPT !.admission = "accepting", !.capacity = "available"]
          [] outcome = "capacity_exceeded" ->
               [seen EXCEPT !.admission = "rejecting", !.capacity = "exhausted"]
          [] outcome = "deployment_unavailable" ->
               [seen EXCEPT !.liveness = "down", !.admission = "rejecting"]
          [] OTHER -> seen
  <2>1. seen = [s EXCEPT !.history = Remember(@, outcome # "succeeded")]
    BY <1>2, <1>4
  <2>2. QED
    BY <2>1 DEF Recorded
<1>7. CASE outcome = "succeeded"
  <2>1. PICK r : r = [seen EXCEPT !.admission = "accepting", !.capacity = "available"]
    OBVIOUS
  <2>2. r \in RuntimeState /\ r.liveness = seen.liveness
    BY <1>5, <2>1 DEF RuntimeState
  <2>3. Recorded(s, outcome) = r
    BY <1>6, <1>7, <2>1
  <2>4. QED
    BY <1>5, <1>7, <2>2, <2>3 DEF Observed, Verdicts
<1>8. CASE outcome = "capacity_exceeded"
  <2>1. PICK r : r = [seen EXCEPT !.admission = "rejecting", !.capacity = "exhausted"]
    OBVIOUS
  <2>2. r \in RuntimeState /\ r.liveness = seen.liveness /\ r.admission = "rejecting"
    BY <1>5, <2>1 DEF RuntimeState
  <2>3. Recorded(s, outcome) = r
    BY <1>6, <1>8, <2>1
  <2>4. QED
    BY <1>5, <1>8, <2>2, <2>3 DEF Observed, Verdicts
<1>9. CASE outcome = "deployment_unavailable"
  <2>1. PICK r : r = [seen EXCEPT !.liveness = "down", !.admission = "rejecting"]
    OBVIOUS
  <2>2. r \in RuntimeState /\ r.liveness = "down"
    BY <1>5, <2>1 DEF RuntimeState
  <2>3. Recorded(s, outcome) = r
    BY <1>6, <1>9, <2>1
  <2>4. QED
    BY <1>9, <2>2, <2>3 DEF Observed, Verdicts
<1>10. CASE outcome \notin {"succeeded", "capacity_exceeded", "deployment_unavailable"}
  <2>1. Recorded(s, outcome) = seen
    BY <1>6, <1>10
  <2>2. QED
    BY <1>5, <1>10, <2>1 DEF Observed
<1>11. QED
  BY <1>7, <1>8, <1>9, <1>10

\* The record a probe puts
LEMMA ProbedObserved ==
  ASSUME NEW s \in RuntimeState, NEW up \in BOOLEAN, NEW age \in Nat
  PROVE  Observed(Probed(s, up, age), IF up THEN "good" ELSE "down")
<1>0. TTL \in Nat
  BY RouterConstants
<1>1. PICK e \in Nat : e = IF age < TTL THEN TTL - age ELSE 0
  <2>1. CASE age < TTL
    <3>1. TTL - age \in Nat
      BY <1>0, <2>1
    <3>2. QED
      BY <2>1, <3>1
  <2>2. CASE ~ (age < TTL)
    BY <2>2
  <2>3. QED
    BY <2>1, <2>2
<1>2. s.history \in Seq(BOOLEAN)
  BY DEF RuntimeState
<1>3. Probed(s, up, age) =
        [liveness |-> IF up THEN "up" ELSE "down",
         admission |-> IF up THEN "accepting" ELSE "rejecting",
         capacity |-> "unknown", expires |-> e, history |-> s.history]
  BY <1>1 DEF Probed
<1>4. CASE up
  <2>1. Probed(s, up, age) =
          [liveness |-> "up", admission |-> "accepting", capacity |-> "unknown", expires |-> e,
           history |-> s.history]
    BY <1>3, <1>4
  <2>2. Observed(Probed(s, up, age), "good")
    BY <1>2, <2>1 DEF Observed, Verdicts, RuntimeState
  <2>3. QED
    BY <1>4, <2>2
<1>5. CASE ~ up
  <2>1. Probed(s, up, age) =
          [liveness |-> "down", admission |-> "rejecting", capacity |-> "unknown", expires |-> e,
           history |-> s.history]
    BY <1>3, <1>5
  <2>2. Observed(Probed(s, up, age), "down")
    BY <1>2, <2>1 DEF Observed, Verdicts, RuntimeState
  <2>3. QED
    BY <1>5, <2>2
<1>6. QED
  BY <1>4, <1>5

\* A call that executes is in the executing state, and so on.
LEMMA CallStates ==
  ASSUME NEW k, CallOK(k)
  PROVE  /\ k.at = "executing" => Executing(k)
         /\ k.at = "sleeping" => Sleeping(k)
<1>1. k = Unused => k.at = "unused"
  BY DEF Unused
<1>2. k \in Ended => k.at = "ended"
  BY DEF Ended
<1>3. QED
  BY <1>1, <1>2 DEF CallOK, Executing, Sleeping

LEMMA ExecutingTarget ==
  ASSUME NEW k, Executing(k)
  PROVE  k.order[k.index] \in Deployments /\ k.index \in DOMAIN k.order
BY DEF Executing, Reserved, LiveCall

LEMMA GoesOK ==
  ASSUME NEW r, NEW rt, Goes(r, rt)
  PROVE  CallOK(r) /\ r \in {Unused} \cup Ended \cup LiveCall
BY DEF Goes, CallOK, Executing, Sleeping, Reserved

LEMMA OverGoes ==
  ASSUME NEW result \in {"failed", "answered"}, NEW rt
  PROVE  Goes(Over(result), rt)
BY DEF Over, Ended, Goes

\* One call moves on, the others stay.
LEMMA OneCall ==
  ASSUME CallInv, NEW c \in Calls, NEW after, call' = [call EXCEPT ![c] = after],
         Goes(after, runtime')
  PROVE  CallInv' /\ CallsStep
<1>1. /\ call \in [Calls -> {Unused} \cup Ended \cup LiveCall]
      /\ \A x \in Calls : CallOK(call[x])
  BY DEF CallInv
<1>2. CallOK(after) /\ after \in {Unused} \cup Ended \cup LiveCall
  BY GoesOK
<1>3. /\ call' \in [Calls -> {Unused} \cup Ended \cup LiveCall]
      /\ call'[c] = after
      /\ \A x \in Calls : x # c => call'[x] = call[x]
  BY <1>1, <1>2
<1>4. CallInv'
  <2>1. \A x \in Calls : CallOK(call'[x])
    BY <1>1, <1>2, <1>3
  <2>2. QED
    BY <1>3, <2>1 DEF CallInv
<1>5. CallsStep
  <2>1. \A x \in Calls : x # c => Stays(x)
    BY <1>3 DEF Stays
  <2>2. Goes(call'[c], runtime')
    BY <1>3
  <2>3. QED
    BY <2>1, <2>2 DEF CallsStep
<1>6. QED
  BY <1>4, <1>5

\* An attempt that ends is recorded.
LEMMA RecordStep ==
  ASSUME ObservedInv, NEW c \in Calls, Executing(call[c]), NEW outcome \in Outcomes, NEW after,
         Record(c, outcome, after)
  PROVE  /\ ObservedInv'
         /\ call' = [call EXCEPT ![c] = after]
         /\ runtime' = [runtime EXCEPT ![Target(c)] = Recorded(@, outcome)]
<1>1. PICK d \in Deployments : d = Target(c)
  BY ExecutingTarget DEF Target
<1>2. PICK s : s = Recorded(runtime[d], outcome)
  OBVIOUS
<1>3. PICK g : g = CASE outcome = "succeeded" /\ known[d] # "down" -> "good"
                     [] outcome = "capacity_exceeded" /\ known[d] # "down" -> "full"
                     [] outcome = "deployment_unavailable" -> "down"
                     [] OTHER -> known[d]
  OBVIOUS
<1>4. Observed(s, g)
  <2>1. Observed(runtime[d], known[d])
    BY DEF ObservedInv
  <2>2. QED
    BY <1>2, <1>3, <2>1, RecordedObserved
<1>5. /\ runtime' = [runtime EXCEPT ![d] = s] /\ known' = [known EXCEPT ![d] = g] /\ probe' = probe
  BY <1>1, <1>2, <1>3 DEF Record
<1>6. /\ runtime \in [Deployments -> RuntimeState] /\ known \in [Deployments -> Verdicts]
      /\ \A e \in Deployments : Observed(runtime[e], known[e])
      /\ probe \in [Deployments -> Nat \cup {None}]
  BY DEF ObservedInv, RuntimeType
<1>7. s \in RuntimeState /\ g \in Verdicts
  BY <1>4 DEF Observed
<1>8. runtime' \in [Deployments -> RuntimeState] /\ known' \in [Deployments -> Verdicts]
  BY <1>5, <1>6, <1>7
<1>9. \A e \in Deployments : Observed(runtime'[e], known'[e])
  BY <1>4, <1>5, <1>6
<1>10. ObservedInv'
  BY <1>5, <1>6, <1>8, <1>9 DEF ObservedInv, RuntimeType
<1>11. QED
  BY <1>10 DEF Record

\* The three ways a failed attempt goes on
LEMMA FailGoes ==
  ASSUME NEW k, Executing(k), NEW outcome \in Failures, NEW rt
  PROVE  Goes(CASE Retry(outcome) = "never" -> Over("failed")
                [] Retry(outcome) = "same_deployment" -> BackOff(Tried(k, outcome), rt)
                [] OTHER -> BackOff([Tried(k, outcome) EXCEPT !.index = @ + 1], rt), rt)
<1>1. CASE Retry(outcome) = "never"
  BY <1>1, OverGoes
<1>2. CASE Retry(outcome) # "never"
  <2>1. PICK q : q = IF Retry(outcome) = "same_deployment" THEN Tried(k, outcome)
                     ELSE [Tried(k, outcome) EXCEPT !.index = @ + 1]
    OBVIOUS
  <2>2. Reserved(q, Len(q.tries)) /\ q.tries # <<>>
    BY <1>2, <2>1, TriedStep
  <2>3. Goes(BackOff(q, rt), rt)
    BY <2>2, BackOffStep
  <2>4. CASE Retry(outcome) = "same_deployment"
    BY <2>1, <2>3, <2>4
  <2>5. CASE Retry(outcome) # "same_deployment"
    BY <1>2, <2>1, <2>3, <2>5
  <2>6. QED
    BY <2>4, <2>5
<1>3. QED
  BY <1>1, <1>2

-----------------------------------------------------------------------------
(* Every step *)

LEMMA ProceedGoes ==
  ASSUME NEW k, Reserved(k, Len(k.tries)), NEW rt
  PROVE  Goes(Proceed(k, rt), rt)
BY ProceedStep, OverGoes DEF Goes

LEMMA BeginStep ==
  ASSUME RouterInv, NEW c \in Calls, NEW t \in Tasks, NEW b \in Budgets \cup {None}, Begin(c, t, b)
  PROVE  RouterInv' /\ CallsStep
<1>1. PICK order : order = OrderedDeployments(t, runtime)
  OBVIOUS
<1>2. /\ order \in Seq(Deployments)
      /\ \A i, j \in DOMAIN order : i # j => order[i] # order[j]
  BY <1>1, Ranking DEF RouterInv, ObservedInv, RuntimeType
<1>3. PICK k : k = [at |-> "ranked", order |-> order, index |-> 1, tries |-> <<>>,
                    left |-> t.deadline, wait |-> 0, budget |-> b, bound |-> b]
  OBVIOUS
<1>4. /\ k.order = order /\ k.index = 1 /\ k.tries = <<>> /\ k.left = t.deadline
      /\ k.budget = b /\ k.bound = b
  BY <1>3
<1>5. t.deadline \in Nat
  BY RouterConstants
<1>6. b \in BudgetState \cup {None} /\ (b # None => b.attempts - b.attempts = 0 /\ b.attempts >= 0)
  <2>1. CASE b = None
    BY <2>1
  <2>2. CASE b # None
    <3>1. b \in [left : Nat \ {0}, attempts : Nat \ {0}, tokens : Nat \ {0}]
      BY <2>2, RouterConstants
    <3>2. QED
      BY <3>1 DEF BudgetState
  <2>3. QED
    BY <2>1, <2>2
<1>7. k \in LiveCall
  <2>1. <<>> \in Seq(Attempts)
    OBVIOUS
  <2>2. PICK e \in Seq(Attempts) : e = <<>>
    BY <2>1
  <2>3. QED
    BY <1>2, <1>3, <1>5, <1>6, <2>2 DEF LiveCall
<1>8. Follows(k)
  <2>1. Len(k.tries) = 0 /\ DOMAIN k.tries = {} /\ 1..(Len(k.tries) - 1) = {}
    BY <1>4
  <2>2. QED
    BY <1>2, <1>4, <2>1 DEF Follows
<1>9. Reserved(k, Len(k.tries))
  <2>1. Len(k.tries) = 0 /\ MaxAttempts \in Nat
    BY <1>4, RouterConstants
  <2>2. QED
    BY <1>4, <1>5, <1>6, <1>7, <1>8, <2>1 DEF Reserved
<1>10. Goes(Proceed(k, runtime), runtime)
  BY <1>9, ProceedGoes
<1>11. call' = [call EXCEPT ![c] = Proceed(k, runtime)] /\ UNCHANGED <<runtime, probe, known>>
  BY <1>1, <1>3 DEF Begin
<1>12. CallInv' /\ CallsStep
  <2>1. Goes(Proceed(k, runtime), runtime')
    BY <1>10, <1>11
  <2>2. QED
    BY <1>11, <2>1, OneCall DEF RouterInv
<1>13. ObservedInv'
  BY <1>11 DEF RouterInv, ObservedInv, RuntimeType
<1>14. QED
  BY <1>12, <1>13 DEF RouterInv

\* A step that ends or continues an attempt and records it
LEMMA RecordedStep ==
  ASSUME RouterInv, NEW c \in Calls, call[c].at = "executing", NEW outcome \in Outcomes, NEW after,
         Record(c, outcome, after),
         Goes(after, [runtime EXCEPT ![Target(c)] = Recorded(@, outcome)])
  PROVE  RouterInv' /\ CallsStep
<1>1. Executing(call[c])
  BY CallStates DEF RouterInv, CallInv
<1>2. /\ ObservedInv' /\ call' = [call EXCEPT ![c] = after]
      /\ runtime' = [runtime EXCEPT ![Target(c)] = Recorded(@, outcome)]
  BY <1>1, RecordStep DEF RouterInv
<1>3. Goes(after, runtime')
  BY <1>2
<1>4. CallInv' /\ CallsStep
  BY <1>2, <1>3, OneCall DEF RouterInv
<1>5. QED
  BY <1>2, <1>4 DEF RouterInv

\* A step of one call that records nothing
LEMMA SilentStep ==
  ASSUME RouterInv, NEW c \in Calls, NEW after, call' = [call EXCEPT ![c] = after],
         Goes(after, runtime), UNCHANGED <<runtime, probe, known>>
  PROVE  RouterInv' /\ CallsStep
<1>1. Goes(after, runtime')
  OBVIOUS
<1>2. CallInv' /\ CallsStep
  BY <1>1, OneCall DEF RouterInv
<1>3. ObservedInv'
  BY DEF RouterInv, ObservedInv, RuntimeType
<1>4. QED
  BY <1>2, <1>3 DEF RouterInv

LEMMA CallStepStep ==
  ASSUME RouterInv, NEW c \in Calls, CallStep(c)
  PROVE  RouterInv' /\ CallsStep
<1>1. CASE \E t \in Tasks, b \in Budgets \cup {None} : Begin(c, t, b)
  BY <1>1, BeginStep
<1>2. ASSUME NEW k \in Tokens, Answer(c, k)
      PROVE  RouterInv' /\ CallsStep
  <2>1. PICK r \in {"failed", "answered"} :
          r = IF call[c].budget # None /\ k > call[c].budget.tokens THEN "failed" ELSE "answered"
    OBVIOUS
  <2>2. call[c].at = "executing" /\ Record(c, "succeeded", Over(r))
    BY <1>2, <2>1 DEF Answer
  <2>3. "succeeded" \in Outcomes
    BY DEF Outcomes
  <2>4. QED
    BY <2>2, <2>3, OverGoes, RecordedStep
<1>3. ASSUME NEW o \in Failures, Fail(c, o)
      PROVE  RouterInv' /\ CallsStep
  <2>1. PICK rt : rt = [runtime EXCEPT ![Target(c)] = Recorded(@, o)]
    OBVIOUS
  <2>2. PICK after : after =
          CASE Retry(o) = "never" -> Over("failed")
            [] Retry(o) = "same_deployment" -> BackOff(Tried(call[c], o), rt)
            [] OTHER -> BackOff([Tried(call[c], o) EXCEPT !.index = @ + 1], rt)
    OBVIOUS
  <2>3. call[c].at = "executing" /\ Record(c, o, after)
    BY <1>3, <2>1, <2>2 DEF Fail
  <2>4. Executing(call[c])
    BY <2>3, CallStates DEF RouterInv, CallInv
  <2>5. Goes(after, rt)
    BY <2>2, <2>4, FailGoes
  <2>6. o \in Outcomes
    BY DEF Outcomes
  <2>7. QED
    BY <2>1, <2>3, <2>5, <2>6, RecordedStep
<1>4. CASE TimeOut(c)
  <2>1. "deadline_exceeded" \in Outcomes
    BY DEF Outcomes
  <2>2. QED
    BY <1>4, <2>1, OverGoes, RecordedStep DEF TimeOut
<1>5. CASE CancelCall(c)
  <2>1. CASE call[c].at = "executing" /\ Record(c, "cancelled", Over("failed"))
    <3>1. "cancelled" \in Outcomes
      BY DEF Outcomes
    <3>2. QED
      BY <2>1, <3>1, OverGoes, RecordedStep
  <2>2. CASE call' = [call EXCEPT ![c] = Over("failed")] /\ UNCHANGED <<runtime, probe, known>>
    BY <2>2, OverGoes, SilentStep
  <2>3. QED
    BY <1>5, <2>1, <2>2 DEF CancelCall
<1>6. CASE Escape(c)
  BY <1>6, OverGoes, SilentStep DEF Escape
<1>7. CASE Wake(c)
  <2>1. Sleeping(call[c])
    BY <1>7, CallStates DEF Wake, RouterInv, CallInv
  <2>2. Goes(Proceed(call[c], runtime), runtime)
    BY <2>1, ProceedGoes DEF Sleeping
  <2>3. call' = [call EXCEPT ![c] = Proceed(call[c], runtime)] /\ UNCHANGED <<runtime, probe, known>>
    BY <1>7 DEF Wake
  <2>4. QED
    BY <2>2, <2>3, SilentStep
<1>8. QED
  BY <1>1, <1>2, <1>3, <1>4, <1>5, <1>6, <1>7 DEF CallStep

\* Steps that leave the calls alone
LEMMA CallsUnchanged ==
  ASSUME CallInv, UNCHANGED call
  PROVE  CallInv' /\ CallsStep
BY DEF CallInv, CallsStep, Stays

LEMMA EndProbeStep ==
  ASSUME RouterInv, NEW d \in Deployments, NEW up \in BOOLEAN, EndProbe(d, up)
  PROVE  RouterInv' /\ CallsStep
<1>1. CallInv' /\ CallsStep
  BY CallsUnchanged DEF RouterInv, EndProbe
<1>2. /\ runtime \in [Deployments -> RuntimeState] /\ known \in [Deployments -> Verdicts]
      /\ \A e \in Deployments : Observed(runtime[e], known[e])
      /\ probe \in [Deployments -> Nat \cup {None}]
  BY DEF RouterInv, ObservedInv, RuntimeType
<1>3. probe[d] \in Nat
  BY <1>2 DEF EndProbe
<1>4. PICK s, g : s = Probed(runtime[d], up, probe[d]) /\ g = IF up THEN "good" ELSE "down"
  OBVIOUS
<1>5. Observed(s, g)
  BY <1>2, <1>3, <1>4, ProbedObserved
<1>6. s \in RuntimeState /\ g \in Verdicts
  BY <1>5 DEF Observed
<1>7. /\ runtime' = [runtime EXCEPT ![d] = s] /\ known' = [known EXCEPT ![d] = g]
      /\ probe' = [probe EXCEPT ![d] = None]
  BY <1>4 DEF EndProbe
<1>8. /\ runtime' \in [Deployments -> RuntimeState] /\ known' \in [Deployments -> Verdicts]
      /\ probe' \in [Deployments -> Nat \cup {None}]
  BY <1>2, <1>6, <1>7
<1>9. \A e \in Deployments : Observed(runtime'[e], known'[e])
  BY <1>2, <1>5, <1>7
<1>10. QED
  BY <1>1, <1>8, <1>9 DEF RouterInv, ObservedInv, RuntimeType

LEMMA TickStep ==
  ASSUME RouterInv, RouterTick
  PROVE  RouterInv' /\ CallsStep
<1>1. ASSUME NEW c \in Calls
      PROVE  CallOK(call'[c]) /\ Stays(c) /\ call'[c] \in {Unused} \cup Ended \cup LiveCall
  <2>1. CallOK(call[c]) /\ (call[c].at \in {"executing", "sleeping"} => call[c].wait > 0)
    BY DEF RouterInv, CallInv, RouterTick
  <2>2. call'[c] = Aged(call[c])
    BY DEF RouterTick
  <2>3. CallOK(call'[c]) /\ Stays(c)
    BY <2>1, <2>2, AgedStep DEF Stays
  <2>4. QED
    BY <2>3 DEF CallOK, Executing, Sleeping, Reserved
<1>2. CallInv' /\ CallsStep
  <2>1. call' = [c \in Calls |-> Aged(call[c])]
    BY DEF RouterTick
  <2>2. call' \in [Calls -> {Unused} \cup Ended \cup LiveCall]
    BY <1>1, <2>1
  <2>3. QED
    BY <1>1, <2>2 DEF CallInv, CallsStep
<1>3. ASSUME NEW d \in Deployments
      PROVE  Observed(runtime'[d], known'[d])
  <2>1. Observed(runtime[d], known[d]) /\ known'[d] = known[d]
    BY DEF RouterInv, ObservedInv, RouterTick
  <2>2. PICK s : s = runtime[d]
    OBVIOUS
  <2>3. s \in RuntimeState /\ s.expires \in Nat
    BY <2>1, <2>2 DEF Observed, RuntimeState
  <2>4. PICK e \in Nat : e = IF s.expires > 0 THEN s.expires - 1 ELSE 0
    BY <2>3
  <2>5. runtime'[d] = [s EXCEPT !.expires = e]
    BY <2>2, <2>4 DEF RouterTick
  <2>6. /\ runtime'[d] \in RuntimeState /\ runtime'[d].liveness = s.liveness
        /\ runtime'[d].admission = s.admission
    BY <2>3, <2>5 DEF RuntimeState
  <2>7. QED
    BY <2>1, <2>2, <2>6 DEF Observed
<1>4. ObservedInv'
  <2>1. /\ known' \in [Deployments -> Verdicts] /\ probe \in [Deployments -> Nat \cup {None}]
    BY DEF RouterInv, ObservedInv, RouterTick
  <2>2. probe' \in [Deployments -> Nat \cup {None}]
    BY <2>1 DEF RouterTick
  <2>3. \A d \in Deployments : runtime'[d] \in RuntimeState
    BY <1>3 DEF Observed
  <2>4. PICK f : f = [d \in Deployments |->
                       [runtime[d] EXCEPT !.expires = IF @ > 0 THEN @ - 1 ELSE 0]]
    OBVIOUS
  <2>5. runtime' = f /\ runtime' = [d \in Deployments |-> f[d]]
    BY <2>4 DEF RouterTick
  <2>6. runtime' \in [Deployments -> RuntimeState]
    BY <2>3, <2>5
  <2>7. QED
    BY <1>3, <2>1, <2>2, <2>6 DEF ObservedInv, RuntimeType
<1>5. QED
  BY <1>2, <1>4 DEF RouterInv

LEMMA RouterStep ==
  ASSUME RouterInv, [RouterNext]_routerVars
  PROVE  RouterInv' /\ CallsStep
<1>1. CASE \E c \in Calls : CallStep(c)
  BY <1>1, CallStepStep
<1>2. CASE Refresh
  <2>1. CallInv' /\ CallsStep
    BY <1>2, CallsUnchanged DEF RouterInv, Refresh
  <2>2. probe' \in [Deployments -> Nat \cup {None}] /\ UNCHANGED <<runtime, known>>
    BY <1>2 DEF Refresh
  <2>3. ObservedInv'
    BY <2>2 DEF RouterInv, ObservedInv, RuntimeType
  <2>4. QED
    BY <2>1, <2>3 DEF RouterInv
<1>3. CASE \E d \in Deployments, up \in BOOLEAN : EndProbe(d, up)
  BY <1>3, EndProbeStep
<1>4. CASE RouterTick
  BY <1>4, TickStep
<1>5. CASE UNCHANGED routerVars
  <2>1. CallInv' /\ CallsStep
    BY <1>5, CallsUnchanged DEF RouterInv, routerVars
  <2>2. ObservedInv'
    BY <1>5 DEF RouterInv, ObservedInv, RuntimeType, routerVars
  <2>3. QED
    BY <2>1, <2>2 DEF RouterInv
<1>6. QED
  BY <1>1, <1>2, <1>3, <1>4, <1>5 DEF RouterNext

LEMMA RouterInitially ==
  RouterInit => RouterInv
<1>1. SUFFICES ASSUME RouterInit
               PROVE  RouterInv
  OBVIOUS
<1>2. PICK up \in [Deployments -> BOOLEAN], age \in [Deployments -> 0..ProbeTimeout] :
        /\ call = [c \in Calls |-> Unused]
        /\ runtime = [d \in Deployments |-> Probed(Unobserved, up[d], age[d])]
        /\ probe = [d \in Deployments |-> None]
        /\ known = [d \in Deployments |-> IF up[d] THEN "good" ELSE "down"]
  BY <1>1 DEF RouterInit
<1>3. Unobserved \in RuntimeState
  <2>1. <<>> \in Seq(BOOLEAN)
    OBVIOUS
  <2>2. PICK e \in Seq(BOOLEAN) : e = <<>>
    BY <2>1
  <2>3. QED
    BY <2>2 DEF Unobserved, RuntimeState
<1>4. ASSUME NEW d \in Deployments
      PROVE  Observed(runtime[d], known[d])
  <2>1. up[d] \in BOOLEAN /\ age[d] \in Nat
    BY <1>2, RouterConstants
  <2>2. runtime[d] = Probed(Unobserved, up[d], age[d]) /\ known[d] = IF up[d] THEN "good" ELSE "down"
    BY <1>2
  <2>3. QED
    BY <1>3, <2>1, <2>2, ProbedObserved
<1>5. \A d \in Deployments : runtime[d] \in RuntimeState /\ known[d] \in Verdicts
  BY <1>4 DEF Observed
<1>6. runtime \in [Deployments -> RuntimeState]
  BY <1>2, <1>5
<1>7. known \in [Deployments -> Verdicts] /\ probe \in [Deployments -> Nat \cup {None}]
  BY <1>2, <1>5
<1>8. CallInv
  BY <1>2 DEF CallInv, CallOK
<1>9. QED
  BY <1>4, <1>6, <1>7, <1>8 DEF RouterInv, ObservedInv, RuntimeType

-----------------------------------------------------------------------------
\* Whatever the concurrent calls and probes do, the timers, the reservations and
\* the places of all calls, and all runtime states, stay consistent.
THEOREM RouterInvariant == RouterSpec => []RouterInv
<1>1. RouterInv /\ [RouterNext]_routerVars => RouterInv'
  BY RouterStep
<1>2. QED
  BY <1>1, RouterInitially, PTL DEF RouterSpec

LEMMA PathOf ==
  ASSUME NEW c \in Calls, Executing(call[c]) \/ Sleeping(call[c]), NEW n, n = Len(call[c].tries)
  PROVE  /\ n \in Nat
         /\ Len(Path(c)) = IF call[c].at = "executing" THEN n + 1 ELSE n
         /\ \A i \in 1..n : Path(c)[i] = call[c].tries[i].deployment
         /\ call[c].at = "executing" => Path(c)[n + 1] = Target(c)
<1>1. PICK tries : tries = call[c].tries
  OBVIOUS
<1>2. tries \in Seq(Attempts) /\ n = Len(tries) /\ n \in Nat /\ DOMAIN tries = 1..n
  <2>1. call[c] \in LiveCall
    BY DEF Executing, Sleeping, Reserved
  <2>2. tries \in Seq(Attempts) /\ n = Len(tries)
    BY <1>1, <2>1 DEF LiveCall
  <2>3. QED
    BY <2>2
<1>3. PICK past : past = [i \in DOMAIN tries |-> tries[i].deployment]
  OBVIOUS
<1>4. \A i \in 1..n : tries[i].deployment \in Deployments
  <2>1. \A i \in 1..n : tries[i] \in Attempts
    BY <1>2
  <2>2. \A a \in Attempts : a.deployment \in Deployments
    BY DEF Attempts
  <2>3. QED
    BY <2>1, <2>2
<1>5. past \in [1..n -> Deployments] /\ \A i \in 1..n : past[i] = tries[i].deployment
  BY <1>2, <1>3, <1>4
<1>6. past \in Seq(Deployments) /\ Len(past) = n
  BY <1>2, <1>5
<1>7. Path(c) = IF call[c].at = "executing" THEN Append(past, Target(c)) ELSE past
  BY <1>1, <1>3 DEF Path
<1>8. CASE call[c].at = "executing"
  <2>1. Executing(call[c])
    BY <1>8 DEF Sleeping
  <2>2. PICK d \in Deployments : d = Target(c)
    BY <2>1, ExecutingTarget DEF Target
  <2>3. Path(c) = Append(past, d)
    BY <1>7, <1>8, <2>2
  <2>4. /\ Len(Append(past, d)) = n + 1 /\ Append(past, d)[n + 1] = d
        /\ \A i \in 1..n : Append(past, d)[i] = past[i]
    BY <1>2, <1>6
  <2>5. QED
    BY <1>1, <1>2, <1>5, <1>8, <2>2, <2>3, <2>4
<1>9. CASE call[c].at # "executing"
  BY <1>1, <1>2, <1>5, <1>6, <1>7, <1>9
<1>10. QED
  BY <1>8, <1>9

\* A call that runs is in one of two states.
LEMMA RunningStates ==
  ASSUME RouterInv, NEW c \in Calls, Running(c)
  PROVE  \/ Executing(call[c]) /\ call[c].at = "executing"
         \/ Sleeping(call[c]) /\ call[c].at = "sleeping"
BY CallStates DEF RouterInv, CallInv, Running

\* ADR-012: however calls interleave, every attempt of generate_task was reserved
\* in the budget of its call, which is never overdrawn or refilled.
THEOREM BudgetedCorrect == RouterSpec => []EveryAttemptIsBudgeted
<1>1. ASSUME RouterInv
      PROVE  EveryAttemptIsBudgeted
  <2>1. SUFFICES ASSUME NEW c \in Calls, Running(c)
                 PROVE  /\ Len(Path(c)) <= MaxAttempts
                        /\ call[c].bound # None =>
                             /\ Len(Path(c)) = call[c].bound.attempts - call[c].budget.attempts
                             /\ call[c].budget.attempts >= 0
    BY DEF EveryAttemptIsBudgeted
  <2>2. PICK n : n = Len(call[c].tries)
    OBVIOUS
  <2>3. Executing(call[c]) \/ Sleeping(call[c])
    BY <1>1, <2>1, RunningStates
  <2>4. Len(Path(c)) = IF call[c].at = "executing" THEN n + 1 ELSE n
    BY <2>2, <2>3, PathOf
  <2>5. Reserved(call[c], Len(Path(c)))
    BY <1>1, <2>1, <2>2, <2>4, RunningStates DEF Executing, Sleeping
  <2>6. QED
    BY <2>5 DEF Reserved
<1>2. QED
  BY <1>1, RouterInvariant, PTL

\* ADR-004: no call runs after the deadline of its task, and no attempt after
\* that of its budget, whatever the timeouts, delays and retries.
THEOREM DeadlinesMet == RouterSpec => []CallsMeetDeadline
<1>1. ASSUME RouterInv
      PROVE  CallsMeetDeadline
  <2>1. ASSUME NEW c \in Calls, Running(c)
        PROVE  call[c].left >= 0
    BY <1>1, <2>1, RunningStates DEF Executing, Sleeping, Reserved
  <2>2. ASSUME NEW c \in Calls, call[c].at = "executing"
        PROVE  Limit(call[c]) >= 0
    <3>1. Executing(call[c])
      BY <1>1, <2>2, CallStates DEF RouterInv, CallInv
    <3>2. /\ call[c].wait \in Int /\ call[c].left \in Int /\ 0 <= call[c].wait
          /\ call[c].wait <= call[c].left
      BY <3>1 DEF Executing, Reserved, LiveCall
    <3>3. call[c].budget # None => call[c].budget.left \in Int /\ call[c].wait <= call[c].budget.left
      BY <3>1 DEF Executing, Reserved, LiveCall, BudgetState
    <3>4. QED
      BY <3>2, <3>3 DEF Limit
  <2>3. QED
    BY <2>1, <2>2 DEF CallsMeetDeadline
<1>2. QED
  BY <1>1, RouterInvariant, PTL

\* ADR-004: the attempts of a call follow the ranking it started with, whatever
\* becomes of the scores; a deployment is left for good with its first failure
\* that may not be retried there.
THEOREM FailoverCorrect == RouterSpec => []FailoverFollowsRanking
<1>1. ASSUME RouterInv
      PROVE  FailoverFollowsRanking
  <2>1. SUFFICES ASSUME NEW c \in Calls, Running(c), NEW i \in 1..(Len(Path(c)) - 1)
                 PROVE  LET rank(d) == CHOOSE j \in DOMAIN call[c].order : call[c].order[j] = d
                            retry == call[c].tries[i].retry
                        IN /\ retry # "never"
                           /\ IF retry = "same_deployment"
                              THEN rank(Path(c)[i + 1]) >= rank(Path(c)[i])
                              ELSE rank(Path(c)[i + 1]) > rank(Path(c)[i])
    BY DEF FailoverFollowsRanking
  <2> DEFINE rank(d) == CHOOSE j \in DOMAIN call[c].order : call[c].order[j] = d
  <2>2. PICK k, n : k = call[c] /\ n = Len(k.tries)
    OBVIOUS
  <2>3. /\ Executing(k) \/ Sleeping(k)
        /\ k.at = "executing" => Executing(k)
        /\ n \in Nat
        /\ Len(Path(c)) = IF k.at = "executing" THEN n + 1 ELSE n
        /\ \A a \in 1..n : Path(c)[a] = k.tries[a].deployment
        /\ k.at = "executing" => Path(c)[n + 1] = k.order[k.index]
    <3>1. Executing(k) \/ Sleeping(k)
      BY <1>1, <2>1, <2>2, RunningStates
    <3>2. k.at = "executing" => Executing(k)
      BY <3>1 DEF Sleeping
    <3>3. QED
      BY <2>2, <3>1, <3>2, PathOf DEF Target
  <2>4. /\ Follows(k) /\ k.order \in Seq(Deployments) /\ k.tries \in Seq(Attempts)
        /\ DOMAIN k.order \subseteq Nat /\ DOMAIN k.tries = 1..n /\ k.index \in Nat
    BY <2>2, <2>3 DEF Executing, Sleeping, Reserved, LiveCall
  <2>5. i \in 1..n /\ Path(c)[i] = k.tries[i].deployment
    <3>1. i \in 1..n
      BY <2>1, <2>3
    <3>2. QED
      BY <2>3, <3>1
  <2>6. /\ k.tries[i].retry # "never"
        /\ \E x \in DOMAIN k.order : /\ k.order[x] = k.tries[i].deployment /\ x <= k.index
                                     /\ k.tries[i].retry # "same_deployment" => x < k.index
    BY <2>4, <2>5 DEF Follows
  <2>7. PICK x \in DOMAIN k.order : /\ k.order[x] = k.tries[i].deployment /\ x <= k.index
                                    /\ k.tries[i].retry # "same_deployment" => x < k.index
    BY <2>6
  <2>8. \A a, b \in DOMAIN k.order : a # b => k.order[a] # k.order[b]
    BY <2>4 DEF Follows
  <2>9. \A a \in DOMAIN k.order : rank(k.order[a]) = a
    BY <2>2, <2>8
  <2>10. PICK y \in DOMAIN k.order : /\ Path(c)[i + 1] = k.order[y] /\ x <= y
                                     /\ k.tries[i].retry # "same_deployment" => x < y
    <3>1. CASE i = n
      <4>1. k.at = "executing"
        BY <2>1, <2>3, <3>1
      <4>2. k.index \in DOMAIN k.order /\ Path(c)[i + 1] = k.order[k.index]
        BY <2>3, <3>1, <4>1, ExecutingTarget
      <4>3. QED
        BY <2>7, <4>2
    <3>2. CASE i # n
      <4>1. i \in 1..(n - 1) /\ i + 1 \in 1..n
        BY <2>3, <2>5, <3>2
      <4>2. Path(c)[i + 1] = k.tries[i + 1].deployment
        BY <2>3, <4>1
      <4>3. PICK y \in DOMAIN k.order : k.order[y] = k.tries[i + 1].deployment
        BY <2>4, <4>1 DEF Follows
      <4>4. x <= y /\ (k.tries[i].retry # "same_deployment" => x < y)
        BY <2>2, <2>4, <2>7, <4>1, <4>3 DEF Follows
      <4>5. QED
        BY <4>2, <4>3, <4>4
    <3>3. QED
      BY <3>1, <3>2
  <2>11. rank(Path(c)[i + 1]) = y /\ rank(Path(c)[i]) = x
    <3> HIDE DEF rank
    <3>1. QED
      BY <2>5, <2>7, <2>9, <2>10
  <2>12. x \in Nat /\ y \in Nat
    BY <2>4
  <2>13. /\ k.tries[i].retry # "never"
         /\ IF k.tries[i].retry = "same_deployment" THEN y >= x ELSE y > x
    BY <2>6, <2>10, <2>12
  <2>14. QED
    BY <2>2, <2>11, <2>13
<1>2. QED
  BY <1>1, RouterInvariant, PTL

\* No call starts an attempt on a deployment whose observation expired, or that
\* an attempt of any call found unavailable or full and nothing cleared since.
THEOREM AvoidsFailedCorrect == RouterSpec => AvoidsFailed
<1>1. ASSUME RouterInv, [RouterNext]_routerVars
      PROVE  [\A c \in Calls :
               (call'[c].at = "executing" /\ (call[c].at = "executing" =>
                                               call'[c].tries # call[c].tries)) =>
                 LET d == call'[c].order[call'[c].index]
                 IN runtime'[d].expires > 0 /\ known'[d] = "good"]_routerVars
  <2>1. SUFFICES ASSUME NEW c \in Calls, call'[c].at = "executing",
                        call[c].at = "executing" => call'[c].tries # call[c].tries
                 PROVE  LET d == call'[c].order[call'[c].index]
                        IN runtime'[d].expires > 0 /\ known'[d] = "good"
    OBVIOUS
  <2>2. RouterInv' /\ CallsStep
    BY <1>1, RouterStep
  <2>3. Goes(call'[c], runtime')
    BY <2>1, <2>2 DEF CallsStep, Stays
  <2>4. PICK k : k = call'[c]
    OBVIOUS
  <2>5. Executing(k) /\ Routable(runtime'[k.order[k.index]])
    BY <2>1, <2>3, <2>4 DEF Goes, Sleeping, Ended
  <2>6. k.order[k.index] \in Deployments
    BY <2>5, ExecutingTarget
  <2>7. Observed(runtime'[k.order[k.index]], known'[k.order[k.index]])
    BY <2>2, <2>6 DEF RouterInv, ObservedInv
  <2>8. QED
    BY <2>4, <2>5, <2>7, RoutableIsGood
<1>2. QED
  BY <1>1, RouterInvariant, PTL DEF RouterSpec, AvoidsFailed
=============================================================================
