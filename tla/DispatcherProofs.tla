-------------------------- MODULE DispatcherProofs --------------------------
(***************************************************************************)
(* Proofs about Dispatcher, for any workflows, any number of dispatchers,  *)
(* any concurrency and any bound on the counters.                          *)
(***************************************************************************)
EXTENDS Dispatcher, FiniteSetTheorems, FunctionTheorems, TLAPS

\* list_ready returns at most n rows, all of them ready.
LEMMA ReadyRows ==
  ASSUME TypeOK, NEW n \in Nat
  PROVE  /\ ListReady(n) \subseteq Workflows
         /\ \A w \in ListReady(n) : Ready(w)
         /\ IsFiniteSet(ListReady(n))
         /\ Cardinality(ListReady(n)) <= n
<1> DEFINE Before(i) == {j \in 1..i : Ready(queue[j])}
           rank(i) == Cardinality(Before(i))
           I == {i \in DOMAIN queue : Ready(queue[i]) /\ rank(i) <= n}
<1>1. queue \in Seq(Workflows) /\ Len(queue) \in Nat /\ DOMAIN queue = 1..Len(queue)
  BY DEF TypeOK
<1>2. ListReady(n) = {queue[i] : i \in I}
  BY DEF ListReady
<1>3. /\ ListReady(n) \subseteq Workflows
      /\ \A w \in ListReady(n) : Ready(w)
  <2>1. \A i \in I : queue[i] \in Workflows /\ Ready(queue[i])
    BY <1>1
  <2> HIDE DEF I
  <2>2. QED
    BY <1>2, <2>1
<1>4. \A i \in 1..Len(queue) : IsFiniteSet(Before(i))
  <2>1. SUFFICES ASSUME NEW i \in 1..Len(queue)
                 PROVE  IsFiniteSet(Before(i))
    OBVIOUS
  <2>2. IsFiniteSet(1..i)
    BY <2>1, FS_Interval
  <2>3. QED
    BY <2>2, FS_Subset
<1>5. \A i \in I : rank(i) \in 1..n
  <2>1. SUFFICES ASSUME NEW i \in I
                 PROVE  rank(i) \in 1..n
    OBVIOUS
  <2>2. i \in 1..Len(queue) /\ IsFiniteSet(Before(i)) /\ i \in Before(i)
    BY <1>1, <1>4
  <2>3. rank(i) \in Nat /\ rank(i) # 0
    BY <2>2, FS_CardinalityType, FS_EmptySet
  <2>4. QED
    BY <2>3
<1>6. \A i, k \in I : i < k => rank(i) < rank(k)
  <2>1. SUFFICES ASSUME NEW i \in I, NEW k \in I, i < k
                 PROVE  rank(i) < rank(k)
    OBVIOUS
  <2>2. /\ i \in 1..Len(queue) /\ k \in 1..Len(queue) /\ IsFiniteSet(Before(k))
        /\ Before(i) \in SUBSET Before(k) /\ k \in Before(k) /\ k \notin Before(i)
    BY <1>1, <1>4, <2>1
  <2>3. rank(i) <= rank(k) /\ rank(i) # rank(k)
    BY <2>2, FS_Subset
  <2>4. rank(i) \in Nat /\ rank(k) \in Nat
    BY <1>5
  <2>5. QED
    BY <2>3, <2>4
<1> DEFINE f == [i \in I |-> rank(i)]
           g == [i \in I |-> queue[i]]
<1>7. f \in Injection(I, 1..n)
  <2>1. f \in [I -> 1..n]
    BY <1>5
  <2>2. ASSUME NEW i \in I, NEW k \in I, f[i] = f[k]
        PROVE  i = k
    <3>1. rank(i) = rank(k) /\ rank(i) \in Nat /\ rank(k) \in Nat
      BY <1>5, <2>2
    <3>2. i \in Nat /\ k \in Nat
      BY <1>1
    <3>3. ~ (i < k) /\ ~ (k < i)
      BY <1>6, <3>1
    <3>4. QED
      BY <3>2, <3>3
  <2>3. QED
    BY <2>1, <2>2, Fun_IsInj
<1>8. IsFiniteSet(I) /\ Cardinality(I) <= n /\ Cardinality(I) \in Nat
  <2>1. IsFiniteSet(1..n) /\ Cardinality(1..n) = n
    BY FS_Interval
  <2>2. IsFiniteSet(I) /\ Cardinality(I) <= n
    BY <1>7, <2>1, FS_Injection
  <2>3. QED
    BY <2>2, FS_CardinalityType
<1>9. g \in Surjection(I, ListReady(n))
  <2> HIDE DEF I
  <2>1. g \in [I -> ListReady(n)]
    BY <1>2
  <2>2. \A w \in ListReady(n) : \E i \in I : g[i] = w
    BY <1>2
  <2>3. QED
    BY <2>1, <2>2, Fun_IsSurj
<1>10. IsFiniteSet(ListReady(n)) /\ Cardinality(ListReady(n)) <= Cardinality(I)
  BY <1>8, <1>9, FS_Surjection
<1>11. Cardinality(ListReady(n)) \in Nat
  BY <1>10, FS_CardinalityType
<1>12. Cardinality(ListReady(n)) <= n
  <2> HIDE DEF I
  <2>1. QED
    BY <1>8, <1>10, <1>11
<1>13. QED
  BY <1>3, <1>10, <1>12

-----------------------------------------------------------------------------
\* The invariant of a dispatcher, and of its execution of a workflow.
Bounded(d) == IsFiniteSet(Active(d)) /\ Cardinality(Active(d)) <= Concurrency

Exclusive(d, w) ==
  task[d][w] = "executing" =>
    /\ \A e \in Dispatchers : task[e][w] = "executing" => e = d
    /\ row[w] \in {"running", "settled"}
    /\ row[w] = "running" => holder[w] = d

Counted(d) ==
  count[d].dispatched < CounterCap =>
    count[d].dispatched = count[d].completed + count[d].conflicts
                          + count[d].failures + Cardinality(Unfinished(d))

\* Before start() and after the coordinator there are no tasks.
Quiet(d) ==
  /\ phase[d] = "new" => coord[d] = "none"
  /\ phase[d] = "stopped" => coord[d] \in {"none", "ended"}
  /\ coord[d] \in {"none", "ended"} => Active(d) = {}

DispatcherInv ==
  /\ TypeOK
  /\ \A d \in Dispatchers : Bounded(d) /\ Counted(d) /\ Quiet(d)
  /\ \A d \in Dispatchers, w \in Workflows : Exclusive(d, w)

-----------------------------------------------------------------------------
\* What the executions of a dispatcher go through in a step of anybody: nothing,
\* a _reap, the start or the end of one of them, or an iteration of _run.
Counts(d, c) ==
  count'[d] = [count[d] EXCEPT ![c] = IF @ + 1 < CounterCap THEN @ + 1 ELSE CounterCap]

Goes(d, w) ==
  /\ task[d][w] \in Live
  /\ coord' = coord
  /\ \/ task'[d] = [task[d] EXCEPT ![w] = "executing"] /\ count'[d] = count[d]
     \/ /\ task'[d] = [task[d] EXCEPT ![w] = "done"]
        /\ \E c \in {"completed", "conflicts", "failures"} : Counts(d, c)

Moves(d) ==
  \/ task'[d] \in {task[d], Reaped(d)} /\ count'[d] = count[d]
  \/ \E w \in Workflows : Goes(d, w)
  \/ Poll(d)

\* The end of an execution is counted, for its dispatcher alone.
LEMMA FinishStep ==
  ASSUME TypeOK, NEW d \in Dispatchers, NEW w \in Workflows,
         NEW c \in {"completed", "conflicts", "failures"}, Finish(d, w, c)
  PROVE  /\ task'[d] = [task[d] EXCEPT ![w] = "done"]
         /\ Counts(d, c)
         /\ \A e \in Dispatchers : e # d => task'[e] = task[e] /\ count'[e] = count[e]
         /\ task' \in [Dispatchers -> [Workflows -> Live \cup {"none", "done"}]]
         /\ count' \in [Dispatchers -> [{"dispatched", "completed", "conflicts", "failures"}
                                          -> 0..CounterCap]]
<1> DEFINE C == [{"dispatched", "completed", "conflicts", "failures"} -> 0..CounterCap]
           T == [Workflows -> Live \cup {"none", "done"}]
           new == [count[d] EXCEPT ![c] = IF @ + 1 < CounterCap THEN @ + 1 ELSE CounterCap]
           done == [task[d] EXCEPT ![w] = "done"]
<1>1. /\ count \in [Dispatchers -> C] /\ task \in [Dispatchers -> T]
      /\ count[d] \in C /\ task[d] \in T
  BY DEF TypeOK
<1>2. new \in C
  <2>1. count[d][c] \in 0..CounterCap
    BY <1>1
  <2>2. (IF count[d][c] + 1 < CounterCap THEN count[d][c] + 1 ELSE CounterCap) \in 0..CounterCap
    BY <2>1, CapAssumption
  <2>3. QED
    BY <1>1, <2>2
<1>3. done \in T
  BY <1>1
<1>4. count' = [count EXCEPT ![d] = new] /\ task' = [task EXCEPT ![d] = done]
  BY <1>1 DEF Finish, Bump
<1> HIDE DEF C, T, new, done
<1>5. /\ count'[d] = new /\ task'[d] = done
      /\ count' \in [Dispatchers -> C] /\ task' \in [Dispatchers -> T]
      /\ \A e \in Dispatchers : e # d => task'[e] = task[e] /\ count'[e] = count[e]
  BY <1>1, <1>2, <1>3, <1>4
<1>6. QED
  BY <1>5 DEF C, T, new, done, Counts

\* One iteration of _run starts as many executions as there are slots.
LEMMA PollStep ==
  ASSUME TypeOK, NEW d \in Dispatchers, Bounded(d), Poll(d)
  PROVE  \E S \in SUBSET Workflows :
           /\ IsFiniteSet(S) /\ \A w \in S : Ready(w)
           /\ Cardinality(S) + Cardinality(Unfinished(d)) <= Concurrency
           /\ IsFiniteSet(Unfinished(d))
           /\ task'[d] = [w \in Workflows |-> IF w \in S THEN "created" ELSE Reaped(d)[w]]
           /\ count'[d] = [count[d] EXCEPT !.dispatched =
                             IF @ + Cardinality(S) < CounterCap THEN @ + Cardinality(S) ELSE CounterCap]
<1> DEFINE S == IF Slots(d) > 0 THEN ListReady(Slots(d)) ELSE {}
<1>1. {w \in Workflows : Reaped(d)[w] # "none"} = Unfinished(d)
  BY DEF Reaped, Unfinished, Live
<1>2. IsFiniteSet(Unfinished(d)) /\ Cardinality(Unfinished(d)) <= Cardinality(Active(d))
  <2>1. Unfinished(d) \in SUBSET Active(d)
    BY DEF Unfinished, Active, Live
  <2>2. QED
    BY <2>1, FS_Subset DEF Bounded
<1>3. /\ Slots(d) = Concurrency - Cardinality(Unfinished(d))
      /\ Cardinality(Unfinished(d)) \in Nat /\ Cardinality(Active(d)) \in Nat
      /\ Cardinality(Active(d)) <= Concurrency /\ Concurrency \in Nat
  <2>1. Cardinality(Unfinished(d)) \in Nat /\ Cardinality(Active(d)) \in Nat
    BY <1>2, FS_CardinalityType DEF Bounded
  <2>2. Slots(d) = Concurrency - Cardinality(Unfinished(d))
    BY <1>1 DEF Slots
  <2>3. QED
    BY <2>1, <2>2, ConcurrencyAssumption DEF Bounded
<1>4. Slots(d) \in Nat
  BY <1>2, <1>3
<1>5. /\ S \in SUBSET Workflows /\ IsFiniteSet(S) /\ \A w \in S : Ready(w)
      /\ Cardinality(S) <= Slots(d)
  <2>1. CASE Slots(d) > 0
    BY <1>4, <2>1, ReadyRows
  <2>2. CASE ~ (Slots(d) > 0)
    BY <1>4, <2>2, FS_EmptySet
  <2>3. QED
    BY <2>1, <2>2
<1>6. /\ task' = [task EXCEPT ![d] =
                   [w \in Workflows |-> IF w \in S THEN "created" ELSE Reaped(d)[w]]]
      /\ count' = Bump(d, "dispatched", Cardinality(S))
  BY DEF Poll
<1>7. Cardinality(S) \in Nat
  BY <1>5, FS_CardinalityType
<1> HIDE DEF S
<1>8. Cardinality(S) + Cardinality(Unfinished(d)) <= Concurrency
  BY <1>3, <1>4, <1>5, <1>7
<1>9. task'[d] = [w \in Workflows |-> IF w \in S THEN "created" ELSE Reaped(d)[w]]
  BY <1>6 DEF TypeOK
<1>10. count'[d] = [count[d] EXCEPT !.dispatched =
                      IF @ + Cardinality(S) < CounterCap THEN @ + Cardinality(S) ELSE CounterCap]
  BY <1>6 DEF TypeOK, Bump
<1>11. QED
  BY <1>2, <1>5, <1>8, <1>9, <1>10

\* Every step keeps the types and moves each dispatcher in one of these ways.
LEMMA Step ==
  ASSUME TypeOK, \A d \in Dispatchers : Bounded(d), [Next]_vars
  PROVE  TypeOK' /\ \A e \in Dispatchers : Moves(e)
<1> DEFINE C == [{"dispatched", "completed", "conflicts", "failures"} -> 0..CounterCap]
           T == [Workflows -> Live \cup {"none", "done"}]
<1>0. /\ queue \in Seq(Workflows)
      /\ row \in [Workflows -> {"absent", "ready", "running", "settled"}]
      /\ holder \in [Workflows -> Dispatchers \cup {None}]
      /\ phase \in [Dispatchers -> {"new", "running", "stopping", "stopped"}]
      /\ coord \in [Dispatchers -> {"none", "polling", "draining", "ended"}]
      /\ waiter \in [Dispatchers -> {"none", "waiting", "idle"}]
      /\ task \in [Dispatchers -> T] /\ count \in [Dispatchers -> C]
      /\ \A d \in Dispatchers : Reaped(d) \in T
  BY DEF TypeOK, Reaped
<1>1. ASSUME UNCHANGED <<task, count>>
      PROVE  \A e \in Dispatchers : Moves(e)
  BY <1>1 DEF Moves
<1>2. ASSUME NEW d \in Dispatchers, task' = [task EXCEPT ![d] = Reaped(d)], count' = count
      PROVE  task' \in [Dispatchers -> T] /\ \A e \in Dispatchers : Moves(e)
  <2>1. task' \in [Dispatchers -> T]
    BY <1>0, <1>2
  <2>2. \A e \in Dispatchers : task'[e] \in {task[e], Reaped(e)}
    BY <1>0, <1>2
  <2>3. QED
    BY <1>2, <2>1, <2>2 DEF Moves
<1>3. ASSUME NEW d \in Dispatchers, Start(d) \/ Stop(d) \/ LeaveLoop(d) \/ CallWaitIdle(d)
      PROVE  TypeOK' /\ \A e \in Dispatchers : Moves(e)
  <2>1. UNCHANGED <<queue, row, holder, task, count>>
    BY <1>3 DEF Start, Stop, LeaveLoop, CallWaitIdle
  <2>2. /\ phase' \in [Dispatchers -> {"new", "running", "stopping", "stopped"}]
        /\ coord' \in [Dispatchers -> {"none", "polling", "draining", "ended"}]
        /\ waiter' \in [Dispatchers -> {"none", "waiting", "idle"}]
    BY <1>0, <1>3 DEF Start, Stop, LeaveLoop, CallWaitIdle
  <2>3. QED
    BY <1>0, <1>1, <2>1, <2>2 DEF TypeOK
<1>4. ASSUME NEW d \in Dispatchers, Drained(d) \/ WaitIdle(d)
      PROVE  TypeOK' /\ \A e \in Dispatchers : Moves(e)
  <2>1. /\ UNCHANGED <<queue, row, holder, count>> /\ task' = [task EXCEPT ![d] = Reaped(d)]
    BY <1>4 DEF Drained, WaitIdle
  <2>2. /\ phase' \in [Dispatchers -> {"new", "running", "stopping", "stopped"}]
        /\ coord' \in [Dispatchers -> {"none", "polling", "draining", "ended"}]
        /\ waiter' \in [Dispatchers -> {"none", "waiting", "idle"}]
    BY <1>0, <1>4 DEF Drained, WaitIdle
  <2>3. QED
    BY <1>0, <1>2, <2>1, <2>2 DEF TypeOK
<1>5. ASSUME NEW d \in Dispatchers, Poll(d)
      PROVE  TypeOK' /\ \A e \in Dispatchers : Moves(e)
  <2>1. PICK S \in SUBSET Workflows :
          /\ IsFiniteSet(S)
          /\ task'[d] = [w \in Workflows |-> IF w \in S THEN "created" ELSE Reaped(d)[w]]
          /\ count'[d] = [count[d] EXCEPT !.dispatched =
                            IF @ + Cardinality(S) < CounterCap THEN @ + Cardinality(S) ELSE CounterCap]
    BY <1>5, PollStep
  <2>2. Cardinality(S) \in Nat
    BY <2>1, FS_CardinalityType
  <2>3. PICK t, c : task' = [task EXCEPT ![d] = t] /\ count' = [count EXCEPT ![d] = c]
    BY <1>0, <1>5 DEF Poll, Bump
  <2>4. t = task'[d] /\ c = count'[d]
    BY <1>0, <2>3
  <2>5. t \in T
    <3>1. \A w \in Workflows : Reaped(d)[w] \in Live \cup {"none", "done"}
      BY <1>0
    <3>2. "created" \in Live
      BY DEF Live
    <3>3. QED
      BY <2>1, <2>4, <3>1, <3>2
  <2>6. c \in C
    <3>1. count[d] \in C /\ count[d].dispatched \in 0..CounterCap
      BY <1>0
    <3>2. (IF count[d].dispatched + Cardinality(S) < CounterCap
             THEN count[d].dispatched + Cardinality(S) ELSE CounterCap) \in 0..CounterCap
      BY <2>2, <3>1, CapAssumption
    <3>3. QED
      BY <2>1, <2>4, <3>1, <3>2
  <2>7. task' \in [Dispatchers -> T] /\ count' \in [Dispatchers -> C]
    BY <1>0, <2>3, <2>5, <2>6
  <2>8. \A e \in Dispatchers : e # d => task'[e] = task[e] /\ count'[e] = count[e]
    BY <1>0, <2>3
  <2>9. TypeOK'
    <3>1. UNCHANGED <<queue, row, holder, phase, coord, waiter>>
      BY <1>5 DEF Poll
    <3>2. QED
      BY <1>0, <2>7, <3>1 DEF TypeOK
  <2>10. \A e \in Dispatchers : Moves(e)
    BY <1>5, <2>8 DEF Moves
  <2>11. QED
    BY <2>9, <2>10
<1>6. ASSUME NEW d \in Dispatchers, NEW w \in Workflows,
             NEW c \in {"completed", "conflicts", "failures"}, Finish(d, w, c),
             task[d][w] \in Live, UNCHANGED <<queue, phase, coord, waiter>>,
             row' \in [Workflows -> {"absent", "ready", "running", "settled"}],
             holder' \in [Workflows -> Dispatchers \cup {None}]
      PROVE  TypeOK' /\ \A e \in Dispatchers : Moves(e)
  <2>1. /\ task'[d] = [task[d] EXCEPT ![w] = "done"] /\ Counts(d, c)
        /\ \A e \in Dispatchers : e # d => task'[e] = task[e] /\ count'[e] = count[e]
        /\ task' \in [Dispatchers -> T] /\ count' \in [Dispatchers -> C]
    BY <1>6, FinishStep
  <2>2. Goes(d, w)
    BY <1>6, <2>1 DEF Goes
  <2>3. TypeOK'
    BY <1>0, <1>6, <2>1 DEF TypeOK
  <2>4. \A e \in Dispatchers : Moves(e)
    BY <2>1, <2>2 DEF Moves
  <2>5. QED
    BY <2>3, <2>4
<1>7. ASSUME NEW d \in Dispatchers, NEW w \in Workflows, Begin(d, w)
      PROVE  TypeOK' /\ \A e \in Dispatchers : Moves(e)
  <2>1. task[d][w] \in Live /\ UNCHANGED <<queue, phase, coord, waiter>>
    BY <1>7 DEF Begin, Live
  <2>2. CASE \E c \in {"conflicts", "failures"} : Finish(d, w, c) /\ UNCHANGED <<row, holder>>
    <3>1. PICK c \in {"completed", "conflicts", "failures"} : Finish(d, w, c)
      BY <2>2
    <3>2. /\ row' \in [Workflows -> {"absent", "ready", "running", "settled"}]
          /\ holder' \in [Workflows -> Dispatchers \cup {None}]
      BY <1>0, <2>2
    <3>3. QED
      BY <1>6, <2>1, <3>1, <3>2
  <2>3. CASE /\ row' = [row EXCEPT ![w] = "running"]
             /\ holder' = [holder EXCEPT ![w] = d]
             /\ task' = [task EXCEPT ![d][w] = "executing"]
             /\ UNCHANGED count
    <3>1. /\ row' \in [Workflows -> {"absent", "ready", "running", "settled"}]
          /\ holder' \in [Workflows -> Dispatchers \cup {None}]
      BY <1>0, <2>3
    <3>2. PICK t : t = [task[d] EXCEPT ![w] = "executing"]
      OBVIOUS
    <3>3. task' = [task EXCEPT ![d] = t]
      BY <2>3, <3>2
    <3>4. t \in T
      BY <1>0, <3>2 DEF Live
    <3>5. task' \in [Dispatchers -> T] /\ task'[d] = t /\ \A e \in Dispatchers : e # d => task'[e] = task[e]
      BY <1>0, <3>3, <3>4
    <3>6. Goes(d, w)
      BY <2>1, <2>3, <3>2, <3>5 DEF Goes
    <3>7. QED
      BY <1>0, <2>1, <2>3, <3>1, <3>5, <3>6 DEF TypeOK, Moves
  <2>4. QED
    BY <1>7, <2>2, <2>3 DEF Begin
<1>8. ASSUME NEW d \in Dispatchers, NEW w \in Workflows, End(d, w)
      PROVE  TypeOK' /\ \A e \in Dispatchers : Moves(e)
  <2>1. task[d][w] \in Live /\ UNCHANGED <<queue, phase, coord, waiter>>
    BY <1>8 DEF End, Live
  <2>2. \E c \in {"completed", "conflicts", "failures"} : Finish(d, w, c)
    BY <1>8 DEF End
  <2>3. /\ row' \in [Workflows -> {"absent", "ready", "running", "settled"}]
        /\ holder' \in [Workflows -> Dispatchers \cup {None}]
    BY <1>0, <1>8 DEF End
  <2>4. QED
    BY <1>6, <2>1, <2>2, <2>3
<1>9. ASSUME NEW w \in Workflows, Create(w) \/ Revoke(w)
      PROVE  TypeOK' /\ \A e \in Dispatchers : Moves(e)
  <2>1. UNCHANGED <<phase, coord, task, count, waiter>>
    BY <1>9 DEF Create, Revoke
  <2>2. /\ row' \in [Workflows -> {"absent", "ready", "running", "settled"}]
        /\ holder' \in [Workflows -> Dispatchers \cup {None}]
        /\ queue' \in Seq(Workflows)
    <3>1. CASE Create(w)
      BY <1>0, <3>1 DEF Create
    <3>2. CASE Revoke(w)
      BY <1>0, <3>2 DEF Revoke
    <3>3. QED
      BY <1>9, <3>1, <3>2
  <2>3. QED
    BY <1>0, <1>1, <2>1, <2>2 DEF TypeOK
<1>10. CASE UNCHANGED vars
  BY <1>0, <1>1, <1>10 DEF vars, TypeOK
<1>11. QED
  BY <1>3, <1>4, <1>5, <1>7, <1>8, <1>9, <1>10 DEF Next

-----------------------------------------------------------------------------
\* What is left after _reap is what is not finished.
LEMMA ReapStep ==
  ASSUME TypeOK, NEW d \in Dispatchers, task'[d] = Reaped(d)
  PROVE  Active(d)' = Unfinished(d) /\ Unfinished(d)' = Unfinished(d)
BY DEF Reaped, Active, Unfinished, Live

LEMMA GoStep ==
  ASSUME TypeOK, NEW d \in Dispatchers, NEW w \in Workflows, Goes(d, w)
  PROVE  /\ Active(d)' = Active(d) /\ w \in Unfinished(d)
         /\ Unfinished(d)' = IF task'[d][w] = "done" THEN Unfinished(d) \ {w} ELSE Unfinished(d)
<1>1. task[d] \in [Workflows -> Live \cup {"none", "done"}] /\ task[d][w] \in Live
  BY DEF TypeOK, Goes
<1>2. PICK s \in {"executing", "done"} : task'[d] = [task[d] EXCEPT ![w] = s]
  BY DEF Goes
<1>3. \A v \in Workflows : task'[d][v] = IF v = w THEN s ELSE task[d][v]
  BY <1>1, <1>2
<1>4. QED
  BY <1>1, <1>3 DEF Active, Unfinished, Live

LEMMA BoundedStep ==
  ASSUME TypeOK, NEW d \in Dispatchers, Bounded(d), Moves(d)
  PROVE  Bounded(d)' /\ IsFiniteSet(Unfinished(d))
<1>1. /\ Unfinished(d) \in SUBSET Active(d) /\ IsFiniteSet(Active(d)) /\ Concurrency \in Nat
      /\ Cardinality(Active(d)) \in Nat /\ Cardinality(Active(d)) <= Concurrency
  BY FS_CardinalityType, ConcurrencyAssumption DEF Unfinished, Active, Live, Bounded
<1>2. /\ IsFiniteSet(Unfinished(d)) /\ Cardinality(Unfinished(d)) \in Nat
      /\ Cardinality(Unfinished(d)) <= Cardinality(Active(d))
  BY <1>1, FS_Subset, FS_CardinalityType
<1>3. Cardinality(Unfinished(d)) <= Concurrency
  BY <1>1, <1>2
<1>4. CASE task'[d] = task[d]
  <2>1. Active(d)' = Active(d)
    BY <1>4 DEF Active
  <2>2. QED
    BY <1>1, <1>2, <2>1 DEF Bounded
<1>5. CASE task'[d] = Reaped(d)
  BY <1>2, <1>3, <1>5, ReapStep DEF Bounded
<1>6. ASSUME NEW w \in Workflows, Goes(d, w)
      PROVE  Bounded(d)'
  BY <1>1, <1>6, GoStep DEF Bounded
<1>7. CASE Poll(d)
  <2>1. PICK S \in SUBSET Workflows :
          /\ IsFiniteSet(S)
          /\ Cardinality(S) + Cardinality(Unfinished(d)) <= Concurrency
          /\ task'[d] = [w \in Workflows |-> IF w \in S THEN "created" ELSE Reaped(d)[w]]
    BY <1>7, PollStep
  <2>2. Active(d)' = S \cup Unfinished(d)
    BY <2>1 DEF Active, Unfinished, Reaped, Live
  <2>3. /\ IsFiniteSet(S \cup Unfinished(d))
        /\ Cardinality(S \cup Unfinished(d)) =
             Cardinality(S) + Cardinality(Unfinished(d)) - Cardinality(S \cap Unfinished(d))
    BY <1>2, <2>1, FS_Union
  <2>4. Cardinality(S) \in Nat /\ Cardinality(S \cap Unfinished(d)) \in Nat
    <3>1. IsFiniteSet(S \cap Unfinished(d))
      BY <2>1, FS_Intersection
    <3>2. QED
      BY <2>1, <3>1, FS_CardinalityType
  <2>5. Cardinality(S \cup Unfinished(d)) <= Concurrency
    BY <1>1, <1>2, <2>1, <2>3, <2>4
  <2>6. QED
    BY <1>2, <2>2, <2>3, <2>5 DEF Bounded
<1>8. Bounded(d)'
  BY <1>4, <1>5, <1>6, <1>7 DEF Moves
<1>9. QED
  BY <1>2, <1>8

\* Nothing an iteration starts is still running from before.
LEMMA CountedStep ==
  ASSUME DispatcherInv, NEW d \in Dispatchers, Moves(d)
  PROVE  Counted(d)'
<1> DEFINE C == {"dispatched", "completed", "conflicts", "failures"}
<1>0. /\ TypeOK /\ Bounded(d) /\ Counted(d) /\ IsFiniteSet(Unfinished(d))
      /\ Cardinality(Unfinished(d)) \in Nat
  BY BoundedStep, FS_CardinalityType DEF DispatcherInv
<1>1. /\ count[d] \in [C -> 0..CounterCap] /\ CounterCap \in Nat
      /\ count[d].dispatched \in Nat /\ count[d].completed \in Nat
      /\ count[d].conflicts \in Nat /\ count[d].failures \in Nat
  BY <1>0, CapAssumption DEF TypeOK
<1>2. SUFFICES ASSUME count'[d].dispatched < CounterCap
               PROVE  count'[d].dispatched = count'[d].completed + count'[d].conflicts
                          + count'[d].failures + Cardinality(Unfinished(d)')
  BY DEF Counted, Unfinished
<1>3. ASSUME count'[d] = count[d], Unfinished(d)' = Unfinished(d)
      PROVE  count'[d].dispatched = count'[d].completed + count'[d].conflicts
                          + count'[d].failures + Cardinality(Unfinished(d)')
  BY <1>0, <1>2, <1>3 DEF Counted
<1>4. CASE task'[d] \in {task[d], Reaped(d)} /\ count'[d] = count[d]
  <2>1. Unfinished(d)' = Unfinished(d)
    <3>1. CASE task'[d] = task[d]
      BY <3>1 DEF Unfinished
    <3>2. CASE task'[d] = Reaped(d)
      BY <1>0, <3>2, ReapStep
    <3>3. QED
      BY <1>4, <3>1, <3>2
  <2>2. QED
    BY <1>3, <1>4, <2>1
<1>5. ASSUME NEW w \in Workflows, Goes(d, w)
      PROVE  count'[d].dispatched = count'[d].completed + count'[d].conflicts
                          + count'[d].failures + Cardinality(Unfinished(d)')
  <2>1. w \in Unfinished(d) /\ task[d] \in [Workflows -> Live \cup {"none", "done"}]
    BY <1>0, <1>5, GoStep DEF TypeOK
  <2>2. CASE task'[d] = [task[d] EXCEPT ![w] = "executing"] /\ count'[d] = count[d]
    <3>1. task'[d][w] # "done"
      BY <2>1, <2>2
    <3>2. Unfinished(d)' = Unfinished(d)
      BY <1>0, <1>5, <3>1, GoStep
    <3>3. QED
      BY <1>3, <2>2, <3>2
  <2>3. ASSUME NEW c \in {"completed", "conflicts", "failures"}, Counts(d, c),
               task'[d] = [task[d] EXCEPT ![w] = "done"]
        PROVE  count'[d].dispatched = count'[d].completed + count'[d].conflicts
                          + count'[d].failures + Cardinality(Unfinished(d)')
    <3>1. Unfinished(d)' = Unfinished(d) \ {w}
      <4>1. task'[d][w] = "done"
        BY <2>1, <2>3
      <4>2. QED
        BY <1>0, <1>5, <4>1, GoStep
    <3>2. Cardinality(Unfinished(d)') = Cardinality(Unfinished(d)) - 1
      BY <1>0, <2>1, <3>1, FS_RemoveElement
    <3>3. Cardinality(Unfinished(d)) # 0
      BY <1>0, <2>1, FS_EmptySet
    <3>4. /\ \A a \in C : a # c => count'[d][a] = count[d][a]
          /\ count'[d][c] = IF count[d][c] + 1 < CounterCap THEN count[d][c] + 1 ELSE CounterCap
      BY <1>1, <2>3 DEF Counts
    <3>5. count'[d].dispatched = count[d].dispatched
      BY <3>4
    <3>6. count[d].dispatched = count[d].completed + count[d].conflicts
                                + count[d].failures + Cardinality(Unfinished(d))
      BY <1>0, <1>2, <3>5 DEF Counted
    <3>7. count[d][c] < count[d].dispatched
      BY <1>0, <1>1, <3>3, <3>6
    <3>8. count'[d][c] = count[d][c] + 1
      <4>1. count[d][c] \in Nat
        BY <1>1
      <4>2. count[d][c] + 1 <= count[d].dispatched
        BY <1>1, <3>7, <4>1
      <4>3. count[d][c] + 1 < CounterCap
        BY <1>1, <1>2, <3>5, <4>1, <4>2
      <4>4. QED
        BY <3>4, <4>3
    <3>9. CASE c = "completed"
      BY <1>0, <1>1, <3>2, <3>4, <3>6, <3>8, <3>9
    <3>10. CASE c = "conflicts"
      BY <1>0, <1>1, <3>2, <3>4, <3>6, <3>8, <3>10
    <3>11. CASE c = "failures"
      BY <1>0, <1>1, <3>2, <3>4, <3>6, <3>8, <3>11
    <3>12. QED
      BY <3>9, <3>10, <3>11
  <2>4. QED
    BY <1>5, <2>2, <2>3 DEF Goes
<1>6. CASE Poll(d)
  <2>1. PICK S \in SUBSET Workflows :
          /\ IsFiniteSet(S) /\ \A w \in S : Ready(w)
          /\ task'[d] = [w \in Workflows |-> IF w \in S THEN "created" ELSE Reaped(d)[w]]
          /\ count'[d] = [count[d] EXCEPT !.dispatched =
                            IF @ + Cardinality(S) < CounterCap THEN @ + Cardinality(S) ELSE CounterCap]
    BY <1>0, <1>6, PollStep
  <2>2. Unfinished(d)' = S \cup Unfinished(d)
    BY <2>1 DEF Unfinished, Reaped, Live
  <2>3. S \cap Unfinished(d) = {}
    <3>1. SUFFICES ASSUME NEW w \in S, w \in Unfinished(d)
                   PROVE  FALSE
      OBVIOUS
    <3>2. task[d][w] = "executing"
      BY <1>6, <3>1 DEF Poll, AtLoopTop, Unfinished, Live
    <3>3. Exclusive(d, w) /\ Ready(w)
      BY <2>1, <3>1 DEF DispatcherInv
    <3>4. QED
      BY <3>2, <3>3 DEF Exclusive, Ready
  <2>4. Cardinality(Unfinished(d)') = Cardinality(S) + Cardinality(Unfinished(d)) /\ Cardinality(S) \in Nat
    <3>1. Cardinality(S) \in Nat
      BY <2>1, FS_CardinalityType
    <3>2. Cardinality(S \cup Unfinished(d)) =
            Cardinality(S) + Cardinality(Unfinished(d)) - Cardinality(S \cap Unfinished(d))
      BY <1>0, <2>1, FS_Union
    <3>3. Cardinality(S \cap Unfinished(d)) = 0
      BY <2>3, FS_EmptySet
    <3>4. QED
      BY <1>0, <2>2, <3>1, <3>2, <3>3
  <2>5. /\ count'[d].dispatched = IF count[d].dispatched + Cardinality(S) < CounterCap
                                  THEN count[d].dispatched + Cardinality(S) ELSE CounterCap
        /\ count'[d].completed = count[d].completed /\ count'[d].conflicts = count[d].conflicts
        /\ count'[d].failures = count[d].failures
    BY <1>1, <2>1
  <2>6. /\ count'[d].dispatched = count[d].dispatched + Cardinality(S)
        /\ count[d].dispatched < CounterCap
    BY <1>1, <1>2, <2>4, <2>5
  <2>7. QED
    BY <1>0, <1>1, <2>4, <2>5, <2>6 DEF Counted
<1>7. QED
  BY <1>4, <1>5, <1>6 DEF Moves

\* A dispatcher that is not started, or that stopped, has no executions.
LEMMA QuietStep ==
  ASSUME DispatcherInv, NEW e \in Dispatchers, [Next]_vars
  PROVE  Quiet(e)'
<1>0. /\ TypeOK /\ Quiet(e) /\ phase \in [Dispatchers -> {"new", "running", "stopping", "stopped"}]
      /\ coord \in [Dispatchers -> {"none", "polling", "draining", "ended"}] /\ Moves(e)
  BY Step DEF DispatcherInv, TypeOK
<1>1. ASSUME Active(e) = {}, coord[e] \in {"none", "ended"}
      PROVE  Active(e)' = {}
  <2>1. CASE task'[e] = task[e]
    BY <1>1, <2>1 DEF Active
  <2>2. CASE task'[e] = Reaped(e)
    BY <1>0, <1>1, <2>2, ReapStep DEF Active, Unfinished, Live
  <2>3. ASSUME NEW w \in Workflows, Goes(e, w)
        PROVE  FALSE
    BY <1>1, <2>3 DEF Goes, Active, Live
  <2>4. ~ Poll(e)
    BY <1>1 DEF Poll, AtLoopTop
  <2>5. QED
    BY <1>0, <2>1, <2>2, <2>3, <2>4 DEF Moves
<1>2. ASSUME phase'[e] = phase[e], coord'[e] = coord[e]
      PROVE  Quiet(e)'
  BY <1>0, <1>1, <1>2 DEF Quiet
<1>3. ASSUME NEW d \in Dispatchers, Start(d)
      PROVE  Quiet(e)'
  BY <1>0, <1>2, <1>3 DEF Start, Quiet
<1>4. ASSUME NEW d \in Dispatchers, Stop(d)
      PROVE  Quiet(e)'
  <2>1. coord' = coord /\ phase' = [phase EXCEPT ![d] = IF @ = "new" THEN "stopped" ELSE "stopping"]
        /\ phase[d] \in {"new", "running"}
    BY <1>4 DEF Stop
  <2>2. CASE e = d
    BY <1>0, <1>1, <2>1, <2>2 DEF Quiet
  <2>3. CASE e # d
    BY <1>0, <1>2, <2>1, <2>3
  <2>4. QED
    BY <2>2, <2>3
<1>5. ASSUME NEW d \in Dispatchers, LeaveLoop(d)
      PROVE  Quiet(e)'
  BY <1>0, <1>2, <1>5 DEF LeaveLoop, AtLoopTop, Quiet
<1>6. ASSUME NEW d \in Dispatchers, Drained(d)
      PROVE  Quiet(e)'
  <2>1. CASE e = d
    <3>1. task'[e] = Reaped(e) /\ Unfinished(e) = {}
      BY <1>0, <1>6, <2>1 DEF Drained, TypeOK
    <3>2. Active(e)' = {}
      BY <1>0, <3>1, ReapStep
    <3>3. coord'[e] = "ended" /\ phase'[e] = "stopped"
      BY <1>0, <1>6, <2>1 DEF Drained
    <3>4. QED
      BY <3>2, <3>3 DEF Quiet
  <2>2. CASE e # d
    BY <1>0, <1>2, <1>6, <2>2 DEF Drained
  <2>3. QED
    BY <2>1, <2>2
<1>7. (\E d \in Dispatchers : Start(d) \/ Stop(d) \/ LeaveLoop(d) \/ Drained(d))
        \/ (phase'[e] = phase[e] /\ coord'[e] = coord[e])
  BY DEF Next, Poll, CallWaitIdle, WaitIdle, Begin, End, Create, Revoke, vars
<1>8. QED
  BY <1>2, <1>3, <1>4, <1>5, <1>6, <1>7

\* Only Begin makes an execution pass its claim, and only of a ready row.
LEMMA ExclusiveStep ==
  ASSUME DispatcherInv, [Next]_vars
  PROVE  \A e \in Dispatchers, v \in Workflows : Exclusive(e, v)'
<1>0. /\ TypeOK /\ row \in [Workflows -> {"absent", "ready", "running", "settled"}]
      /\ holder \in [Workflows -> Dispatchers \cup {None}]
      /\ task \in [Dispatchers -> [Workflows -> Live \cup {"none", "done"}]]
      /\ \A e \in Dispatchers, v \in Workflows : Exclusive(e, v)
  BY DEF DispatcherInv, TypeOK
<1>1. ASSUME \A e \in Dispatchers, v \in Workflows : task'[e][v] = "executing" => task[e][v] = "executing",
             \A v \in Workflows : \/ row'[v] = row[v] /\ holder'[v] = holder[v]
                                  \/ row'[v] = "settled"
                                  \/ row[v] = "absent"
      PROVE  \A e \in Dispatchers, v \in Workflows : Exclusive(e, v)'
  BY <1>0, <1>1 DEF Exclusive
<1>2. ASSUME NEW d \in Dispatchers, NEW w \in Workflows, Ready(w),
             row' = [row EXCEPT ![w] = "running"], holder' = [holder EXCEPT ![w] = d],
             task' = [task EXCEPT ![d][w] = "executing"]
      PROVE  \A e \in Dispatchers, v \in Workflows : Exclusive(e, v)'
  <2>1. SUFFICES ASSUME NEW e \in Dispatchers, NEW v \in Workflows, task'[e][v] = "executing"
                 PROVE  /\ \A g \in Dispatchers : task'[g][v] = "executing" => g = e
                        /\ row'[v] \in {"running", "settled"}
                        /\ row'[v] = "running" => holder'[v] = e
    BY DEF Exclusive
  <2>2. \A g \in Dispatchers : task'[g][v] = IF g = d /\ v = w THEN "executing" ELSE task[g][v]
    BY <1>0, <1>2
  <2>3. CASE v = w
    <3>1. \A g \in Dispatchers : task[g][v] # "executing"
      BY <1>0, <1>2, <2>3 DEF Exclusive, Ready
    <3>2. row'[v] = "running" /\ holder'[v] = d
      BY <1>0, <1>2, <2>3
    <3>3. QED
      BY <2>1, <2>2, <3>1, <3>2
  <2>4. CASE v # w
    <3>1. row'[v] = row[v] /\ holder'[v] = holder[v]
      BY <1>0, <1>2, <2>4
    <3>2. \A g \in Dispatchers : task'[g][v] = task[g][v]
      BY <2>2, <2>4
    <3>3. QED
      BY <1>0, <2>1, <3>1, <3>2 DEF Exclusive
  <2>5. QED
    BY <2>3, <2>4
<1>3. ASSUME NEW d \in Dispatchers, NEW w \in Workflows, NEW c, Finish(d, w, c)
      PROVE  \A e \in Dispatchers, v \in Workflows : task'[e][v] = "executing" => task[e][v] = "executing"
  <2>1. \A e \in Dispatchers, v \in Workflows :
          task'[e][v] = IF e = d /\ v = w THEN "done" ELSE task[e][v]
    BY <1>0, <1>3 DEF Finish
  <2>2. QED
    BY <2>1
<1>4. ASSUME NEW d \in Dispatchers, NEW w \in Workflows, Begin(d, w)
      PROVE  \A e \in Dispatchers, v \in Workflows : Exclusive(e, v)'
  <2>1. CASE \E c : Finish(d, w, c) /\ UNCHANGED <<row, holder>>
    BY <1>1, <1>3, <2>1
  <2>2. QED
    BY <1>2, <1>4, <2>1 DEF Begin
<1>5. ASSUME NEW d \in Dispatchers, NEW w \in Workflows, End(d, w)
      PROVE  \A e \in Dispatchers, v \in Workflows : Exclusive(e, v)'
  <2>1. \E c : Finish(d, w, c)
    BY <1>5 DEF End
  <2>2. \A v \in Workflows : (row'[v] = row[v] /\ holder'[v] = holder[v]) \/ row'[v] = "settled"
    BY <1>0, <1>5 DEF End
  <2>3. QED
    BY <1>1, <1>3, <2>1, <2>2
<1>6. ASSUME NEW w \in Workflows, Create(w) \/ Revoke(w)
      PROVE  \A e \in Dispatchers, v \in Workflows : Exclusive(e, v)'
  <2>1. task' = task
    BY <1>6 DEF Create, Revoke
  <2>2. \A v \in Workflows : \/ row'[v] = row[v] /\ holder'[v] = holder[v]
                             \/ row'[v] = "settled"
                             \/ row[v] = "absent"
    BY <1>0, <1>6 DEF Create, Revoke
  <2>3. QED
    BY <1>1, <2>1, <2>2
<1>7. ASSUME NEW d \in Dispatchers, Drained(d) \/ WaitIdle(d)
      PROVE  \A e \in Dispatchers, v \in Workflows : Exclusive(e, v)'
  <2>1. task' = [task EXCEPT ![d] = Reaped(d)] /\ UNCHANGED <<row, holder>>
    BY <1>7 DEF Drained, WaitIdle
  <2>2. \A e \in Dispatchers, v \in Workflows : task'[e][v] \in {task[e][v], "none"}
    BY <1>0, <2>1 DEF Reaped
  <2>3. QED
    BY <1>1, <2>1, <2>2
<1>8. ASSUME NEW d \in Dispatchers, Poll(d)
      PROVE  \A e \in Dispatchers, v \in Workflows : Exclusive(e, v)'
  <2>1. PICK S : /\ task' = [task EXCEPT ![d] = [w \in Workflows |-> IF w \in S THEN "created" ELSE Reaped(d)[w]]]
                 /\ UNCHANGED <<row, holder>>
    BY <1>8 DEF Poll
  <2>2. \A e \in Dispatchers, v \in Workflows : task'[e][v] \in {task[e][v], "none", "created"}
    BY <1>0, <2>1 DEF Reaped
  <2>3. QED
    BY <1>1, <2>1, <2>2
<1>9. CASE UNCHANGED <<task, row, holder>>
  BY <1>1, <1>9
<1>10. (\E d \in Dispatchers : \/ Poll(d) \/ Drained(d) \/ WaitIdle(d)
                              \/ \E w \in Workflows : Begin(d, w) \/ End(d, w))
         \/ (\E w \in Workflows : Create(w) \/ Revoke(w)) \/ UNCHANGED <<task, row, holder>>
  BY DEF Next, Start, Stop, LeaveLoop, CallWaitIdle, vars
<1>11. QED
  BY <1>4, <1>5, <1>6, <1>7, <1>8, <1>9, <1>10

-----------------------------------------------------------------------------
\* DispatcherInv is inductive: what an iteration starts is not running already
\* because a row that is executed is not ready, and the counters agree because
\* of that.
THEOREM DispatcherInvariant == Spec => []DispatcherInv
<1>1. Init => DispatcherInv
  <2>1. SUFFICES ASSUME Init PROVE DispatcherInv
    OBVIOUS
  <2>2. TypeOK
    BY <2>1, CapAssumption DEF Init, TypeOK
  <2>3. ASSUME NEW d \in Dispatchers
        PROVE  Bounded(d) /\ Counted(d) /\ Quiet(d)
    <3>1. \A w \in Workflows : task[d][w] = "none"
      BY <2>1 DEF Init
    <3>2. Active(d) = {} /\ Unfinished(d) = {}
      BY <3>1 DEF Active, Unfinished, Live
    <3>3. /\ count[d].dispatched = 0 /\ count[d].completed = 0 /\ count[d].conflicts = 0
          /\ count[d].failures = 0 /\ coord[d] = "none" /\ phase[d] = "new"
      BY <2>1 DEF Init
    <3>4. Cardinality({}) = 0 /\ IsFiniteSet({})
      BY FS_EmptySet
    <3>5. QED
      BY <3>2, <3>3, <3>4, ConcurrencyAssumption DEF Bounded, Counted, Quiet
  <2>4. \A d \in Dispatchers, w \in Workflows : Exclusive(d, w)
    BY <2>1 DEF Init, Exclusive
  <2>5. QED
    BY <2>2, <2>3, <2>4 DEF DispatcherInv
<1>2. DispatcherInv /\ [Next]_vars => DispatcherInv'
  <2>1. SUFFICES ASSUME DispatcherInv, [Next]_vars PROVE DispatcherInv'
    OBVIOUS
  <2>2. TypeOK' /\ \A d \in Dispatchers : Moves(d)
    BY <2>1, Step DEF DispatcherInv
  <2>3. \A d \in Dispatchers : Bounded(d)'
    BY <2>1, <2>2, BoundedStep DEF DispatcherInv
  <2>4. \A d \in Dispatchers : Counted(d)'
    BY <2>1, <2>2, CountedStep
  <2>5. \A d \in Dispatchers : Quiet(d)'
    BY <2>1, QuietStep
  <2>6. \A d \in Dispatchers, w \in Workflows : Exclusive(d, w)'
    BY <2>1, ExclusiveStep
  <2>7. QED
    BY <2>2, <2>3, <2>4, <2>5, <2>6 DEF DispatcherInv
<1>3. QED
  BY <1>1, <1>2, PTL DEF Spec

\* For any number of dispatchers and workflows: at most one execution of a
\* workflow is past its claim, the row's holder while it runs, and no dispatcher
\* exceeds its concurrency.
THEOREM OneExecutionCorrect == Spec => []OneExecution
<1>1. DispatcherInv => OneExecution
  BY DEF DispatcherInv, Bounded, Exclusive, OneExecution
<1>2. QED
  BY <1>1, DispatcherInvariant, PTL

\* For any number of dispatchers and workflows the snapshot counters account for
\* every execution _run started, and nothing runs after "stopped".
THEOREM AccountedCorrect == Spec => []EveryDispatchAccounted
<1>1. DispatcherInv => EveryDispatchAccounted
  BY DEF DispatcherInv, Counted, Quiet, EveryDispatchAccounted
<1>2. QED
  BY <1>1, DispatcherInvariant, PTL
=============================================================================
