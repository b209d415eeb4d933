--------------------------- MODULE WorkflowProofs ---------------------------
(***************************************************************************)
(* Proofs about WorkflowStore, for any number of workflows, tenants,       *)
(* owners, policies and results, any lease times and any scan limit; and   *)
(* about WorkflowExecutor for any number of concurrent workers: its steps  *)
(* are steps of the store, inference runs at most once per workflow, and   *)
(* what is published is what the one router call returned.                 *)
(***************************************************************************)
EXTENDS WorkflowExecutor, SequenceTheorems, TLAPS

(* WorkflowStore *)

\* Every step keeps the tables well typed.
LEMMA TypeStep == TypeOK /\ [Next]_vars => TypeOK'
<1> SUFFICES ASSUME TypeOK, [Next]_vars
             PROVE  TypeOK'
  OBVIOUS
<1>1. ASSUME NEW w \in Workflows, NEW q \in Request, Create(w, q)
      PROVE  TypeOK'
  BY <1>1 DEF TypeOK, States, Event, Create, Log
<1>2. ASSUME NEW w \in Workflows, NEW o \in Owners, NEW d \in LeaseTimes,
             Claim(w, o, d)
      PROVE  TypeOK'
  BY <1>2, LeaseAssumption DEF TypeOK, States, Event, Claim, Log
<1>3. ASSUME NEW w \in Workflows, NEW o \in Owners, NEW f \in 0..fence[w],
             BeginDispatch(w, o, f)
      PROVE  TypeOK'
  BY <1>3 DEF TypeOK, States, Event, Dispatch, BeginDispatch, Log
<1>4. ASSUME NEW w \in Workflows, NEW o \in Owners, NEW f \in 0..fence[w],
             NEW r \in Results, NEW ok \in BOOLEAN, RecordOutcome(w, o, f, r, ok)
      PROVE  TypeOK'
  BY <1>4 DEF TypeOK, States, Event, Dispatch, RecordOutcome, Log, Outcome
<1>5. ASSUME NEW w \in Workflows, NEW f \in Nat, NEW r \in Results,
             NEW ok \in BOOLEAN, CommitResult(w, f, r, ok)
      PROVE  TypeOK'
  BY <1>5 DEF TypeOK, States, Event, CommitResult, Log, Settled
<1>6. ASSUME NEW w \in Workflows, NEW p \in Policies \cup {None}, Validate(w, p)
      PROVE  TypeOK'
  <2>1. JudgingPolicy(w, p) \in Policies
    BY <1>6 DEF TypeOK, Validate, JudgingPolicy, Request, NoRequest
  <2> QED
    BY <1>6, <2>1 DEF TypeOK, States, Event, Validate, Log, Report
<1>7. ASSUME NEW w \in Workflows, Cancel(w)
      PROVE  TypeOK'
  BY <1>7 DEF TypeOK, States, Event, Cancel, Log
<1>8. ASSUME NEW w \in Workflows, Corrupt(w)
      PROVE  TypeOK'
  <2>1. PICK r \in Results :
          journal' = [journal EXCEPT ![w].outcome.result = r]
    BY <1>8 DEF Corrupt
  <2>2. journal[w].outcome \in Outcome
    BY <1>8 DEF Corrupt, TypeOK, Dispatch
  <2>3. [journal[w].outcome EXCEPT !.result = r] \in Outcome
    BY <2>2 DEF Outcome
  <2>4. journal' \in [Workflows -> Dispatch]
    BY <2>1, <2>3 DEF TypeOK, Dispatch
  <2> QED
    BY <1>8, <2>4 DEF TypeOK, Corrupt
<1>9. ASSUME NEW t \in Tenants, RecoverExpired(t)
      PROVE  TypeOK'
  <2>1. \A w \in Workflows : Log(w, "uncertain", fence[w] + 1) \in Seq(Event)
    BY DEF TypeOK, Log, Event, States
  <2> QED
    BY <1>9, <2>1 DEF TypeOK, States, RecoverExpired
<1>10. CASE RecoverStartup
  <2>1. \A w \in Workflows : RecoveredFence(w) \in Nat
    BY DEF TypeOK, RecoveredFence
  <2>a. \A w \in Workflows :
          Log(w, "uncertain", RecoveredFence(w)) \in Seq(Event)
    BY <2>1 DEF TypeOK, Log, Event, States
  <2>2. \A w \in Workflows : LostLog(w) \in Seq(Event)
    BY <2>a DEF TypeOK, LostLog
  <2>3. \A w \in Reconciled :
          /\ journal[w].outcome.result \in Results
          /\ journal[w].outcome.succeeded \in BOOLEAN
          /\ w \in Workflows
    BY DEF TypeOK, Reconciled, Candidates, Evidence, Dispatch, Outcome
  <2>4. \A w \in Reconciled :
          [state |-> Settled(journal[w].outcome.succeeded),
           fence |-> RecoveredFence(w)] \in Event
    BY <2>1, <2>3 DEF Settled, Event, States
  <2>5. events' \in [Workflows -> Seq(Event)]
    BY <1>10, <2>2, <2>4 DEF RecoverStartup
  <2>6. artifacts' \in [Workflows -> Seq(Results)]
    BY <1>10, <2>3 DEF RecoverStartup, TypeOK
  <2>7. state' \in [Workflows -> States]
    BY <1>10, <2>3 DEF RecoverStartup, TypeOK, Settled, States
  <2> QED
    BY <1>10, <2>1, <2>5, <2>6, <2>7 DEF RecoverStartup, TypeOK
<1>11. CASE Tick
  BY <1>11 DEF TypeOK, Tick
<1>12. CASE UNCHANGED vars
  BY <1>12 DEF TypeOK, vars
<1>13. ASSUME NEW w \in Workflows, ReconcileUncertain(w)
       PROVE  TypeOK'
  BY <1>13, <1>5 DEF TypeOK, Dispatch, ReconcileUncertain, Evidence, Outcome
<1>14. ASSUME NEW w \in Workflows, NEW o \in Owners, NEW f \in 0..fence[w],
              NEW r \in Results, NEW ok \in BOOLEAN, Complete(w, o, f, r, ok)
       PROVE  TypeOK'
  BY <1>14, <1>5 DEF TypeOK, Complete
<1> QED
  BY <1>1, <1>2, <1>3, <1>4, <1>6, <1>7, <1>8, <1>9, <1>10, <1>11, <1>12,
     <1>13, <1>14 DEF Next

\* Type correctness: no method of the store leaves a malformed row behind.
THEOREM TypeCorrect == Spec => []TypeOK
<1>1. Init => TypeOK
  BY DEF Init, TypeOK, States, NoDispatch, Dispatch
<1> QED
  BY <1>1, TypeStep, PTL DEF Spec

-----------------------------------------------------------------------------
(***************************************************************************)
(* The inductive invariant.  A row's fence tells how often its ownership   *)
(* was handed out or revoked, which is what makes "journal fence + 1 = row *)
(* fence" a proof that the evidence belongs to the one execution; and an   *)
(* event is in the log only if the step that writes it lies in the past.   *)
(***************************************************************************)
Fences(w) ==
  /\ state[w] \in {"absent", "ready"} => fence[w] = 0 /\ ~ Dispatched(w)
  /\ state[w] = "running" => fence[w] = 1
  /\ state[w] = "uncertain" => fence[w] = 2
  /\ journal[w].fence \in {0, 1}
  /\ ~ Dispatched(w) => journal[w].outcome = None

Marks(w) ==
  LET logged(s) == Logged(events[w], s) IN
  /\ Bounded(events[w], fence[w])
  /\ logged("running") => state[w] \notin {"absent", "ready"}
  /\ logged("dispatch_started") => Dispatched(w)
  /\ logged("outcome_recorded") => journal[w].outcome # None
  /\ logged("uncertain") => state[w] \notin {"absent", "ready", "running"}
  /\ logged("awaiting_validation") =>
       state[w] \in {"awaiting_validation", "succeeded", "rejected", "cancelled"}
  /\ \A s \in Terminal : logged(s) => state[w] = s

RowInv(w) ==
  Fences(w) /\ Publication(w) /\ Judgement(w) /\ Trail(w) /\ Marks(w)

StoreInv == TypeOK /\ \A w \in Workflows : RowInv(w)

EventStates == (States \ {"absent"}) \cup {"dispatch_started", "outcome_recorded"}

\* The kinds of entries the store's methods log.
LEMMA EventStateFacts ==
  {"ready", "running", "uncertain", "awaiting_validation", "failed", "succeeded",
   "rejected", "cancelled", "dispatch_started", "outcome_recorded"} \subseteq EventStates
BY DEF EventStates, States

\* One more entry, of a kind not logged before and with no smaller a fence,
\* keeps an event log ordered and bounded.
LEMMA GrowLog ==
  ASSUME NEW log \in Seq(Event), NEW e \in Event,
         Ordered(log), Bounded(log, e.fence), ~ Logged(log, e.state)
  PROVE  /\ Append(log, e) \in Seq(Event)
         /\ Append(log, e) # <<>>
         /\ Append(log, e)[Len(Append(log, e))] = e
         /\ Ordered(Append(log, e))
         /\ Bounded(Append(log, e), e.fence)
         /\ \A r : Logged(Append(log, e), r) <=> Logged(log, r) \/ r = e.state
<1> DEFINE new == Append(log, e)
           s == e.state
           f == e.fence
<1>1. e.state = s /\ e.fence = f /\ f \in Nat
  BY DEF Event
<1>2. /\ new \in Seq(Event)
      /\ Len(log) \in Nat
      /\ Len(new) = Len(log) + 1
      /\ new[Len(log) + 1] = e
      /\ \A i \in 1..Len(log) : new[i] = log[i]
  OBVIOUS
<1> HIDE DEF new
<1>3. new # <<>>
  BY <1>2
<1>4. \A i \in 1..Len(log) : log[i].fence <= f /\ log[i].state # s
  BY DEF Bounded, Logged
<1>5. Bounded(new, f)
  <2> SUFFICES ASSUME NEW i \in 1..Len(new)
               PROVE  new[i].fence <= f
    BY DEF Bounded
  <2>1. CASE i = Len(log) + 1
    BY <2>1, <1>1, <1>2
  <2>2. CASE i \in 1..Len(log)
    BY <2>2, <1>2, <1>4
  <2> QED
    BY <2>1, <2>2, <1>2
<1>6. Ordered(new)
  <2> SUFFICES ASSUME NEW i \in 1..Len(new), NEW j \in 1..Len(new), i < j
               PROVE  new[i].fence <= new[j].fence /\ new[i].state # new[j].state
    BY DEF Ordered
  <2>1. i \in 1..Len(log)
    BY <1>2
  <2>2. CASE j = Len(log) + 1
    BY <2>1, <2>2, <1>1, <1>2, <1>4
  <2>3. CASE j \in 1..Len(log)
    BY <2>1, <2>3, <1>2 DEF Ordered
  <2> QED
    BY <2>2, <2>3, <1>2
<1>7. ASSUME NEW r
      PROVE  Logged(new, r) <=> Logged(log, r) \/ r = s
  <2>1. Logged(new, r) => Logged(log, r) \/ r = s
    <3> SUFFICES ASSUME NEW i \in 1..Len(new), new[i].state = r, r # s
                 PROVE  Logged(log, r)
      BY DEF Logged
    <3>1. i \in 1..Len(log)
      BY <1>1, <1>2
    <3> QED
      BY <3>1, <1>2 DEF Logged
  <2>2. Logged(log, r) => Logged(new, r)
    <3> SUFFICES ASSUME NEW i \in 1..Len(log), log[i].state = r
                 PROVE  Logged(new, r)
      BY DEF Logged
    <3>1. i \in 1..Len(new) /\ new[i].state = r
      BY <1>2
    <3> QED
      BY <3>1 DEF Logged
  <2>3. Logged(new, s)
    <3>1. Len(new) \in 1..Len(new) /\ new[Len(new)].state = s
      BY <1>1, <1>2
    <3> QED
      BY <3>1 DEF Logged
  <2> QED
    BY <2>1, <2>2, <2>3
<1>8. new[Len(new)] = e
  BY <1>2
<1> QED
  BY <1>2, <1>3, <1>5, <1>6, <1>7, <1>8 DEF new

\* What a transaction that logs one event must guarantee about the row.
LEMMA LogStep ==
  ASSUME StoreInv, NEW w \in Workflows, NEW s \in EventStates, NEW f \in Nat,
         f >= fence[w], ~ Logged(events[w], s),
         fence'[w] = f, events'[w] = Log(w, s, f),
         \/ state'[w] = s
         \/ s \in {"dispatch_started", "outcome_recorded"} /\ state'[w] = "running"
  PROVE  /\ Trail(w)'
         /\ Bounded(events'[w], fence'[w])
         /\ \A r : Logged(events'[w], r) <=> Logged(events[w], r) \/ r = s
<1>1. events[w] \in Seq(Event) /\ fence[w] \in Nat /\ RowInv(w)
  BY DEF StoreInv, TypeOK
<1>2. Ordered(events[w]) /\ Bounded(events[w], f)
  <2>1. ASSUME NEW i \in 1..Len(events[w])
        PROVE  events[w][i].fence \in Nat
    <3>1. events[w][i] \in Event
      BY <1>1
    <3> QED
      BY <3>1 DEF Event
  <2>2. Ordered(events[w]) /\ Bounded(events[w], fence[w])
    BY <1>1 DEF RowInv, Trail, Marks
  <2> QED
    BY <1>1, <2>1, <2>2 DEF Bounded
<1>3. /\ events'[w] # <<>>
      /\ events'[w][Len(events'[w])] = [state |-> s, fence |-> f]
      /\ Ordered(events'[w])
      /\ Bounded(events'[w], f)
      /\ \A r : Logged(events'[w], r) <=> Logged(events[w], r) \/ r = s
  <2> DEFINE e == [state |-> s, fence |-> f]
  <2>1. e \in Event /\ e.state = s /\ e.fence = f
    BY DEF Event, EventStates
  <2>2. events'[w] = Append(events[w], e)
    BY DEF Log
  <2> HIDE DEF e
  <2>3. e = [state |-> s, fence |-> f]
    BY DEF e
  <2>4. Bounded(events[w], e.fence) /\ ~ Logged(events[w], e.state)
    BY <1>2, <2>1
  <2>5. /\ Append(events[w], e) # <<>>
        /\ Append(events[w], e)[Len(Append(events[w], e))] = e
        /\ Ordered(Append(events[w], e))
        /\ Bounded(Append(events[w], e), e.fence)
        /\ \A r : Logged(Append(events[w], e), r) <=>
                   Logged(events[w], r) \/ r = e.state
    BY <1>1, <1>2, <2>1, <2>4, GrowLog
  <2> QED
    BY <2>1, <2>2, <2>3, <2>5
<1>4. state'[w] # "absent"
  BY DEF EventStates
<1> QED
  BY <1>3, <1>4 DEF Trail

\* A row none of whose tables changed keeps its invariant.
LEMMA Frame ==
  ASSUME NEW w \in Workflows, RowInv(w),
         state'[w] = state[w], fence'[w] = fence[w], request'[w] = request[w],
         journal'[w] = journal[w], artifacts'[w] = artifacts[w],
         report'[w] = report[w], events'[w] = events[w]
  PROVE  RowInv(w)'
BY DEF RowInv, Fences, Publication, Judgement, Trail, Marks, Dispatched

\* One publication, by the running execution or from a lost one's evidence:
\* what it does to the row, the journal, the artifacts and the report.
LEMMA PublishRow ==
  ASSUME StoreInv, NEW w \in Workflows, NEW r \in Results, NEW ok \in BOOLEAN,
         state[w] \in {"running", "uncertain"},
         state'[w] = Settled(ok),
         journal'[w] = journal[w], request'[w] = request[w],
         report'[w] = report[w], artifacts'[w] = Append(artifacts[w], r),
         Dispatched(w) =>
           /\ journal[w].outcome # None
           /\ journal[w].outcome.sha = r
           /\ journal[w].outcome.succeeded = ok
  PROVE  Fences(w)' /\ Publication(w)' /\ Judgement(w)'
<1>1. /\ state'[w] \in {"awaiting_validation", "failed"}
      /\ state'[w] = "failed" <=> ~ ok
  BY DEF Settled
<1>2. RowInv(w)
  BY DEF StoreInv
<1>3. artifacts[w] = <<>>
  BY <1>2 DEF RowInv, Publication
<1>4. artifacts'[w] = <<r>>
  BY <1>3
<1>5. Fences(w)'
  BY <1>1, <1>2 DEF RowInv, Fences, Dispatched
<1>6. Publication(w)'
  BY <1>1, <1>4 DEF Publication, Dispatched
<1>7. Judgement(w)'
  BY <1>1, <1>2 DEF RowInv, Judgement
<1> QED
  BY <1>5, <1>6, <1>7

\* A publication that logs its own event only.
LEMMA CommitStep ==
  ASSUME StoreInv, NEW w \in Workflows, NEW r \in Results, NEW ok \in BOOLEAN,
         state[w] \in {"running", "uncertain"},
         state'[w] = Settled(ok), fence'[w] = fence[w],
         journal'[w] = journal[w], request'[w] = request[w],
         report'[w] = report[w], artifacts'[w] = Append(artifacts[w], r),
         events'[w] = Log(w, Settled(ok), fence[w]),
         Dispatched(w) =>
           /\ journal[w].outcome # None
           /\ journal[w].outcome.sha = r
           /\ journal[w].outcome.succeeded = ok
  PROVE  RowInv(w)'
<1>1. Fences(w)' /\ Publication(w)' /\ Judgement(w)'
  BY PublishRow
<1> DEFINE s == Settled(ok)
<1>2. s \in {"awaiting_validation", "failed"} /\ s \in EventStates
  BY DEF Settled, EventStates, States
<1>3. RowInv(w) /\ fence[w] \in Nat /\ fence[w] >= fence[w]
  BY DEF StoreInv, TypeOK
<1>4. ~ Logged(events[w], s)
  BY <1>2, <1>3 DEF RowInv, Marks, Terminal
<1>5. /\ Trail(w)'
      /\ Bounded(events'[w], fence'[w])
      /\ \A q : Logged(events'[w], q) <=> Logged(events[w], q) \/ q = s
  BY <1>2, <1>3, <1>4, LogStep
<1> HIDE DEF s
<1>6. state'[w] = s
  BY DEF s
<1>7. Marks(w)'
  BY <1>2, <1>3, <1>5, <1>6 DEF RowInv, Marks, Terminal, Dispatched
<1> QED
  BY <1>1, <1>5, <1>7 DEF RowInv

\* An execution whose lease ran out is fenced off and becomes uncertain.
LEMMA LoseStep ==
  ASSUME StoreInv, NEW w \in Workflows, state[w] = "running",
         state'[w] = "uncertain", fence'[w] = fence[w] + 1,
         journal'[w] = journal[w], request'[w] = request[w],
         report'[w] = report[w], artifacts'[w] = artifacts[w],
         events'[w] = Log(w, "uncertain", fence[w] + 1)
  PROVE  RowInv(w)'
<1>1. RowInv(w) /\ fence[w] \in Nat
  BY DEF StoreInv, TypeOK
<1>2. ~ Logged(events[w], "uncertain")
  BY <1>1 DEF RowInv, Marks
<1>3. /\ Trail(w)'
      /\ Bounded(events'[w], fence'[w])
      /\ \A q : Logged(events'[w], q) <=> Logged(events[w], q) \/ q = "uncertain"
  <2>1. /\ "uncertain" \in EventStates
        /\ fence[w] + 1 \in Nat /\ fence[w] + 1 >= fence[w]
    BY <1>1, EventStateFacts
  <2> QED
    BY <1>2, <2>1, LogStep
<1>4. Fences(w)' /\ Publication(w)'
  BY <1>1 DEF RowInv, Fences, Publication, Dispatched
<1>5. Judgement(w)'
  BY <1>1 DEF RowInv, Judgement
<1>6. Marks(w)'
  BY <1>1, <1>3 DEF RowInv, Marks, Terminal, Dispatched
<1> QED
  BY <1>3, <1>4, <1>5, <1>6 DEF RowInv

\* Startup recovery of an expired execution with evidence: fenced off and
\* published in the same transaction, with both events.
LEMMA LoseAndPublishStep ==
  ASSUME StoreInv, NEW w \in Workflows, NEW r \in Results, NEW ok \in BOOLEAN,
         state[w] = "running",
         state'[w] = Settled(ok), fence'[w] = fence[w] + 1,
         journal'[w] = journal[w], request'[w] = request[w],
         report'[w] = report[w], artifacts'[w] = Append(artifacts[w], r),
         events'[w] = Append(Log(w, "uncertain", fence[w] + 1),
                             [state |-> Settled(ok), fence |-> fence[w] + 1]),
         Dispatched(w) =>
           /\ journal[w].outcome # None
           /\ journal[w].outcome.sha = r
           /\ journal[w].outcome.succeeded = ok
  PROVE  RowInv(w)'
<1>1. Fences(w)' /\ Publication(w)' /\ Judgement(w)'
  BY PublishRow
<1> DEFINE s == Settled(ok)
           f == fence[w] + 1
           log == Log(w, "uncertain", f)
<1>2. s \in {"awaiting_validation", "failed"} /\ s \in EventStates
  BY DEF Settled, EventStates, States
<1>3. /\ RowInv(w) /\ fence[w] \in Nat /\ f \in Nat
      /\ events[w] \in Seq(Event) /\ "uncertain" \in EventStates
  BY DEF StoreInv, TypeOK, EventStates, States
<1>4. /\ ~ Logged(events[w], "uncertain") /\ ~ Logged(events[w], s)
      /\ Ordered(events[w]) /\ Bounded(events[w], fence[w])
  BY <1>2, <1>3 DEF RowInv, Marks, Trail, Terminal
<1>5. Bounded(events[w], f)
  <2>1. ASSUME NEW i \in 1..Len(events[w])
        PROVE  events[w][i].fence \in Nat
    <3>1. events[w][i] \in Event
      BY <1>3
    <3> QED
      BY <3>1 DEF Event
  <2> QED
    BY <1>3, <1>4, <2>1 DEF Bounded
<1> DEFINE e == [state |-> "uncertain", fence |-> f]
           d == [state |-> s, fence |-> f]
<1>a. log = Append(events[w], e) /\ events'[w] = Append(log, d)
  BY DEF Log
<1>b. /\ e \in Event /\ e.state = "uncertain" /\ e.fence = f
      /\ d \in Event /\ d.state = s /\ d.fence = f
  BY <1>2, <1>3 DEF Event, EventStates
<1>c. state'[w] = s /\ fence'[w] = f
  OBVIOUS
<1> HIDE DEF s, f, log, d, e
<1>6. /\ log \in Seq(Event) /\ Ordered(log) /\ Bounded(log, f)
      /\ \A q : Logged(log, q) <=> Logged(events[w], q) \/ q = "uncertain"
  <2>1. Bounded(events[w], e.fence) /\ ~ Logged(events[w], e.state)
    BY <1>4, <1>5, <1>b
  <2>2. /\ Append(events[w], e) \in Seq(Event)
        /\ Ordered(Append(events[w], e))
        /\ Bounded(Append(events[w], e), e.fence)
        /\ \A q : Logged(Append(events[w], e), q) <=>
                   Logged(events[w], q) \/ q = e.state
    BY <1>3, <1>4, <1>b, <2>1, GrowLog
  <2> QED
    BY <1>a, <1>b, <2>2
<1>7. ~ Logged(log, s)
  BY <1>2, <1>4, <1>6
<1>10. /\ events'[w] # <<>>
       /\ events'[w][Len(events'[w])] = d
       /\ Ordered(events'[w])
       /\ Bounded(events'[w], f)
       /\ \A q : Logged(events'[w], q) <=> Logged(log, q) \/ q = s
  <2>1. Bounded(log, d.fence) /\ ~ Logged(log, d.state)
    BY <1>6, <1>7, <1>b
  <2>2. /\ Append(log, d) # <<>>
        /\ Append(log, d)[Len(Append(log, d))] = d
        /\ Ordered(Append(log, d))
        /\ Bounded(Append(log, d), d.fence)
        /\ \A q : Logged(Append(log, d), q) <=> Logged(log, q) \/ q = d.state
    BY <1>6, <1>b, <2>1, GrowLog
  <2> QED
    BY <1>a, <1>b, <2>2
<1>11. Trail(w)'
  BY <1>2, <1>b, <1>c, <1>10 DEF Trail
<1>12. Marks(w)'
  BY <1>2, <1>3, <1>6, <1>c, <1>10 DEF RowInv, Marks, Terminal, Dispatched
<1> QED
  BY <1>1, <1>11, <1>12 DEF RowInv

\* Every step preserves every row's invariant.
LEMMA RowStep == StoreInv /\ [Next]_vars => \A v \in Workflows : RowInv(v)'
<1> SUFFICES ASSUME StoreInv, [Next]_vars, NEW v \in Workflows
             PROVE  RowInv(v)'
  OBVIOUS
<1>0. /\ RowInv(v) /\ TypeOK /\ fence[v] \in Nat /\ state[v] \in States
      /\ journal[v] \in Dispatch
  BY DEF StoreInv, TypeOK
<1>1. ASSUME NEW w \in Workflows, NEW q \in Request, Create(w, q)
      PROVE  RowInv(v)'
  <2>1. CASE v # w
    BY <1>0, <1>1, <2>1, Frame DEF Create, TypeOK
  <2>2. CASE v = w
    <3>1. /\ state[v] = "absent" /\ state'[v] = "ready" /\ fence'[v] = fence[v]
          /\ fence[v] = 0 /\ journal'[v] = journal[v]
          /\ artifacts'[v] = artifacts[v] /\ report'[v] = report[v]
          /\ events'[v] = Log(v, "ready", fence[v]) /\ events[v] = <<>>
      BY <1>0, <1>1, <2>2 DEF Create, TypeOK, RowInv, Fences, Trail
    <3>2. ~ Logged(events[v], "ready")
      BY <3>1 DEF Logged
    <3>3. /\ Trail(v)'
          /\ Bounded(events'[v], fence'[v])
          /\ \A r : Logged(events'[v], r) <=> Logged(events[v], r) \/ r = "ready"
      <4>1. /\ "ready" \in EventStates
            /\ fence[v] \in Nat /\ fence[v] >= fence[v]
        BY <1>0, EventStateFacts
      <4> QED
        BY <3>1, <3>2, <4>1, LogStep
    <3>4. Fences(v)' /\ Publication(v)'
      BY <1>0, <3>1 DEF RowInv, Fences, Publication, Dispatched
    <3>5. Judgement(v)'
      BY <1>0, <3>1 DEF RowInv, Judgement
    <3>6. Marks(v)'
      BY <1>0, <3>1, <3>3 DEF RowInv, Marks, Terminal, Dispatched
    <3> QED
      BY <3>3, <3>4, <3>5, <3>6 DEF RowInv
  <2> QED
    BY <2>1, <2>2
<1>2. ASSUME NEW w \in Workflows, NEW o \in Owners, NEW d \in LeaseTimes,
             Claim(w, o, d)
      PROVE  RowInv(v)'
  <2>1. CASE v # w
    BY <1>0, <1>2, <2>1, Frame DEF Claim, TypeOK
  <2>2. CASE v = w
    <3>1. /\ state[v] = "ready" /\ state'[v] = "running" /\ fence'[v] = fence[v] + 1
          /\ journal'[v] = journal[v] /\ request'[v] = request[v]
          /\ artifacts'[v] = artifacts[v] /\ report'[v] = report[v]
          /\ events'[v] = Log(v, "running", fence[v] + 1)
      BY <1>0, <1>2, <2>2 DEF Claim, TypeOK
    <3>2. ~ Logged(events[v], "running")
      BY <1>0, <3>1 DEF RowInv, Marks
    <3>3. /\ Trail(v)'
          /\ Bounded(events'[v], fence'[v])
          /\ \A r : Logged(events'[v], r) <=> Logged(events[v], r) \/ r = "running"
      <4>1. /\ "running" \in EventStates
            /\ fence[v] + 1 \in Nat /\ fence[v] + 1 >= fence[v]
        BY <1>0, EventStateFacts
      <4> QED
        BY <3>1, <3>2, <4>1, LogStep
    <3>4. Fences(v)' /\ Publication(v)'
      BY <1>0, <3>1 DEF RowInv, Fences, Publication, Dispatched
    <3>5. Judgement(v)'
      BY <1>0, <3>1 DEF RowInv, Judgement
    <3>6. Marks(v)'
      BY <1>0, <3>1, <3>3 DEF RowInv, Marks, Terminal, Dispatched
    <3> QED
      BY <3>3, <3>4, <3>5, <3>6 DEF RowInv
  <2> QED
    BY <2>1, <2>2
<1>3. ASSUME NEW w \in Workflows, NEW o \in Owners, NEW f \in 0..fence[w],
             BeginDispatch(w, o, f)
      PROVE  RowInv(v)'
  <2>1. CASE v # w
    BY <1>0, <1>3, <2>1, Frame DEF BeginDispatch, TypeOK
  <2>2. CASE v = w
    <3>1. /\ state[v] = "running" /\ state'[v] = state[v] /\ fence'[v] = fence[v]
          /\ ~ Dispatched(v) /\ request'[v] = request[v]
          /\ journal'[v] = [fence |-> fence[v], outcome |-> None]
          /\ artifacts'[v] = artifacts[v] /\ report'[v] = report[v]
          /\ events'[v] = Log(v, "dispatch_started", fence[v])
      BY <1>0, <1>3, <2>2 DEF BeginDispatch, RequireLease, TypeOK
    <3>2. ~ Logged(events[v], "dispatch_started")
      BY <1>0, <3>1 DEF RowInv, Marks
    <3>3. /\ Trail(v)'
          /\ Bounded(events'[v], fence'[v])
          /\ \A r : Logged(events'[v], r) <=>
                   Logged(events[v], r) \/ r = "dispatch_started"
      <4>1. /\ "dispatch_started" \in EventStates
            /\ fence[v] \in Nat /\ fence[v] >= fence[v]
        BY <1>0, EventStateFacts
      <4> QED
        BY <3>1, <3>2, <4>1, LogStep
    <3>4. Fences(v)' /\ Publication(v)'
      BY <1>0, <3>1 DEF RowInv, Fences, Publication, Dispatched
    <3>5. Judgement(v)'
      BY <1>0, <3>1 DEF RowInv, Judgement
    <3>6. Marks(v)'
      BY <1>0, <3>1, <3>3, <3>4 DEF RowInv, Marks, Terminal, Dispatched, Fences
    <3> QED
      BY <3>3, <3>4, <3>5, <3>6 DEF RowInv
  <2> QED
    BY <2>1, <2>2
<1>4. ASSUME NEW w \in Workflows, NEW o \in Owners, NEW f \in 0..fence[w],
             NEW r \in Results, NEW ok \in BOOLEAN, RecordOutcome(w, o, f, r, ok)
      PROVE  RowInv(v)'
  <2>1. CASE v # w
    BY <1>0, <1>4, <2>1, Frame DEF RecordOutcome, TypeOK
  <2>2. CASE v = w
    <3>1. /\ state[v] = "running" /\ state'[v] = state[v] /\ fence'[v] = fence[v]
          /\ Dispatched(v) /\ journal[v].outcome = None
          /\ request'[v] = request[v]
          /\ artifacts'[v] = artifacts[v] /\ report'[v] = report[v]
          /\ events'[v] = Log(v, "outcome_recorded", fence[v])
      BY <1>0, <1>4, <2>2 DEF RecordOutcome, RequireLease, TypeOK
    <3>2. /\ journal'[v].fence = journal[v].fence
          /\ journal'[v].outcome \in Outcome
      BY <1>0, <1>4, <2>2 DEF RecordOutcome, TypeOK, Dispatch, Outcome
    <3>3. journal'[v].outcome # None
      BY <3>2, NoneAssumption DEF Outcome
    <3>4. ~ Logged(events[v], "outcome_recorded")
      BY <1>0, <3>1 DEF RowInv, Marks
    <3>5. /\ Trail(v)'
          /\ Bounded(events'[v], fence'[v])
          /\ \A s : Logged(events'[v], s) <=>
                   Logged(events[v], s) \/ s = "outcome_recorded"
      <4>1. /\ "outcome_recorded" \in EventStates
            /\ fence[v] \in Nat /\ fence[v] >= fence[v]
        BY <1>0, EventStateFacts
      <4> QED
        BY <3>1, <3>4, <4>1, LogStep
    <3>6. Fences(v)' /\ Publication(v)'
      BY <1>0, <3>1, <3>2, <3>3 DEF RowInv, Fences, Publication, Dispatched
    <3>7. Judgement(v)'
      BY <1>0, <3>1 DEF RowInv, Judgement
    <3>8. Marks(v)'
      BY <1>0, <3>1, <3>2, <3>3, <3>5 DEF RowInv, Marks, Terminal, Dispatched
    <3> QED
      BY <3>5, <3>6, <3>7, <3>8 DEF RowInv
  <2> QED
    BY <2>1, <2>2
<1>5. ASSUME NEW w \in Workflows, NEW o \in Owners, NEW f \in 0..fence[w],
             NEW r \in Results, NEW ok \in BOOLEAN, Complete(w, o, f, r, ok)
      PROVE  RowInv(v)'
  <2>1. CASE v # w
    BY <1>0, <1>5, <2>1, Frame DEF Complete, CommitResult, TypeOK
  <2>2. CASE v = w
    <3>1. /\ state[v] = "running" /\ fence[v] = f
          /\ state'[v] = Settled(ok) /\ fence'[v] = fence[v]
          /\ journal'[v] = journal[v] /\ request'[v] = request[v]
          /\ report'[v] = report[v] /\ artifacts'[v] = Append(artifacts[v], r)
          /\ events'[v] = Log(v, Settled(ok), fence[v])
      BY <1>0, <1>5, <2>2 DEF Complete, CommitResult, RequireLease, TypeOK
    <3>2. Dispatched(v) =>
            journal[v].outcome = [result |-> r, sha |-> r, succeeded |-> ok]
      BY <1>5, <2>2 DEF Complete
    <3>3. [result |-> r, sha |-> r, succeeded |-> ok] # None
      BY NoneAssumption
    <3> QED
      BY <3>1, <3>2, <3>3, CommitStep
  <2> QED
    BY <2>1, <2>2
<1>6. ASSUME NEW w \in Workflows, ReconcileUncertain(w)
      PROVE  RowInv(v)'
  <2>1. CASE v # w
    BY <1>0, <1>6, <2>1, Frame DEF ReconcileUncertain, CommitResult, TypeOK
  <2>2. CASE v = w
    <3> DEFINE r == journal[v].outcome.result
               ok == journal[v].outcome.succeeded
    <3>1. /\ state[v] = "uncertain"
          /\ state'[v] = Settled(ok) /\ fence'[v] = fence[v]
          /\ journal'[v] = journal[v] /\ request'[v] = request[v]
          /\ report'[v] = report[v] /\ artifacts'[v] = Append(artifacts[v], r)
          /\ events'[v] = Log(v, Settled(ok), fence[v])
      BY <1>0, <1>6, <2>2 DEF ReconcileUncertain, CommitResult, TypeOK
    <3>2. journal[v].outcome # None /\ journal[v].outcome.sha = r
      BY <1>6, <2>2 DEF ReconcileUncertain, Evidence
    <3>3. r \in Results /\ ok \in BOOLEAN
      BY <1>0, <3>2 DEF Dispatch, Outcome
    <3> HIDE DEF r
    <3> QED
      BY <3>1, <3>2, <3>3, CommitStep
  <2> QED
    BY <2>1, <2>2
<1>7. ASSUME NEW w \in Workflows, NEW p \in Policies \cup {None}, Validate(w, p)
      PROVE  RowInv(v)'
  <2>1. CASE v # w
    BY <1>0, <1>7, <2>1, Frame DEF Validate, TypeOK
  <2>2. CASE v = w
    <3> DEFINE policy == JudgingPolicy(v, p)
               id == Len(artifacts[v])
               accepted == <<policy, artifacts[v][id]>> \in Accepts
               verdict == IF accepted THEN "succeeded" ELSE "rejected"
    <3>1. /\ state[v] = "awaiting_validation" /\ policy # None
          /\ state'[v] = verdict /\ fence'[v] = fence[v]
          /\ journal'[v] = journal[v] /\ request'[v] = request[v]
          /\ artifacts'[v] = artifacts[v]
          /\ report'[v] = [policy |-> policy, artifact |-> id, accepted |-> accepted]
          /\ events'[v] = Log(v, verdict, fence[v])
      BY <1>0, <1>7, <2>2 DEF Validate, TypeOK
    <3>2. id = 1
      <4>1. artifacts[v] \in Seq(Results) /\ artifacts[v] # <<>>
        BY <1>0, <3>1 DEF RowInv, Publication, TypeOK
      <4>2. Len(artifacts[v]) <= 1
        BY <1>0 DEF RowInv, Publication
      <4>3. Len(artifacts[v]) \in Nat /\ Len(artifacts[v]) # 0
        BY <4>1, EmptySeq
      <4>4. \A n \in Nat : n # 0 /\ n <= 1 => n = 1
        OBVIOUS
      <4> QED
        BY <4>2, <4>3, <4>4, Zenon
    <3>3. request[v].policy \in {None, policy}
      BY DEF JudgingPolicy
    <3>4. /\ report'[v] # NoReport /\ report'[v].artifact = Len(artifacts'[v])
          /\ report'[v].policy = policy /\ report'[v].accepted = accepted
      BY <3>1 DEF NoReport
    <3>5. verdict \in {"succeeded", "rejected"} /\ (verdict = "succeeded" <=> accepted)
      OBVIOUS
    <3>6. Judgement(v)'
      BY <3>1, <3>2, <3>3, <3>4, <3>5 DEF Judgement
    <3> HIDE DEF policy, id, accepted, verdict
    <3>7. ~ Logged(events[v], verdict)
      BY <1>0, <3>1, <3>5 DEF RowInv, Marks, Terminal
    <3>8. verdict \in EventStates /\ fence[v] >= fence[v]
      BY <1>0, <3>5 DEF EventStates, States
    <3>9. /\ Trail(v)'
          /\ Bounded(events'[v], fence'[v])
          /\ \A r : Logged(events'[v], r) <=> Logged(events[v], r) \/ r = verdict
      BY <1>0, <3>1, <3>7, <3>8, LogStep
    <3>10. Fences(v)'
      BY <1>0, <3>1, <3>5 DEF RowInv, Fences, Dispatched
    <3>11. Publication(v)'
      BY <1>0, <3>1, <3>5 DEF RowInv, Publication, Dispatched
    <3>12. Marks(v)'
      BY <1>0, <3>1, <3>5, <3>9 DEF RowInv, Marks, Terminal, Dispatched
    <3> QED
      BY <3>6, <3>9, <3>10, <3>11, <3>12 DEF RowInv
  <2> QED
    BY <2>1, <2>2
<1>8. ASSUME NEW w \in Workflows, Cancel(w)
      PROVE  RowInv(v)'
  <2>1. CASE v # w
    BY <1>0, <1>8, <2>1, Frame DEF Cancel, TypeOK
  <2>2. CASE v = w
    <3>1. /\ state[v] \in {"ready", "running", "awaiting_validation"}
          /\ state'[v] = "cancelled" /\ fence'[v] = fence[v] + 1
          /\ journal'[v] = journal[v] /\ request'[v] = request[v]
          /\ artifacts'[v] = artifacts[v] /\ report'[v] = report[v]
          /\ events'[v] = Log(v, "cancelled", fence[v] + 1)
      BY <1>0, <1>8, <2>2 DEF Cancel, TypeOK
    <3>2. ~ Logged(events[v], "cancelled")
      BY <1>0, <3>1 DEF RowInv, Marks, Terminal
    <3>3. /\ Trail(v)'
          /\ Bounded(events'[v], fence'[v])
          /\ \A r : Logged(events'[v], r) <=> Logged(events[v], r) \/ r = "cancelled"
      <4>1. /\ "cancelled" \in EventStates
            /\ fence[v] + 1 \in Nat /\ fence[v] + 1 >= fence[v]
        BY <1>0, EventStateFacts
      <4> QED
        BY <3>1, <3>2, <4>1, LogStep
    <3>4. Fences(v)'
      BY <1>0, <3>1 DEF RowInv, Fences, Dispatched
    <3>5. Publication(v)'
      BY <1>0, <3>1 DEF RowInv, Publication, Dispatched
    <3>6. Judgement(v)'
      BY <1>0, <3>1 DEF RowInv, Judgement
    <3>7. Marks(v)'
      BY <1>0, <3>1, <3>3 DEF RowInv, Marks, Terminal, Dispatched
    <3> QED
      BY <3>3, <3>4, <3>5, <3>6, <3>7 DEF RowInv
  <2> QED
    BY <2>1, <2>2
<1>9. ASSUME NEW w \in Workflows, Corrupt(w)
      PROVE  RowInv(v)'
  <2>1. CASE v # w
    BY <1>0, <1>9, <2>1, Frame DEF Corrupt, TypeOK
  <2>2. CASE v = w
    <3>1. /\ state'[v] = state[v] /\ fence'[v] = fence[v]
          /\ request'[v] = request[v] /\ artifacts'[v] = artifacts[v]
          /\ report'[v] = report[v] /\ events'[v] = events[v]
      BY <1>9, <2>2 DEF Corrupt
    <3>2. PICK r \in Results :
            journal' = [journal EXCEPT ![v].outcome.result = r]
      BY <1>9, <2>2 DEF Corrupt
    <3>3. journal[v].outcome \in Outcome
      BY <1>0, <1>9, <2>2 DEF Corrupt, Dispatch
    <3>4. /\ journal'[v].fence = journal[v].fence
          /\ journal'[v].outcome = [journal[v].outcome EXCEPT !.result = r]
      BY <1>0, <3>2 DEF TypeOK, Dispatch
    <3>5. /\ journal'[v].outcome \in Outcome
          /\ journal'[v].outcome.sha = journal[v].outcome.sha
          /\ journal'[v].outcome.succeeded = journal[v].outcome.succeeded
      BY <3>3, <3>4 DEF Outcome
    <3>6. journal'[v].outcome # None /\ journal[v].outcome # None
      BY <3>3, <3>5, NoneAssumption DEF Outcome
    <3>7. Fences(v)'
      BY <1>0, <3>1, <3>4, <3>6 DEF RowInv, Fences, Dispatched
    <3>8. Publication(v)'
      BY <1>0, <3>1, <3>4, <3>5, <3>6 DEF RowInv, Publication, Dispatched
    <3>9. Judgement(v)' /\ Trail(v)'
      BY <1>0, <3>1 DEF RowInv, Judgement, Trail
    <3>10. Marks(v)'
      BY <1>0, <3>1, <3>4, <3>6 DEF RowInv, Marks, Dispatched
    <3> QED
      BY <3>7, <3>8, <3>9, <3>10 DEF RowInv
  <2> QED
    BY <2>1, <2>2
<1>10. ASSUME NEW t \in Tenants, RecoverExpired(t)
       PROVE  RowInv(v)'
  <2>1. CASE Expired(v) /\ request[v].tenant = t
    <3>1. /\ state[v] = "running" /\ state'[v] = "uncertain"
          /\ fence'[v] = fence[v] + 1
          /\ events'[v] = Log(v, "uncertain", fence[v] + 1)
      BY <1>10, <2>1 DEF RecoverExpired, Expired
    <3> QED
      BY <1>10, <3>1, LoseStep DEF RecoverExpired
  <2>2. CASE ~ (Expired(v) /\ request[v].tenant = t)
    <3>1. /\ state'[v] = state[v] /\ fence'[v] = fence[v]
          /\ events'[v] = events[v]
      BY <1>10, <2>2 DEF RecoverExpired
    <3> QED
      BY <1>0, <1>10, <3>1, Frame DEF RecoverExpired
  <2> QED
    BY <2>1, <2>2
<1>11. CASE RecoverStartup
  <2>0. /\ journal' = journal /\ request' = request /\ report' = report
        /\ fence'[v] = RecoveredFence(v)
        /\ v \notin Reconciled => artifacts'[v] = artifacts[v]
        /\ v \notin Reconciled => events'[v] = LostLog(v)
    BY <1>11 DEF RecoverStartup
  <2>1. CASE v \notin Candidates
    <3>1. ~ Expired(v) /\ v \notin Reconciled
      BY <2>1 DEF Candidates, Reconciled
    <3>2. state'[v] = state[v]
      BY <1>11, <2>1, <3>1 DEF RecoverStartup
    <3> QED
      BY <1>0, <2>0, <3>1, <3>2, Frame DEF LostLog, RecoveredFence
  <2>2. CASE v \in Candidates \ Reconciled
    <3>1. state'[v] = "uncertain"
      BY <1>11, <2>2 DEF RecoverStartup
    <3>2. CASE Expired(v)
      BY <2>0, <2>2, <3>1, <3>2, LoseStep
        DEF LostLog, RecoveredFence, Expired
    <3>3. CASE ~ Expired(v)
      <4>1. state[v] = "uncertain"
        BY <2>2, <3>3 DEF Candidates
      <4> QED
        BY <1>0, <2>0, <2>2, <3>1, <3>3, <4>1, Frame DEF LostLog, RecoveredFence
    <3> QED
      BY <3>2, <3>3
  <2>3. CASE v \in Reconciled
    <3> DEFINE r == journal[v].outcome.result
               ok == journal[v].outcome.succeeded
    <3>1. /\ journal[v].outcome # None /\ journal[v].outcome.sha = r
          /\ v \in Candidates
      BY <2>3 DEF Reconciled, Evidence
    <3>2. r \in Results /\ ok \in BOOLEAN
      BY <1>0, <3>1 DEF Dispatch, Outcome
    <3>3. /\ state'[v] = Settled(ok)
          /\ artifacts'[v] = Append(artifacts[v], r)
          /\ events'[v] = Append(LostLog(v), [state |-> Settled(ok),
                                             fence |-> RecoveredFence(v)])
      BY <1>11, <2>3 DEF RecoverStartup
    <3> HIDE DEF r
    <3>4. CASE Expired(v)
      <4>1. /\ state[v] = "running" /\ RecoveredFence(v) = fence[v] + 1
            /\ LostLog(v) = Log(v, "uncertain", fence[v] + 1)
        BY <3>4 DEF Expired, RecoveredFence, LostLog
      <4> QED
        BY <2>0, <3>1, <3>2, <3>3, <4>1, LoseAndPublishStep
    <3>5. CASE ~ Expired(v)
      <4>1. /\ state[v] = "uncertain" /\ RecoveredFence(v) = fence[v]
            /\ LostLog(v) = events[v]
        BY <3>1, <3>5 DEF Candidates, RecoveredFence, LostLog
      <4>2. events'[v] = Log(v, Settled(ok), fence[v])
        BY <3>3, <4>1 DEF Log
      <4> QED
        BY <2>0, <3>1, <3>2, <3>3, <4>1, <4>2, CommitStep
    <3> QED
      BY <3>4, <3>5
  <2> QED
    BY <2>1, <2>2, <2>3
<1>12. CASE Tick
  BY <1>0, <1>12, Frame DEF Tick
<1>13. CASE UNCHANGED vars
  BY <1>0, <1>13, Frame DEF vars
<1> QED
  BY <1>1, <1>2, <1>3, <1>4, <1>5, <1>6, <1>7, <1>8, <1>9, <1>10, <1>11, <1>12,
     <1>13 DEF Next

\* The empty tables satisfy the invariant.
LEMMA StoreInit == Init => StoreInv
<1> SUFFICES ASSUME Init
             PROVE  StoreInv
  OBVIOUS
<1>1. TypeOK
  BY DEF Init, TypeOK, States, NoDispatch, Dispatch
<1>2. ASSUME NEW w \in Workflows
      PROVE  RowInv(w)
  <2>1. /\ state[w] = "absent" /\ fence[w] = 0 /\ journal[w] = NoDispatch
        /\ artifacts[w] = <<>> /\ report[w] = NoReport /\ events[w] = <<>>
    BY DEF Init
  <2>2. Fences(w)
    BY <2>1 DEF Fences, Dispatched, NoDispatch
  <2>3. Publication(w) /\ Judgement(w)
    BY <2>1 DEF Publication, Judgement
  <2>4. Trail(w) /\ Marks(w)
    BY <2>1 DEF Trail, Ordered, Marks, Bounded, Logged, Terminal
  <2> QED
    BY <2>2, <2>3, <2>4 DEF RowInv
<1> QED
  BY <1>1, <1>2 DEF StoreInv

\* The inductive invariant holds of every reachable state of the store.
THEOREM StoreInvariant == Spec => []StoreInv
<1>1. StoreInv /\ [Next]_vars => StoreInv'
  BY TypeStep, RowStep DEF StoreInv
<1> QED
  BY <1>1, StoreInit, PTL DEF Spec

\* Whatever completes, reconciles or recovers it, a task publishes one artifact
\* at most, and after a dispatch only the recorded outcome.
THEOREM PublicationCorrect == Spec => []PublishedOutcome
<1>1. StoreInv => PublishedOutcome
  BY DEF StoreInv, RowInv, PublishedOutcome
<1> QED
  BY <1>1, StoreInvariant, PTL

\* validate decides by the policy bound at creation, about the one artifact,
\* and its report and the row agree.
THEOREM JudgementCorrect == Spec => []JudgedByBoundPolicy
<1>1. StoreInv => JudgedByBoundPolicy
  BY DEF StoreInv, RowInv, JudgedByBoundPolicy
<1> QED
  BY <1>1, StoreInvariant, PTL

\* workflow_events is a faithful, ordered record of each row.
THEOREM AuditTrailCorrect == Spec => []AuditTrail
<1>1. StoreInv => AuditTrail
  BY DEF StoreInv, RowInv, AuditTrail
<1> QED
  BY <1>1, StoreInvariant, PTL

-----------------------------------------------------------------------------
(* What a step of the store may do to a row, and the action properties and *)
(* the refinement of TaskLifecycle that follow from it.                    *)

\* The three kinds of moves a transaction can make with a row.
Kept(w) ==
  /\ state'[w] = state[w]
  /\ fence'[w] = fence[w]
  /\ artifacts'[w] = artifacts[w]

Moved(w) ==
  /\ <<state[w], state'[w]>> \in
       {<<"absent", "ready">>, <<"ready", "running">>,
        <<"running", "uncertain">>, <<"ready", "cancelled">>,
        <<"running", "cancelled">>, <<"awaiting_validation", "cancelled">>,
        <<"awaiting_validation", "succeeded">>, <<"awaiting_validation", "rejected">>}
  /\ artifacts'[w] = artifacts[w]
  /\ fence'[w] >= fence[w]
  /\ state[w] = "running" => fence'[w] > fence[w]

Published(w) ==
  /\ state[w] \in {"running", "uncertain"}
  /\ state'[w] \in {"awaiting_validation", "failed"}
  /\ artifacts[w] = <<>>
  /\ \E r \in Results : artifacts'[w] = <<r>>
  /\ fence'[w] >= fence[w]
  /\ state[w] = "uncertain" =>
       /\ Evidence(w, fence[w])
       /\ artifacts'[w] = <<journal[w].outcome.sha>>

\* Every step keeps a row, moves it without publishing, or publishes its one
\* artifact; only recovery from evidence moves an uncertain row.
LEMMA Moves ==
  StoreInv /\ [Next]_vars =>
    \A v \in Workflows : Kept(v) \/ Moved(v) \/ Published(v)
<1> SUFFICES ASSUME StoreInv, [Next]_vars, NEW v \in Workflows
             PROVE  Kept(v) \/ Moved(v) \/ Published(v)
  OBVIOUS
<1>0. /\ RowInv(v) /\ TypeOK /\ fence[v] \in Nat /\ state[v] \in States
      /\ journal[v] \in Dispatch
  BY DEF StoreInv, TypeOK
<1>1. ASSUME NEW w \in Workflows, NEW q \in Request, Create(w, q)
      PROVE  Kept(v) \/ Moved(v)
  BY <1>0, <1>1 DEF Create, TypeOK, Kept, Moved
<1>2. ASSUME NEW w \in Workflows, NEW o \in Owners, NEW d \in LeaseTimes,
             Claim(w, o, d)
      PROVE  Kept(v) \/ Moved(v)
  BY <1>0, <1>2 DEF Claim, TypeOK, Kept, Moved
<1>3. ASSUME NEW w \in Workflows, NEW o \in Owners, NEW f \in 0..fence[w],
             BeginDispatch(w, o, f)
      PROVE  Kept(v)
  BY <1>3 DEF BeginDispatch, Kept
<1>4. ASSUME NEW w \in Workflows, NEW o \in Owners, NEW f \in 0..fence[w],
             NEW r \in Results, NEW ok \in BOOLEAN, RecordOutcome(w, o, f, r, ok)
      PROVE  Kept(v)
  BY <1>4 DEF RecordOutcome, Kept
<1>5. ASSUME NEW w \in Workflows, NEW f \in Nat, NEW r \in Results,
             NEW ok \in BOOLEAN, CommitResult(w, f, r, ok),
             \/ state[w] = "running"
             \/ /\ state[w] = "uncertain" /\ Evidence(w, fence[w])
                /\ r = journal[w].outcome.sha
      PROVE  Kept(v) \/ Published(v)
  <2>1. CASE v # w
    BY <1>0, <1>5, <2>1 DEF CommitResult, TypeOK, Kept
  <2>2. CASE v = w
    <3>1. /\ state'[v] = Settled(ok) /\ fence'[v] = fence[v]
          /\ artifacts'[v] = Append(artifacts[v], r)
      BY <1>0, <1>5, <2>2 DEF CommitResult, TypeOK
    <3>2. artifacts[v] = <<>>
      BY <1>0, <1>5, <2>2 DEF RowInv, Publication
    <3>3. artifacts'[v] = <<r>>
      BY <3>1, <3>2
    <3>4. Settled(ok) \in {"awaiting_validation", "failed"}
      BY DEF Settled
    <3> QED
      BY <1>0, <1>5, <2>2, <3>1, <3>2, <3>3, <3>4 DEF Published
  <2> QED
    BY <2>1, <2>2
<1>6. ASSUME NEW w \in Workflows, NEW o \in Owners, NEW f \in 0..fence[w],
             NEW r \in Results, NEW ok \in BOOLEAN, Complete(w, o, f, r, ok)
      PROVE  Kept(v) \/ Published(v)
  BY <1>0, <1>5, <1>6 DEF Complete, RequireLease, TypeOK
<1>7. ASSUME NEW w \in Workflows, ReconcileUncertain(w)
      PROVE  Kept(v) \/ Published(v)
  <2>1. /\ state[w] = "uncertain" /\ Evidence(w, fence[w]) /\ fence[w] \in Nat
        /\ journal[w].outcome.result = journal[w].outcome.sha
        /\ journal[w].outcome \in Outcome
    BY <1>0, <1>7 DEF ReconcileUncertain, Evidence, TypeOK, Dispatch
  <2> QED
    BY <1>5, <1>7, <2>1 DEF ReconcileUncertain, Outcome
<1>8. ASSUME NEW w \in Workflows, NEW p \in Policies \cup {None}, Validate(w, p)
      PROVE  Kept(v) \/ Moved(v)
  BY <1>0, <1>8 DEF Validate, TypeOK, Kept, Moved
<1>9. ASSUME NEW w \in Workflows, Cancel(w)
      PROVE  Kept(v) \/ Moved(v)
  BY <1>0, <1>9 DEF Cancel, TypeOK, Kept, Moved
<1>10. ASSUME NEW w \in Workflows, Corrupt(w)
       PROVE  Kept(v)
  BY <1>10 DEF Corrupt, Kept
<1>11. ASSUME NEW t \in Tenants, RecoverExpired(t)
       PROVE  Kept(v) \/ Moved(v)
  BY <1>0, <1>11 DEF RecoverExpired, Expired, Kept, Moved
<1>12. CASE RecoverStartup
  <2>1. fence'[v] = RecoveredFence(v) /\ fence'[v] >= fence[v]
    BY <1>0, <1>12 DEF RecoverStartup, RecoveredFence
  <2>2. CASE v \notin Candidates
    <3>1. /\ v \notin Reconciled /\ ~ Expired(v)
          /\ state'[v] = state[v] /\ artifacts'[v] = artifacts[v]
      BY <1>12, <2>2 DEF RecoverStartup, Reconciled, Candidates
    <3> QED
      BY <2>1, <3>1 DEF RecoveredFence, Kept
  <2>3. CASE v \in Candidates \ Reconciled
    <3>1. state'[v] = "uncertain" /\ artifacts'[v] = artifacts[v]
      BY <1>12, <2>3 DEF RecoverStartup
    <3>2. CASE Expired(v)
      BY <1>0, <2>1, <3>1, <3>2 DEF Expired, RecoveredFence, Moved
    <3>3. CASE ~ Expired(v)
      BY <2>1, <2>3, <3>1, <3>3 DEF Candidates, RecoveredFence, Kept
    <3> QED
      BY <3>2, <3>3
  <2>4. CASE v \in Reconciled
    <3>1. /\ Evidence(v, RecoveredFence(v)) /\ v \in Candidates
          /\ journal[v].outcome.result = journal[v].outcome.sha
          /\ journal[v].outcome \in Outcome
      BY <1>0, <2>4 DEF Reconciled, Evidence, Dispatch
    <3>2. /\ state'[v] = Settled(journal[v].outcome.succeeded)
          /\ artifacts'[v] = Append(artifacts[v], journal[v].outcome.result)
      BY <1>12, <2>4 DEF RecoverStartup
    <3>3. state[v] \in {"running", "uncertain"} /\ artifacts[v] = <<>>
      BY <1>0, <3>1 DEF Candidates, Expired, RowInv, Publication
    <3>4. /\ artifacts'[v] = <<journal[v].outcome.sha>>
          /\ journal[v].outcome.sha \in Results
      BY <3>1, <3>2, <3>3 DEF Outcome
    <3>5. state'[v] \in {"awaiting_validation", "failed"}
      BY <3>2 DEF Settled
    <3>6. state[v] = "uncertain" => Evidence(v, fence[v])
      BY <3>1 DEF RecoveredFence, Expired
    <3> QED
      BY <2>1, <3>3, <3>4, <3>5, <3>6 DEF Published
  <2> QED
    BY <2>2, <2>3, <2>4
<1>13. CASE Tick
  BY <1>13 DEF Tick, Kept
<1>14. CASE UNCHANGED vars
  BY <1>14 DEF vars, Kept
<1> QED
  BY <1>1, <1>2, <1>3, <1>4, <1>6, <1>7, <1>8, <1>9, <1>10, <1>11, <1>12, <1>13,
     <1>14 DEF Next

\* A running execution loses its task only by publishing under the fence it
\* holds or by being fenced off.
THEOREM FencingCorrect == Spec => LosersAreFenced
<1> DEFINE Losers(w) ==
      /\ fence'[w] >= fence[w]
      /\ (state[w] = "running" /\ state'[w] # "running") =>
           \/ fence'[w] > fence[w]
           \/ artifacts'[w] # artifacts[w]
<1>1. StoreInv /\ [Next]_vars => \A w \in Workflows : Losers(w)
  <2> SUFFICES ASSUME StoreInv, [Next]_vars, NEW w \in Workflows
               PROVE  Losers(w)
    OBVIOUS
  <2>1. Kept(w) \/ Moved(w) \/ Published(w)
    BY Moves
  <2>2. fence[w] \in Nat
    BY DEF StoreInv, TypeOK
  <2>3. CASE Kept(w)
    BY <2>2, <2>3 DEF Kept
  <2>4. CASE Moved(w)
    BY <2>4 DEF Moved
  <2>5. CASE Published(w)
    BY <2>5 DEF Published
  <2> QED
    BY <2>1, <2>3, <2>4, <2>5
<1> QED
  BY <1>1, StoreInvariant, PTL DEF Spec, LosersAreFenced

\* An uncertain task leaves that state only by publishing what its journal
\* proves.
THEOREM RecoveryCorrect == Spec => RecoveryNeedsEvidence
<1> DEFINE Recovers(w) ==
      (state[w] = "uncertain" /\ state'[w] # "uncertain") =>
        /\ Evidence(w, fence[w])
        /\ artifacts'[w] = <<journal[w].outcome.sha>>
<1>1. StoreInv /\ [Next]_vars => \A w \in Workflows : Recovers(w)
  <2> SUFFICES ASSUME StoreInv, [Next]_vars, NEW w \in Workflows
               PROVE  Recovers(w)
    OBVIOUS
  <2>1. Kept(w) \/ Moved(w) \/ Published(w)
    BY Moves
  <2> QED
    BY <2>1 DEF Kept, Moved, Published
<1> QED
  BY <1>1, StoreInvariant, PTL DEF Spec, RecoveryNeedsEvidence

\* An idempotency key never comes to name a second workflow of its tenant.
THEOREM KeysCorrect == Spec => []KeyNamesOneWorkflow
<1> DEFINE Quiet == /\ request' = request
                    /\ \A v \in Workflows : state[v] = "absent" => state'[v] = "absent"
<1>1. Init => KeyNamesOneWorkflow
  BY DEF Init, KeyNamesOneWorkflow
<1>2. StoreInv /\ KeyNamesOneWorkflow /\ [Next]_vars => KeyNamesOneWorkflow'
  <2> SUFFICES ASSUME StoreInv, KeyNamesOneWorkflow, [Next]_vars
               PROVE  KeyNamesOneWorkflow'
    OBVIOUS
  <2>1. TypeOK
    BY DEF StoreInv
  <2>2. ASSUME NEW w \in Workflows, NEW q \in Request, Create(w, q)
        PROVE  KeyNamesOneWorkflow'
    <3>1. ASSUME NEW v \in Workflows, v # w
          PROVE  state'[v] = state[v] /\ request'[v] = request[v]
      BY <2>1, <2>2, <3>1 DEF Create, TypeOK
    <3>2. request'[w] = q
      BY <2>1, <2>2 DEF Create, TypeOK
    <3>3. ASSUME NEW v \in Workflows, state[v] # "absent"
          PROVE  request[v].tenant # q.tenant \/ request[v].key # q.key
      BY <2>2, <3>3 DEF Create
    <3> QED
      BY <3>1, <3>2, <3>3 DEF KeyNamesOneWorkflow
  <2>3. CASE Quiet
    BY <2>3 DEF KeyNamesOneWorkflow
  <2>4. ASSUME NEW w \in Workflows, NEW o \in Owners, NEW d \in LeaseTimes,
               Claim(w, o, d)
        PROVE  Quiet
    BY <2>1, <2>4 DEF Claim, TypeOK
  <2>5. ASSUME NEW w \in Workflows, NEW o \in Owners, NEW f \in 0..fence[w],
               BeginDispatch(w, o, f)
        PROVE  Quiet
    BY <2>5 DEF BeginDispatch
  <2>6. ASSUME NEW w \in Workflows, NEW o \in Owners, NEW f \in 0..fence[w],
               NEW r \in Results, NEW ok \in BOOLEAN,
               RecordOutcome(w, o, f, r, ok) \/ Complete(w, o, f, r, ok)
        PROVE  Quiet
    BY <2>1, <2>6 DEF RecordOutcome, Complete, RequireLease, CommitResult, TypeOK
  <2>7. ASSUME NEW w \in Workflows,
               ReconcileUncertain(w) \/ Cancel(w) \/ Corrupt(w)
        PROVE  Quiet
    BY <2>1, <2>7 DEF ReconcileUncertain, CommitResult, Cancel, Corrupt, TypeOK
  <2>8. ASSUME NEW w \in Workflows, NEW p \in Policies \cup {None}, Validate(w, p)
        PROVE  Quiet
    BY <2>1, <2>8 DEF Validate, TypeOK
  <2>9. ASSUME NEW t \in Tenants, RecoverExpired(t)
        PROVE  Quiet
    BY <2>9 DEF RecoverExpired, Expired
  <2>10. CASE RecoverStartup
    <3>1. ASSUME NEW v \in Workflows, state[v] = "absent"
          PROVE  state'[v] = "absent"
      <4>1. v \notin Candidates /\ v \notin Reconciled
        BY <3>1 DEF Reconciled, Candidates, Expired
      <4> QED
        BY <2>10, <3>1, <4>1 DEF RecoverStartup
    <3>2. request' = request
      BY <2>10 DEF RecoverStartup
    <3> QED
      BY <2>3, <3>1, <3>2
  <2>11. CASE Tick
    BY <2>3, <2>11 DEF Tick
  <2>12. CASE UNCHANGED vars
    BY <2>3, <2>12 DEF vars
  <2> QED
    BY <2>2, <2>3, <2>4, <2>5, <2>6, <2>7, <2>8, <2>9, <2>10, <2>11,
       <2>12 DEF Next
<1> QED
  BY <1>1, <1>2, StoreInvariant, PTL DEF Spec

-----------------------------------------------------------------------------
\* A published row publishes its first artifact.
LEMMA HeadOfOne == \A r : <<r>> # <<>> /\ Head(<<r>>) = r
OBVIOUS

\* The store implements the lifecycle it promises: initial rows are absent
\* tasks, and every step of the store is a step of TaskLifecycle.
THEOREM LifecycleImplemented == Spec => LifecycleSpec
<1> DEFINE phase == [w \in Workflows |-> Phase(state[w])]
           published == [w \in Workflows |->
                           IF artifacts[w] = <<>> THEN None ELSE Head(artifacts[w])]
<1>1. Init => Lifecycle!Init
  BY DEF Init, Lifecycle!Init, Phase
<1>2. StoreInv /\ [Next]_vars => [Lifecycle!Next]_Lifecycle!lifecycle
  <2> SUFFICES ASSUME StoreInv, [Next]_vars, NEW w \in Workflows
               PROVE  Lifecycle!Stay(w) \/ Lifecycle!Step(w)
    BY DEF Lifecycle!Next
  <2>1. Kept(w) \/ Moved(w) \/ Published(w)
    BY Moves
  <2>2. CASE Kept(w)
    BY <2>2 DEF Kept, Lifecycle!Stay
  <2>3. CASE Moved(w)
    <3>1. published'[w] = published[w]
      BY <2>3 DEF Moved
    <3>2. /\ phase[w] = Phase(state[w])
          /\ phase'[w] = Phase(state'[w])
      OBVIOUS
    <3> HIDE DEF phase, published
    <3>3. \/ phase[w] = "absent" /\ phase'[w] = "pending"
          \/ phase[w] = "pending" /\ phase'[w] = "executing"
          \/ phase[w] = "executing" /\ phase'[w] = "lost"
          \/ /\ phase[w] = "produced"
             /\ phase'[w] \in {"accepted", "rejected"}
          \/ /\ phase[w] \in {"pending", "executing", "produced"}
             /\ phase'[w] = "withdrawn"
      BY <2>3, <3>2 DEF Moved, Phase
    <3> QED
      BY <3>1, <3>3 DEF phase, published, Lifecycle!Step, Lifecycle!Submit,
         Lifecycle!Start, Lifecycle!Lose, Lifecycle!Judge, Lifecycle!Withdraw,
         Lifecycle!Move
  <2>4. CASE Published(w)
    <3>1. PICK r \in Results : artifacts'[w] = <<r>>
      BY <2>4 DEF Published
    <3>2. published[w] = None /\ published'[w] = r
      BY <2>4, <3>1, HeadOfOne DEF Published
    <3>3. /\ phase[w] \in {"executing", "lost"}
          /\ phase'[w] \in {"produced", "failed"}
      BY <2>4 DEF Published, Phase
    <3> QED
      BY <3>2, <3>3 DEF Lifecycle!Step, Lifecycle!Publish
  <2> QED
    BY <2>1, <2>2, <2>3, <2>4
<1> QED
  BY <1>1, <1>2, StoreInvariant, PTL DEF Spec, LifecycleSpec, Lifecycle!Spec

-----------------------------------------------------------------------------
(* WorkflowExecutor *)

Started(w) == state[w] \notin {"absent", "ready"}

Busy(x) == worker[x].at # "idle"

\* A worker holds the only claim its workflow ever hands out.
Alone(x) ==
  \A y \in Workers :
    Busy(y) /\ worker[y].workflow = worker[x].workflow => y = x

\* Its place in execute() tells how far the journal and the router call got.
Progress(x) ==
  LET w == worker[x].workflow
      at == worker[x].at
  IN /\ Started(w)
     /\ Dispatched(w) <=> at # "claimed"
     /\ at \in {"claimed", "dispatched"} => calls[w] = 0
     /\ at \in {"claimed", "dispatched", "awaiting"} => answers[w] = None
     /\ at \in {"claimed", "dispatched", "awaiting", "answered"} =>
          journal[w].outcome = None
     /\ at \in {"answered", "recorded"} => answers[w] # None

JobInv(x) == Busy(x) => Alone(x) /\ Progress(x)

\* The histories of a workflow against its journal row and its artifacts.
HistoryInv(w) ==
  /\ ~ Started(w) => calls[w] = 0 /\ answers[w] = None
  /\ calls[w] <= 1
  /\ calls[w] = 1 => Dispatched(w)
  /\ journal[w].outcome # None =>
       /\ answers[w] # None
       /\ journal[w].outcome.sha = answers[w].result
       /\ journal[w].outcome.succeeded = answers[w].succeeded
  /\ artifacts[w] # <<>> => Dispatched(w)

ExecInv ==
  /\ StoreInv
  /\ ExecTypeOK
  /\ \A x \in Workers : JobInv(x)
  /\ \A w \in Workflows : HistoryInv(w)

-----------------------------------------------------------------------------
\* Every step of the executors, and of everyone else, is a step of the store.
LEMMA ExecStepIsStoreStep ==
  ExecInv /\ [ExecNext]_allVars => [Next]_vars
<1> SUFFICES ASSUME ExecInv, [ExecNext]_allVars
             PROVE  [Next]_vars
  OBVIOUS
<1>0. ExecTypeOK /\ \A x \in Workers : JobInv(x)
  BY DEF ExecInv
<1>1. ASSUME NEW x \in Workers, Busy(x)
      PROVE  /\ worker[x].workflow \in Workflows /\ worker[x].owner \in Owners
             /\ \A f : fence[worker[x].workflow] = f => f \in 0..f
  BY <1>0, <1>1 DEF ExecTypeOK, TypeOK, Idle, Busy
<1>2. ASSUME NEW x \in Workers, NEW w \in Workflows, NEW o \in Owners,
             NEW d \in LeaseTimes, ExecClaim(x, w, o, d)
      PROVE  Next
  BY <1>2 DEF ExecClaim, Next
<1>3. ASSUME NEW x \in Workers, ExecBeginDispatch(x)
      PROVE  Next
  <2>1. /\ Busy(x)
        /\ BeginDispatch(worker[x].workflow, worker[x].owner, worker[x].fence)
        /\ fence[worker[x].workflow] = worker[x].fence
    BY <1>3 DEF ExecBeginDispatch, BeginDispatch, RequireLease, Busy
  <2> QED
    BY <1>1, <2>1 DEF Next
<1>4. ASSUME NEW x \in Workers, worker[x].at \in {"answered", "recorded"}
      PROVE  /\ Busy(x)
             /\ Answer(x).result \in Results /\ Answer(x).succeeded \in BOOLEAN
  <2>1. Busy(x)
    BY <1>4 DEF Busy
  <2>2. Answer(x) # None
    BY <1>0, <1>4, <2>1 DEF JobInv, Progress, Answer
  <2> QED
    BY <1>0, <1>1, <2>1, <2>2 DEF ExecTypeOK, Answer
<1>5. ASSUME NEW x \in Workers, ExecRecordOutcome(x)
      PROVE  Next
  <2> DEFINE j == worker[x]
  <2>1. /\ j.at = "answered"
        /\ RecordOutcome(j.workflow, j.owner, j.fence,
                         Answer(x).result, Answer(x).succeeded)
        /\ fence[j.workflow] = j.fence
    BY <1>5 DEF ExecRecordOutcome, RecordOutcome, RequireLease
  <2> QED
    BY <1>1, <1>4, <2>1 DEF Next
<1>6. ASSUME NEW x \in Workers, ExecComplete(x)
      PROVE  Next
  <2> DEFINE j == worker[x]
  <2>1. /\ j.at = "recorded"
        /\ Complete(j.workflow, j.owner, j.fence,
                    Answer(x).result, Answer(x).succeeded)
        /\ fence[j.workflow] = j.fence
    BY <1>6 DEF ExecComplete, Complete, RequireLease
  <2> QED
    BY <1>1, <1>4, <2>1 DEF Next
<1>7. ASSUME NEW x \in Workers,
             \/ ExecCallRouter(x) \/ ExecAbandon(x)
             \/ \E r \in Results, ok \in BOOLEAN : ExecAnswered(x, r, ok)
      PROVE  UNCHANGED vars
  BY <1>7 DEF ExecCallRouter, ExecAbandon, ExecAnswered
<1>8. CASE Elsewhere
  BY <1>8 DEF Elsewhere, Next
<1>9. CASE UNCHANGED allVars
  BY <1>9 DEF allVars, vars
<1> QED
  BY <1>2, <1>3, <1>5, <1>6, <1>7, <1>8, <1>9 DEF ExecNext, WorkerStep

\* Places of execute() where a worker holds a claim.
Places == {"claimed", "dispatched", "awaiting", "answered", "recorded"}

\* Every step keeps the workers' local state and the histories well typed.
LEMMA ExecTypeStep == ExecInv /\ [ExecNext]_allVars => ExecTypeOK'
<1> SUFFICES ASSUME ExecInv, [ExecNext]_allVars
             PROVE  ExecTypeOK'
  OBVIOUS
<1>0. ExecTypeOK
  BY DEF ExecInv
<1>1. TypeOK'
  BY ExecStepIsStoreStep, TypeStep DEF ExecInv, StoreInv
<1> DEFINE Jobs == [at : Places, workflow : Workflows, owner : Owners, fence : Nat]
           Answers == [result : Results, succeeded : BOOLEAN] \cup {None}
<1>2. /\ worker \in [Workers -> {Idle} \cup Jobs]
      /\ calls \in [Workflows -> Nat]
      /\ answers \in [Workflows -> Answers]
  BY <1>0 DEF ExecTypeOK, Places
<1>3. SUFFICES /\ worker' \in [Workers -> {Idle} \cup Jobs]
               /\ calls' \in [Workflows -> Nat]
               /\ answers' \in [Workflows -> Answers]
  BY <1>1 DEF ExecTypeOK, Places
<1>4. ASSUME NEW x \in Workers, worker[x].at \in Places
      PROVE  /\ worker[x] \in Jobs
             /\ \A at \in Places : [worker[x] EXCEPT !.at = at] \in Jobs
  BY <1>2, <1>4 DEF Idle, Places
<1>5. ASSUME NEW x \in Workers, NEW w \in Workflows, NEW o \in Owners,
             NEW d \in LeaseTimes, ExecClaim(x, w, o, d)
      PROVE  /\ worker' \in [Workers -> {Idle} \cup Jobs]
             /\ UNCHANGED <<calls, answers>>
  <2>1. Job("claimed", w, o, fence'[w]) \in Jobs
    BY <1>1 DEF Job, Places, TypeOK
  <2> QED
    BY <1>2, <1>5, <2>1 DEF ExecClaim
<1>6. ASSUME NEW x \in Workers, NEW at \in Places, worker[x].at \in Places, GoTo(x, at)
      PROVE  worker' \in [Workers -> {Idle} \cup Jobs]
  <2>1. [worker[x] EXCEPT !.at = at] \in Jobs
    BY <1>4, <1>6
  <2> HIDE DEF Jobs
  <2> QED
    BY <1>2, <1>6, <2>1 DEF GoTo
<1>7. ASSUME NEW x \in Workers, GiveUp(x)
      PROVE  worker' \in [Workers -> {Idle} \cup Jobs]
  BY <1>2, <1>7 DEF GiveUp
<1>8. ASSUME NEW x \in Workers, ExecBeginDispatch(x) \/ ExecRecordOutcome(x)
      PROVE  /\ worker' \in [Workers -> {Idle} \cup Jobs]
             /\ UNCHANGED <<calls, answers>>
  <2> HIDE DEF Jobs
  <2> QED
    BY <1>6, <1>8 DEF ExecBeginDispatch, ExecRecordOutcome, Places
<1>9. ASSUME NEW x \in Workers, ExecCallRouter(x)
      PROVE  /\ worker' \in [Workers -> {Idle} \cup Jobs]
             /\ calls' \in [Workflows -> Nat] /\ UNCHANGED answers
  <2>1. worker' \in [Workers -> {Idle} \cup Jobs]
    BY <1>6, <1>9 DEF ExecCallRouter, Places
  <2>2. worker[x].workflow \in Workflows
    BY <1>4, <1>9 DEF ExecCallRouter, Places
  <2> QED
    BY <1>2, <1>9, <2>1, <2>2 DEF ExecCallRouter
<1>10. ASSUME NEW x \in Workers, NEW r \in Results, NEW ok \in BOOLEAN,
              ExecAnswered(x, r, ok)
       PROVE  /\ worker' \in [Workers -> {Idle} \cup Jobs]
              /\ answers' \in [Workflows -> Answers] /\ UNCHANGED calls
  <2>1. worker' \in [Workers -> {Idle} \cup Jobs]
    BY <1>6, <1>10 DEF ExecAnswered, Places
  <2>2. [result |-> r, succeeded |-> ok] \in Answers
    OBVIOUS
  <2> QED
    BY <1>2, <1>10, <2>1, <2>2 DEF ExecAnswered
<1>11. ASSUME NEW x \in Workers, ExecComplete(x) \/ ExecAbandon(x)
       PROVE  /\ worker' \in [Workers -> {Idle} \cup Jobs]
              /\ UNCHANGED <<calls, answers>>
  <2> HIDE DEF Jobs
  <2> QED
    BY <1>7, <1>11 DEF ExecComplete, ExecAbandon
<1>12. CASE Elsewhere \/ UNCHANGED allVars
  BY <1>2, <1>12 DEF Elsewhere, allVars, execVars
<1> HIDE DEF Jobs, Answers
<1> QED
  BY <1>2, <1>5, <1>8, <1>9, <1>10, <1>11, <1>12 DEF ExecNext, WorkerStep

-----------------------------------------------------------------------------
\* What a step of somebody else leaves alone: the dispatch row but for the
\* stored payload, and the artifacts unless the dispatch row proves one.
Untouched(w) ==
  /\ journal'[w].fence = journal[w].fence
  /\ journal'[w].outcome = None <=> journal[w].outcome = None
  /\ journal[w].outcome # None =>
       /\ journal'[w].outcome.sha = journal[w].outcome.sha
       /\ journal'[w].outcome.succeeded = journal[w].outcome.succeeded
  /\ Started(w) => Started(w)'
  /\ artifacts'[w] # <<>> => artifacts[w] # <<>> \/ Dispatched(w)

\* Creation, cancellation, validation, recovery, time and disk damage touch no
\* dispatch row in a way a worker could notice.
LEMMA Bystander ==
  ASSUME StoreInv, Elsewhere, NEW v \in Workflows
  PROVE  Untouched(v)
<1>0. TypeOK /\ RowInv(v) /\ journal[v] \in Dispatch
  BY DEF StoreInv, TypeOK
<1>1. ASSUME NEW w \in Workflows, NEW q \in Request, Create(w, q)
      PROVE  Untouched(v)
  BY <1>0, <1>1 DEF Create, TypeOK, Untouched, Started
<1>2. ASSUME NEW w \in Workflows, ReconcileUncertain(w)
      PROVE  Untouched(v)
  <2>1. Settled(journal[w].outcome.succeeded) \notin {"absent", "ready"}
    BY DEF Settled
  <2> QED
    BY <1>0, <1>2, <2>1
      DEF ReconcileUncertain, CommitResult, Evidence, TypeOK, Untouched, Started
<1>3. ASSUME NEW w \in Workflows, NEW p \in Policies \cup {None}, Validate(w, p)
      PROVE  Untouched(v)
  BY <1>0, <1>3 DEF Validate, TypeOK, Untouched, Started
<1>4. ASSUME NEW w \in Workflows, Cancel(w)
      PROVE  Untouched(v)
  BY <1>0, <1>4 DEF Cancel, TypeOK, Untouched, Started
<1>5. ASSUME NEW w \in Workflows, Corrupt(w)
      PROVE  Untouched(v)
  <2>1. CASE v # w
    BY <1>0, <1>5, <2>1 DEF Corrupt, TypeOK, Untouched, Started
  <2>2. CASE v = w
    <3>1. PICK r \in Results :
            journal' = [journal EXCEPT ![v].outcome.result = r]
      BY <1>5, <2>2 DEF Corrupt
    <3>2. journal[v].outcome \in Outcome
      BY <1>0, <1>5, <2>2 DEF Corrupt, Dispatch
    <3>3. /\ journal'[v].fence = journal[v].fence
          /\ journal'[v].outcome = [journal[v].outcome EXCEPT !.result = r]
      BY <1>0, <3>1 DEF TypeOK, Dispatch
    <3>4. /\ journal'[v].outcome \in Outcome
          /\ journal'[v].outcome.sha = journal[v].outcome.sha
          /\ journal'[v].outcome.succeeded = journal[v].outcome.succeeded
      BY <3>2, <3>3 DEF Outcome
    <3>5. journal'[v].outcome # None /\ journal[v].outcome # None
      BY <3>2, <3>4, NoneAssumption DEF Outcome
    <3>6. state' = state /\ artifacts' = artifacts
      BY <1>5 DEF Corrupt
    <3> QED
      BY <3>3, <3>4, <3>5, <3>6 DEF Untouched, Started
  <2> QED
    BY <2>1, <2>2
<1>6. ASSUME NEW t \in Tenants, RecoverExpired(t)
      PROVE  Untouched(v)
  BY <1>6 DEF RecoverExpired, Untouched, Started
<1>7. CASE RecoverStartup
  <2>1. journal' = journal
    BY <1>7 DEF RecoverStartup
  <2>2. artifacts'[v] = artifacts[v] \/ v \in Reconciled
    BY <1>7 DEF RecoverStartup
  <2>3. v \in Reconciled => Dispatched(v)
    BY DEF Reconciled, Evidence
  <2>4. \/ state'[v] = Settled(journal[v].outcome.succeeded)
        \/ state'[v] = "uncertain"
        \/ state'[v] = state[v]
    BY <1>7 DEF RecoverStartup
  <2>5. Started(v) => Started(v)'
    BY <2>4 DEF Started, Settled
  <2> QED
    BY <2>1, <2>2, <2>3, <2>5 DEF Untouched
<1>8. CASE Tick
  BY <1>8 DEF Tick, Untouched, Started
<1> QED
  BY <1>1, <1>2, <1>3, <1>4, <1>5, <1>6, <1>7, <1>8 DEF Elsewhere

\* A step that leaves a workflow and its histories alone keeps HistoryInv.
LEMMA HistoryFrame ==
  ASSUME NEW w \in Workflows, HistoryInv(w), Untouched(w),
         calls'[w] = calls[w], answers'[w] = answers[w]
  PROVE  HistoryInv(w)'
BY DEF HistoryInv, Untouched, Dispatched

\* A worker's step concerns its own workflow only, so the invariant has to be
\* shown for that worker and that workflow.
LEMMA OwnStep ==
  ASSUME ExecInv, NEW x \in Workers, NEW w \in Workflows,
         ~ Started(w) \/ (Busy(x) /\ worker[x].workflow = w),
         Busy(x)' => worker'[x].workflow = w /\ Progress(x)',
         HistoryInv(w)',
         \A y \in Workers : y # x => worker'[y] = worker[y],
         \A v \in Workflows : v # w =>
           /\ state'[v] = state[v] /\ journal'[v] = journal[v]
           /\ artifacts'[v] = artifacts[v]
           /\ calls'[v] = calls[v] /\ answers'[v] = answers[v]
  PROVE  (\A y \in Workers : JobInv(y)') /\ (\A v \in Workflows : HistoryInv(v)')
<1>1. ASSUME NEW y \in Workers, y # x, Busy(y)
      PROVE  worker[y].workflow # w /\ worker[y].workflow \in Workflows
  <2>1. JobInv(x) /\ JobInv(y) /\ ExecTypeOK
    BY DEF ExecInv
  <2>2. worker[y].workflow # w
    BY <1>1, <2>1 DEF JobInv, Alone, Progress
  <2>3. worker[y].workflow \in Workflows
    BY <1>1, <2>1 DEF ExecTypeOK, Busy, Idle
  <2> QED
    BY <2>2, <2>3
<1>2. ASSUME NEW y \in Workers, Busy(y)'
      PROVE  Alone(y)'
  <2> SUFFICES ASSUME NEW z \in Workers, Busy(z)',
                      worker'[z].workflow = worker'[y].workflow
               PROVE  z = y
    BY DEF Alone
  <2>1. CASE y = x /\ z # x
    BY <1>1, <1>2, <2>1 DEF Busy
  <2>2. CASE y # x /\ z = x
    BY <1>1, <1>2, <2>2 DEF Busy
  <2>3. CASE y # x /\ z # x
    <3>1. /\ Busy(y) /\ Busy(z) /\ JobInv(y)
          /\ worker[z].workflow = worker[y].workflow
      BY <1>2, <2>3 DEF Busy, ExecInv
    <3> QED
      BY <3>1 DEF JobInv, Alone
  <2> QED
    BY <2>1, <2>2, <2>3
<1>3. ASSUME NEW y \in Workers, Busy(y)'
      PROVE  Progress(y)'
  <2>1. CASE y = x
    BY <1>3, <2>1
  <2>2. CASE y # x
    <3>1. Busy(y) /\ JobInv(y) /\ worker'[y] = worker[y]
      BY <1>3, <2>2 DEF Busy, ExecInv
    <3>2. worker[y].workflow # w /\ worker[y].workflow \in Workflows
      BY <1>1, <2>2, <3>1
    <3> QED
      BY <3>1, <3>2 DEF JobInv, Progress, Started, Dispatched
  <2> QED
    BY <2>1, <2>2
<1>4. ASSUME NEW v \in Workflows
      PROVE  HistoryInv(v)'
  <2>1. CASE v # w
    <3>1. HistoryInv(v)
      BY DEF ExecInv
    <3> QED
      BY <2>1, <3>1 DEF HistoryInv, Started, Dispatched
  <2> QED
    BY <2>1
<1> QED
  BY <1>2, <1>3, <1>4 DEF JobInv

\* Every step keeps each worker's and each workflow's part of the invariant.
LEMMA ExecStep ==
  ExecInv /\ [ExecNext]_allVars =>
    (\A y \in Workers : JobInv(y)') /\ (\A v \in Workflows : HistoryInv(v)')
<1> SUFFICES ASSUME ExecInv, [ExecNext]_allVars
             PROVE  (\A y \in Workers : JobInv(y)') /\ (\A v \in Workflows : HistoryInv(v)')
  OBVIOUS
<1>0. /\ StoreInv /\ ExecTypeOK /\ TypeOK
      /\ \A x \in Workers : JobInv(x)
      /\ \A w \in Workflows : HistoryInv(w) /\ RowInv(w) /\ journal[w] \in Dispatch
  BY DEF ExecInv, StoreInv, TypeOK
<1>1. ASSUME NEW x \in Workers, Busy(x)
      PROVE  worker[x].workflow \in Workflows /\ Progress(x)
  BY <1>0, <1>1 DEF ExecTypeOK, Busy, Idle, JobInv
<1>2. ASSUME NEW x \in Workers, NEW at, at # "idle", worker[x].at # "idle", GoTo(x, at)
      PROVE  /\ worker'[x].at = at /\ worker'[x].workflow = worker[x].workflow
             /\ \A y \in Workers : y # x => worker'[y] = worker[y]
  BY <1>0, <1>2 DEF GoTo, ExecTypeOK, Idle
<1>3. ASSUME NEW x \in Workers, GiveUp(x)
      PROVE  ~ Busy(x)' /\ \A y \in Workers : y # x => worker'[y] = worker[y]
  BY <1>0, <1>3 DEF GiveUp, ExecTypeOK, Idle, Busy
<1>4. ASSUME NEW x \in Workers, NEW w \in Workflows, NEW o \in Owners,
             NEW d \in LeaseTimes, ExecClaim(x, w, o, d)
      PROVE  (\A y \in Workers : JobInv(y)') /\ (\A v \in Workflows : HistoryInv(v)')
  <2>1. /\ state[w] = "ready" /\ state'[w] = "running"
        /\ journal' = journal /\ artifacts' = artifacts
        /\ calls' = calls /\ answers' = answers
        /\ worker'[x].workflow = w /\ worker'[x].at = "claimed"
        /\ \A y \in Workers : y # x => worker'[y] = worker[y]
        /\ \A v \in Workflows : v # w => state'[v] = state[v]
    BY <1>0, <1>4 DEF ExecClaim, Claim, ExecTypeOK, TypeOK, Job
  <2>2. /\ ~ Dispatched(w) /\ journal[w].outcome = None
        /\ calls[w] = 0 /\ answers[w] = None
    BY <1>0, <2>1 DEF RowInv, Fences, HistoryInv, Started
  <2>3. Progress(x)'
    BY <2>1, <2>2 DEF Progress, Started, Dispatched
  <2>4. HistoryInv(w)'
    BY <1>0, <2>1 DEF HistoryInv, Started, Dispatched
  <2> QED
    BY <2>1, <2>3, <2>4, OwnStep DEF Started
<1>5. ASSUME NEW x \in Workers, ExecBeginDispatch(x)
      PROVE  (\A y \in Workers : JobInv(y)') /\ (\A v \in Workflows : HistoryInv(v)')
  <2>1. worker[x].at = "claimed" /\ Busy(x)
    BY <1>5 DEF ExecBeginDispatch, Busy
  <2>w. PICK w \in Workflows : w = worker[x].workflow
    BY <1>1, <2>1
  <2>2. Progress(x) /\ HistoryInv(w) /\ RowInv(w)
    BY <2>w, <1>0, <1>1, <2>1
  <2>3. /\ worker'[x].at = "dispatched" /\ worker'[x].workflow = w
        /\ \A y \in Workers : y # x => worker'[y] = worker[y]
    BY <2>w, <1>2, <1>5, <2>1 DEF ExecBeginDispatch
  <2>4. /\ state[w] = "running" /\ fence[w] = worker[x].fence
        /\ journal'[w] = [fence |-> worker[x].fence, outcome |-> None]
        /\ \A v \in Workflows : v # w => journal'[v] = journal[v]
        /\ state' = state /\ artifacts' = artifacts
        /\ calls' = calls /\ answers' = answers
    BY <2>w, <1>0, <1>5, <2>2 DEF ExecBeginDispatch, BeginDispatch, RequireLease, TypeOK
  <2>5. Dispatched(w)' /\ journal'[w].outcome = None
    BY <2>w, <2>2, <2>4 DEF RowInv, Fences, Dispatched
  <2>6. calls[w] = 0 /\ answers[w] = None
    BY <2>w, <2>1, <2>2 DEF Progress
  <2>7. Progress(x)'
    BY <2>w, <2>3, <2>4, <2>5, <2>6 DEF Progress, Started
  <2>8. HistoryInv(w)'
    BY <2>w, <2>4, <2>5, <2>6 DEF HistoryInv, Started
  <2> QED
    BY <2>1, <2>2, <2>3, <2>4, <2>7, <2>8, <2>w, OwnStep
<1>6. ASSUME NEW x \in Workers, ExecCallRouter(x)
      PROVE  (\A y \in Workers : JobInv(y)') /\ (\A v \in Workflows : HistoryInv(v)')
  <2>1. worker[x].at = "dispatched" /\ Busy(x)
    BY <1>6 DEF ExecCallRouter, Busy
  <2>w. PICK w \in Workflows : w = worker[x].workflow
    BY <1>1, <2>1
  <2>2. Progress(x) /\ HistoryInv(w)
    BY <2>w, <1>0, <1>1, <2>1
  <2>3. /\ worker'[x].at = "awaiting" /\ worker'[x].workflow = w
        /\ \A y \in Workers : y # x => worker'[y] = worker[y]
    BY <2>w, <1>2, <1>6, <2>1 DEF ExecCallRouter
  <2>4. /\ Started(w) /\ Dispatched(w) /\ journal[w].outcome = None
        /\ calls[w] = 0 /\ answers[w] = None
    BY <2>w, <2>1, <2>2 DEF Progress
  <2>5. /\ state' = state /\ journal' = journal /\ artifacts' = artifacts
        /\ answers' = answers /\ calls'[w] = calls[w] + 1
        /\ \A v \in Workflows : v # w => calls'[v] = calls[v]
    BY <2>w, <1>0, <1>6, <2>2 DEF ExecCallRouter, ExecTypeOK, vars
  <2>6. Progress(x)'
    BY <2>w, <2>3, <2>4, <2>5 DEF Progress, Started, Dispatched
  <2>7. HistoryInv(w)'
    BY <2>w, <2>2, <2>4, <2>5 DEF HistoryInv, Started, Dispatched
  <2> QED
    BY <2>1, <2>2, <2>3, <2>5, <2>6, <2>7, <2>w, OwnStep
<1>7. ASSUME NEW x \in Workers, NEW r \in Results, NEW ok \in BOOLEAN,
             ExecAnswered(x, r, ok)
      PROVE  (\A y \in Workers : JobInv(y)') /\ (\A v \in Workflows : HistoryInv(v)')
  <2>1. worker[x].at = "awaiting" /\ Busy(x)
    BY <1>7 DEF ExecAnswered, Busy
  <2>w. PICK w \in Workflows : w = worker[x].workflow
    BY <1>1, <2>1
  <2>2. Progress(x) /\ HistoryInv(w)
    BY <2>w, <1>0, <1>1, <2>1
  <2>3. /\ worker'[x].at = "answered" /\ worker'[x].workflow = w
        /\ \A y \in Workers : y # x => worker'[y] = worker[y]
    BY <2>w, <1>2, <1>7, <2>1 DEF ExecAnswered
  <2>4. Started(w) /\ Dispatched(w) /\ journal[w].outcome = None
    BY <2>w, <2>1, <2>2 DEF Progress
  <2>5. /\ state' = state /\ journal' = journal /\ artifacts' = artifacts
        /\ calls' = calls /\ answers'[w] = [result |-> r, succeeded |-> ok]
        /\ \A v \in Workflows : v # w => answers'[v] = answers[v]
    BY <2>w, <1>0, <1>7, <2>2 DEF ExecAnswered, ExecTypeOK, vars
  <2>6. answers'[w] # None
    BY <2>5, AnswerAssumption
  <2>7. Progress(x)'
    BY <2>w, <2>3, <2>4, <2>5, <2>6 DEF Progress, Started, Dispatched
  <2>8. HistoryInv(w)'
    BY <2>w, <2>2, <2>4, <2>5 DEF HistoryInv, Started, Dispatched
  <2> QED
    BY <2>1, <2>2, <2>3, <2>5, <2>7, <2>8, <2>w, OwnStep
<1>8. ASSUME NEW x \in Workers, ExecRecordOutcome(x)
      PROVE  (\A y \in Workers : JobInv(y)') /\ (\A v \in Workflows : HistoryInv(v)')
  <2>1. worker[x].at = "answered" /\ Busy(x)
    BY <1>8 DEF ExecRecordOutcome, Busy
  <2>w. PICK w \in Workflows : w = worker[x].workflow
    BY <1>1, <2>1
  <2>2. Progress(x) /\ HistoryInv(w)
    BY <2>w, <1>0, <1>1, <2>1
  <2>3. /\ worker'[x].at = "recorded" /\ worker'[x].workflow = w
        /\ \A y \in Workers : y # x => worker'[y] = worker[y]
    BY <2>w, <1>2, <1>8, <2>1 DEF ExecRecordOutcome
  <2>4. Started(w) /\ Dispatched(w) /\ answers[w] # None
    BY <2>w, <2>1, <2>2 DEF Progress
  <2>5. /\ journal' = [journal EXCEPT ![w].outcome =
                         [result |-> answers[w].result, sha |-> answers[w].result,
                          succeeded |-> answers[w].succeeded]]
        /\ state' = state /\ artifacts' = artifacts
        /\ calls' = calls /\ answers' = answers
    BY <2>w, <1>8 DEF ExecRecordOutcome, RecordOutcome, Answer
  <2>6. /\ journal'[w].fence = journal[w].fence
        /\ journal'[w].outcome.sha = answers[w].result
        /\ journal'[w].outcome.succeeded = answers[w].succeeded
        /\ \A v \in Workflows : v # w => journal'[v] = journal[v]
    BY <2>w, <1>0, <2>2, <2>5 DEF TypeOK, Dispatch
  <2>7. Progress(x)'
    BY <2>w, <2>3, <2>4, <2>5, <2>6 DEF Progress, Started, Dispatched
  <2>8. HistoryInv(w)'
    BY <2>w, <2>2, <2>4, <2>5, <2>6 DEF HistoryInv, Started, Dispatched
  <2> QED
    BY <2>1, <2>2, <2>3, <2>5, <2>6, <2>7, <2>8, <2>w, OwnStep
<1>9. ASSUME NEW x \in Workers, ExecComplete(x)
      PROVE  (\A y \in Workers : JobInv(y)') /\ (\A v \in Workflows : HistoryInv(v)')
  <2>1. worker[x].at = "recorded" /\ Busy(x)
    BY <1>9 DEF ExecComplete, Busy
  <2>w. PICK w \in Workflows : w = worker[x].workflow
    BY <1>1, <2>1
  <2>2. Progress(x) /\ HistoryInv(w)
    BY <2>w, <1>0, <1>1, <2>1
  <2>3. ~ Busy(x)' /\ \A y \in Workers : y # x => worker'[y] = worker[y]
    BY <2>w, <1>3, <1>9 DEF ExecComplete
  <2>4. Started(w) /\ Dispatched(w)
    BY <2>w, <2>1, <2>2 DEF Progress
  <2>5. /\ state'[w] = Settled(Answer(x).succeeded) /\ journal' = journal
        /\ calls' = calls /\ answers' = answers
        /\ \A v \in Workflows : v # w =>
             state'[v] = state[v] /\ artifacts'[v] = artifacts[v]
    BY <2>w, <1>0, <1>9, <2>2 DEF ExecComplete, Complete, CommitResult, TypeOK
  <2>6. Started(w)'
    BY <2>w, <2>5 DEF Started, Settled
  <2>7. HistoryInv(w)'
    BY <2>w, <2>2, <2>4, <2>5, <2>6 DEF HistoryInv, Dispatched
  <2> QED
    BY <2>1, <2>2, <2>3, <2>5, <2>7, <2>w, OwnStep
<1>10. ASSUME NEW x \in Workers, ExecAbandon(x)
       PROVE  (\A y \in Workers : JobInv(y)') /\ (\A v \in Workflows : HistoryInv(v)')
  <2>1. /\ ~ Busy(x)' /\ \A y \in Workers : y # x => worker'[y] = worker[y]
        /\ Busy(x)
    BY <1>0, <1>3, <1>10 DEF ExecAbandon, ExecTypeOK, Busy, Idle
  <2>2. UNCHANGED <<state, journal, artifacts, calls, answers>>
    BY <1>10 DEF ExecAbandon, vars
  <2>3. PICK w \in Workflows : w = worker[x].workflow
    BY <1>1, <2>1
  <2>4. HistoryInv(w)'
    BY <1>0, <2>2 DEF HistoryInv, Started, Dispatched
  <2> QED
    BY <2>1, <2>2, <2>3, <2>4, OwnStep
<1>11. CASE Elsewhere
  <2>1. \A v \in Workflows : Untouched(v)
    BY <1>0, <1>11, Bystander
  <2>2. worker' = worker /\ calls' = calls /\ answers' = answers
    BY <1>11 DEF Elsewhere, execVars
  <2>3. \A v \in Workflows : HistoryInv(v)'
    BY <1>0, <2>1, <2>2, HistoryFrame
  <2>4. ASSUME NEW y \in Workers, Busy(y)
        PROVE  Alone(y)' /\ Progress(y)'
    <3>1. /\ worker[y].workflow \in Workflows /\ Progress(y) /\ Alone(y)
          /\ Untouched(worker[y].workflow)
      BY <1>0, <1>1, <2>1, <2>4 DEF JobInv
    <3>2. Alone(y)'
      BY <2>2, <3>1 DEF Alone, Busy
    <3>3. Progress(y)'
      BY <2>2, <3>1 DEF Progress, Untouched, Dispatched
    <3> QED
      BY <3>2, <3>3
  <2> QED
    BY <2>2, <2>3, <2>4 DEF JobInv, Busy
<1>12. CASE UNCHANGED allVars
  <2>1. UNCHANGED <<state, journal, artifacts, worker, calls, answers>>
    BY <1>12 DEF allVars
  <2> QED
    BY <1>0, <2>1 DEF JobInv, Alone, Progress, HistoryInv, Busy, Started, Dispatched
<1> QED
  BY <1>4, <1>5, <1>6, <1>7, <1>8, <1>9, <1>10, <1>11, <1>12
    DEF ExecNext, WorkerStep

-----------------------------------------------------------------------------
\* The inductive invariant of the executors holds in every reachable state.
THEOREM ExecInvariant == ExecSpec => []ExecInv
<1>1. ExecInit => ExecInv
  <2> SUFFICES ASSUME ExecInit
               PROVE  ExecInv
    OBVIOUS
  <2>1. StoreInv
    BY StoreInit DEF ExecInit
  <2>2. ExecTypeOK
    BY <2>1 DEF ExecInit, ExecTypeOK, StoreInv
  <2>3. \A x \in Workers : JobInv(x)
    BY DEF ExecInit, JobInv, Busy, Idle
  <2>4. \A w \in Workflows : HistoryInv(w)
    BY DEF ExecInit, Init, HistoryInv, NoDispatch
  <2> QED
    BY <2>1, <2>2, <2>3, <2>4 DEF ExecInv
<1>2. ExecInv /\ [ExecNext]_allVars => ExecInv'
  <2>1. ExecInv /\ [ExecNext]_allVars => StoreInv'
    BY ExecStepIsStoreStep, TypeStep, RowStep DEF ExecInv, StoreInv
  <2> QED
    BY <2>1, ExecTypeStep, ExecStep DEF ExecInv
<1> QED
  BY <1>1, <1>2, PTL DEF ExecSpec

\* Concurrent executors only do what the store allows: everything proved of
\* the store holds of them.
THEOREM ExecImplementsStore == ExecSpec => Spec
<1>1. ExecInit => Init
  BY DEF ExecInit
<1> QED
  BY <1>1, ExecInvariant, ExecStepIsStoreStep, PTL DEF ExecSpec, Spec

\* The router is called at most once per workflow, and only after the dispatch
\* row was committed, for any number of workers.
THEOREM InferenceAtMostOnce == ExecSpec => []AtMostOnceInference
<1>1. ExecInv => AtMostOnceInference
  BY DEF ExecInv, HistoryInv, AtMostOnceInference
<1> QED
  BY <1>1, ExecInvariant, PTL

\* Only the answer of that one call is ever published.
THEOREM AnswerPublished == ExecSpec => []PublishesTheAnswer
<1>1. ExecInv => PublishesTheAnswer
  BY DEF ExecInv, HistoryInv, PublishesTheAnswer, StoreInv, RowInv, Publication
<1> QED
  BY <1>1, ExecInvariant, PTL
=============================================================================
