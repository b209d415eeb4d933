---------------------------- MODULE WorkflowStore ----------------------------
(***************************************************************************)
(* The single-task half of SQLiteWorkflowStore                             *)
(* (src/backend/workflows/store.py).                                       *)
(*                                                                         *)
(* Every public method runs in one BEGIN IMMEDIATE transaction, so it is   *)
(* one action here; a method that raises WorkflowConflict rolls back and   *)
(* is simply not enabled.  The callers are the most general ones: any      *)
(* process may call any method at any time, with any owner and any fence   *)
(* that was ever issued.  WorkflowExecutor restricts the callers to what   *)
(* executor.py does.                                                       *)
(*                                                                         *)
(* Only the difference between lease_until and the clock is ever used, so  *)
(* a lease is kept as the time it has left and the clock itself is left    *)
(* out; 0 is an expired lease, or the NULL of a row that has none.         *)
(***************************************************************************)
EXTENDS Integers, Sequences, FiniteSets

CONSTANTS Workflows,   \* workflow ids (uuid4)
          Tenants, Keys, Packets,
          Owners,      \* the names claimants give themselves
          Policies,    \* acceptance policy snapshots
          Results,     \* canonical JSON result payloads
          Accepts,     \* the <<policy, result>> pairs validate_artifact accepts
          LeaseTimes,  \* the lease_seconds claimants ask for
          ScanLimit,   \* workflow_recovery_scan_limit
          None         \* SQL NULL, or a missing row

ASSUME NoneAssumption ==
  /\ None \notin Owners
  /\ None \notin Policies
  /\ None \notin Results
  /\ None \notin [result : Results, sha : Results, succeeded : BOOLEAN]

ASSUME LeaseAssumption == LeaseTimes \subseteq Nat \ {0}

ASSUME LimitAssumption == ScanLimit \in Nat \ {0}

ASSUME AcceptsAssumption == Accepts \subseteq Policies \X Results

VARIABLES
  state,      \* workflows.state; "absent" before the row exists
  fence,      \* workflows.fence
  owner,      \* workflows.owner
  lease,      \* workflows.lease_until - now
  request,    \* tenant, idempotency key, packet and bound policy of the row
  journal,    \* workflow_dispatches
  artifacts,  \* workflow_artifacts in insertion order; the row points at the last
  report,     \* workflow_validations
  events      \* workflow_events

vars == <<state, fence, owner, lease, request, journal, artifacts, report,
          events>>

States == {"absent", "ready", "running", "uncertain", "awaiting_validation",
           "failed", "succeeded", "rejected", "cancelled"}

Terminal == {"failed", "succeeded", "rejected", "cancelled"}

Request == [tenant : Tenants, key : Keys, packet : Packets,
            policy : Policies \cup {None}]

\* sha is the digest stored beside the payload: the payload it was computed from.
Outcome == [result : Results, sha : Results, succeeded : BOOLEAN]

Dispatch == [fence : Nat, outcome : Outcome \cup {None}]

Report == [policy : Policies, artifact : Nat, accepted : BOOLEAN]

Event == [state : (States \ {"absent"}) \cup
                    {"dispatch_started", "outcome_recorded"},
          fence : Nat]

NoDispatch == [fence |-> 0, outcome |-> None]

NoRequest == [tenant |-> None, key |-> None, packet |-> None, policy |-> None]

NoReport == [policy |-> None, artifact |-> 0, accepted |-> FALSE]

-----------------------------------------------------------------------------
\* A workflow_dispatches row exists; claims hand out fences from 1.
Dispatched(w) == journal[w].fence # 0

Expired(w) == state[w] = "running" /\ lease[w] = 0

\* _require_lease
RequireLease(w, o, f) ==
  /\ state[w] = "running"
  /\ owner[w] = o
  /\ fence[w] = f
  /\ lease[w] > 0

\* Mutant: the stored digest is not compared.
EvidenceUnhashed(w, f) ==
  /\ Dispatched(w)
  /\ journal[w].outcome # None
  /\ journal[w].fence + 1 = f

\* Mutant: the fence is expected where the execution had it.
EvidenceUnfenced(w, f) ==
  /\ Dispatched(w)
  /\ journal[w].outcome # None
  /\ journal[w].fence = f
  /\ journal[w].outcome.result = journal[w].outcome.sha

\* The journal row proves what the execution fenced by f - 1 returned.
Evidence(w, f) ==
  /\ Dispatched(w)
  /\ journal[w].outcome # None
  /\ journal[w].fence + 1 = f
  /\ journal[w].outcome.result = journal[w].outcome.sha

Settled(succeeded) == IF succeeded THEN "awaiting_validation" ELSE "failed"

Log(w, s, f) == Append(events[w], [state |-> s, fence |-> f])

-----------------------------------------------------------------------------
Init ==
  /\ state = [w \in Workflows |-> "absent"]
  /\ fence = [w \in Workflows |-> 0]
  /\ owner = [w \in Workflows |-> None]
  /\ lease = [w \in Workflows |-> 0]
  /\ request = [w \in Workflows |-> NoRequest]
  /\ journal = [w \in Workflows |-> NoDispatch]
  /\ artifacts = [w \in Workflows |-> <<>>]
  /\ report = [w \in Workflows |-> NoReport]
  /\ events = [w \in Workflows |-> <<>>]

\* A reused (tenant, key) returns the saved id or conflicts: no row is added.
Create(w, q) ==
  /\ state[w] = "absent"
  /\ ~ \E v \in Workflows : /\ state[v] # "absent"
                            /\ request[v].tenant = q.tenant
                            /\ request[v].key = q.key
  /\ state' = [state EXCEPT ![w] = "ready"]
  /\ request' = [request EXCEPT ![w] = q]
  /\ events' = [events EXCEPT ![w] = Log(w, "ready", 0)]
  /\ UNCHANGED <<fence, owner, lease, journal, artifacts, report>>

Claim(w, o, d) ==
  /\ state[w] = "ready"
  /\ state' = [state EXCEPT ![w] = "running"]
  /\ fence' = [fence EXCEPT ![w] = @ + 1]
  /\ owner' = [owner EXCEPT ![w] = o]
  /\ lease' = [lease EXCEPT ![w] = d]
  /\ events' = [events EXCEPT ![w] = Log(w, "running", fence[w] + 1)]
  /\ UNCHANGED <<request, journal, artifacts, report>>

BeginDispatch(w, o, f) ==
  /\ RequireLease(w, o, f)
  /\ ~ Dispatched(w)
  /\ journal' = [journal EXCEPT ![w] = [fence |-> f, outcome |-> None]]
  /\ events' = [events EXCEPT ![w] = Log(w, "dispatch_started", f)]
  /\ UNCHANGED <<state, fence, owner, lease, request, artifacts, report>>

\* Recording the same outcome again returns without a change.
RecordOutcome(w, o, f, r, succeeded) ==
  /\ RequireLease(w, o, f)
  /\ Dispatched(w)
  /\ journal[w].fence = f
  /\ journal[w].outcome = None
  /\ journal' = [journal EXCEPT ![w].outcome =
                   [result |-> r, sha |-> r, succeeded |-> succeeded]]
  /\ events' = [events EXCEPT ![w] = Log(w, "outcome_recorded", f)]
  /\ UNCHANGED <<state, fence, owner, lease, request, artifacts, report>>

\* Mutant: the publication writes no event.
CommitResultUnlogged(w, f, r, succeeded) ==
  /\ artifacts' = [artifacts EXCEPT ![w] = Append(@, r)]
  /\ state' = [state EXCEPT ![w] = Settled(succeeded)]
  /\ owner' = [owner EXCEPT ![w] = None]
  /\ lease' = [lease EXCEPT ![w] = 0]
  /\ UNCHANGED <<fence, request, journal, report, events>>

\* _commit_result: the artifact, the row and the event of one publication.
CommitResult(w, f, r, succeeded) ==
  /\ artifacts' = [artifacts EXCEPT ![w] = Append(@, r)]
  /\ state' = [state EXCEPT ![w] = Settled(succeeded)]
  /\ owner' = [owner EXCEPT ![w] = None]
  /\ lease' = [lease EXCEPT ![w] = 0]
  /\ events' = [events EXCEPT ![w] = Log(w, Settled(succeeded), f)]
  /\ UNCHANGED <<fence, request, journal, report>>

\* Mutant: the result is not compared with the recorded outcome.
CompleteUnchecked(w, o, f, r, succeeded) ==
  /\ RequireLease(w, o, f)
  /\ CommitResult(w, f, r, succeeded)

\* Completing without a dispatch row is allowed; with one, the result must be
\* the recorded outcome, digest included.
Complete(w, o, f, r, succeeded) ==
  /\ RequireLease(w, o, f)
  /\ Dispatched(w) =>
       journal[w] = [fence |-> f,
                     outcome |-> [result |-> r, sha |-> r,
                                  succeeded |-> succeeded]]
  /\ CommitResult(w, f, r, succeeded)

\* Without an outcome the task stays uncertain; with a corrupt one the call
\* conflicts.
ReconcileUncertain(w) ==
  /\ state[w] = "uncertain"
  /\ Evidence(w, fence[w])
  /\ CommitResult(w, fence[w], journal[w].outcome.result,
                  journal[w].outcome.succeeded)

\* Mutant: a caller may replace the bound policy.
JudgingCallersPolicy(w, p) == p

\* The policy of the decision: the bound one, which a caller may repeat but
\* not replace, or the caller's when none is bound.
JudgingPolicy(w, p) ==
  IF request[w].policy = None THEN p ELSE request[w].policy

\* A replay against a saved report returns it or conflicts: no change.
Validate(w, p) ==
  LET policy == JudgingPolicy(w, p)
      id == Len(artifacts[w])
      accepted == <<policy, artifacts[w][id]>> \in Accepts
      verdict == IF accepted THEN "succeeded" ELSE "rejected"
  IN /\ p \in {None, policy}
     /\ policy # None
     /\ report[w] = NoReport
     /\ state[w] = "awaiting_validation"
     /\ report' = [report EXCEPT ![w] = [policy |-> policy, artifact |-> id,
                                         accepted |-> accepted]]
     /\ state' = [state EXCEPT ![w] = verdict]
     /\ events' = [events EXCEPT ![w] = Log(w, verdict, fence[w])]
     /\ UNCHANGED <<fence, owner, lease, request, journal, artifacts>>

\* Mutant: cancellation leaves the fence alone.
CancelUnfenced(w) ==
  /\ state[w] \in {"ready", "running", "awaiting_validation"}
  /\ state' = [state EXCEPT ![w] = "cancelled"]
  /\ owner' = [owner EXCEPT ![w] = None]
  /\ lease' = [lease EXCEPT ![w] = 0]
  /\ events' = [events EXCEPT ![w] = Log(w, "cancelled", fence[w])]
  /\ UNCHANGED <<fence, request, journal, artifacts, report>>

\* Cancelling a cancelled task succeeds again; an uncertain, failed or judged
\* one is refused.
Cancel(w) ==
  /\ state[w] \in {"ready", "running", "awaiting_validation"}
  /\ state' = [state EXCEPT ![w] = "cancelled"]
  /\ fence' = [fence EXCEPT ![w] = @ + 1]
  /\ owner' = [owner EXCEPT ![w] = None]
  /\ lease' = [lease EXCEPT ![w] = 0]
  /\ events' = [events EXCEPT ![w] = Log(w, "cancelled", fence[w] + 1)]
  /\ UNCHANGED <<request, journal, artifacts, report>>

\* Mutant: a lost execution is queued again.
RecoverExpiredForRetry(t) ==
  LET lost == {w \in Workflows : Expired(w) /\ request[w].tenant = t}
  IN /\ lost # {}
     /\ state' = [w \in Workflows |-> IF w \in lost THEN "ready" ELSE state[w]]
     /\ UNCHANGED <<fence, owner, lease, request, journal, artifacts, report, events>>

RecoverExpired(t) ==
  LET lost == {w \in Workflows : Expired(w) /\ request[w].tenant = t}
  IN /\ lost # {}
     /\ state' = [w \in Workflows |-> IF w \in lost THEN "uncertain" ELSE state[w]]
     /\ fence' = [w \in Workflows |-> IF w \in lost THEN fence[w] + 1 ELSE fence[w]]
     /\ owner' = [w \in Workflows |-> IF w \in lost THEN None ELSE owner[w]]
     /\ events' = [w \in Workflows |-> IF w \in lost
                                       THEN Log(w, "uncertain", fence[w] + 1)
                                       ELSE events[w]]
     /\ UNCHANGED <<lease, request, journal, artifacts, report>>

\* What recover_startup scans, and the fence it leaves on each row.
Candidates == {w \in Workflows : state[w] = "uncertain" \/ Expired(w)}

RecoveredFence(w) == IF Expired(w) THEN fence[w] + 1 ELSE fence[w]

Reconciled == {w \in Candidates : Evidence(w, RecoveredFence(w))}

LostLog(w) == IF Expired(w) THEN Log(w, "uncertain", RecoveredFence(w))
                            ELSE events[w]

\* Mutant: only rows that are uncertain already are scanned.
RecoverStartupUncertain ==
  LET proven == {w \in Workflows : state[w] = "uncertain" /\ Evidence(w, fence[w])}
  IN \E w \in proven : CommitResult(w, fence[w], journal[w].outcome.result,
                                    journal[w].outcome.succeeded)

\* recover_startup: one transaction fences what expired and publishes whatever
\* the journal proves.  Over the scan limit it rolls back and startup fails.
RecoverStartup ==
  /\ Cardinality(Candidates) <= ScanLimit
  /\ state' = [w \in Workflows |->
                 CASE w \in Reconciled -> Settled(journal[w].outcome.succeeded)
                   [] w \in Candidates \ Reconciled -> "uncertain"
                   [] OTHER -> state[w]]
  /\ fence' = [w \in Workflows |-> RecoveredFence(w)]
  /\ owner' = [w \in Workflows |-> IF w \in Candidates THEN None ELSE owner[w]]
  /\ artifacts' = [w \in Workflows |->
                     IF w \in Reconciled
                     THEN Append(artifacts[w], journal[w].outcome.result)
                     ELSE artifacts[w]]
  /\ events' = [w \in Workflows |->
                  IF w \in Reconciled
                  THEN Append(LostLog(w),
                              [state |-> Settled(journal[w].outcome.succeeded),
                               fence |-> RecoveredFence(w)])
                  ELSE LostLog(w)]
  /\ UNCHANGED <<lease, request, journal, report>>

-----------------------------------------------------------------------------
\* Time passes for every lease.
Tick ==
  /\ \E w \in Workflows : lease[w] > 0
  /\ lease' = [w \in Workflows |-> IF lease[w] > 0 THEN lease[w] - 1 ELSE 0]
  /\ UNCHANGED <<state, fence, owner, request, journal, artifacts, report, events>>

\* The stored outcome is damaged on disk and no longer matches its digest.
Corrupt(w) ==
  /\ journal[w].outcome # None
  /\ journal[w].outcome.result = journal[w].outcome.sha
  /\ \E r \in Results \ {journal[w].outcome.sha} :
       journal' = [journal EXCEPT ![w].outcome.result = r]
  /\ UNCHANGED <<state, fence, owner, lease, request, artifacts, report, events>>

Next ==
  \/ \E w \in Workflows :
       \/ \E q \in Request : Create(w, q)
       \/ \E o \in Owners, d \in LeaseTimes : Claim(w, o, d)
       \/ \E o \in Owners, f \in 0..fence[w] :
            \/ BeginDispatch(w, o, f)
            \/ \E r \in Results, ok \in BOOLEAN :
                 RecordOutcome(w, o, f, r, ok) \/ Complete(w, o, f, r, ok)
       \/ ReconcileUncertain(w)
       \/ \E p \in Policies \cup {None} : Validate(w, p)
       \/ Cancel(w)
       \/ Corrupt(w)
  \/ \E t \in Tenants : RecoverExpired(t)
  \/ RecoverStartup
  \/ Tick

Spec == Init /\ [][Next]_vars

-----------------------------------------------------------------------------
(* Type correctness of the tables. *)
TypeOK ==
  /\ state \in [Workflows -> States]
  /\ fence \in [Workflows -> Nat]
  /\ owner \in [Workflows -> Owners \cup {None}]
  /\ lease \in [Workflows -> Nat]
  /\ request \in [Workflows -> Request \cup {NoRequest}]
  /\ journal \in [Workflows -> Dispatch]
  /\ artifacts \in [Workflows -> Seq(Results)]
  /\ report \in [Workflows -> Report \cup {NoReport}]
  /\ events \in [Workflows -> Seq(Event)]

\* Entries of an event log: whether it has one for s, whether their fences are
\* at most f, and whether fences never go down along it and nothing repeats.
Logged(log, s) == \E i \in 1..Len(log) : log[i].state = s

Bounded(log, f) == \A i \in 1..Len(log) : log[i].fence <= f

Ordered(log) ==
  \A i, j \in 1..Len(log) :
    i < j => log[i].fence <= log[j].fence /\ log[i].state # log[j].state

Publication(w) ==
  /\ state[w] \in {"absent", "ready", "running", "uncertain"} =>
       artifacts[w] = <<>>
  /\ state[w] \in {"awaiting_validation", "failed", "succeeded", "rejected"} =>
       artifacts[w] # <<>>
  /\ Len(artifacts[w]) <= 1
  /\ (Dispatched(w) /\ artifacts[w] # <<>>) =>
       /\ journal[w].outcome # None
       /\ artifacts[w] = <<journal[w].outcome.sha>>
       /\ state[w] = "failed" <=> ~ journal[w].outcome.succeeded

Judgement(w) ==
  /\ report[w] # NoReport <=> state[w] \in {"succeeded", "rejected"}
  /\ report[w] # NoReport =>
       /\ report[w].artifact = Len(artifacts[w])
       /\ request[w].policy \in {None, report[w].policy}
       /\ report[w].accepted <=> <<report[w].policy, artifacts[w][1]>> \in Accepts
       /\ report[w].accepted <=> state[w] = "succeeded"

Trail(w) ==
  /\ events[w] = <<>> <=> state[w] = "absent"
  /\ events[w] # <<>> =>
       LET last == events[w][Len(events[w])]
       IN /\ last.fence = fence[w]
          /\ \/ last.state = state[w]
             \/ /\ last.state \in {"dispatch_started", "outcome_recorded"}
                /\ state[w] = "running"
  /\ Ordered(events[w])

\* A workflow publishes at most one artifact, whichever of complete,
\* reconcile_uncertain and recover_startup gets to it, and once a dispatch was
\* journalled that artifact is the payload record_outcome hashed, with the
\* state its success flag asks for.
PublishedOutcome == \A w \in Workflows : Publication(w)

\* A task is accepted or rejected exactly when it has a report; the report is
\* about the published artifact, is the verdict of the policy bound when the
\* task was created (if one was), and matches the state.
JudgedByBoundPolicy == \A w \in Workflows : Judgement(w)

\* The event log tells the truth: its last entry carries the row's fence and
\* state (a journal entry means the task is running), fences never go down
\* along it, and nothing is logged twice.
AuditTrail == \A w \in Workflows : Trail(w)

\* An idempotency key names one workflow of its tenant, however often and with
\* whatever input the creation is repeated.
KeyNamesOneWorkflow ==
  \A v, w \in Workflows :
    (v # w /\ state[v] # "absent" /\ state[w] # "absent") =>
      <<request[v].tenant, request[v].key>> # <<request[w].tenant, request[w].key>>

\* A running execution loses its task only by publishing a result under the
\* fence it holds or by having that fence overtaken, so that whoever still
\* holds the old one can no longer pass _require_lease; fences never go back.
LosersAreFenced ==
  [][\A w \in Workflows :
       /\ fence'[w] >= fence[w]
       /\ (state[w] = "running" /\ state'[w] # "running") =>
            \/ fence'[w] > fence[w]
            \/ artifacts'[w] # artifacts[w]]_vars

\* An uncertain task leaves that state only by publishing the intact outcome
\* its own dispatch journalled; it is never replayed, cancelled or guessed.
RecoveryNeedsEvidence ==
  [][\A w \in Workflows :
       (state[w] = "uncertain" /\ state'[w] # "uncertain") =>
         /\ Evidence(w, fence[w])
         /\ artifacts'[w] = <<journal[w].outcome.sha>>]_vars

\* The store keeps the promise of TaskLifecycle.
Phase(s) ==
  CASE s = "ready" -> "pending"
    [] s = "running" -> "executing"
    [] s = "uncertain" -> "lost"
    [] s = "awaiting_validation" -> "produced"
    [] s = "succeeded" -> "accepted"
    [] s = "cancelled" -> "withdrawn"
    [] OTHER -> s

Lifecycle == INSTANCE TaskLifecycle WITH
  Tasks <- Workflows,
  phase <- [w \in Workflows |-> Phase(state[w])],
  published <- [w \in Workflows |->
                  IF artifacts[w] = <<>> THEN None ELSE Head(artifacts[w])]

\* Every behaviour of the store is one the abstract lifecycle allows: one
\* start, one publication, no way back from a final state.
LifecycleSpec == Lifecycle!Spec
=============================================================================
