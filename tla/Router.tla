------------------------------- MODULE Router -------------------------------
(***************************************************************************)
(* InferenceRouter.generate_task (src/backend/inference/router.py) with    *)
(* the deployment ranking (policy.py), the runtime states that probes and  *)
(* attempts share (runtime.py) and the WorkflowBudget of a call            *)
(* (src/backend/workflows/budget.py), for any number of concurrent calls.  *)
(*                                                                         *)
(* Everything runs on one event loop: what lies between two awaits is one  *)
(* action.  The router is the one main.py builds, with runtime states, so  *)
(* choosing a deployment awaits nothing.  Timers are prompt: time does not *)
(* pass while one of them is due.  Deadlines, delays and expiries are kept *)
(* as the time they have left.                                             *)
(***************************************************************************)
EXTENDS Integers, Sequences, FiniteSets, Functions

CONSTANTS
  Calls,        \* generate_task calls
  Registered,   \* the deployment registry, in order of registration
  CircuitOpen,  \* circuit_open_deployment_ids
  Tasks,        \* eligible deployments, static scores and deadline of a task
  Budgets,      \* deadline, attempt and output-token limits of a WorkflowBudget
  Tokens,       \* output tokens an answer can report
  MaxAttempts, Backoff,     \* ExecutionPolicy
  Window,       \* how many outcomes record_attempt remembers
  TTL, ProbeTimeout,        \* RuntimeStateCollector
  None

Deployments == Range(Registered)

\* Failures of an attempt by what the router and the runtime state make of
\* them: two failure codes change the runtime state, the others only differ in
\* their RetryClassification.
Failures == {"same_deployment", "other_deployment", "never",
             "capacity_exceeded", "deployment_unavailable"}

ASSUME RouterConstants ==
  /\ Registered \in Seq(Deployments)
  /\ CircuitOpen \subseteq Deployments
  /\ Tasks \subseteq [eligible : SUBSET Deployments,
                      static : [Deployments -> Int], deadline : Nat]
  /\ Budgets \subseteq [left : Nat \ {0}, attempts : Nat \ {0}, tokens : Nat \ {0}]
  /\ Tokens \subseteq Nat
  /\ MaxAttempts \in Nat \ {0}
  /\ Backoff \in Seq(Nat)
  /\ Window \in Nat \ {0}
  /\ TTL \in Nat \ {0}
  /\ ProbeTimeout \in Nat
  /\ None \notin Nat
  /\ None \notin [left : Int, attempts : Int, tokens : Nat]

VARIABLES
  call,     \* the local variables of each call
  runtime,  \* RuntimeStateStore: one record for each deployment
  probe,    \* how long the probe of a deployment has been running, or None
  known     \* the last thing an attempt or a probe learned about a deployment

routerVars == <<call, runtime, probe, known>>

-----------------------------------------------------------------------------
(* RuntimeStateStore.  Liveness and readiness always change together. *)

Unobserved ==
  [liveness |-> "unknown", admission |-> "unknown", capacity |-> "unknown",
   expires |-> 0, history |-> <<>>]

Fresh(s) == s.expires > 0

\* Mutant: an expired observation still counts.
RoutableStale(s) ==
  s.liveness = "up" /\ s.admission = "accepting" /\ s.capacity # "exhausted"

Routable(s) ==
  /\ Fresh(s)
  /\ s.liveness = "up"
  /\ s.admission = "accepting"
  /\ s.capacity # "exhausted"

Remember(h, failed) ==
  LET all == Append(h, failed)
  IN IF Len(all) > Window THEN Tail(all) ELSE all

\* record_attempt
Recorded(s, outcome) ==
  LET seen == [s EXCEPT !.history = Remember(@, outcome # "succeeded")]
  IN CASE outcome = "succeeded" ->
            [seen EXCEPT !.admission = "accepting", !.capacity = "available"]
       [] outcome = "capacity_exceeded" ->
            [seen EXCEPT !.admission = "rejecting", !.capacity = "exhausted"]
       [] outcome = "deployment_unavailable" ->
            [seen EXCEPT !.liveness = "down", !.admission = "rejecting"]
       [] OTHER -> seen

\* The record _probe puts: only the summary of earlier attempts is kept, and it
\* expires counting from the start of the probe.
Probed(s, up, age) ==
  [liveness |-> IF up THEN "up" ELSE "down",
   admission |-> IF up THEN "accepting" ELSE "rejecting",
   capacity |-> "unknown",
   expires |-> IF age < TTL THEN TTL - age ELSE 0,
   history |-> s.history]

-----------------------------------------------------------------------------
(* rank_candidates *)

Failed(h) == Cardinality({i \in DOMAIN h : h[i]})

\* round(): half to even
Rounded(p, q) ==
  LET twice == 2 * (p % q)
      odd == (p \div q) % 2 = 1
  IN p \div q + (IF twice > q \/ (twice = q /\ odd) THEN 1 ELSE 0)

Reliability(h) ==
  IF h = <<>> THEN 0 ELSE Rounded(20 * (Len(h) - Failed(h)), Len(h))

\* static stands for preference, context headroom, cost, latency, suitability.
Score(t, d, rt) ==
  t.static[d] + Reliability(rt[d].history)
    + (IF Routable(rt[d]) THEN 20 ELSE 0) + (IF Fresh(rt[d]) THEN 5 ELSE 0)
    + (IF rt[d].capacity = "available" THEN 10 ELSE 0)

Place(d) == CHOOSE i \in DOMAIN Registered : Registered[i] = d

\* The best score first; among equals the order of registration.
Precedes(t, rt, a, b) ==
  \/ Score(t, a, rt) > Score(t, b, rt)
  \/ Score(t, a, rt) = Score(t, b, rt) /\ Place(a) < Place(b)

OrderedDeployments(t, rt) ==
  LET places == 1..Cardinality(t.eligible)
  IN CHOOSE order \in [places -> t.eligible] :
       \A i, j \in places : i < j => Precedes(t, rt, order[i], order[j])

-----------------------------------------------------------------------------
(* WorkflowBudget *)

Reservable(b) == b # None => b.left > 0 /\ b.attempts > 0

\* Mutant: a retry is not charged.
ReserveOnce(b) ==
  IF b = None \/ b.attempts = 1 THEN b ELSE [b EXCEPT !.attempts = @ - 1]

Reserve(b) == IF b = None THEN None ELSE [b EXCEPT !.attempts = @ - 1]

\* The time an attempt may take: the task's deadline or the budget's
Limit(c) == IF c.budget = None \/ c.left < c.budget.left THEN c.left
                                                         ELSE c.budget.left

-----------------------------------------------------------------------------
(* generate_task.  index is the place in order, tries the attempts list.   *)

Unused == [at |-> "unused"]

\* What a call raises is a failure to its caller, whatever its class.
Over(result) == [at |-> "ended", result |-> result]

\* The while loop from its condition to the await of _execute_task: skip what
\* is not routable now, reserve an attempt, start it with a timeout.
Proceed(c, rt) ==
  LET open == {i \in c.index..Len(c.order) :
                 c.order[i] \notin CircuitOpen /\ Routable(rt[c.order[i]])}
      next == CHOOSE i \in open : \A j \in open : i <= j
  IN IF Len(c.tries) >= MaxAttempts \/ open = {} THEN Over("failed")
     ELSE IF ~ Reservable(c.budget) THEN Over("failed")
     ELSE [c EXCEPT !.at = "executing", !.index = next, !.wait = Limit(c),
                    !.budget = Reserve(@)]

\* Mutant: the delay is not compared with the deadline.
BackOffAlways(c, rt) ==
  LET step == IF Len(c.tries) < Len(Backoff) THEN Len(c.tries) ELSE Len(Backoff)
  IN IF Backoff = <<>> \/ Backoff[step] = 0 THEN Proceed(c, rt)
     ELSE [c EXCEPT !.at = "sleeping", !.wait = Backoff[step]]

\* _backoff and what follows it: a delay that does not fit the deadline ends
\* the call, a delay of zero does not await.
BackOff(c, rt) ==
  LET step == IF Len(c.tries) < Len(Backoff) THEN Len(c.tries) ELSE Len(Backoff)
  IN IF Backoff = <<>> THEN Proceed(c, rt)
     ELSE IF Backoff[step] >= c.left THEN Over("failed")
     ELSE IF Backoff[step] = 0 THEN Proceed(c, rt)
     ELSE [c EXCEPT !.at = "sleeping", !.wait = Backoff[step]]

\* RetryClassification
Retry(outcome) ==
  IF outcome \in {"same_deployment", "never"} THEN outcome ELSE "other_deployment"

Tried(c, outcome) ==
  [c EXCEPT !.tries = Append(@, [deployment |-> c.order[c.index],
                                 retry |-> Retry(outcome)])]

Target(c) == call[c].order[call[c].index]

\* Append and record one attempt of call c, which goes on as after says.
Record(c, outcome, after) ==
  /\ call' = [call EXCEPT ![c] = after]
  /\ runtime' = [runtime EXCEPT ![Target(c)] = Recorded(@, outcome)]
  /\ known' = [known EXCEPT ![Target(c)] =
       CASE outcome = "succeeded" /\ @ # "down" -> "good"
         [] outcome = "capacity_exceeded" /\ @ # "down" -> "full"
         [] outcome = "deployment_unavailable" -> "down"
         [] OTHER -> @]
  /\ UNCHANGED probe

\* The service takes requests after start() awaited the first refresh.
RouterInit ==
  \E up \in [Deployments -> BOOLEAN], age \in [Deployments -> 0..ProbeTimeout] :
    /\ call = [c \in Calls |-> Unused]
    /\ runtime = [d \in Deployments |-> Probed(Unobserved, up[d], age[d])]
    /\ probe = [d \in Deployments |-> None]
    /\ known = [d \in Deployments |-> IF up[d] THEN "good" ELSE "down"]

\* A task no deployment is capable of is refused before anything happens.
Begin(c, t, b) ==
  /\ call[c] = Unused
  /\ t.eligible # {}
  /\ call' = [call EXCEPT ![c] = Proceed(
       [at |-> "ranked", order |-> OrderedDeployments(t, runtime), index |-> 1,
        tries |-> <<>>, left |-> t.deadline, wait |-> 0, budget |-> b,
        bound |-> b], runtime)]
  /\ UNCHANGED <<runtime, probe, known>>

\* The attempt is recorded before the tokens are charged.
Answer(c, k) ==
  LET b == call[c].budget
  IN /\ call[c].at = "executing"
     /\ Record(c, "succeeded",
               Over(IF b # None /\ k > b.tokens THEN "failed"
                                                ELSE "answered"))

\* Mutant: a failure that may be retried elsewhere is retried here.
FailStaying(c, outcome) ==
  LET tried == Tried(call[c], outcome)
      rt == [runtime EXCEPT ![Target(c)] = Recorded(@, outcome)]
  IN /\ call[c].at = "executing"
     /\ Record(c, outcome, IF outcome = "never" THEN Over("failed")
                           ELSE BackOff(tried, rt))

\* An InferenceFailure of the identity check or of the adapter
Fail(c, outcome) ==
  LET tried == Tried(call[c], outcome)
      rt == [runtime EXCEPT ![Target(c)] = Recorded(@, outcome)]
  IN /\ call[c].at = "executing"
     /\ Record(c, outcome,
               CASE Retry(outcome) = "never" -> Over("failed")
                 [] Retry(outcome) = "same_deployment" -> BackOff(tried, rt)
                 [] OTHER -> BackOff([tried EXCEPT !.index = @ + 1], rt))

\* asyncio.wait_for gives up.
TimeOut(c) ==
  /\ call[c].at = "executing"
  /\ call[c].wait = 0
  /\ Record(c, "deadline_exceeded", Over("failed"))

\* Cancelled while it executes the call records the attempt; while it sleeps
\* the cancellation passes through.
CancelCall(c) ==
  \/ /\ call[c].at = "executing"
     /\ Record(c, "cancelled", Over("failed"))
  \/ /\ call[c].at = "sleeping"
     /\ call' = [call EXCEPT ![c] = Over("failed")]
     /\ UNCHANGED <<runtime, probe, known>>

\* Any other exception of an adapter leaves no attempt behind.
Escape(c) ==
  /\ call[c].at = "executing"
  /\ call' = [call EXCEPT ![c] = Over("failed")]
  /\ UNCHANGED <<runtime, probe, known>>

Wake(c) ==
  /\ call[c].at = "sleeping"
  /\ call[c].wait = 0
  /\ call' = [call EXCEPT ![c] = Proceed(@, runtime)]
  /\ UNCHANGED <<runtime, probe, known>>

-----------------------------------------------------------------------------
(* RuntimeStateCollector *)

\* refresh starts a probe of every deployment, once all of the last are done.
Refresh ==
  /\ \A d \in Deployments : probe[d] = None
  /\ probe' = [d \in Deployments |-> 0]
  /\ UNCHANGED <<call, runtime, known>>

\* A timeout or an error counts as not available.
EndProbe(d, up) ==
  /\ probe[d] # None
  /\ runtime' = [runtime EXCEPT ![d] = Probed(@, up, probe[d])]
  /\ known' = [known EXCEPT ![d] = IF up THEN "good" ELSE "down"]
  /\ probe' = [probe EXCEPT ![d] = None]
  /\ UNCHANGED call

\* A running call's timers after one unit of time.  left and budget.left stop
\* at -1, which says that the call goes on after its deadline.
Less(n) == IF n > 0 THEN n - 1 ELSE -1

Shortened(b) == IF b = None THEN None ELSE [b EXCEPT !.left = Less(@)]

Aged(c) ==
  IF c.at \in {"unused", "ended"} THEN c
  ELSE [c EXCEPT !.left = Less(@), !.wait = @ - 1,
                 !.budget = Shortened(@)]

\* Time passes unless a timer is due.
RouterTick ==
  /\ \A c \in Calls : call[c].at \in {"executing", "sleeping"} => call[c].wait > 0
  /\ \A d \in Deployments : probe[d] # None => probe[d] < ProbeTimeout
  /\ call' = [c \in Calls |-> Aged(call[c])]
  /\ probe' = [d \in Deployments |-> IF probe[d] = None THEN None ELSE probe[d] + 1]
  /\ runtime' = [d \in Deployments |->
       [runtime[d] EXCEPT !.expires = IF @ > 0 THEN @ - 1 ELSE 0]]
  /\ UNCHANGED known

CallStep(c) ==
  \/ \E t \in Tasks, b \in Budgets \cup {None} : Begin(c, t, b)
  \/ \E k \in Tokens : Answer(c, k)
  \/ \E o \in Failures : Fail(c, o)
  \/ TimeOut(c) \/ CancelCall(c) \/ Escape(c) \/ Wake(c)

RouterNext ==
  \/ \E c \in Calls : CallStep(c)
  \/ Refresh
  \/ \E d \in Deployments, up \in BOOLEAN : EndProbe(d, up)
  \/ RouterTick

RouterSpec == RouterInit /\ [][RouterNext]_routerVars

-----------------------------------------------------------------------------
Running(c) == call[c].at \in {"executing", "sleeping"}

\* The deployments a call has tried, the one it is trying last
Path(c) ==
  LET past == [i \in DOMAIN call[c].tries |-> call[c].tries[i].deployment]
  IN IF call[c].at = "executing" THEN Append(past, Target(c)) ELSE past

\* ADR-004: attempts follow the ranking the call started with, whatever becomes
\* of the scores meanwhile.  A deployment is left for good with its first
\* failure, except a failure that asks to be retried there; a failure that must
\* not be retried ends the call.
FailoverFollowsRanking ==
  \A c \in Calls :
    Running(c) =>
      \A i \in 1..(Len(Path(c)) - 1) :
        LET rank(d) == CHOOSE j \in DOMAIN call[c].order : call[c].order[j] = d
            retry == call[c].tries[i].retry
        IN /\ retry # "never"
           /\ IF retry = "same_deployment"
              THEN rank(Path(c)[i + 1]) >= rank(Path(c)[i])
              ELSE rank(Path(c)[i + 1]) > rank(Path(c)[i])

\* ADR-012: every attempt of a call was reserved in its one budget, which is
\* never overdrawn, refilled or charged for deployments that were skipped; and
\* no call makes more than max_attempts.
EveryAttemptIsBudgeted ==
  \A c \in Calls :
    Running(c) =>
      /\ Len(Path(c)) <= MaxAttempts
      /\ call[c].bound # None =>
           /\ Len(Path(c)) = call[c].bound.attempts - call[c].budget.attempts
           /\ call[c].budget.attempts >= 0

\* ADR-004: no call is still running after the deadline of its task, whether it
\* executes or waits; and none executes after the deadline of its budget.  (A
\* wait may outlast the budget, because _backoff compares the delay with the
\* task's deadline only.)
CallsMeetDeadline ==
  \A c \in Calls :
    /\ Running(c) => call[c].left >= 0
    /\ call[c].at = "executing" => Limit(call[c]) >= 0

\* A call starts an attempt only on a deployment that was observed within the
\* last TTL and that no attempt of any call has found unavailable or full since
\* a probe or, if it was full, an answer said otherwise.
AvoidsFailed ==
  [][\A c \in Calls :
       (call'[c].at = "executing" /\ (call[c].at = "executing" =>
                                       call'[c].tries # call[c].tries)) =>
         LET d == call'[c].order[call'[c].index]
         IN runtime'[d].expires > 0 /\ known'[d] = "good"]_routerVars
=============================================================================
