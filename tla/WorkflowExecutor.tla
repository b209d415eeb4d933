--------------------------- MODULE WorkflowExecutor ---------------------------
(***************************************************************************)
(* WorkflowExecutor.execute (src/backend/workflows/executor.py) run by any *)
(* number of concurrent workers against one WorkflowStore, with the router *)
(* as an external service that answers or fails once per call.  Between    *)
(* two store calls anything else may happen: another process cancels,      *)
(* validates, recovers at its own startup, the lease runs out, the worker  *)
(* dies.  A WorkflowConflict ends the execution and leaves the row as it   *)
(* is; so do an unexpected exception and the death of the process.         *)
(***************************************************************************)
EXTENDS WorkflowStore

CONSTANT Workers   \* concurrent executions

ASSUME AnswerAssumption == None \notin [result : Results, succeeded : BOOLEAN]

VARIABLES
  worker,   \* each worker's place in execute() and its local variables
  calls,    \* router.generate_task calls made for each workflow, ever
  answers   \* what the router returned for each workflow

execVars == <<worker, calls, answers>>
allVars == <<state, fence, owner, lease, request, journal, artifacts, report,
             events, worker, calls, answers>>

Idle == [at |-> "idle"]

\* await points and store calls of execute(), in order
Job(at, w, o, f) == [at |-> at, workflow |-> w, owner |-> o, fence |-> f]

Answer(x) == answers[worker[x].workflow]

ExecInit ==
  /\ Init
  /\ worker = [x \in Workers |-> Idle]
  /\ calls = [w \in Workflows |-> 0]
  /\ answers = [w \in Workflows |-> None]

GoTo(x, at) == worker' = [worker EXCEPT ![x].at = at]

GiveUp(x) == worker' = [worker EXCEPT ![x] = Idle]

\* get_binding, the budget check and claim
ExecClaim(x, w, o, d) ==
  /\ worker[x] = Idle
  /\ Claim(w, o, d)
  /\ worker' = [worker EXCEPT ![x] = Job("claimed", w, o, fence'[w])]
  /\ UNCHANGED <<calls, answers>>

\* get_packet and begin_dispatch, which must commit before the router is called
ExecBeginDispatch(x) ==
  /\ worker[x].at = "claimed"
  /\ BeginDispatch(worker[x].workflow, worker[x].owner, worker[x].fence)
  /\ GoTo(x, "dispatched")
  /\ UNCHANGED <<calls, answers>>

\* Mutant: the router may be called before begin_dispatch.
ExecCallRouterEarly(x) ==
  /\ worker[x].at \in {"claimed", "dispatched"}
  /\ calls' = [calls EXCEPT ![worker[x].workflow] = @ + 1]
  /\ GoTo(x, "awaiting")
  /\ UNCHANGED <<vars, answers>>

ExecCallRouter(x) ==
  /\ worker[x].at = "dispatched"
  /\ calls' = [calls EXCEPT ![worker[x].workflow] = @ + 1]
  /\ GoTo(x, "awaiting")
  /\ UNCHANGED <<vars, answers>>

\* generate_task returns a result, or raises InferenceFailure (ok = FALSE);
\* either way there is a payload to record.
ExecAnswered(x, r, ok) ==
  /\ worker[x].at = "awaiting"
  /\ answers' = [answers EXCEPT ![worker[x].workflow] =
                   [result |-> r, succeeded |-> ok]]
  /\ GoTo(x, "answered")
  /\ UNCHANGED <<vars, calls>>

ExecRecordOutcome(x) ==
  /\ worker[x].at = "answered"
  /\ RecordOutcome(worker[x].workflow, worker[x].owner, worker[x].fence,
                   Answer(x).result, Answer(x).succeeded)
  /\ GoTo(x, "recorded")
  /\ UNCHANGED <<calls, answers>>

ExecComplete(x) ==
  /\ worker[x].at = "recorded"
  /\ Complete(worker[x].workflow, worker[x].owner, worker[x].fence,
              Answer(x).result, Answer(x).succeeded)
  /\ GiveUp(x)
  /\ UNCHANGED <<calls, answers>>

\* The store refuses the worker's next call, an exception that is not an
\* InferenceFailure escapes, or the process dies.
ExecAbandon(x) ==
  /\ worker[x] # Idle
  /\ GiveUp(x)
  /\ UNCHANGED <<vars, calls, answers>>

\* Everything else that happens to the store.
Elsewhere ==
  /\ \/ \E w \in Workflows :
          \/ \E q \in Request : Create(w, q)
          \/ ReconcileUncertain(w)
          \/ \E p \in Policies \cup {None} : Validate(w, p)
          \/ Cancel(w)
          \/ Corrupt(w)
     \/ \E t \in Tenants : RecoverExpired(t)
     \/ RecoverStartup
     \/ Tick
  /\ UNCHANGED execVars

WorkerStep(x) ==
  \/ ExecBeginDispatch(x)
  \/ ExecCallRouter(x)
  \/ \E r \in Results, ok \in BOOLEAN : ExecAnswered(x, r, ok)
  \/ ExecRecordOutcome(x)
  \/ ExecComplete(x)
  \/ ExecAbandon(x)

ExecNext ==
  \/ \E x \in Workers :
       \/ \E w \in Workflows, o \in Owners, d \in LeaseTimes : ExecClaim(x, w, o, d)
       \/ WorkerStep(x)
  \/ Elsewhere

ExecSpec == ExecInit /\ [][ExecNext]_allVars

\* Time passes, and the service is started again and again (startup is the one
\* place that recovers).
Fairness ==
  /\ WF_allVars(Tick /\ UNCHANGED execVars)
  /\ WF_allVars(RecoverStartup /\ UNCHANGED execVars)

FairExecSpec == ExecSpec /\ Fairness

-----------------------------------------------------------------------------
(* Types of the workers' local state and of the two histories. *)
ExecTypeOK ==
  /\ TypeOK
  /\ worker \in [Workers -> {Idle} \cup
       [at : {"claimed", "dispatched", "awaiting", "answered", "recorded"},
        workflow : Workflows, owner : Owners, fence : Nat]]
  /\ calls \in [Workflows -> Nat]
  /\ answers \in [Workflows ->
       [result : Results, succeeded : BOOLEAN] \cup {None}]

\* Inference runs at most once per workflow, whatever crashes, expires or is
\* cancelled, and never before its dispatch row is durable.
AtMostOnceInference ==
  \A w \in Workflows :
    /\ calls[w] <= 1
    /\ calls[w] = 1 => Dispatched(w)

\* The artifact a workflow publishes is the answer its one router call
\* returned, with that answer's success flag, even when recovery publishes it
\* long after the worker died or the stored outcome was damaged.
PublishesTheAnswer ==
  \A w \in Workflows :
    artifacts[w] # <<>> =>
      /\ answers[w] # None
      /\ artifacts[w] = <<answers[w].result>>
      /\ state[w] = "failed" <=> ~ answers[w].succeeded

\* More rows wait for recovery than recover_startup scans: it raises, and the
\* service does not start.
Overfull == Cardinality(Candidates) > ScanLimit

\* A task never keeps running for ever: it publishes, is cancelled, or is
\* declared uncertain.  The one way out is a recovery that is refused for all
\* because the rows to recover have come to exceed its limit, and not before.
RunningIsResolved ==
  \A w \in Workflows : (state[w] = "running") ~> (state[w] # "running" \/ Overfull)

Damaged(w) ==
  journal[w].outcome # None /\ journal[w].outcome.result # journal[w].outcome.sha

\* An outcome that was recorded is published even if the worker dies right
\* after recording it, unless the task is cancelled, the record is damaged or
\* recovery is refused for all.
RecordedIsPublished ==
  \A w \in Workflows :
    (journal[w].outcome # None) ~>
      \/ artifacts[w] # <<>>
      \/ state[w] = "cancelled"
      \/ Damaged(w)
      \/ Overfull
=============================================================================
