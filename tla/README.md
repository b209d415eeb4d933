# Ryuk: TLA+ verification project

Ryuk is a Python service that routes inference requests to model deployments and
runs *workflows*: inference tasks that are stored in SQLite, executed by local
workers, judged against an acceptance policy, and recovered after a crash. This
directory holds TLA+ modules translated from that code, the TLC configurations
that check them on small instances, and TLAPS proofs for every size.

## The system and its parts

| Component | State it keeps | Operations | Correct when |
|---|---|---|---|
| Workflow store, single tasks (`workflows/store.py`) | one row per task (state, fence, owner, lease), dispatch journal, artifacts, validation report, event log | create, claim, begin_dispatch, record_outcome, complete, reconcile_uncertain, validate, cancel, recover_expired, recover_startup | a task runs once, publishes once, is judged by the policy it was bound to, and whoever lost it is fenced off |
| Executor (`workflows/executor.py`) | a coroutine's locals | execute: claim, journal, call the router, record, complete | the router is called at most once per task and only its answer is published |
| Startup recovery (`workflows/recovery.py`, `main.py`) | a report | recover_workflows_at_startup | lost tasks are resolved from evidence or stay uncertain |
| Dispatcher (`workflows/dispatcher.py`) | active executions, counters, lifecycle state | start, stop, wait_idle, the polling loop | bounded concurrency, drain on stop, nobody starves |
| Graph contract, store, executor, budget (`workflows/graph*.py`, `store.py` 313-1023) | node states, per-graph attempts and tokens | create, claim, complete, validate, cancel, recover | dependants start only after accepted dependencies; budget never exceeded |
| Validation and policies (`workflows/validation.py`, `audit/deterministic.py`) | none | validate_artifact | verdict is a function of artifact and snapshot |
| HTTP service (`main.py`, `middleware.py`, `workflows/api.py`, `graph_api.py`) | a request's place in its endpoint | startup, authenticate, admit, work, release, record, answer | nobody gets past a guard, every permit comes back, success is told only when it is recorded |
| Control plane (`control/api.py`, `security.py`, `records.py`) | API keys, execution records | authenticate, authorize, verify_production_ready, put | keys of one tenant act for that tenant; records are durable before the answer |
| Router (`inference/router.py`, `policy.py`) | attempts of one request | generate_task, backoff | attempts within policy, budget and deadline |
| Runtime state (`inference/runtime.py`) | liveness and readiness per deployment | probe, record_attempt | fresh information wins |
| Deployments (`inference/registry.py`, `deployment.py`, `capabilities.py`, `engines/*`, `config.py`) | registered deployments and what they claim | register, inspect_identity, evaluate_capabilities | a demand is met by the deployment that answers, and provenance is true |
| Admission (`control/admission.py`) | permits and quotas per tenant | admit, release | limits never exceeded, nothing leaks |
| Context store and builder (`context/store.py`, `builder.py`) | conversations, immutable source revisions, entries | create_conversation, add_source, append_message, attach_source, build | a context holds what its reader may see, all of it, as it was written |
| Context fitting (`context/preparation.py`) | none | prepare_context | the window is kept, nothing required is dropped, nothing of higher priority goes first |

Processes share only the SQLite file. Every store method is one
`BEGIN IMMEDIATE` transaction, so methods interleave but never overlap; what is
hard is what happens *between* them: a worker awaits the router for minutes
while its lease runs out, someone cancels, another process recovers, the disk is
damaged, the worker dies. `PROJECT.json` lists these hazards line by line.

## Modules

- `TaskLifecycle` is the abstract promise: one start, one publication, a lost
  execution is resolved only by publishing what it produced, final states are
  final. It has no leases, fences, journal or clock.
- `WorkflowStore` is the single-task half of `SQLiteWorkflowStore`. One variable
  per column or table, one action per method; a method that raises
  `WorkflowConflict` rolls back and is not enabled. Its callers are the most
  general ones: any owner, any fence ever issued, at any time. `lease` is the
  time a lease has left, since the code only compares `lease_until` with now.
  A digest is represented by the payload it was computed from, and `Corrupt`
  damages a stored payload so that the two differ. `Accepts` stands for
  `validate_artifact`. `fence` values handed out start at 1, so a journal fence of
  0 means that there is no dispatch row.
- `WorkflowExecutor` extends it with workers that run `execute()` step by step,
  and two histories: how often the router was called for a workflow and what it
  answered. A worker may stop at any step (a conflict, an exception, the death of
  the process).
- `Dispatcher` models `LocalWorkflowDispatcher`: any number of dispatchers over
  one queue. What runs between two awaits on the event loop is one action. Of a
  row it keeps the place in the queue and the holder of the claim.
- `GraphStates` is the node-state contract of `graph.py`: states, legal moves,
  what `_refresh_waiting_nodes` yields (`Doomed` is the set of nodes it skips, as a
  fixpoint) and what `GraphState.__post_init__` demands.
- `WorkflowGraph` is the graph half of the store on that contract: one graph, its
  node rows, artifacts, events and the budget its nodes share. One graph is
  enough, since two share no row. The constructor check of `GraphState` is not a
  guard of the actions but the invariant `ConsistentStates`: a stored vector that
  failed it could never be read again.
- `GraphExecutor` extends it with workers running `GraphNodeExecutor.execute()`;
  of the router it keeps what it does to the durable budget: an attempt is reserved
  first, and may end before the provider is asked.
- `GraphTransition` runs the loops that `WorkflowGraph` takes the result of, one
  iteration per step: cycle detection by peeling, the refresh loop, and the
  ordering of the events of one transition.
- `Router` models `generate_task` with the ranking of `policy.py`, the runtime
  states that probes and attempts share, and `WorkflowBudget`, for concurrent
  calls on one event loop: what lies between two awaits is one action, timers are
  prompt. A task comes with the deployments it is eligible for.
- `Admission` models both coordinators (in-process counters, Redis scripts whose
  replies get lost) for the most general endpoints.
- `Service` extends it with the endpoints themselves: one request goes from the
  body limit through `require_role`, `admit_request`, its `try` block, the `finally`
  clause and `record_terminal` to its answer, each a step of its own. What an
  endpoint does is an outcome, except that creating a workflow saves its packet
  under the tenant's key. Record stores fail before or after their commit, keys
  expire, a replica ends at any place of a request, the process ends and the next
  one starts with other keys and checks them again.
- `Serving` is about which model answers: the settings and their validators, the
  registry made of them, the claims of each deployment, what each adapter can
  discover of a provider, and one call with an inspection before each attempt,
  while operators load other models. An inspection that fails is one that observed
  nothing, as in `inspect_identity`. The ranking is left to `Router`; here any order
  is tried.
- `Context` models the scoped context store, a transaction an action, and
  `ContextBuilder.build` in the three lock sections it really has. A principal is an
  input of each call, so a user's memberships may differ from call to call.
- `ContextPreparation` runs `prepare_context` on every bounded input: the duplicates,
  then one count and one drop at a time.
- `Sorting` says what a comprehension over a list makes of the positions it keeps.
- Modules named `MC...` give TLC its constants and symmetry. `MCCalls` puts the
  modules that are one call each (`GraphTransition`, `ContextPreparation`, `Context`,
  `Serving`) beside each other: a behaviour of it is a behaviour of one of them.
- `WorkflowProofs`, `GraphProofs`, `DispatcherProofs`, `RouterProofs`,
  `ServiceProofs`, `ServingProofs`, `ContextProofs` and `LoopProofs` hold the theorems.

Orders are stated by what they are and not by an algorithm, so that they can be
reasoned about: `ListReady` is the ready rows with few enough before them,
`OrderedDeployments` and `Sorted` are the one sequence that lists a set in the order
the code asks for, `Registered` concatenates what each engine adds.

`TaskLifecycle` is implemented twice, by single tasks (`LifecycleSpec`) and by
graph nodes (`NodeLifecycleSpec`): both halves of the store keep one promise.

A definition whose comment says *Mutant* is a plausible bug; it is used by no
specification, and replacing the definition named in `PROJECT.json` by it makes
the named property fail.

## Runs

| Run | Instance | Shows |
|---|---|---|
| `store` | 2 workflows, 2 tenants, 2 keys, 2 owners, 2 policies that disagree, 2 results, leases of 1 or 2 ticks, scan limit 2 | all safety and action properties of the store, and refinement of `TaskLifecycle` |
| `executor` | 2 workers, 2 workflows nobody judges, scan limit 1, which one lost task reaches and two exceed | `AtMostOnceInference`, `PublishesTheAnswer`; `RunningIsResolved` and `RecordedIsPublished` under fairness |
| `dispatcher` | 2 dispatchers of 1 slot, 1 ordinary and 1 unbound workflow, counters up to 3 | concurrency, single execution, accounting, drain |
| `dispatcher_live` | 1 dispatcher of 2 slots, 2 ordinary and 1 unbound workflow | `StopReturns`, `ReadyIsServed`, `WaitIdleReturns` |
| `dispatcher_starved` | 1 dispatcher of 1 slot, 1 ordinary and 1 unbound workflow | `ReadyIsServed` is violated, see Findings |
| `graph_store` | every acyclic graph over 3 nodes, 2 policies that disagree, budgets with and without a token ceiling, scan limit 1 | safety and action properties of the graph store, refinement of `TaskLifecycle` |
| `graph_executor` | 2 workers on every acyclic graph over 2 nodes, 2 attempts and 2 tokens to share | one run per node, handed-on outputs stay accepted, shared attempts, `NodeIsResolved` under fairness |
| `calls` | every dependency function over 3 nodes, cyclic ones too, with every legal transition of every consistent vector; every context of up to 4 segments of 2 texts and 2 priorities under 3 windows; 4 principals (two members of a project, one of them also without the membership, and a namesake of another tenant) with 1 conversation, 2 source ids of 2 revisions, a window of 2 entries and one build; every pair of engines with models, revisions, eligibility and shared ids, 3 loads for each provider, 6 tasks | the loops compute what `GraphStates` says, in causal event order; contexts fit, lose duplicates and low priorities only; a built context holds what its reader may see and all of it; production is answered by eligible deployments that report nothing else, provenance is true |
| `nim_inspection` | the engines of `calls` alone | `InspectionFailsClosed` is violated, see Findings |
| `router` | 2 calls, 2 deployments, deadlines 0 and 2, a budget of 2 attempts and 1 tick, backoff 0 then 1, one remembered outcome, TTL 2, probes up to 1 tick | failover, budget, deadlines, avoidance of failed and stale deployments |
| `service` | 2 requests, 2 keys of 2 tenants, one without a quota, 2 packets under one key, every environment, record store and coordinator | `AcceptedIsRecorded`, `PermitsAreReleased`, `ProductionIsGuarded`, `ConcurrencyIsBounded` |
| `admission_leak` | 2 requests, a tenant with quota (3 a minute, 2 at a time, 4 tokens) and one without | `PermitsComeBack` is violated, see Findings |

Type invariants are proved (`TypeCorrect`, `GraphTypeCorrect`) or left to the
properties of a run, none of which can be evaluated on a malformed state. What
theorems say for every instance is not run again: `KeyNamesOneWorkflow`,
`BudgetNeverResets` and `LateResultsAreFenced` hold of all specifications whose
refinement the runs check.

One conversation is enough for `calls`: two share only sources, which several
principals write in any case. Two source ids with two revisions each make a source
that is selected and recent, in one revision or in two. In `service` the second
request is the one that meets what the first left behind: a held permit, a saved
packet, a row in SQLite's open transaction. Four segments are two duplicates and
two that compete for the rest of the window. One call is enough for `Serving`,
whose calls share nothing but the registry.

Three nodes give every shape a scheduling decision depends on: a chain (skipping
must cascade), a fork, a join (all dependencies, not one). Two nodes suffice for
the executors, which interact only through a dependency or the budget. The
router remembers 1 outcome of a deployment where the code remembers 20: the
length only decides how fast the failure rate moves. `TokenBound` bounds the count
of a budget without a ceiling.

Two workflows are enough for the interactions the store has between rows: the
key lookup of `create` and the scans of the two recovery methods, where one row
may be damaged and the other not. Two owners and two results are needed for a
wrong owner and a wrong payload. Fences are not bounded by hand: a row is handed
out once and revoked at most once more, which the proof confirms. `CounterCap` is
an artificial bound: the dispatcher's counters stop there while the
dispatcher goes on, and `EveryDispatchAccounted` speaks of counts below it.
Deadlock is not checked, because a system whose tasks are all judged, failed,
cancelled or unresolved has nothing left to do.

**Fairness.** `FairExecSpec` assumes that time passes and that the service is
started again and again: startup is the only production caller of recovery, so
without it a lost task stays running. Nothing is assumed of workers.
A recovery that meets more rows than its limit raises and the service stays down:
`Overfull` is the one way out of these properties. `RestartFairness` assumes the
same of graphs. The other modules have safety properties only. `Dispatcher`
assumes that the event loop runs what is ready and that an execution ends (the
router works against a deadline); nobody has to start, stop, create or cancel.
`WaitIdleReturns` is about a dispatcher that keeps running: `wait_idle` looks at the
dispatcher's state only once, so stopped under it with ready work left it polls for
ever, and no document promises otherwise (the hazard is listed without a property).
Liveness and the role of fairness are checked by TLC only: TLAPS does not reason
about them.

## Proofs

All theorems hold for any sets of workflows, tenants, owners, policies, results
and workers, any lease times and scan limit. Assumptions: `None` (SQL NULL) is
not one of the values a column holds (`NoneAssumption`, `AnswerAssumption`),
leases are positive (`LeaseAssumption`), and the sort of the scan limit and of
`Accepts`. For graphs: dependencies name nodes (`GraphShapes`), `None` again
(`GraphNone`), limits and leases are positive (`GraphLimits`). For admission:
finitely many requests, positive quotas (`AdmissionConstants`). For the service: a
key's principal has one of the tenants (`ServiceConstants`). For contexts: the
sorts of the limits and of a selection, and of policies what `ContextBuilder`
demands: non-empty, required, each id once (`ContextConstants`).
For the router: deployments, limits, delays and deadlines have their sorts, and
`None` is neither a number nor a budget (`RouterConstants`). For serving: what the
validators of the settings demand, and that a provider's model has a name
(`ServingConstants`). For fitting: what the constructors of profiles, segments and
token counts accept (`PreparationConstants`). For a graph's loops: nodes are
numbered in their order (`NodeNumbers`). TLC evaluates all of them on every run.

*Store* (`WorkflowProofs`). None of the safety properties is inductive.
`StoreInv` adds, per row, `Fences` (absent or ready rows have fence 0 and no
dispatch, running ones 1, uncertain ones 2, journal fences are 0 or 1: so
"journal fence + 1 = row fence" means *the* execution) and `Marks` (an entry is
in the event log only if the step that writes it lies in the past, so no entry
can be written twice). `GrowLog` and `LogStep` deal with appending to the log,
`PublishRow`, `CommitStep`, `LoseStep` and `LoseAndPublishStep` with the two
kinds of row updates that several actions share, `Frame` with rows an action
leaves alone; `RowStep` has one step per action. From `StoreInvariant` follow
`PublicationCorrect`, `JudgementCorrect` and `AuditTrailCorrect`.

*Steps* (`WorkflowProofs`). `Moves` shows that a step keeps a row, moves it
without publishing, or publishes its one artifact. The action properties
(`FencingCorrect`, `RecoveryCorrect`) and the refinement
(`LifecycleImplemented`) are read off it. `KeysCorrect` is inductive together
with the type invariant.

*Executor* (`WorkflowProofs`). `ExecInv` adds that a workflow has one
worker at most (a row is never ready again) and that the worker's place in
`execute()` says whether the dispatch row, the call, the answer and the outcome
exist. `OwnStep` reduces a worker's step to its own workflow and `Bystander`
says what everyone else leaves alone. `ExecImplementsStore` makes every theorem
about the store one about the executors; `InferenceAtMostOnce` and
`AnswerPublished` follow.

*Graphs* (`GraphProofs`). `GraphInv` joins the type invariant,
`ConsistentStates`, `AcceptedHandoff` and `CancellationIsFinal`, which need each
other (a claim finds its dependencies succeeded by the first and hence accepted by
the second; after a cancellation the third leaves no method anything to move), and
adds that nothing exists before `create_graph` (`Unborn`) and that counts lie within
the limits (`WithinBudget`). `SettledConsistent` is the heart: what
`_refresh_waiting_nodes` makes of a consistent vector is consistent, on any
dependency function. That needs no acyclicity, because any set that satisfies
`Doomed` does; acyclicity makes it unique (`DoomedOnce` in `LoopProofs`). `Moves`
reduces every method to four kinds of node moves, off which `FencedCorrect` and
`NodeLifecycleImplemented` are read.

*Graph executors* (`GraphProofs`). `ExecutionImplementsGraph` makes every theorem
about the graph store one about its executors. `WorkersInv` adds `JobOK` (a worker has
a node whose log says it was claimed, and has not called the router before it read
the dependencies), `OneJob` (no two workers have one node), `NodeOK` (a node was
called for at most once, and only after its claim) and `TrailOK`: a node's log is a
path of legal moves that ends in its state and grows in `Rank`, so that no state is
entered twice (`LogGrows`, `TrailStep`). `NodeRunsOnceCorrect` follows, and with the
budget `AttemptsSharedCorrect`: no more providers are asked than attempts were
reserved, and those stay within the limit. `HandoffStays` needs `HandoffInv` besides: executors
judge by the graph's own policy (`ArtifactStep`), and what a node that ran was handed
is what its dependencies have, since those are settled (`DependenciesSettled`).

*Dispatcher* (`DispatcherProofs`). `DispatcherInv` says of each dispatcher that its
executions fit its slots (`Bounded`), that what it dispatched has ended or is still
to end (`Counted`) and that it has no task outside its coordinator's life (`Quiet`),
and of each workflow that only the holder of its claim is past it (`Exclusive`).
`ReadyRows` is what `ListReady` returns: distinct ready rows, no more than asked
for. `Step` reduces every action to what it does to one dispatcher's slots.

*Router* (`RouterProofs`). `RouterInv` is `ObservedInv` (what `runtime` shows of a
deployment agrees with what attempts and probes learned of it) and `CallInv` (in a
call's every state its timer fits both deadlines, its attempts were reserved, and
what it tried is a prefix of the ranking it started with, a deployment being repeated
only in place). `Ranking` shows that `OrderedDeployments` is a sequence of distinct
routable deployments in score order; `ProceedStep`, `BackOffStep` and `TriedStep` are
the three ways a call goes on, `AgedStep` is the clock, `GoesOK` puts a call's step
into the whole. `AvoidsFailedCorrect` is an action property read off `ObservedInv`.

*Serving* (`ServingProofs`). `StartupInv` says that production comes up only with
every candidate verified or configured without a doubt; `CallInv` that the one who
answers is among the eligible and that an inspection stands behind it
(`Inspection`: what was observed was true of the provider when it was observed,
`ObservedTrue`). vLLM and SGLang report what they have loaded (`Reports`), so
`ProductionCorrect` says of them that nothing loaded contradicted the settings. A
managed product (NIM, Dynamo) confirms the settings or the discovery fails, and a failed
discovery does not stop a call: of those the theorem says only that they are eligible
and configured, and the finding `nim_inspection` shows that no more holds.
`RegisteredHolds` is what the registry contains.

*Loops* (`LoopProofs`), for every graph and every context, however long.
`TransitionInv` has three parts. `GraphInv`: a circle is never peeled. `Refreshing`
and `Settled`: a node the refresh loop moved had a reason that lasts, and in a pass
without a change so far every node passed is settled; hence at the end all are,
which with `SkippedIsDoomed`, `DoomedOnce` (the difference of two solutions would be a
circle) and `SettledIsConsistent` gives `ClosureCorrect`. `Causal`: what is ordered is
closed under changed dependencies, so a layer never waits for what is already
written, and by `Causes` each derived change has a changed dependency; a layer is
never empty since it would leave a circle (`SomeEligible`). `PrepareInv` is `Fitting`
at every count: losses are listed once, a duplicate names the winner of its text
(`WinnerFacts`, `WinnerOfSame`), only winners are dropped, in `drop_order`, and the last
drop was needed. That these first elements and orders exist is `FirstExists` and
`SortedFacts`, from a place being the number of what comes before (`Places`).

*Admission* (`ServiceProofs`). `AdmissionInv` is the bound itself with the types.
A request that ends unnoticed leaves the count too high (`EndKeeps`), a counted
permit is the only one released (`ReleaseStep`), and counters are only thrown away
with the requests they counted or when there are none (`RestartStep`, `ExpireStep`);
what Redis counted outlives the process.

*Service* (`ServiceProofs`). `HandlingOK` says what is known of a request at each
place of the handler; it is what makes an admission one for a tenant that exists
(`AskIsAdmission`). The actions of `Service` contain those of `Admission`, so
`ServiceImplementsAdmission` is a lemma of composition and no result; it carries the
bound over to the endpoints (`ServiceConcurrency`). `RequestStep` is every step as one
request sees it. On it rest three more invariants: `GuardInv` (while production is
up every active key's tenant has a quota; `Active` only shrinks until the next start,
which checks again), `RecordInv`
(committed records stay, `DurableStep`, and a saved packet is never replaced,
`SavedStep`) and `PermitInv` (a permit is of its request's own tenant, `Owned`, and
each counted one has a holder, `Covered`).

*Context* (`ContextProofs`). `EntriesReadable` speaks of readers whose memberships
may not be those of the writer, so it is not inductive. `ContextInv` is about rows
only: an entry's source exists, lies in the conversation's project, and if it is one
user's, so is the conversation. `EntryKept` and `NoNewEntry` say that no transaction
disturbs an old entry, `NewEntry` that `attach_source` and `append_message` check
enough for a new one, `Grown` that no row is ever updated but for damage to a text.

`BuildInv` follows a call of `build` through its three lock sections: once admitted
it stays admitted, what it has read is usable in its conversation and is the text as
it was written (`SegmentOK`), and its answer is the merge of what it read
(`MergedOK`). `BuildKept` shows that nothing another principal does disturbs this.
What the merge computes is an induction over the segments that the loops meet: the
history of `Merged` exists (`HistoryExists`), and each turn keeps `MergeOK` (one
segment per id, in the order of first appearance, with the text and the strongest
claims met under its id, and a conflict has a cause; `MergeStep`) and the policy in
front (`PolicyFirstStep`). `GatherPositions` says where each loop meets what, and
`BuiltIsAuthorized` and `NothingIsSkipped` follow for policies, selections and
conversations of any length. That two reads of one revision agree rests on
`SegmentOK`, that a conversation holds a revision once on `EntriesOnce`.

Every conjunct of these invariants except the bookkeeping ones (`Fences`, `Marks`,
`Unborn`, `WithinBudget`, `HandlingOK`, `Owned`, `EntryOK`, `JobOK`, `TrailOK`,
`Quiet`, `CallOK`, `Observed`, `Inspection`, `Settled`, `AdmittedOK`, `SegmentOK`, what `GuardInv` says of the
running process, types) is also a property of a run; `StoreInv`, `ExecInv`,
`RouterInv`, `TransitionInv` and `BuildInv` were model-checked as a whole before they were proved.

Induction over a sequence is done with a set of numbers (`BoundedInduction`), since
the library's induction theorems take an operator that the provers cannot instantiate.

Model-checked only: liveness (`RunningIsResolved`, `RecordedIsPublished`,
`NodeIsResolved`, `StopReturns`, `ReadyIsServed`, `WaitIdleReturns`), which is out of the
prover's reach.

## Findings

`dispatcher_starved`: an execution that fails before its claim leaves its row
ready and unfenced. `list_ready` returns the oldest ready rows, as many as there
are free slots, so with as many such rows as slots (legacy rows without a
binding) every iteration picks them again and later workflows are never
dispatched, although the comment in `_execute` and ADR-019 say that failures
never stop other work. `dispatcher_live` shows that one slot more is enough.

`admission_leak`: `inference_generate` and `inference_chat` take their permit, then
build the task, then enter the `try` block whose `finally` clause returns the permit.
`TextInput` and `RoutingRequirements.__post_init__` refuse blank texts (a prompt, a model,
an accelerator, a topology, a data location) that the request models accept, so such a
request keeps its permit until the process restarts, against the guarantee in
`docs/reports/NEXT_SESSION_HANDOFF.md`. `ConcurrencyCorrect` shows that this costs
capacity and never opens it, `PermitsAreReleased` that only requests whose task could
not be built keep a permit this way.

`nim_inspection`: `docs/integrations/nim-compatibility.md` says "Identity inspection fails
closed when the running release, profile, or served model differs." The adapter does
raise, but `inspect_identity` (`registry.py:57-63`) takes the failure for a discovery that
observed nothing and answers `configured_only`, and `_execute_task` (`router.py:429`)
refuses a mismatch only. Startup fails closed, an attempt does not: a NIM redeployed after
startup goes on answering production calls, with the configured model in the provenance.

Not a run: `_backoff` compares a delay with the task's deadline only, while ADR-012
speaks of the minimum with the workflow budget's. The default policy has no delays,
and after one the next attempt is refused by the budget anyway.

## Not modelled

- The contents of packets, results and policies: `Accepts` stands for the text checks
  of `validation.py` and `audit/deterministic.py`, which compare characters.
- The migrations of the schemas: one transaction when a file is opened.
- The JSON the adapters and endpoints read and write, logging, metrics and traces;
  key hashing, secret references, Vault. The hosted NIM adapter, which
  `build_deployment_registry` never registers, and the types of `advanced.py`,
  immutable values without behaviour apart from a JSON schema check.
- `control/deployments.py` and `control/governance.py`, which the service does not
  import; offline evaluation, scripts, spikes and the stand-alone worker.
- The list of the latest 100 failures of the dispatcher, and the second copy of its
  loop in `LocalGraphDispatcher`. The public `transition_graph_node`, which only tests
  call (its loop is in `GraphTransition`).
- A router without runtime states, the legacy `generate` path, `stop()` of the probe
  collector and the closing of resources at shutdown.
- The uniqueness of request ids: a client may choose its own, and both record stores
  keep several records of one id.

## Plan

Done: tasks, executors, dispatcher, graphs, router, admission, the service around
them, the serving of models, contexts; every safety and action property of a run is
also a theorem. Next:

1. That the refinements compose: what a task's executor asks of its store and of the
   router as one abstract specification that both are shown to implement.
2. The validators of `control/governance.py` and the deployments records, should the
   service come to import them.
