---------------------------- MODULE GraphExecutor ----------------------------
(***************************************************************************)
(* GraphNodeExecutor.execute (src/backend/workflows/graph_executor.py) as  *)
(* LocalGraphDispatcher._execute calls it, by any number of concurrent     *)
(* workers on one WorkflowGraph.  The router's attempt loop is reduced to  *)
(* what it does to the durable budget the nodes share: an attempt is       *)
(* reserved before the provider is called, the tokens of a success are     *)
(* recorded after.                                                         *)
(*                                                                         *)
(* Between two store calls the graph may be cancelled, leases and the      *)
(* deadline run out, another process recover at its startup, or the worker *)
(* die.  A refused store call, an unexpected exception and a death all     *)
(* leave the node row as it is.                                            *)
(***************************************************************************)
EXTENDS WorkflowGraph

CONSTANT Workers   \* concurrent executions

VARIABLES
  job,     \* each worker's place in execute() and its local variables
  runs,    \* generate_task calls made for each node, ever
  tried,   \* calls of a provider made for the whole graph, ever
  handed   \* the dependency outputs bound into each node's prompt

workerVars == <<job, runs, tried, handed>>
executionVars == <<deps, policy, state, fence, owner, lease, artifact, budget,
                   attempts, tokens, trail, job, runs, tried, handed>>

NoJob == [at |-> "idle"]

\* at is an await point or the store call that comes next; result is the
\* payload once there is one.
NodeJob(at, n, o, f) ==
  [at |-> at, node |-> n, owner |-> o, fence |-> f, result |-> None]

At(x, at) == job[x].at = at

MoveTo(x, at) == job' = [job EXCEPT ![x].at = at]

MoveWith(x, at, r) == job' = [job EXCEPT ![x].at = at, ![x].result = r]

Drop(x) == job' = [job EXCEPT ![x] = NoJob]

ExecutionInit ==
  /\ GraphInit
  /\ job = [x \in Workers |-> NoJob]
  /\ runs = [n \in Nodes |-> 0]
  /\ tried = 0
  /\ handed = [n \in Nodes |-> None]

\* The dispatcher needs a bound policy; DurableGraphBudget and claim_graph_node
\* need a budget.
StartNode(x, n, o, d) ==
  /\ job[x] = NoJob
  /\ policy # None
  /\ ClaimGraphNode(n, o, d)
  /\ job' = [job EXCEPT ![x] = NodeJob("claimed", n, o, fence'[n])]
  /\ UNCHANGED <<runs, tried, handed>>

\* get_graph_node_packet, accepted_dependency_artifacts and
\* bind_dependency_artifacts, then the call of generate_task.
ReadDependencies(x) ==
  LET n == job[x].node
  IN /\ At(x, "claimed")
     /\ \A m \in deps[n] : state[m] = "succeeded" /\ artifact[m].accepted
     /\ handed' = [handed EXCEPT ![n] = [m \in deps[n] |-> artifact[m].result]]
     /\ runs' = [runs EXCEPT ![n] = @ + 1]
     /\ MoveTo(x, "routing")
     /\ UNCHANGED <<graphVars, tried>>

\* Mutant: an attempt is not reserved.
RouterAttemptFree(x) ==
  /\ At(x, "routing")
  /\ tried' = tried + 1
  /\ MoveTo(x, "trying")
  /\ UNCHANGED <<graphVars, runs, handed>>

\* budget.reserve_attempt, then the provider is asked to generate
RouterAttempt(x) ==
  /\ At(x, "routing")
  /\ ReserveGraphAttempt
  /\ tried' = tried + 1
  /\ MoveTo(x, "trying")
  /\ UNCHANGED <<runs, handed>>

\* The attempt is reserved and ends before the provider is asked to generate: no
\* time is left, the deployment's identity is refused, or the worker dies.
RouterAttemptEnds(x) ==
  /\ At(x, "routing")
  /\ ReserveGraphAttempt
  /\ UNCHANGED workerVars

\* The provider fails and the router tries again, here or elsewhere.
RouterRetry(x) ==
  /\ At(x, "trying")
  /\ MoveTo(x, "routing")
  /\ UNCHANGED <<graphVars, runs, tried, handed>>

\* The provider answers and its tokens fit the budget.
RouterAnswer(x, r, k) ==
  /\ At(x, "trying")
  /\ RecordGraphOutputTokens(k)
  /\ MoveWith(x, "answered", r)
  /\ UNCHANGED <<runs, tried, handed>>

\* generate_task raises InferenceFailure: no deployment is left, an attempt is
\* refused by the budget, the failure is final or the tokens do not fit.
RouterFailure(x, r) ==
  /\ At(x, "routing") \/ At(x, "trying")
  /\ MoveWith(x, "refused", r)
  /\ UNCHANGED <<graphVars, runs, tried, handed>>

CompleteFailed(x) ==
  /\ At(x, "refused")
  /\ CompleteGraphNode(job[x].node, job[x].owner, job[x].fence, job[x].result, FALSE)
  /\ Drop(x)
  /\ UNCHANGED <<runs, tried, handed>>

CompleteAnswered(x) ==
  /\ At(x, "answered")
  /\ CompleteGraphNode(job[x].node, job[x].owner, job[x].fence, job[x].result, TRUE)
  /\ MoveTo(x, "completed")
  /\ UNCHANGED <<runs, tried, handed>>

\* Mutant: the dispatcher judges by any configured policy.
ValidateCompletedAny(x) ==
  /\ At(x, "completed")
  /\ \E p \in Policies : ValidateGraphNode(job[x].node, p)
  /\ Drop(x)
  /\ UNCHANGED <<runs, tried, handed>>

\* A transaction of its own, with the policy saved when the graph was created.
ValidateCompleted(x) ==
  /\ At(x, "completed")
  /\ ValidateGraphNode(job[x].node, policy)
  /\ Drop(x)
  /\ UNCHANGED <<runs, tried, handed>>

AbandonNode(x) ==
  /\ job[x] # NoJob
  /\ Drop(x)
  /\ UNCHANGED <<graphVars, runs, tried, handed>>

\* What other processes, the operator and the clock do to the graph.
Outside ==
  /\ \/ \E d \in Shapes, p \in Policies \cup {None}, b \in Limits \cup {None} :
          CreateGraph(d, p, b)
     \/ \E b \in Limits : BindGraphBudget(b)
     \/ CancelGraph
     \/ RecoverGraphNodes
     \/ GraphTick
  /\ UNCHANGED workerVars

WorkerMove(x) ==
  \/ \E n \in Nodes, o \in Owners, d \in LeaseTimes : StartNode(x, n, o, d)
  \/ ReadDependencies(x)
  \/ RouterAttempt(x) \/ RouterAttemptEnds(x) \/ RouterRetry(x)
  \/ \E r \in Results : RouterFailure(x, r)
  \/ \E r \in Results, k \in TokenCounts : RouterAnswer(x, r, k)
  \/ CompleteFailed(x) \/ CompleteAnswered(x) \/ ValidateCompleted(x)
  \/ AbandonNode(x)

ExecutionNext == (\E x \in Workers : WorkerMove(x)) \/ Outside

ExecutionSpec == ExecutionInit /\ [][ExecutionNext]_executionVars

\* The clock advances and the service keeps being restarted, each time with a
\* recovery scan; workers owe nothing, they may always die.
RestartFairness ==
  /\ WF_executionVars(GraphTick /\ UNCHANGED workerVars)
  /\ WF_executionVars(RecoverGraphNodes /\ UNCHANGED workerVars)

FairExecutionSpec == ExecutionSpec /\ RestartFairness

-----------------------------------------------------------------------------
(* Types of the workers' local state and of the histories. *)
ExecutionTypeOK ==
  /\ GraphTypeOK
  /\ job \in [Workers -> {NoJob} \cup
       [at : {"claimed", "routing", "trying", "answered", "refused", "completed"},
        node : Nodes, owner : Owners, fence : Nat,
        result : Results \cup {None}]]
  /\ runs \in [Nodes -> Nat]
  /\ tried \in Nat

\* ADR-023: a node is executed at most once, whatever is cancelled, expires,
\* recovers or dies, and only a claimed node is executed at all.  Its event log
\* says so: it starts where the graph was created, is a path of legal moves
\* although claims bypass GraphState.transition, never comes back to a state
\* and ends in the stored one.
NodeRunsOnce ==
  \A n \in Nodes :
    LET log == trail[n] IN
    /\ runs[n] <= 1
    /\ runs[n] = 1 => fence[n] > 0 /\ \E i \in DOMAIN log : log[i] = "running"
    /\ Created => log[1] \in {"blocked", "ready"} /\ log[Len(log)] = state[n]
    /\ \A i \in 1..(Len(log) - 1) : <<log[i], log[i + 1]>> \in Allowed \cup Derived
    /\ \A i, j \in 1..Len(log) : i # j => log[i] # log[j]

\* What a node's prompt was given is what each of its dependencies still has
\* as its accepted artifact, however long ago the prompt was bound.
HandoffStaysAccepted ==
  \A n \in Nodes :
    runs[n] > 0 =>
      /\ handed[n] = [m \in deps[n] |-> artifact[m].result]
      /\ \A m \in deps[n] : state[m] = "succeeded" /\ artifact[m].judge = policy

\* Parallel nodes and restarts share one budget: every provider attempt ever
\* made for the graph is in the durable count, and that within the limit.
AttemptsAreShared ==
  /\ tried <= attempts
  /\ attempts > 0 => budget # None /\ attempts <= budget.attempts

\* A worker that dies or is refused leaves no node running for ever: the lease
\* runs out and a restart fences the node as uncertain.
NodeIsResolved ==
  \A n \in Nodes : (state[n] = "running") ~> (state[n] # "running")
=============================================================================
