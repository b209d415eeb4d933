---------------------------- MODULE WorkflowGraph ----------------------------
(***************************************************************************)
(* The graph half of SQLiteWorkflowStore (src/backend/workflows/store.py)  *)
(* on the node-state contract of src/backend/workflows/graph.py: one       *)
(* durable dependency graph, its nodes, their artifacts and the budget all *)
(* of them share.                                                          *)
(*                                                                         *)
(* As in WorkflowStore a method is one transaction and so one action, a    *)
(* conflict is a disabled action, and any process may call any method with *)
(* any owner and any fence ever issued.  Two graphs share no row, so one   *)
(* stands for all; the recovery scan limit is the only thing they compete  *)
(* for.  Leases and the graph deadline are kept as the time they have left.*)
(*                                                                         *)
(* The constructor of GraphState refuses a state vector that contradicts   *)
(* the dependencies, and every read and write goes through it.  That check *)
(* is not a guard here: it is the invariant ConsistentStates.              *)
(***************************************************************************)
EXTENDS GraphStates, Integers, Sequences, FiniteSets

CONSTANTS Shapes,      \* the dependency functions WorkflowGraph accepts
          Owners, Policies, Results,
          Accepts,     \* the <<policy, result>> pairs validate_artifact accepts
          LeaseTimes,  \* the lease_seconds claimants ask for
          Limits,      \* deadline, attempt and output-token limits of a budget
          TokenCounts, \* output tokens an attempt can report
          TokenBound,  \* the model's bound on the count of an unlimited budget
          ScanLimit,   \* workflow_recovery_scan_limit
          None         \* SQL NULL, or a missing row

ASSUME GraphShapes == Shapes \subseteq [Nodes -> SUBSET Nodes]

ASSUME GraphNone ==
  /\ None \notin Owners
  /\ None \notin Policies
  /\ None \notin Results
  /\ None \notin Nat
  /\ None \notin [deadline : Nat, attempts : Nat, tokens : Nat \cup {None}]
  /\ None \notin [Nodes -> SUBSET Nodes]

ASSUME GraphLimits ==
  /\ LeaseTimes \subseteq Nat \ {0}
  /\ Limits \subseteq [deadline : Nat \ {0}, attempts : Nat \ {0},
                       tokens : (Nat \ {0}) \cup {None}]
  /\ TokenCounts \subseteq Nat
  /\ TokenBound \in Nat
  /\ ScanLimit \in Nat \ {0}

ASSUME GraphAccepts == Accepts \subseteq Policies \X Results

VARIABLES
  deps,      \* workflow_graphs.graph_json, or None before create_graph
  policy,    \* the acceptance policy in workflow_graphs.binding_json
  state,     \* workflow_graph_nodes.state
  fence, owner, lease,   \* the node rows' claim columns
  artifact,  \* the result artifact of each node and the judgement on it
  budget,    \* workflow_graph_budgets: the limits, the deadline counting down
  attempts, tokens,      \* what the budget row has consumed
  trail      \* workflow_graph_events, kept per node

claims == <<fence, owner, lease>>
spent == <<budget, attempts, tokens>>
graphVars == <<deps, policy, state, fence, owner, lease, artifact, budget,
               attempts, tokens, trail>>

Artifact == [result : Results, judge : Policies \cup {None}, accepted : BOOLEAN]

NoArtifact == [result |-> None, judge |-> None, accepted |-> FALSE]

-----------------------------------------------------------------------------
Created == deps # None

\* The node states become s and whatever follows for the waiting nodes.
Settle(s) ==
  \E S \in SUBSET Nodes : Doomed(deps, s, S) /\ state' = Refreshed(deps, s, S)

\* Every change of a node's state writes one event.
Logged ==
  trail' = [n \in Nodes |-> IF state'[n] = state[n] THEN trail[n]
                            ELSE Append(trail[n], state'[n])]

\* A budget with time left
Open == budget # None /\ budget.deadline > 0

\* _require_graph_lease
RequireGraphLease(n, o, f) ==
  /\ Created
  /\ state[n] = "running"
  /\ owner[n] = o
  /\ fence[n] = f
  /\ lease[n] > 0

-----------------------------------------------------------------------------
GraphInit ==
  /\ deps = None
  /\ policy = None
  /\ state = [n \in Nodes |-> "blocked"]
  /\ fence = [n \in Nodes |-> 0]
  /\ owner = [n \in Nodes |-> None]
  /\ lease = [n \in Nodes |-> 0]
  /\ artifact = [n \in Nodes |-> NoArtifact]
  /\ budget = None
  /\ attempts = 0
  /\ tokens = 0
  /\ trail = [n \in Nodes |-> <<>>]

\* One transaction writes the graph, its nodes and events, the policy binding
\* and, when it is given, the budget.  The same key again returns the id.
CreateGraph(d, p, b) ==
  /\ ~ Created
  /\ deps' = d
  /\ policy' = p
  /\ state' = [n \in Nodes |-> InitialState(d, n)]
  /\ trail' = [n \in Nodes |-> <<state'[n]>>]
  /\ budget' = b
  /\ UNCHANGED <<claims, artifact, attempts, tokens>>

\* A bound budget is returned or conflicts: it never changes.
BindGraphBudget(b) ==
  /\ Created
  /\ budget = None
  /\ budget' = b
  /\ UNCHANGED <<deps, policy, state, claims, artifact, attempts, tokens, trail>>

ReserveGraphAttempt ==
  /\ Open
  /\ attempts < budget.attempts
  /\ attempts' = attempts + 1
  /\ UNCHANGED <<deps, policy, state, claims, artifact, budget, tokens, trail>>

\* A count that would pass the ceiling is refused and not recorded; 0 also stands
\* for a count that is not known.  (TokenBound bounds the model only.)
RecordGraphOutputTokens(k) ==
  /\ budget # None
  /\ budget.tokens # None => tokens + k <= budget.tokens
  /\ tokens + k <= TokenBound
  /\ tokens' = tokens + k
  /\ UNCHANGED <<deps, policy, state, claims, artifact, budget, attempts, trail>>

\* Mutant: an uncertain node may be claimed again.
ClaimGraphNodeAgain(n, o, d) ==
  /\ Open
  /\ state[n] \in {"ready", "uncertain"}
  /\ state' = [state EXCEPT ![n] = "running"]
  /\ fence' = [fence EXCEPT ![n] = @ + 1]
  /\ owner' = [owner EXCEPT ![n] = o]
  /\ lease' = [lease EXCEPT ![n] = d]
  /\ Logged
  /\ UNCHANGED <<deps, policy, artifact, spent>>

\* The row is updated directly, not through GraphState.transition.
ClaimGraphNode(n, o, d) ==
  /\ Created
  /\ Open
  /\ state[n] = "ready"
  /\ state' = [state EXCEPT ![n] = "running"]
  /\ fence' = [fence EXCEPT ![n] = @ + 1]
  /\ owner' = [owner EXCEPT ![n] = o]
  /\ lease' = [lease EXCEPT ![n] = d]
  /\ Logged
  /\ UNCHANGED <<deps, policy, artifact, spent>>

\* A success only awaits validation, so nothing is released yet; a failure is
\* terminal and skips what waits behind the node.
CompleteGraphNode(n, o, f, r, succeeded) ==
  /\ RequireGraphLease(n, o, f)
  /\ IF succeeded THEN state' = [state EXCEPT ![n] = "awaiting_validation"]
                  ELSE Settle([state EXCEPT ![n] = "failed"])
  /\ artifact' = [artifact EXCEPT ![n] =
                    [result |-> r, judge |-> None, accepted |-> FALSE]]
  /\ owner' = [owner EXCEPT ![n] = None]
  /\ lease' = [lease EXCEPT ![n] = 0]
  /\ Logged
  /\ UNCHANGED <<deps, policy, fence, spent>>

\* A node that was judged returns its report, or conflicts under another policy.
ValidateGraphNode(n, p) ==
  LET accepted == <<p, artifact[n].result>> \in Accepts
  IN /\ Created
     /\ artifact[n] # NoArtifact
     /\ artifact[n].judge = None
     /\ state[n] = "awaiting_validation"
     /\ artifact' = [artifact EXCEPT ![n] =
                       [result |-> @.result, judge |-> p, accepted |-> accepted]]
     /\ Settle([state EXCEPT ![n] = IF accepted THEN "succeeded" ELSE "rejected"])
     /\ Logged
     /\ UNCHANGED <<deps, policy, claims, spent>>

\* Mutant: a node under validation is left alone.
WithdrawnEarly == {n \in Nodes : state[n] \in {"ready", "running"}}

\* The nodes cancel_graph withdraws, one after the other in one transaction.
\* None of them waits for another, so the order makes no difference.
Withdrawn == {n \in Nodes : state[n] \in {"ready", "running", "awaiting_validation"}}

\* Uncertain nodes, and what waits behind them, stay as they are.
CancelGraph ==
  /\ Created
  /\ Settle([n \in Nodes |-> IF n \in Withdrawn THEN "cancelled" ELSE state[n]])
  /\ fence' = [n \in Nodes |-> IF n \in Withdrawn THEN fence[n] + 1 ELSE fence[n]]
  /\ owner' = [n \in Nodes |-> IF n \in Withdrawn THEN None ELSE owner[n]]
  /\ lease' = [n \in Nodes |-> IF n \in Withdrawn THEN 0 ELSE lease[n]]
  /\ Logged
  /\ UNCHANGED <<deps, policy, artifact, spent>>

ExpiredNodes == {n \in Nodes : state[n] = "running" /\ lease[n] = 0}

\* Mutant: a scan of exactly the limit is refused.
RecoverGraphNodesBelow ==
  /\ ExpiredNodes # {}
  /\ Cardinality(ExpiredNodes) < ScanLimit
  /\ state' = [n \in Nodes |-> IF n \in ExpiredNodes THEN "uncertain" ELSE state[n]]
  /\ fence' = [n \in Nodes |-> IF n \in ExpiredNodes THEN fence[n] + 1 ELSE fence[n]]
  /\ owner' = [n \in Nodes |-> IF n \in ExpiredNodes THEN None ELSE owner[n]]
  /\ lease' = [n \in Nodes |-> IF n \in ExpiredNodes THEN 0 ELSE lease[n]]
  /\ Logged
  /\ UNCHANGED <<deps, policy, artifact, spent>>

\* Over the scan limit the transaction rolls back and startup fails.
RecoverGraphNodes ==
  /\ ExpiredNodes # {}
  /\ Cardinality(ExpiredNodes) <= ScanLimit
  /\ state' = [n \in Nodes |-> IF n \in ExpiredNodes THEN "uncertain" ELSE state[n]]
  /\ fence' = [n \in Nodes |-> IF n \in ExpiredNodes THEN fence[n] + 1 ELSE fence[n]]
  /\ owner' = [n \in Nodes |-> IF n \in ExpiredNodes THEN None ELSE owner[n]]
  /\ lease' = [n \in Nodes |-> IF n \in ExpiredNodes THEN 0 ELSE lease[n]]
  /\ Logged
  /\ UNCHANGED <<deps, policy, artifact, spent>>

\* Time passes for every lease and for the deadline.
GraphTick ==
  /\ Open \/ \E n \in Nodes : lease[n] > 0
  /\ lease' = [n \in Nodes |-> IF lease[n] > 0 THEN lease[n] - 1 ELSE 0]
  /\ budget' = IF Open THEN [budget EXCEPT !.deadline = @ - 1] ELSE budget
  /\ UNCHANGED <<deps, policy, state, fence, owner, artifact, attempts, tokens,
                 trail>>

GraphNext ==
  \/ \E d \in Shapes, p \in Policies \cup {None}, b \in Limits \cup {None} :
       CreateGraph(d, p, b)
  \/ \E b \in Limits : BindGraphBudget(b)
  \/ ReserveGraphAttempt
  \/ \E k \in TokenCounts : RecordGraphOutputTokens(k)
  \/ \E n \in Nodes :
       \/ \E o \in Owners, d \in LeaseTimes : ClaimGraphNode(n, o, d)
       \/ \E o \in Owners, f \in 0..fence[n], r \in Results, ok \in BOOLEAN :
            CompleteGraphNode(n, o, f, r, ok)
       \/ \E p \in Policies : ValidateGraphNode(n, p)
  \/ CancelGraph
  \/ RecoverGraphNodes
  \/ GraphTick

GraphSpec == GraphInit /\ [][GraphNext]_graphVars

-----------------------------------------------------------------------------
(* Type correctness of the graph tables. *)
GraphTypeOK ==
  /\ deps \in Shapes \cup {None}
  /\ policy \in Policies \cup {None}
  /\ state \in [Nodes -> NodeStates]
  /\ fence \in [Nodes -> Nat]
  /\ owner \in [Nodes -> Owners \cup {None}]
  /\ lease \in [Nodes -> Nat]
  /\ artifact \in [Nodes -> Artifact \cup {NoArtifact}]
  /\ budget \in [deadline : Nat, attempts : Nat \ {0},
                 tokens : (Nat \ {0}) \cup {None}] \cup {None}
  /\ attempts \in Nat
  /\ tokens \in Nat
  /\ trail \in [Nodes -> Seq(NodeStates)]

\* The stored state vector always passes the checks of GraphState's
\* constructor, which every later read repeats: a node waits exactly as long as
\* a dependency may still be accepted, is skipped only behind a dependency that
\* ended otherwise, and is scheduled only when all were accepted.  A vector
\* that failed them would make the graph unreadable for ever.
ConsistentStates == Created => \A n \in Nodes : Consistent(deps, state, n)

\* What accepted_dependency_artifacts and accepted_graph_results look up is
\* there: a node succeeded exactly when its artifact was accepted by the policy
\* that judged it, a node under validation has an unjudged artifact, and every
\* dependency of a node that was ever scheduled has an accepted one.
AcceptedHandoff ==
  \A n \in Nodes :
    /\ state[n] = "succeeded" <=> artifact[n].accepted
    /\ artifact[n].accepted => <<artifact[n].judge, artifact[n].result>> \in Accepts
    /\ state[n] = "awaiting_validation" =>
         artifact[n] # NoArtifact /\ artifact[n].judge = None
    /\ state[n] \in {"blocked", "ready", "running", "uncertain", "skipped"} =>
         artifact[n] = NoArtifact
    /\ fence[n] > 0 => \A m \in deps[n] : artifact[m].accepted

\* Nothing of a cancelled graph is ever scheduled again: what is not settled is
\* uncertain, or waits for a node that is not settled.
CancellationIsFinal ==
  (\E n \in Nodes : state[n] = "cancelled") =>
    \A n \in Nodes :
      \/ state[n] \in TerminalStates \cup {"uncertain"}
      \/ /\ state[n] = "blocked"
         /\ \E m \in deps[n] : state[m] \in {"blocked", "uncertain"}

\* The budget is spent within its ceilings and never refilled: no claim, no
\* restart and no second binding raises a limit, moves the deadline or takes
\* back what was consumed.
BudgetNeverResets ==
  [][budget # None =>
       /\ budget' # None
       /\ budget'.attempts = budget.attempts /\ budget'.tokens = budget.tokens
       /\ budget'.deadline <= budget.deadline
       /\ attempts <= attempts' /\ attempts' <= budget.attempts
       /\ tokens <= tokens'
       /\ budget.tokens # None => tokens' <= budget.tokens]_graphVars

\* A running node is taken from its executor only by that executor's own
\* completion or with a new fence, so a late result is refused; and a node
\* under validation is withdrawn from whoever judges it the same way.
LateResultsAreFenced ==
  [][\A n \in Nodes :
       /\ fence'[n] >= fence[n]
       /\ (state[n] = "running" /\ state'[n] # "running") =>
            fence'[n] > fence[n] \/ artifact'[n] # artifact[n]
       /\ (state[n] \in {"ready", "running", "awaiting_validation"}
             /\ state'[n] = "cancelled") => fence'[n] > fence[n]]_graphVars

\* A node waits or is skipped before it becomes a task at all.
NodePhase(s) ==
  CASE s \in {"blocked", "skipped"} -> "absent"
    [] s = "ready" -> "pending"
    [] s = "running" -> "executing"
    [] s = "uncertain" -> "lost"
    [] s = "awaiting_validation" -> "produced"
    [] s = "succeeded" -> "accepted"
    [] s = "cancelled" -> "withdrawn"
    [] OTHER -> s

NodeLifecycle == INSTANCE TaskLifecycle WITH
  Tasks <- Nodes,
  phase <- [n \in Nodes |-> NodePhase(state[n])],
  published <- [n \in Nodes |-> artifact[n].result]

\* Graph nodes keep the promise the single-task store keeps: the two halves of
\* the store implement one lifecycle.
NodeLifecycleSpec == NodeLifecycle!Spec
=============================================================================
