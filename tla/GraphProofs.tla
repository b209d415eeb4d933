---------------------------- MODULE GraphProofs -----------------------------
(***************************************************************************)
(* Theorems about the graph half of the workflow store, for any number of  *)
(* nodes, any dependency functions, owners, policies, results and limits;  *)
(* nothing is assumed of the dependencies but that they name nodes (where  *)
(* a cycle would matter is GraphTransition's subject).  And about the      *)
(* executions of graph nodes, for any number of workers: they only take    *)
(* steps the store allows, run a node once and share one budget.           *)
(***************************************************************************)
EXTENDS GraphExecutor, TLAPS

(* WorkflowGraph *)

\* A node that was released by its dependencies and is not settled
Live == {"ready", "running", "awaiting_validation", "uncertain"}

BudgetType == [deadline : Nat, attempts : Nat \ {0}, tokens : (Nat \ {0}) \cup {None}]

\* Before create_graph there is nothing, in particular no issued fence.
Unborn ==
  ~ Created => /\ budget = None
               /\ \A n \in Nodes : state[n] = "blocked" /\ fence[n] = 0

\* A budget is within its limits, and a missing one has nothing to count.
WithinBudget ==
  /\ budget = None => attempts = 0 /\ tokens = 0
  /\ budget # None =>
       /\ attempts <= budget.attempts
       /\ budget.tokens # None => tokens <= budget.tokens

GraphInv ==
  /\ GraphTypeOK
  /\ Unborn
  /\ ConsistentStates
  /\ AcceptedHandoff
  /\ CancellationIsFinal
  /\ WithinBudget

-----------------------------------------------------------------------------
\* The two ways in which _refresh_waiting_nodes moves a node.
LEMMA RefreshMoves ==
  ASSUME NEW d, NEW s, NEW S \in SUBSET Nodes, Doomed(d, s, S), NEW n \in Nodes
  PROVE  \/ Refreshed(d, s, S)[n] = s[n]
         \/ /\ s[n] = "blocked"
            /\ Refreshed(d, s, S)[n] \in {"ready", "skipped"}
BY DEF Doomed, Refreshed

\* Moves among released, unsettled states keep a consistent vector consistent
\* (claim_graph_node, a successful complete_graph_node, recover_graph_nodes).
LEMMA LiveMovesConsistent ==
  ASSUME NEW d \in [Nodes -> SUBSET Nodes], NEW s, NEW t,
         \A n \in Nodes : Consistent(d, s, n),
         \A n \in Nodes : t[n] = s[n] \/ (s[n] \in Live /\ t[n] \in Live)
  PROVE  \A n \in Nodes : Consistent(d, t, n)
<1> SUFFICES ASSUME NEW n \in Nodes
             PROVE  Consistent(d, t, n)
  OBVIOUS
<1>1. \A m \in Nodes : (s[m] \in TerminalStates \/ t[m] \in TerminalStates) => t[m] = s[m]
  BY DEF Live, TerminalStates
<1>2. \A m \in d[n] : (s[m] \in TerminalStates \/ t[m] \in TerminalStates) => t[m] = s[m]
  BY <1>1
<1>3. t[n] \in {"blocked", "skipped"} => s[n] = t[n]
  BY DEF Live
<1>4. s[n] \in {"blocked", "skipped"} => s[n] = t[n]
  BY DEF Live
<1>5. Consistent(d, s, n)
  OBVIOUS
<1>6. QED
  BY <1>2, <1>3, <1>4, <1>5 DEF Consistent, Unsuccessful, TerminalStates

\* What GraphState.transition makes of a consistent vector is consistent: a node
\* that is released or settled moves, and the waiting nodes follow.
LEMMA SettledConsistent ==
  ASSUME NEW d \in [Nodes -> SUBSET Nodes], NEW s, NEW t,
         \A n \in Nodes : Consistent(d, s, n),
         \A n \in Nodes : \/ t[n] = s[n]
                          \/ s[n] \in Live /\ t[n] \notin {"blocked", "skipped"},
         NEW S \in SUBSET Nodes, Doomed(d, t, S)
  PROVE  \A n \in Nodes : Consistent(d, Refreshed(d, t, S), n)
<1> SUFFICES ASSUME NEW n \in Nodes
             PROVE  Consistent(d, Refreshed(d, t, S), n)
  OBVIOUS
<1> PICK u : u = Refreshed(d, t, S)
  OBVIOUS
<1>1. \A m \in Nodes : u[m] = IF m \in S THEN "skipped"
                              ELSE IF t[m] = "blocked" /\ \A l \in d[m] : t[l] = "succeeded"
                                   THEN "ready" ELSE t[m]
  BY DEF Refreshed
<1>2. d[n] \subseteq Nodes
  OBVIOUS
<1>3. \A m \in Nodes : t[m] # "blocked" => u[m] = t[m]
  BY <1>1 DEF Doomed
<1>4. \A m \in Nodes : s[m] \in TerminalStates => t[m] = s[m] /\ u[m] = s[m]
  BY <1>3 DEF TerminalStates, Live
<1>5. ASSUME u[n] = "blocked"
      PROVE  /\ \E m \in d[n] : u[m] # "succeeded"
             /\ \A m \in d[n] : u[m] \notin Unsuccessful
  <2>1. n \notin S /\ t[n] = "blocked" /\ \E m \in d[n] : t[m] # "succeeded"
    BY <1>1, <1>5
  <2>2. \A m \in d[n] : t[m] \notin Unsuccessful /\ m \notin S
    BY <2>1 DEF Doomed
  <2>3. \A m \in d[n] : u[m] = t[m] \/ u[m] = "ready"
    BY <1>1, <1>2, <2>2
  <2>4. \A m \in d[n] : t[m] # "succeeded" => u[m] # "succeeded"
    BY <2>3
  <2>5. \A m \in d[n] : u[m] \notin Unsuccessful
    BY <2>2, <2>3 DEF Unsuccessful, TerminalStates
  <2>6. QED
    BY <2>1, <2>4, <2>5
<1>6. ASSUME u[n] = "skipped"
      PROVE  \E m \in d[n] : u[m] \in Unsuccessful
  <2>1. CASE n \in S
    <3>1. PICK m \in d[n] : t[m] \in Unsuccessful \/ m \in S
      BY <2>1 DEF Doomed
    <3>2. t[m] \in Unsuccessful => u[m] = t[m]
      BY <1>2, <1>3 DEF Unsuccessful, TerminalStates
    <3>3. m \in S => u[m] = "skipped"
      BY <1>1
    <3>4. QED
      BY <3>1, <3>2, <3>3 DEF Unsuccessful, TerminalStates
  <2>2. CASE n \notin S
    <3>1. s[n] = "skipped"
      BY <1>1, <1>6, <2>2
    <3>2. PICK m \in d[n] : s[m] \in Unsuccessful
      BY <3>1 DEF Consistent
    <3>3. QED
      BY <1>2, <1>4, <3>2 DEF Unsuccessful
  <2>3. QED
    BY <2>1, <2>2
<1>7. ASSUME u[n] \notin {"blocked", "skipped"}
      PROVE  \A m \in d[n] : u[m] = "succeeded"
  <2>1. CASE t[n] = "blocked"
    <3>1. \A m \in d[n] : t[m] = "succeeded"
      BY <1>1, <1>7, <2>1
    <3>2. QED
      BY <1>2, <1>3, <3>1
  <2>2. CASE t[n] # "blocked"
    <3>1. s[n] \notin {"blocked", "skipped"}
      BY <1>3, <1>7, <2>2 DEF Live
    <3>2. \A m \in d[n] : s[m] = "succeeded"
      BY <3>1 DEF Consistent
    <3>3. QED
      BY <1>2, <1>4, <3>2 DEF TerminalStates
  <2>3. QED
    BY <2>1, <2>2
<1>8. QED
  BY <1>5, <1>6, <1>7 DEF Consistent

-----------------------------------------------------------------------------
\* The log stays a function of sequences of states (the event INSERTs).
LEMMA LoggedType ==
  ASSUME trail \in [Nodes -> Seq(NodeStates)], state' \in [Nodes -> NodeStates], Logged
  PROVE  trail' \in [Nodes -> Seq(NodeStates)]
<1>1. \A n \in Nodes : Append(trail[n], state'[n]) \in Seq(NodeStates)
  OBVIOUS
<1>2. QED
  BY <1>1 DEF Logged

\* _refresh_waiting_nodes yields states again.
LEMMA SettleType ==
  ASSUME NEW s \in [Nodes -> NodeStates], Settle(s)
  PROVE  state' \in [Nodes -> NodeStates]
<1>1. PICK S \in SUBSET Nodes : state' = Refreshed(deps, s, S)
  BY DEF Settle
<1>2. {"ready", "skipped"} \subseteq NodeStates
  BY DEF NodeStates
<1>3. QED
  BY <1>1, <1>2 DEF Refreshed

\* Every method keeps the tables well-formed.
LEMMA TypeStep ==
  ASSUME GraphTypeOK, [GraphNext]_graphVars
  PROVE  GraphTypeOK'
<1> USE DEF GraphTypeOK
<1>1. ASSUME NEW d \in Shapes, NEW p \in Policies \cup {None},
             NEW b \in Limits \cup {None}, CreateGraph(d, p, b)
      PROVE  GraphTypeOK'
  <2>1. state' \in [Nodes -> NodeStates]
    BY <1>1 DEF CreateGraph, InitialState, NodeStates
  <2>2. trail' \in [Nodes -> Seq(NodeStates)]
    BY <1>1, <2>1 DEF CreateGraph
  <2>3. budget' \in BudgetType \cup {None}
    BY <1>1, GraphLimits DEF CreateGraph, BudgetType
  <2>4. QED
    BY <1>1, <2>1, <2>2, <2>3 DEF CreateGraph, claims, BudgetType
<1>2. ASSUME NEW b \in Limits, BindGraphBudget(b)
      PROVE  GraphTypeOK'
  <2>1. budget' \in BudgetType
    BY <1>2, GraphLimits DEF BindGraphBudget, BudgetType
  <2>2. QED
    BY <1>2, <2>1 DEF BindGraphBudget, claims, BudgetType
<1>3. CASE ReserveGraphAttempt
  BY <1>3 DEF ReserveGraphAttempt, claims
<1>4. ASSUME NEW k \in TokenCounts, RecordGraphOutputTokens(k)
      PROVE  GraphTypeOK'
  <2>1. tokens' \in Nat
    BY <1>4, GraphLimits DEF RecordGraphOutputTokens
  <2>2. QED
    BY <1>4, <2>1 DEF RecordGraphOutputTokens, claims
<1>5. ASSUME NEW n \in Nodes, NEW o \in Owners, NEW d \in LeaseTimes,
             ClaimGraphNode(n, o, d)
      PROVE  GraphTypeOK'
  <2>1. state' \in [Nodes -> NodeStates]
    BY <1>5 DEF ClaimGraphNode, NodeStates
  <2>2. d \in Nat
    BY GraphLimits
  <2>3. trail' \in [Nodes -> Seq(NodeStates)]
    BY <1>5, <2>1, LoggedType DEF ClaimGraphNode
  <2>4. QED
    BY <1>5, <2>1, <2>2, <2>3 DEF ClaimGraphNode, spent
<1>6. ASSUME NEW n \in Nodes, NEW o \in Owners, NEW f \in 0..fence[n],
             NEW r \in Results, NEW ok \in BOOLEAN, CompleteGraphNode(n, o, f, r, ok)
      PROVE  GraphTypeOK'
  <2>1. state' \in [Nodes -> NodeStates]
    <3>1. CASE ok
      BY <1>6, <3>1 DEF CompleteGraphNode, NodeStates
    <3>2. CASE ~ ok
      <4>1. [state EXCEPT ![n] = "failed"] \in [Nodes -> NodeStates]
        BY DEF NodeStates
      <4>2. QED
        BY <1>6, <3>2, <4>1, SettleType DEF CompleteGraphNode
    <3>3. QED
      BY <3>1, <3>2
  <2>2. artifact' \in [Nodes -> Artifact \cup {NoArtifact}]
    BY <1>6 DEF CompleteGraphNode, Artifact
  <2>3. trail' \in [Nodes -> Seq(NodeStates)]
    BY <1>6, <2>1, LoggedType DEF CompleteGraphNode
  <2>4. QED
    BY <1>6, <2>1, <2>2, <2>3 DEF CompleteGraphNode, spent
<1>7. ASSUME NEW n \in Nodes, NEW p \in Policies, ValidateGraphNode(n, p)
      PROVE  GraphTypeOK'
  <2> PICK s : s = [state EXCEPT ![n] = IF <<p, artifact[n].result>> \in Accepts
                                        THEN "succeeded" ELSE "rejected"]
    OBVIOUS
  <2>1. s \in [Nodes -> NodeStates]
    BY DEF NodeStates
  <2>2. state' \in [Nodes -> NodeStates]
    BY <1>7, <2>1, SettleType DEF ValidateGraphNode
  <2>3. artifact' \in [Nodes -> Artifact \cup {NoArtifact}]
    BY <1>7 DEF ValidateGraphNode, Artifact
  <2>4. trail' \in [Nodes -> Seq(NodeStates)]
    BY <1>7, <2>2, LoggedType DEF ValidateGraphNode
  <2>5. QED
    BY <1>7, <2>2, <2>3, <2>4 DEF ValidateGraphNode, claims, spent
<1>8. CASE CancelGraph
  <2> PICK s : s = [n \in Nodes |-> IF n \in Withdrawn THEN "cancelled" ELSE state[n]]
    OBVIOUS
  <2>1. s \in [Nodes -> NodeStates]
    BY DEF NodeStates
  <2>2. state' \in [Nodes -> NodeStates]
    BY <1>8, <2>1, SettleType DEF CancelGraph
  <2>3. trail' \in [Nodes -> Seq(NodeStates)]
    BY <1>8, <2>2, LoggedType DEF CancelGraph
  <2>4. QED
    BY <1>8, <2>2, <2>3 DEF CancelGraph, spent
<1>9. CASE RecoverGraphNodes
  <2>1. state' \in [Nodes -> NodeStates]
    BY <1>9 DEF RecoverGraphNodes, NodeStates
  <2>2. trail' \in [Nodes -> Seq(NodeStates)]
    BY <1>9, <2>1, LoggedType DEF RecoverGraphNodes
  <2>3. QED
    BY <1>9, <2>1, <2>2 DEF RecoverGraphNodes, spent
<1>10. CASE GraphTick
  <2>1. lease' \in [Nodes -> Nat]
    BY <1>10 DEF GraphTick
  <2>2. budget' \in BudgetType \cup {None}
    <3>1. budget \in BudgetType \cup {None}
      BY DEF BudgetType
    <3>2. CASE Open
      <4>1. budget \in BudgetType /\ budget.deadline > 0
        BY <3>1, <3>2 DEF Open
      <4>2. budget.deadline - 1 \in Nat
        BY <4>1 DEF BudgetType
      <4>3. budget' = [budget EXCEPT !.deadline = budget.deadline - 1]
        BY <1>10, <3>2 DEF GraphTick
      <4>4. QED
        BY <4>1, <4>2, <4>3 DEF BudgetType
    <3>3. CASE ~ Open
      BY <1>10, <3>1, <3>3 DEF GraphTick
    <3>4. QED
      BY <3>2, <3>3
  <2>3. QED
    BY <1>10, <2>1, <2>2 DEF GraphTick, BudgetType
<1>11. CASE UNCHANGED graphVars
  BY <1>11 DEF graphVars
<1> HIDE DEF GraphTypeOK
<1>12. QED
  BY <1>1, <1>2, <1>3, <1>4, <1>5, <1>6, <1>7, <1>8, <1>9, <1>10, <1>11 DEF GraphNext

\* Every method of the graph store leaves well-formed rows, for any graph.
THEOREM GraphTypeCorrect == GraphSpec => []GraphTypeOK
<1>1. GraphInit => GraphTypeOK
  BY DEF GraphInit, GraphTypeOK, NodeStates
<1>2. QED
  BY <1>1, TypeStep, PTL DEF GraphSpec

-----------------------------------------------------------------------------
\* What a method may do to one node.  Kept: nothing, or a waiting node follows
\* its dependencies.
Kept(n) ==
  /\ state'[n] = state[n] \/ (state[n] = "blocked" /\ state'[n] \in {"ready", "skipped"})
  /\ artifact'[n] = artifact[n]
  /\ fence'[n] = fence[n]

\* Fenced: the node is claimed, lost or withdrawn, always with a new fence.
Fenced(n) ==
  /\ \/ state[n] = "ready" /\ state'[n] = "running"
     \/ state[n] = "running" /\ state'[n] = "uncertain"
     \/ state[n] \in {"ready", "running", "awaiting_validation"} /\ state'[n] = "cancelled"
  /\ artifact'[n] = artifact[n]
  /\ fence'[n] = fence[n] + 1

Published(n) ==
  /\ state[n] = "running"
  /\ state'[n] \in {"awaiting_validation", "failed"}
  /\ \E r \in Results : artifact'[n] = [result |-> r, judge |-> None, accepted |-> FALSE]
  /\ fence'[n] = fence[n]

Judged(n) ==
  /\ state[n] = "awaiting_validation"
  /\ artifact[n] # NoArtifact
  /\ \E p \in Policies :
       LET accepted == <<p, artifact[n].result>> \in Accepts
       IN /\ artifact'[n] = [result |-> artifact[n].result, judge |-> p,
                             accepted |-> accepted]
          /\ state'[n] = IF accepted THEN "succeeded" ELSE "rejected"
  /\ fence'[n] = fence[n]

Moved(n) == Kept(n) \/ Fenced(n) \/ Published(n) \/ Judged(n)

GraphFixed == deps' = deps \/ (deps = None /\ deps' \in Shapes)

\* The dependencies never change once they are stored (create_graph).
LEMMA FixedStep ==
  ASSUME [GraphNext]_graphVars
  PROVE  GraphFixed
BY DEF GraphNext, CreateGraph, Created, BindGraphBudget, ReserveGraphAttempt,
       RecordGraphOutputTokens, ClaimGraphNode, CompleteGraphNode, ValidateGraphNode,
       CancelGraph, RecoverGraphNodes, GraphTick, graphVars, GraphFixed

\* Settle moves waiting nodes only.
LEMMA SettleMoves ==
  ASSUME NEW s, Settle(s), NEW n \in Nodes
  PROVE  state'[n] = s[n] \/ (s[n] = "blocked" /\ state'[n] \in {"ready", "skipped"})
<1>1. PICK S \in SUBSET Nodes : Doomed(deps, s, S) /\ state' = Refreshed(deps, s, S)
  BY DEF Settle
<1>2. QED
  BY <1>1, RefreshMoves

\* Every method makes one of these moves with every node.
LEMMA Moves ==
  ASSUME GraphTypeOK, Unborn, [GraphNext]_graphVars, NEW n \in Nodes
  PROVE  Moved(n)
<1>0. /\ state[n] \in NodeStates /\ fence[n] \in Nat
      /\ state \in [Nodes -> NodeStates] /\ fence \in [Nodes -> Nat]
      /\ artifact \in [Nodes -> Artifact \cup {NoArtifact}]
  BY DEF GraphTypeOK
<1>1. ASSUME NEW d \in Shapes, NEW p \in Policies \cup {None},
             NEW b \in Limits \cup {None}, CreateGraph(d, p, b)
      PROVE  Moved(n)
  <2>1. state[n] = "blocked"
    BY <1>1 DEF CreateGraph, Unborn, Created
  <2>2. state'[n] \in {"blocked", "ready"}
    BY <1>1 DEF CreateGraph, InitialState
  <2>3. artifact'[n] = artifact[n] /\ fence'[n] = fence[n]
    BY <1>1 DEF CreateGraph, claims
  <2>4. QED
    BY <2>1, <2>2, <2>3 DEF Moved, Kept
<1>2. ASSUME UNCHANGED <<state, artifact, fence>>
      PROVE  Moved(n)
  BY <1>2 DEF Moved, Kept
<1>3. ASSUME NEW m \in Nodes, NEW o \in Owners, NEW d \in LeaseTimes,
             ClaimGraphNode(m, o, d)
      PROVE  Moved(n)
  BY <1>0, <1>3 DEF ClaimGraphNode, Moved, Kept, Fenced
<1>4. ASSUME NEW m \in Nodes, NEW o \in Owners, NEW f \in 0..fence[m],
             NEW r \in Results, NEW ok \in BOOLEAN, CompleteGraphNode(m, o, f, r, ok)
      PROVE  Moved(n)
  <2>1. /\ state[m] = "running"
        /\ artifact' = [artifact EXCEPT ![m] = [result |-> r, judge |-> None, accepted |-> FALSE]]
        /\ UNCHANGED fence
    BY <1>4 DEF CompleteGraphNode, RequireGraphLease
  <2>2. /\ state'[m] \in {"awaiting_validation", "failed"}
        /\ n # m => \/ state'[n] = state[n]
                    \/ state[n] = "blocked" /\ state'[n] \in {"ready", "skipped"}
    <3>1. CASE ok
      BY <1>0, <1>4, <3>1 DEF CompleteGraphNode
    <3>2. CASE ~ ok
      <4>1. PICK s : s = [state EXCEPT ![m] = "failed"]
        OBVIOUS
      <4>2. Settle(s)
        BY <1>4, <3>2, <4>1 DEF CompleteGraphNode
      <4>3. s[m] = "failed" /\ (n # m => s[n] = state[n])
        BY <1>0, <4>1
      <4>4. QED
        BY <4>2, <4>3, SettleMoves
    <3>3. QED
      BY <3>1, <3>2
  <2>3. CASE n = m
    BY <1>0, <2>1, <2>2, <2>3 DEF Moved, Published
  <2>4. CASE n # m
    BY <1>0, <2>1, <2>2, <2>4 DEF Moved, Kept
  <2>5. QED
    BY <2>3, <2>4
<1>5. ASSUME NEW m \in Nodes, NEW p \in Policies, ValidateGraphNode(m, p)
      PROVE  Moved(n)
  <2>1. PICK acc : acc = (<<p, artifact[m].result>> \in Accepts)
    OBVIOUS
  <2>2. PICK s : s = [state EXCEPT ![m] = IF acc THEN "succeeded" ELSE "rejected"]
    OBVIOUS
  <2>3. /\ state[m] = "awaiting_validation" /\ artifact[m] # NoArtifact
        /\ artifact' = [artifact EXCEPT ![m] =
                          [result |-> artifact[m].result, judge |-> p, accepted |-> acc]]
        /\ UNCHANGED fence
    BY <1>5, <2>1 DEF ValidateGraphNode, claims
  <2>4. Settle(s)
    BY <1>5, <2>1, <2>2 DEF ValidateGraphNode
  <2>5. s[m] \in {"succeeded", "rejected"} /\ (n # m => s[n] = state[n])
    BY <1>0, <2>2
  <2>6. /\ state'[m] = s[m]
        /\ n # m => \/ state'[n] = state[n]
                    \/ state[n] = "blocked" /\ state'[n] \in {"ready", "skipped"}
    BY <2>4, <2>5, SettleMoves
  <2>7. CASE n = m
    <3>1. state'[n] = IF acc THEN "succeeded" ELSE "rejected"
      BY <1>0, <2>2, <2>6, <2>7
    <3>2. artifact'[n] = [result |-> artifact[n].result, judge |-> p, accepted |-> acc]
      BY <1>0, <2>3, <2>7
    <3>3. Judged(n)
      BY <2>1, <2>3, <2>7, <3>1, <3>2 DEF Judged
    <3>4. QED
      BY <2>3, <3>3 DEF Moved
  <2>8. CASE n # m
    BY <1>0, <2>3, <2>6, <2>8 DEF Moved, Kept
  <2>9. QED
    BY <2>7, <2>8
<1>6. CASE CancelGraph
  <2>1. PICK s : s = [l \in Nodes |-> IF l \in Withdrawn THEN "cancelled" ELSE state[l]]
    OBVIOUS
  <2>2. Settle(s)
    BY <1>6, <2>1 DEF CancelGraph
  <2>3. /\ UNCHANGED artifact
        /\ fence'[n] = IF n \in Withdrawn THEN fence[n] + 1 ELSE fence[n]
    BY <1>6 DEF CancelGraph
  <2>4. s[n] = IF n \in Withdrawn THEN "cancelled" ELSE state[n]
    BY <2>1
  <2>5. CASE n \in Withdrawn
    <3>1. state'[n] = "cancelled"
      BY <2>2, <2>4, <2>5, SettleMoves
    <3>2. state[n] \in {"ready", "running", "awaiting_validation"}
      BY <2>5 DEF Withdrawn
    <3>3. QED
      BY <2>3, <2>5, <3>1, <3>2 DEF Moved, Fenced
  <2>6. CASE n \notin Withdrawn
    <3>1. state'[n] = state[n] \/ (state[n] = "blocked" /\ state'[n] \in {"ready", "skipped"})
      BY <2>2, <2>4, <2>6, SettleMoves
    <3>2. QED
      BY <2>3, <2>6, <3>1 DEF Moved, Kept
  <2>7. QED
    BY <2>5, <2>6
<1>7. CASE RecoverGraphNodes
  BY <1>0, <1>7 DEF RecoverGraphNodes, ExpiredNodes, Moved, Kept, Fenced
<1>8. ASSUME NEW b \in Limits, BindGraphBudget(b)
      PROVE  Moved(n)
  BY <1>2, <1>8 DEF BindGraphBudget, claims
<1>9. CASE ReserveGraphAttempt
  BY <1>2, <1>9 DEF ReserveGraphAttempt, claims
<1>10. ASSUME NEW k \in TokenCounts, RecordGraphOutputTokens(k)
       PROVE  Moved(n)
  BY <1>2, <1>10 DEF RecordGraphOutputTokens, claims
<1>11. CASE GraphTick
  BY <1>2, <1>11 DEF GraphTick
<1>12. CASE UNCHANGED graphVars
  BY <1>2, <1>12 DEF graphVars
<1>13. QED
  BY <1>1, <1>3, <1>4, <1>5, <1>6, <1>7, <1>8, <1>9, <1>10, <1>11, <1>12 DEF GraphNext

-----------------------------------------------------------------------------
\* Nothing but create_graph touches a graph that does not exist.
LEMMA UnbornStep ==
  ASSUME GraphInv, [GraphNext]_graphVars
  PROVE  Unborn'
<1> SUFFICES ASSUME deps' = None
             PROVE  budget' = None /\ \A n \in Nodes : state'[n] = "blocked" /\ fence'[n] = 0
  BY DEF Unborn, Created
<1>1. deps = None
  BY FixedStep, GraphNone, GraphShapes DEF GraphFixed
<1>2. budget = None /\ \A m \in Nodes : state[m] = "blocked" /\ fence[m] = 0
  BY <1>1 DEF GraphInv, Unborn, Created
<1>3. UNCHANGED <<budget, fence, state>>
  <2>1. ASSUME NEW d \in Shapes, NEW p, NEW b, CreateGraph(d, p, b)
        PROVE  FALSE
    BY <2>1, GraphNone, GraphShapes DEF CreateGraph
  <2>2. ASSUME NEW m \in Nodes, NEW o, NEW d, ClaimGraphNode(m, o, d)
        PROVE  FALSE
    BY <1>1, <2>2 DEF ClaimGraphNode, Created
  <2>3. ASSUME NEW m \in Nodes, NEW o, NEW f, NEW r, NEW ok,
               CompleteGraphNode(m, o, f, r, ok)
        PROVE  FALSE
    BY <1>1, <2>3 DEF CompleteGraphNode, RequireGraphLease, Created
  <2>4. ASSUME NEW m \in Nodes, NEW p, ValidateGraphNode(m, p)
        PROVE  FALSE
    BY <1>1, <2>4 DEF ValidateGraphNode, Created
  <2>5. ~ CancelGraph
    BY <1>1 DEF CancelGraph, Created
  <2>6. ~ RecoverGraphNodes
    BY <1>2 DEF RecoverGraphNodes, ExpiredNodes
  <2>7. QED
    BY <1>1, <1>2, <2>1, <2>2, <2>3, <2>4, <2>5, <2>6
       DEF GraphNext, BindGraphBudget, Created, Open, ReserveGraphAttempt, RecordGraphOutputTokens,
           GraphTick, claims, graphVars
<1>4. QED
  BY <1>2, <1>3

\* AcceptedHandoff of one node, and of its dependencies.
OwnArtifact(n) ==
  /\ state[n] = "succeeded" <=> artifact[n].accepted
  /\ artifact[n].accepted => <<artifact[n].judge, artifact[n].result>> \in Accepts
  /\ state[n] = "awaiting_validation" =>
       artifact[n] # NoArtifact /\ artifact[n].judge = None
  /\ state[n] \in {"blocked", "ready", "running", "uncertain", "skipped"} =>
       artifact[n] = NoArtifact

\* The artifact a node has follows its state.
LEMMA OwnArtifactStep ==
  ASSUME GraphTypeOK, GraphTypeOK', NEW n \in Nodes, OwnArtifact(n), Moved(n)
  PROVE  OwnArtifact(n)'
<1>0. /\ NoArtifact.accepted = FALSE /\ NoArtifact.result = None
      /\ state[n] \in NodeStates
  BY DEF NoArtifact, GraphTypeOK
<1>1. CASE Kept(n)
  BY <1>0, <1>1 DEF Kept, OwnArtifact
<1>2. CASE Fenced(n)
  BY <1>0, <1>2 DEF Fenced, OwnArtifact
<1>3. CASE Published(n)
  <2>1. PICK r \in Results : artifact'[n] = [result |-> r, judge |-> None, accepted |-> FALSE]
    BY <1>3 DEF Published
  <2>2. /\ artifact'[n].result = r /\ artifact'[n].judge = None
        /\ artifact'[n].accepted = FALSE
    BY <2>1
  <2>3. artifact'[n] # NoArtifact
    BY <1>0, <2>2, GraphNone
  <2>4. QED
    BY <1>3, <2>2, <2>3 DEF Published, OwnArtifact
<1>4. CASE Judged(n)
  <2>1. PICK p \in Policies :
          /\ artifact'[n] = [result |-> artifact[n].result, judge |-> p,
                             accepted |-> <<p, artifact[n].result>> \in Accepts]
          /\ state'[n] = IF <<p, artifact[n].result>> \in Accepts
                         THEN "succeeded" ELSE "rejected"
    BY <1>4 DEF Judged
  <2>2. /\ artifact'[n].result = artifact[n].result /\ artifact'[n].judge = p
        /\ artifact'[n].accepted = (<<p, artifact[n].result>> \in Accepts)
    BY <2>1
  <2>3. QED
    BY <2>1, <2>2 DEF OwnArtifact
<1>5. QED
  BY <1>1, <1>2, <1>3, <1>4 DEF Moved

\* A node is given a fence only when its dependencies have been accepted, and
\* accepted artifacts stay accepted.
LEMMA HandoffStep ==
  ASSUME GraphInv, GraphTypeOK', [GraphNext]_graphVars
  PROVE  AcceptedHandoff'
<1>1. ASSUME NEW n \in Nodes
      PROVE  OwnArtifact(n)'
  <2>1. OwnArtifact(n)
    BY DEF GraphInv, AcceptedHandoff, OwnArtifact
  <2>2. QED
    BY <2>1, Moves, OwnArtifactStep DEF GraphInv
<1>2. ASSUME NEW n \in Nodes, artifact[n].accepted
      PROVE  artifact'[n].accepted
  <2>1. state[n] = "succeeded"
    BY <1>2 DEF GraphInv, AcceptedHandoff
  <2>2. Moved(n)
    BY Moves DEF GraphInv
  <2>3. QED
    BY <1>2, <2>1, <2>2 DEF Moved, Kept, Fenced, Published, Judged
<1>3. ASSUME NEW n \in Nodes, fence'[n] > 0, NEW m \in deps'[n]
      PROVE  artifact'[m].accepted
  <2>1. Moved(n) /\ GraphFixed /\ fence[n] \in Nat
    BY Moves, FixedStep DEF GraphInv, GraphTypeOK
  <2>2. CASE fence'[n] = fence[n]
    <3>1. deps # None /\ deps' = deps
      BY <1>3, <2>1, <2>2 DEF GraphInv, Unborn, Created, GraphFixed
    <3>2. m \in Nodes /\ artifact[m].accepted
      BY <1>3, <2>2, <3>1, GraphShapes DEF GraphInv, GraphTypeOK, AcceptedHandoff
    <3>3. QED
      BY <1>2, <3>2
  <2>3. CASE fence'[n] # fence[n]
    <3>1. Fenced(n)
      BY <2>1, <2>3 DEF Moved, Kept, Published, Judged
    <3>2. state[n] \in {"ready", "running", "awaiting_validation"}
      BY <3>1 DEF Fenced
    <3>3. deps # None /\ deps' = deps
      BY <2>1, <3>2 DEF GraphInv, Unborn, Created, GraphFixed
    <3>4. m \in Nodes /\ state[m] = "succeeded"
      <4>1. deps \in [Nodes -> SUBSET Nodes]
        BY <3>3, GraphShapes DEF GraphInv, GraphTypeOK
      <4>2. Consistent(deps, state, n)
        BY <3>3 DEF GraphInv, ConsistentStates, Created
      <4>3. m \in deps[n]
        BY <1>3, <3>3
      <4>4. QED
        BY <3>2, <4>1, <4>2, <4>3 DEF Consistent
    <3>5. artifact[m].accepted
      BY <3>4 DEF GraphInv, AcceptedHandoff
    <3>6. QED
      BY <1>2, <3>4, <3>5
  <2>4. QED
    BY <2>2, <2>3
<1>4. QED
  BY <1>1, <1>3 DEF AcceptedHandoff, OwnArtifact

-----------------------------------------------------------------------------
\* The stored vector stays what GraphState's constructor accepts.
LEMMA ConsistentStep ==
  ASSUME GraphInv, [GraphNext]_graphVars
  PROVE  ConsistentStates'
<1>0. /\ deps \in Shapes \cup {None} /\ state \in [Nodes -> NodeStates]
      /\ Created => \A n \in Nodes : Consistent(deps, state, n)
      /\ Created => deps \in [Nodes -> SUBSET Nodes]
  BY GraphShapes DEF GraphInv, GraphTypeOK, ConsistentStates, Created
<1>1. ASSUME NEW d \in Shapes, NEW p, NEW b, CreateGraph(d, p, b)
      PROVE  ConsistentStates'
  <2>1. d \in [Nodes -> SUBSET Nodes] /\ deps' = d
    BY <1>1, GraphShapes DEF CreateGraph
  <2>2. \A n \in Nodes : state'[n] = IF d[n] = {} THEN "ready" ELSE "blocked"
    BY <1>1 DEF CreateGraph, InitialState
  <2>3. ASSUME NEW n \in Nodes
        PROVE  Consistent(d, state', n)
    <3>1. \A m \in d[n] : state'[m] \in {"ready", "blocked"}
      BY <2>1, <2>2
    <3>2. state'[n] = IF d[n] = {} THEN "ready" ELSE "blocked"
      BY <2>2
    <3>3. QED
      BY <3>1, <3>2 DEF Consistent, Unsuccessful, TerminalStates
  <2>4. QED
    BY <2>1, <2>3 DEF ConsistentStates
<1>2. ASSUME UNCHANGED <<deps, state>>
      PROVE  ConsistentStates'
  BY <1>2 DEF GraphInv, ConsistentStates, Created
<1>3. ASSUME Created, deps' = deps,
             \A n \in Nodes : state'[n] = state[n] \/ (state[n] \in Live /\ state'[n] \in Live)
      PROVE  ConsistentStates'
  BY <1>0, <1>3, LiveMovesConsistent DEF ConsistentStates
<1>4. ASSUME Created, deps' = deps, NEW s, Settle(s),
             \A n \in Nodes : \/ s[n] = state[n]
                              \/ state[n] \in Live /\ s[n] \notin {"blocked", "skipped"}
      PROVE  ConsistentStates'
  <2>1. PICK S \in SUBSET Nodes : Doomed(deps, s, S) /\ state' = Refreshed(deps, s, S)
    BY <1>4 DEF Settle
  <2>2. \A n \in Nodes : Consistent(deps, Refreshed(deps, s, S), n)
    BY <1>0, <1>4, <2>1, SettledConsistent
  <2>3. QED
    BY <1>4, <2>1, <2>2 DEF ConsistentStates
<1>5. ASSUME NEW n \in Nodes, NEW o, NEW d, ClaimGraphNode(n, o, d)
      PROVE  ConsistentStates'
  BY <1>0, <1>3, <1>5 DEF ClaimGraphNode, Live
<1>6. ASSUME NEW n \in Nodes, NEW o, NEW f, NEW r, NEW ok \in BOOLEAN,
             CompleteGraphNode(n, o, f, r, ok)
      PROVE  ConsistentStates'
  <2>1. Created /\ deps' = deps /\ state[n] = "running"
    BY <1>6 DEF CompleteGraphNode, RequireGraphLease
  <2>2. CASE ok
    BY <1>0, <1>3, <1>6, <2>1, <2>2 DEF CompleteGraphNode, Live
  <2>3. CASE ~ ok
    <3>1. PICK s : s = [state EXCEPT ![n] = "failed"]
      OBVIOUS
    <3>2. Settle(s)
      BY <1>6, <2>3, <3>1 DEF CompleteGraphNode
    <3>3. QED
      BY <1>0, <1>4, <2>1, <3>1, <3>2 DEF Live
  <2>4. QED
    BY <2>2, <2>3
<1>7. ASSUME NEW n \in Nodes, NEW p, ValidateGraphNode(n, p)
      PROVE  ConsistentStates'
  <2>1. PICK s : s = [state EXCEPT ![n] = IF <<p, artifact[n].result>> \in Accepts
                                          THEN "succeeded" ELSE "rejected"]
    OBVIOUS
  <2>2. Settle(s) /\ Created /\ deps' = deps /\ state[n] = "awaiting_validation"
    BY <1>7, <2>1 DEF ValidateGraphNode
  <2>3. s[n] \in {"succeeded", "rejected"} /\ \A m \in Nodes \ {n} : s[m] = state[m]
    BY <1>0, <2>1
  <2>4. QED
    BY <1>4, <2>2, <2>3 DEF Live
<1>8. CASE CancelGraph
  <2>1. PICK s : s = [n \in Nodes |-> IF n \in Withdrawn THEN "cancelled" ELSE state[n]]
    OBVIOUS
  <2>2. Settle(s) /\ Created /\ deps' = deps
    BY <1>8, <2>1 DEF CancelGraph
  <2>3. QED
    BY <1>4, <2>1, <2>2 DEF Withdrawn, Live
<1>9. CASE RecoverGraphNodes
  <2>1. Created
    BY <1>9 DEF RecoverGraphNodes, ExpiredNodes, GraphInv, Unborn
  <2>2. QED
    BY <1>3, <1>9, <2>1 DEF RecoverGraphNodes, ExpiredNodes, Live
<1>10. QED
  BY <1>1, <1>2, <1>5, <1>6, <1>7, <1>8, <1>9
     DEF GraphNext, BindGraphBudget, ReserveGraphAttempt, RecordGraphOutputTokens,
         GraphTick, claims, graphVars

\* Cancelling withdraws every released node, and nothing it leaves waiting can be
\* released by what it did.
LEMMA CancelStep ==
  ASSUME GraphInv, CancelGraph
  PROVE  CancellationIsFinal'
<1>0. /\ Created /\ deps' = deps /\ deps \in [Nodes -> SUBSET Nodes]
      /\ state \in [Nodes -> NodeStates]
      /\ \A n \in Nodes : Consistent(deps, state, n)
  BY GraphShapes DEF CancelGraph, GraphInv, GraphTypeOK, ConsistentStates, Created
<1>1. PICK s : s = [n \in Nodes |-> IF n \in Withdrawn THEN "cancelled" ELSE state[n]]
  OBVIOUS
<1>2. PICK S \in SUBSET Nodes : Doomed(deps, s, S) /\ state' = Refreshed(deps, s, S)
  BY <1>1 DEF CancelGraph, Settle
<1>3. \A n \in Nodes : s[n] = IF n \in Withdrawn THEN "cancelled" ELSE state[n]
  BY <1>1
<1>4. \A n \in Nodes : s[n] \in TerminalStates \cup {"uncertain", "blocked"}
  BY <1>0, <1>3 DEF Withdrawn, TerminalStates, NodeStates
<1>5. \A n \in Nodes : s[n] = "succeeded" => state[n] = "succeeded"
  BY <1>3
<1>6. ASSUME NEW n \in Nodes, s[n] = "blocked"
      PROVE  \E m \in deps[n] : s[m] # "succeeded"
  <2>1. state[n] = "blocked"
    BY <1>3, <1>6
  <2>2. PICK m \in deps[n] : state[m] # "succeeded"
    BY <1>0, <2>1 DEF Consistent
  <2>3. QED
    BY <1>0, <1>5, <2>2
<1>7. \A n \in Nodes : state'[n] = IF n \in S THEN "skipped" ELSE s[n]
  BY <1>2, <1>6 DEF Refreshed
<1>8. ASSUME NEW n \in Nodes, state'[n] = "blocked"
      PROVE  \E m \in deps'[n] : state'[m] \in {"blocked", "uncertain"}
  <2>1. n \notin S /\ s[n] = "blocked"
    BY <1>7, <1>8
  <2>2. PICK m \in deps[n] : s[m] # "succeeded"
    BY <1>6, <2>1
  <2>3. m \in Nodes /\ m \notin S /\ s[m] \notin Unsuccessful
    BY <1>0, <1>2, <2>1, <2>2 DEF Doomed
  <2>4. state'[m] \in {"blocked", "uncertain"}
    BY <1>4, <1>7, <2>2, <2>3 DEF Unsuccessful, TerminalStates
  <2>5. QED
    BY <1>0, <2>2, <2>4
<1>9. \A n \in Nodes : state'[n] \in TerminalStates \cup {"uncertain", "blocked"}
  BY <1>4, <1>7 DEF TerminalStates
<1>10. QED
  BY <1>8, <1>9 DEF CancellationIsFinal

\* After a cancellation nothing is left that another method could move.
LEMMA FinalStep ==
  ASSUME GraphInv, [GraphNext]_graphVars
  PROVE  CancellationIsFinal'
<1>1. CASE CancelGraph
  BY <1>1, CancelStep
<1>2. CASE ~ CancelGraph
  <2>1. ASSUME UNCHANGED <<deps, state>>
        PROVE  CancellationIsFinal'
    BY <2>1 DEF GraphInv, CancellationIsFinal
  <2>2. ASSUME \A n \in Nodes : state'[n] # "cancelled"
        PROVE  CancellationIsFinal'
    BY <2>2 DEF CancellationIsFinal
  <2>3. ASSUME NEW d \in Shapes, NEW p, NEW b, CreateGraph(d, p, b)
        PROVE  CancellationIsFinal'
    BY <2>2, <2>3 DEF CreateGraph, InitialState
  <2>4. ASSUME NEW n \in Nodes, state[n] \in {"ready", "running", "awaiting_validation"}
        PROVE  \A m \in Nodes : state[m] # "cancelled"
    BY <2>4 DEF GraphInv, CancellationIsFinal, TerminalStates
  <2>5. ASSUME NEW n \in Nodes, NEW s, Settle(s),
               \A m \in Nodes : s[m] # "cancelled"
        PROVE  \A m \in Nodes : state'[m] # "cancelled"
    BY <2>5, SettleMoves
  <2>6. state \in [Nodes -> NodeStates]
    BY DEF GraphInv, GraphTypeOK
  <2>7. ASSUME NEW n \in Nodes, NEW o, NEW d, ClaimGraphNode(n, o, d)
        PROVE  CancellationIsFinal'
    BY <2>2, <2>4, <2>6, <2>7 DEF ClaimGraphNode
  <2>8. ASSUME NEW n \in Nodes, NEW o, NEW f, NEW r, NEW ok \in BOOLEAN,
               CompleteGraphNode(n, o, f, r, ok)
        PROVE  CancellationIsFinal'
    <3>1. \A m \in Nodes : state[m] # "cancelled"
      BY <2>4, <2>8 DEF CompleteGraphNode, RequireGraphLease
    <3>2. CASE ok
      BY <2>2, <2>6, <2>8, <3>1, <3>2 DEF CompleteGraphNode
    <3>3. CASE ~ ok
      <4>1. PICK s : s = [state EXCEPT ![n] = "failed"]
        OBVIOUS
      <4>2. Settle(s) /\ \A m \in Nodes : s[m] # "cancelled"
        BY <2>6, <2>8, <3>1, <3>3, <4>1 DEF CompleteGraphNode
      <4>3. QED
        BY <2>2, <2>5, <4>2
    <3>4. QED
      BY <3>2, <3>3
  <2>9. ASSUME NEW n \in Nodes, NEW p, ValidateGraphNode(n, p)
        PROVE  CancellationIsFinal'
    <3>1. \A m \in Nodes : state[m] # "cancelled"
      BY <2>4, <2>9 DEF ValidateGraphNode
    <3>2. PICK s : s = [state EXCEPT ![n] = IF <<p, artifact[n].result>> \in Accepts
                                            THEN "succeeded" ELSE "rejected"]
      OBVIOUS
    <3>3. Settle(s)
      BY <2>9, <3>2 DEF ValidateGraphNode
    <3>4. \A m \in Nodes : s[m] # "cancelled"
      BY <2>6, <3>1, <3>2
    <3>5. QED
      BY <2>2, <2>5, <3>3, <3>4
  <2>10. CASE RecoverGraphNodes
    <3>1. PICK n \in Nodes : state[n] = "running"
      BY <2>10 DEF RecoverGraphNodes, ExpiredNodes
    <3>2. \A m \in Nodes : state[m] # "cancelled"
      BY <2>4, <3>1
    <3>3. QED
      BY <2>2, <2>10, <3>2 DEF RecoverGraphNodes
  <2>11. QED
    BY <1>2, <2>1, <2>3, <2>7, <2>8, <2>9, <2>10
       DEF GraphNext, BindGraphBudget, ReserveGraphAttempt, RecordGraphOutputTokens,
           GraphTick, claims, graphVars
<1>3. QED
  BY <1>1, <1>2

-----------------------------------------------------------------------------
\* What BudgetNeverResets says of a step
BudgetKept ==
  budget # None =>
    /\ budget' # None
    /\ budget'.attempts = budget.attempts /\ budget'.tokens = budget.tokens
    /\ budget'.deadline <= budget.deadline
    /\ attempts <= attempts' /\ attempts' <= budget.attempts
    /\ tokens <= tokens'
    /\ budget.tokens # None => tokens' <= budget.tokens

\* Only bind_graph_budget and create_graph give limits, to a graph without any;
\* only reserve_graph_attempt and record_graph_output_tokens count.
LEMMA BudgetStep ==
  ASSUME GraphInv, [GraphNext]_graphVars
  PROVE  WithinBudget' /\ BudgetKept
<1>0. /\ budget \in BudgetType \cup {None} /\ attempts \in Nat /\ tokens \in Nat
      /\ budget # None => /\ budget.attempts \in Nat /\ budget.deadline \in Nat
                          /\ budget.tokens # None => budget.tokens \in Nat
  BY DEF GraphInv, GraphTypeOK, BudgetType
<1> USE DEF BudgetKept
<1>1. ASSUME UNCHANGED <<budget, attempts, tokens>>
      PROVE  WithinBudget' /\ BudgetKept
  BY <1>0, <1>1 DEF GraphInv, WithinBudget
<1>2. ASSUME NEW b \in Limits \cup {None}, budget = None, budget' = b,
             UNCHANGED <<attempts, tokens>>
      PROVE  WithinBudget' /\ BudgetKept
  <2>1. attempts' = 0 /\ tokens' = 0
    BY <1>2 DEF GraphInv, WithinBudget
  <2>2. b # None => /\ b.attempts \in Nat
                    /\ b.tokens # None => b.tokens \in Nat
    BY GraphLimits
  <2>3. QED
    BY <1>2, <2>1, <2>2 DEF GraphInv, WithinBudget
<1>3. ASSUME NEW d \in Shapes, NEW p, NEW b \in Limits \cup {None}, CreateGraph(d, p, b)
      PROVE  WithinBudget' /\ BudgetKept
  BY <1>2, <1>3 DEF CreateGraph, GraphInv, Unborn
<1>4. ASSUME NEW b \in Limits, BindGraphBudget(b)
      PROVE  WithinBudget' /\ BudgetKept
  BY <1>2, <1>4 DEF BindGraphBudget
<1>5. CASE ReserveGraphAttempt
  <2>1. /\ budget # None /\ attempts < budget.attempts /\ attempts' = attempts + 1
        /\ UNCHANGED <<budget, tokens>>
    BY <1>5 DEF ReserveGraphAttempt, Open
  <2>2. attempts <= attempts' /\ attempts' <= budget.attempts
    BY <1>0, <2>1
  <2>3. QED
    BY <1>0, <2>1, <2>2 DEF GraphInv, WithinBudget
<1>6. ASSUME NEW k \in TokenCounts, RecordGraphOutputTokens(k)
      PROVE  WithinBudget' /\ BudgetKept
  <2>1. /\ budget # None /\ tokens' = tokens + k
        /\ budget.tokens # None => tokens' <= budget.tokens
        /\ UNCHANGED <<budget, attempts>>
    BY <1>6 DEF RecordGraphOutputTokens
  <2>2. k \in Nat
    BY GraphLimits
  <2>3. tokens <= tokens'
    BY <1>0, <2>1, <2>2
  <2>4. QED
    BY <1>0, <2>1, <2>3 DEF GraphInv, WithinBudget
<1>7. CASE GraphTick
  <2>1. CASE Open
    <3>1. budget \in BudgetType /\ budget' = [budget EXCEPT !.deadline = budget.deadline - 1]
      BY <1>0, <1>7, <2>1 DEF GraphTick, Open
    <3>2. /\ budget' # None
          /\ budget'.attempts = budget.attempts /\ budget'.tokens = budget.tokens
          /\ budget'.deadline = budget.deadline - 1
      <4>1. /\ budget'.attempts = budget.attempts /\ budget'.tokens = budget.tokens
            /\ budget'.deadline = budget.deadline - 1
        BY <3>1 DEF BudgetType
      <4>2. budget.deadline - 1 \in Nat
        BY <1>0, <2>1 DEF Open
      <4>3. budget' \in BudgetType
        BY <3>1, <4>2 DEF BudgetType
      <4>4. BudgetType \subseteq [deadline : Nat, attempts : Nat, tokens : Nat \cup {None}]
        BY DEF BudgetType
      <4>5. QED
        BY <4>1, <4>3, <4>4, GraphNone
    <3>3. UNCHANGED <<attempts, tokens>>
      BY <1>7 DEF GraphTick
    <3>4. budget.deadline - 1 <= budget.deadline
      BY <1>0, <2>1 DEF Open
    <3>5. budget # None
      BY <2>1 DEF Open
    <3>6. QED
      BY <1>0, <3>2, <3>3, <3>4, <3>5 DEF GraphInv, WithinBudget
  <2>2. CASE ~ Open
    BY <1>1, <1>7, <2>2 DEF GraphTick
  <2>3. QED
    BY <2>1, <2>2
<1>8. QED
  BY <1>1, <1>3, <1>4, <1>5, <1>6, <1>7
     DEF GraphNext, ClaimGraphNode, CompleteGraphNode, ValidateGraphNode, CancelGraph,
         RecoverGraphNodes, spent, graphVars

-----------------------------------------------------------------------------
\* Every method keeps GraphInv.
LEMMA GraphInvStep ==
  ASSUME GraphInv, [GraphNext]_graphVars
  PROVE  GraphInv'
<1>1. GraphTypeOK'
  BY TypeStep DEF GraphInv
<1>2. QED
  BY <1>1, UnbornStep, ConsistentStep, HandoffStep, FinalStep, BudgetStep DEF GraphInv

\* GraphInv holds before anything is stored.
LEMMA GraphInvInit ==
  ASSUME GraphInit
  PROVE  GraphInv
<1>1. GraphTypeOK
  BY DEF GraphInit, GraphTypeOK, NodeStates
<1>2. Unborn /\ ConsistentStates /\ CancellationIsFinal /\ WithinBudget
  BY DEF GraphInit, Unborn, Created, ConsistentStates, CancellationIsFinal, WithinBudget
<1>3. AcceptedHandoff
  <2>1. \A n \in Nodes : /\ state[n] = "blocked" /\ fence[n] = 0
                         /\ artifact[n] = NoArtifact /\ ~ artifact[n].accepted
    BY DEF GraphInit, NoArtifact
  <2>2. \A n \in Nodes : ~ (fence[n] > 0)
    <3>1. ~ (0 > 0)
      OBVIOUS
    <3>2. QED
      BY <2>1, <3>1, Zenon
  <2>3. \A n \in Nodes : OwnArtifact(n)
    BY <2>1, Zenon DEF OwnArtifact
  <2>4. QED
    BY <2>2, <2>3, Zenon DEF AcceptedHandoff, OwnArtifact
<1>4. QED
  BY <1>1, <1>2, <1>3 DEF GraphInv

\* GraphInv is inductive: it binds together what ConsistentStates,
\* AcceptedHandoff and CancellationIsFinal need of each other.
THEOREM GraphInvariant == GraphSpec => []GraphInv
<1>1. GraphInit => GraphInv
  BY GraphInvInit
<1>2. GraphInv /\ [GraphNext]_graphVars => GraphInv'
  BY GraphInvStep
<1>3. QED
  BY <1>1, <1>2, PTL DEF GraphSpec

\* For every graph the stored states never contradict the dependencies, so
\* GraphState's constructor accepts what is read back.
THEOREM StatesConsistent == GraphSpec => []ConsistentStates
<1>1. GraphInv => ConsistentStates
  BY DEF GraphInv
<1>2. QED
  BY <1>1, GraphInvariant, PTL

\* For every graph, what a node is given by its dependencies
\* (accepted_dependency_artifacts) was accepted by the policy that judged it.
THEOREM HandoffCorrect == GraphSpec => []AcceptedHandoff
<1>1. GraphInv => AcceptedHandoff
  BY DEF GraphInv
<1>2. QED
  BY <1>1, GraphInvariant, PTL

\* For every graph, nothing is scheduled again after cancel_graph.
THEOREM CancellationCorrect == GraphSpec => []CancellationIsFinal
<1>1. GraphInv => CancellationIsFinal
  BY DEF GraphInv
<1>2. QED
  BY <1>1, GraphInvariant, PTL

\* No method ever refills, extends or exceeds the budget of a graph.
THEOREM BudgetCorrect == GraphSpec => BudgetNeverResets
<1>1. GraphInv /\ [GraphNext]_graphVars => [BudgetKept]_graphVars
  BY BudgetStep
<1>2. GraphSpec => [][BudgetKept]_graphVars
  BY <1>1, GraphInvariant, PTL DEF GraphSpec
<1>3. QED
  BY <1>2 DEF BudgetKept, BudgetNeverResets

\* For every graph a node is taken from its executor only by the executor's own
\* completion (complete_graph_node) or with a new fence.
THEOREM FencedCorrect == GraphSpec => LateResultsAreFenced
<1> DEFINE FencedOff ==
      \A n \in Nodes :
        /\ fence'[n] >= fence[n]
        /\ (state[n] = "running" /\ state'[n] # "running") =>
             fence'[n] > fence[n] \/ artifact'[n] # artifact[n]
        /\ (state[n] \in {"ready", "running", "awaiting_validation"}
              /\ state'[n] = "cancelled") => fence'[n] > fence[n]
<1>1. GraphInv /\ [GraphNext]_graphVars => FencedOff
  <2> SUFFICES ASSUME GraphInv, [GraphNext]_graphVars, NEW n \in Nodes
               PROVE  /\ fence'[n] >= fence[n]
                      /\ (state[n] = "running" /\ state'[n] # "running") =>
                           fence'[n] > fence[n] \/ artifact'[n] # artifact[n]
                      /\ (state[n] \in {"ready", "running", "awaiting_validation"}
                            /\ state'[n] = "cancelled") => fence'[n] > fence[n]
    OBVIOUS
  <2>1. Moved(n) /\ fence[n] \in Nat
    BY Moves DEF GraphInv, GraphTypeOK
  <2>2. CASE Kept(n)
    BY <2>1, <2>2 DEF Kept
  <2>3. CASE Fenced(n)
    BY <2>1, <2>3 DEF Fenced
  <2>4. CASE Published(n)
    <3>1. artifact[n] = NoArtifact
      BY <2>4 DEF Published, GraphInv, AcceptedHandoff
    <3>2. PICK r \in Results : artifact'[n].result = r
      BY <2>4 DEF Published
    <3>3. artifact'[n] # artifact[n]
      BY <3>1, <3>2, GraphNone DEF NoArtifact
    <3>4. QED
      BY <2>1, <2>4, <3>3 DEF Published
  <2>5. CASE Judged(n)
    BY <2>1, <2>5 DEF Judged
  <2>6. QED
    BY <2>1, <2>2, <2>3, <2>4, <2>5 DEF Moved
<1>2. GraphSpec => [][FencedOff]_graphVars
  <2> HIDE DEF FencedOff
  <2> QED
    BY <1>1, GraphInvariant, PTL DEF GraphSpec
<1>3. QED
  BY <1>2 DEF LateResultsAreFenced

-----------------------------------------------------------------------------
\* For every graph the nodes keep the promise of TaskLifecycle: one start, one
\* publication, a lost node is never withdrawn, final states are final.
THEOREM NodeLifecycleImplemented == GraphSpec => NodeLifecycleSpec
<1> DEFINE phase == [n \in Nodes |-> NodePhase(state[n])]
           published == [n \in Nodes |-> artifact[n].result]
<1>1. GraphInit => NodeLifecycle!Init
  BY DEF GraphInit, NodeLifecycle!Init, NodePhase, NoArtifact
<1>2. GraphInv /\ [GraphNext]_graphVars => [NodeLifecycle!Next]_NodeLifecycle!lifecycle
  <2> SUFFICES ASSUME GraphInv, [GraphNext]_graphVars, NEW n \in Nodes
               PROVE  NodeLifecycle!Stay(n) \/ NodeLifecycle!Step(n)
    BY DEF NodeLifecycle!Next
  <2>0. /\ phase[n] = NodePhase(state[n]) /\ phase'[n] = NodePhase(state'[n])
        /\ published[n] = artifact[n].result /\ published'[n] = artifact'[n].result
    OBVIOUS
  <2>1. Moved(n)
    BY Moves DEF GraphInv
  <2> HIDE DEF phase, published
  <2>2. CASE Kept(n)
    <3>1. published'[n] = published[n]
      BY <2>0, <2>2 DEF Kept
    <3>2. \/ phase'[n] = phase[n]
          \/ phase[n] = "absent" /\ phase'[n] = "pending"
      BY <2>0, <2>2 DEF Kept, NodePhase
    <3>3. QED
      BY <3>1, <3>2 DEF phase, published, NodeLifecycle!Stay, NodeLifecycle!Step,
         NodeLifecycle!Submit, NodeLifecycle!Move
  <2>3. CASE Fenced(n)
    <3>1. published'[n] = published[n]
      BY <2>0, <2>3 DEF Fenced
    <3>2. \/ phase[n] = "pending" /\ phase'[n] = "executing"
          \/ phase[n] = "executing" /\ phase'[n] = "lost"
          \/ phase[n] \in {"pending", "executing", "produced"} /\ phase'[n] = "withdrawn"
      BY <2>0, <2>3 DEF Fenced, NodePhase
    <3>3. QED
      BY <3>1, <3>2 DEF phase, published, NodeLifecycle!Step, NodeLifecycle!Start,
         NodeLifecycle!Lose, NodeLifecycle!Withdraw, NodeLifecycle!Move
  <2>4. CASE Published(n)
    <3>1. artifact[n] = NoArtifact
      BY <2>4 DEF Published, GraphInv, AcceptedHandoff
    <3>2. published[n] = None
      BY <2>0, <3>1 DEF NoArtifact
    <3>3. published'[n] \in Results
      BY <2>0, <2>4 DEF Published
    <3>4. phase[n] = "executing" /\ phase'[n] \in {"produced", "failed"}
      BY <2>0, <2>4 DEF Published, NodePhase
    <3>5. QED
      BY <3>2, <3>3, <3>4 DEF phase, published, NodeLifecycle!Step, NodeLifecycle!Publish
  <2>5. CASE Judged(n)
    <3>1. artifact'[n].result = artifact[n].result /\ state'[n] \in {"succeeded", "rejected"}
      BY <2>5 DEF Judged
    <3>2. published'[n] = published[n]
      BY <2>0, <3>1
    <3>3. phase[n] = "produced" /\ phase'[n] \in {"accepted", "rejected"}
      BY <2>0, <2>5, <3>1 DEF Judged, NodePhase
    <3>4. QED
      BY <3>2, <3>3 DEF phase, published, NodeLifecycle!Step, NodeLifecycle!Judge,
         NodeLifecycle!Move
  <2>6. QED
    BY <2>1, <2>2, <2>3, <2>4, <2>5 DEF Moved
<1>3. QED
  BY <1>1, <1>2, GraphInvariant, PTL DEF GraphSpec, NodeLifecycleSpec, NodeLifecycle!Spec

-----------------------------------------------------------------------------
(* GraphExecutor: the event log of a node, under the store alone *)

\* How far a state is in a node's life
Rank(s) ==
  CASE s = "blocked" -> 0
    [] s = "ready" -> 1
    [] s = "running" -> 2
    [] s = "uncertain" -> 3
    [] s = "awaiting_validation" -> 4
    [] OTHER -> 5

LegalLog(log) ==
  /\ \A i \in 1..(Len(log) - 1) : <<log[i], log[i + 1]>> \in Allowed \cup Derived
  /\ \A i, j \in 1..Len(log) : i < j => Rank(log[i]) < Rank(log[j])

TrailOK(n) ==
  /\ ~ Created => trail[n] = <<>>
  /\ Created => /\ trail[n] # <<>>
                /\ trail[n][1] \in {"blocked", "ready"}
                /\ trail[n][Len(trail[n])] = state[n]
  /\ LegalLog(trail[n])

\* A node's move (Moved) is one of _ALLOWED_TRANSITIONS or derived, and leads on.
LEMMA MoveIsLegal ==
  ASSUME NEW n \in Nodes, Moved(n), state'[n] # state[n]
  PROVE  /\ <<state[n], state'[n]>> \in Allowed \cup Derived
         /\ Rank(state[n]) < Rank(state'[n])
<1>1. CASE Kept(n)
  BY <1>1 DEF Kept, Derived, Rank
<1>2. CASE Fenced(n)
  BY <1>2 DEF Fenced, Allowed, Rank
<1>3. CASE Published(n)
  BY <1>3 DEF Published, Allowed, Rank
<1>4. CASE Judged(n)
  <2>1. state[n] = "awaiting_validation" /\ state'[n] \in {"succeeded", "rejected"}
    BY <1>4 DEF Judged
  <2>2. QED
    BY <2>1 DEF Allowed, Rank
<1>5. QED
  BY <1>1, <1>2, <1>3, <1>4 DEF Moved

\* Appending a legal move keeps the log legal.
LEMMA LogGrows ==
  ASSUME NEW log \in Seq(NodeStates), log # <<>>, LegalLog(log), NEW s \in NodeStates,
         <<log[Len(log)], s>> \in Allowed \cup Derived, Rank(log[Len(log)]) < Rank(s)
  PROVE  LegalLog(Append(log, s))
<1> DEFINE new == Append(log, s)
<1>1. /\ Len(new) = Len(log) + 1 /\ Len(log) \in Nat /\ Len(log) >= 1
      /\ new[Len(log) + 1] = s
      /\ \A i \in 1..Len(log) : new[i] = log[i]
  OBVIOUS
<1> HIDE DEF new
<1>2. \A r : Rank(r) \in Nat
  BY DEF Rank
<1>3. ASSUME NEW i \in 1..(Len(new) - 1)
      PROVE  <<new[i], new[i + 1]>> \in Allowed \cup Derived
  <2>1. CASE i = Len(log)
    BY <1>1, <2>1
  <2>2. CASE i # Len(log)
    <3>1. i \in 1..(Len(log) - 1) /\ i + 1 \in 1..Len(log) /\ i \in 1..Len(log)
      BY <1>1, <1>3, <2>2
    <3>2. new[i] = log[i] /\ new[i + 1] = log[i + 1]
      BY <1>1, <3>1
    <3>3. QED
      BY <3>1, <3>2 DEF LegalLog
  <2>3. QED
    BY <2>1, <2>2
<1>4. ASSUME NEW i \in 1..Len(new), NEW j \in 1..Len(new), i < j
      PROVE  Rank(new[i]) < Rank(new[j])
  <2>1. i \in 1..Len(log) /\ new[i] = log[i]
    BY <1>1, <1>4
  <2>2. CASE j = Len(log) + 1
    <3>1. i = Len(log) \/ Rank(log[i]) < Rank(log[Len(log)])
      BY <1>1, <2>1 DEF LegalLog
    <3>2. new[j] = s
      BY <1>1, <2>2
    <3>3. QED
      BY <1>2, <2>1, <3>1, <3>2
  <2>3. CASE j # Len(log) + 1
    <3>1. j \in 1..Len(log) /\ new[j] = log[j]
      BY <1>1, <1>4, <2>3
    <3>2. QED
      BY <1>4, <2>1, <3>1 DEF LegalLog
  <2>4. QED
    BY <2>2, <2>3
<1>5. QED
  BY <1>3, <1>4 DEF LegalLog, new

\* Every method but create_graph logs exactly the states it changes.
LEMMA LogStep ==
  ASSUME GraphTypeOK, [GraphNext]_graphVars
  PROVE  \/ \E d \in Shapes, p \in Policies \cup {None}, b \in Limits \cup {None} :
              CreateGraph(d, p, b)
         \/ /\ deps' = deps /\ policy' = policy
            /\ \A n \in Nodes : trail'[n] = IF state'[n] = state[n] THEN trail[n]
                                            ELSE Append(trail[n], state'[n])
<1>1. ASSUME Logged
      PROVE  \A n \in Nodes : trail'[n] = IF state'[n] = state[n] THEN trail[n]
                                          ELSE Append(trail[n], state'[n])
  BY <1>1 DEF Logged
<1>2. ASSUME UNCHANGED <<state, trail>>
      PROVE  \A n \in Nodes : trail'[n] = IF state'[n] = state[n] THEN trail[n]
                                          ELSE Append(trail[n], state'[n])
  BY <1>2
<1>3. \/ \E d \in Shapes, p \in Policies \cup {None}, b \in Limits \cup {None} :
              CreateGraph(d, p, b)
      \/ deps' = deps /\ policy' = policy /\ (Logged \/ UNCHANGED <<state, trail>>)
  BY DEF GraphNext, BindGraphBudget, ReserveGraphAttempt, RecordGraphOutputTokens,
         ClaimGraphNode, CompleteGraphNode, ValidateGraphNode, CancelGraph,
         RecoverGraphNodes, GraphTick, graphVars
<1>4. QED
  BY <1>1, <1>2, <1>3

LEMMA TrailStep ==
  ASSUME GraphInv, [GraphNext]_graphVars, NEW n \in Nodes, TrailOK(n)
  PROVE  TrailOK(n)'
<1>1. /\ GraphTypeOK /\ Moved(n) /\ trail[n] \in Seq(NodeStates)
      /\ state'[n] \in NodeStates
  BY Moves, TypeStep DEF GraphInv, GraphTypeOK
<1>2. ASSUME NEW d \in Shapes, NEW p \in Policies \cup {None}, NEW b \in Limits \cup {None},
             CreateGraph(d, p, b)
      PROVE  TrailOK(n)'
  <2>1. trail'[n] = <<state'[n]>> /\ state'[n] \in {"blocked", "ready"} /\ deps' # None
    BY <1>2, GraphShapes, GraphNone DEF CreateGraph, InitialState
  <2>2. Len(<<state'[n]>>) = 1 /\ <<state'[n]>>[1] = state'[n] /\ <<state'[n]>> # <<>>
    OBVIOUS
  <2>3. LegalLog(<<state'[n]>>)
    BY <2>2 DEF LegalLog
  <2>4. QED
    BY <2>1, <2>2, <2>3 DEF TrailOK, Created
<1>3. CASE /\ deps' = deps
           /\ trail'[n] = IF state'[n] = state[n] THEN trail[n] ELSE Append(trail[n], state'[n])
  <2>1. CASE state'[n] = state[n]
    BY <1>3, <2>1 DEF TrailOK, Created
  <2>2. CASE state'[n] # state[n]
    <3>1. Created
      <4>1. ASSUME ~ Created PROVE state'[n] = state[n]
        BY <1>3, <4>1, UnbornStep DEF GraphInv, Unborn, Created
      <4>2. QED
        BY <2>2, <4>1
    <3>2. trail[n] # <<>> /\ trail[n][Len(trail[n])] = state[n] /\ LegalLog(trail[n])
          /\ trail[n][1] \in {"blocked", "ready"}
      BY <3>1 DEF TrailOK
    <3>3. LegalLog(Append(trail[n], state'[n]))
      BY <1>1, <2>2, <3>2, MoveIsLegal, LogGrows
    <3>4. /\ Append(trail[n], state'[n])[1] = trail[n][1]
          /\ Len(Append(trail[n], state'[n])) = Len(trail[n]) + 1
          /\ Append(trail[n], state'[n])[Len(trail[n]) + 1] = state'[n]
          /\ Append(trail[n], state'[n]) # <<>>
      BY <1>1, <3>2
    <3>5. QED
      BY <1>3, <2>2, <3>1, <3>2, <3>3, <3>4 DEF TrailOK, Created
  <2>3. QED
    BY <2>1, <2>2
<1>4. QED
  BY <1>1, <1>2, <1>3, LogStep

-----------------------------------------------------------------------------
(* The workers. *)

Jobs == [at : {"claimed", "routing", "trying", "answered", "refused", "completed"},
         node : Nodes, owner : Owners, fence : Nat, result : Results \cup {None}]

Busy(x) == job[x] # NoJob

JobType == job \in [Workers -> {NoJob} \cup Jobs]

\* The node has been claimed: its log says so for ever.
Claimed(n) == \E i \in DOMAIN trail[n] : trail[n][i] = "running"

\* A worker has a node that was claimed, of a graph with a policy; it has an
\* outcome when it is about to complete it and none was bound before it reads
\* the dependencies.
JobOK(x) ==
  Busy(x) =>
    /\ Created /\ policy # None
    /\ state[job[x].node] \notin {"blocked", "ready"}
    /\ fence[job[x].node] > 0
    /\ Claimed(job[x].node)
    /\ job[x].at \in {"answered", "refused"} => job[x].result \in Results
    /\ job[x].at = "claimed" => runs[job[x].node] = 0

OneJob == \A x, y \in Workers : Busy(x) /\ Busy(y) /\ job[x].node = job[y].node => x = y

NodeOK(n) ==
  /\ runs[n] \in {0, 1}
  /\ state[n] \in {"blocked", "ready"} => fence[n] = 0 /\ runs[n] = 0
  /\ runs[n] = 1 => fence[n] > 0 /\ Claimed(n)

WorkersInv ==
  /\ JobType
  /\ \A x \in Workers : JobOK(x)
  /\ OneJob
  /\ runs \in [Nodes -> Nat]
  /\ \A n \in Nodes : NodeOK(n) /\ TrailOK(n)

\* NoJob is no job.
LEMMA Idle ==
  /\ NoJob \notin Jobs
  /\ NoJob.at = "idle"
BY DEF NoJob, Jobs

\* A worker between two calls has a job, and the fields of one.
LEMMA BusyType ==
  ASSUME JobType, NEW x \in Workers, Busy(x)
  PROVE  job[x] \in Jobs
BY DEF JobType, Busy

LEMMA AtIsBusy ==
  ASSUME JobType, NEW x \in Workers,
         job[x].at \in {"claimed", "routing", "trying", "answered", "refused", "completed"}
  PROVE  Busy(x) /\ job[x] \in Jobs
BY Idle, BusyType DEF Busy

-----------------------------------------------------------------------------
\* Whatever a worker does to the graph is a call the store allows anybody.
LEMMA GraphStep ==
  ASSUME GraphInv, WorkersInv, [ExecutionNext]_executionVars
  PROVE  [GraphNext]_graphVars
<1>1. JobType /\ GraphTypeOK
  BY DEF WorkersInv, GraphInv
<1>2. ASSUME NEW x \in Workers, NEW n \in Nodes, NEW o \in Owners, NEW d \in LeaseTimes,
             StartNode(x, n, o, d)
      PROVE  GraphNext
  BY <1>2 DEF StartNode, GraphNext
<1>3. ASSUME NEW x \in Workers,
             ReadDependencies(x) \/ RouterRetry(x) \/ (\E r \in Results : RouterFailure(x, r))
               \/ AbandonNode(x)
      PROVE  UNCHANGED graphVars
  BY <1>3 DEF ReadDependencies, RouterRetry, RouterFailure, AbandonNode
<1>4. ASSUME NEW x \in Workers, RouterAttempt(x) \/ RouterAttemptEnds(x)
      PROVE  GraphNext
  BY <1>4 DEF RouterAttempt, RouterAttemptEnds, GraphNext
<1>5. ASSUME NEW x \in Workers, NEW r \in Results, NEW k \in TokenCounts, RouterAnswer(x, r, k)
      PROVE  GraphNext
  BY <1>5 DEF RouterAnswer, GraphNext
<1>6. ASSUME NEW x \in Workers, NEW ok \in BOOLEAN, job[x].at \in {"answered", "refused"},
             CompleteGraphNode(job[x].node, job[x].owner, job[x].fence, job[x].result, ok)
      PROVE  GraphNext
  <2>1. Busy(x) /\ job[x] \in Jobs
    BY <1>1, <1>6, AtIsBusy
  <2>2. job[x].node \in Nodes /\ job[x].owner \in Owners /\ job[x].fence \in Nat
    BY <2>1 DEF Jobs
  <2>3. job[x].result \in Results
    BY <1>6, <2>1 DEF WorkersInv, JobOK
  <2>4. job[x].fence \in 0..fence[job[x].node]
    BY <1>6, <2>2 DEF CompleteGraphNode, RequireGraphLease
  <2>5. QED
    BY <1>6, <2>2, <2>3, <2>4 DEF GraphNext
<1>7. ASSUME NEW x \in Workers, CompleteFailed(x) \/ CompleteAnswered(x)
      PROVE  GraphNext
  BY <1>6, <1>7 DEF CompleteFailed, CompleteAnswered, At
<1>8. ASSUME NEW x \in Workers, ValidateCompleted(x)
      PROVE  GraphNext
  <2>1. Busy(x) /\ job[x] \in Jobs
    BY <1>1, <1>8, AtIsBusy DEF ValidateCompleted, At
  <2>2. job[x].node \in Nodes
    BY <2>1 DEF Jobs
  <2>3. policy \in Policies
    BY <1>1, <2>1 DEF WorkersInv, JobOK, GraphTypeOK
  <2>4. QED
    BY <1>8, <2>2, <2>3 DEF ValidateCompleted, GraphNext
<1>9. CASE Outside
  BY <1>9 DEF Outside, GraphNext
<1>10. CASE UNCHANGED executionVars
  BY <1>10 DEF executionVars, graphVars
<1>11. QED
  BY <1>2, <1>3, <1>4, <1>5, <1>7, <1>8, <1>9, <1>10 DEF ExecutionNext, WorkerMove

\* What becomes of a worker's job in any step: it stays, is dropped, goes on with
\* the same node, or a node is claimed for it.
Advances(y) ==
  /\ Busy(y)
  /\ job'[y] \in Jobs
  /\ job'[y].node = job[y].node
  /\ job'[y].at # "claimed"
  /\ job'[y].at \in {"answered", "refused"} => job'[y].result \in Results

Starts(y) == \E n \in Nodes, o \in Owners, d \in LeaseTimes : StartNode(y, n, o, d)

JobMoves(y) == job'[y] = job[y] \/ job'[y] = NoJob \/ Advances(y) \/ Starts(y)

LEMMA JobStep ==
  ASSUME GraphInv, WorkersInv, [ExecutionNext]_executionVars
  PROVE  JobType' /\ \A y \in Workers : JobMoves(y)
<1>1. JobType /\ job \in [Workers -> {NoJob} \cup Jobs]
  BY DEF WorkersInv, JobType
<1>2. ASSUME NEW x \in Workers, NEW j \in {NoJob} \cup Jobs, job' = [job EXCEPT ![x] = j],
             (Busy(x) /\ j.node = job[x].node /\ j.at # "claimed"
                /\ (j.at \in {"answered", "refused"} => j.result \in Results)) \/ j = NoJob \/ Starts(x)
      PROVE  JobType' /\ \A y \in Workers : JobMoves(y)
  <2>1. JobType'
    BY <1>1, <1>2 DEF JobType
  <2>2. ASSUME NEW y \in Workers
        PROVE  JobMoves(y)
    <3>1. CASE y # x
      BY <1>1, <1>2, <3>1 DEF JobMoves
    <3>2. CASE y = x
      <4>1. job'[y] = j
        BY <1>1, <1>2, <3>2
      <4>2. QED
        BY <1>2, <3>2, <4>1 DEF JobMoves, Advances
    <3>3. QED
      BY <3>1, <3>2
  <2>3. QED
    BY <2>1, <2>2
<1>3. ASSUME NEW x \in Workers, job[x] \in Jobs, Busy(x),
             NEW at \in {"routing", "trying", "answered", "refused", "completed"},
             NEW r \in Results \cup {None}, at \in {"answered", "refused"} => r \in Results,
             job' = [job EXCEPT ![x].at = at, ![x].result = r]
      PROVE  JobType' /\ \A y \in Workers : JobMoves(y)
  <2> DEFINE j == [job[x] EXCEPT !.at = at, !.result = r]
  <2>1. job' = [job EXCEPT ![x] = j]
    BY <1>1, <1>3
  <2>2. j \in Jobs /\ j.node = job[x].node /\ j.at = at /\ j.result = r
    BY <1>3 DEF Jobs
  <2> HIDE DEF j
  <2>3. QED
    BY <1>2, <1>3, <2>1, <2>2
<1>4. ASSUME NEW x \in Workers, job[x] \in Jobs, Busy(x),
             NEW at \in {"routing", "trying", "completed"}, MoveTo(x, at)
      PROVE  JobType' /\ \A y \in Workers : JobMoves(y)
  <2> DEFINE j == [job[x] EXCEPT !.at = at]
  <2>1. job' = [job EXCEPT ![x] = j]
    BY <1>1, <1>4 DEF MoveTo
  <2>2. j \in Jobs /\ j.node = job[x].node /\ j.at = at
    BY <1>4 DEF Jobs
  <2> HIDE DEF j
  <2>3. QED
    BY <1>2, <1>4, <2>1, <2>2
<1>5. ASSUME NEW x \in Workers, Drop(x)
      PROVE  JobType' /\ \A y \in Workers : JobMoves(y)
  BY <1>2, <1>5 DEF Drop
<1>6. ASSUME job' = job
      PROVE  JobType' /\ \A y \in Workers : JobMoves(y)
  BY <1>1, <1>6 DEF JobType, JobMoves
<1>7. ASSUME NEW x \in Workers, NEW n \in Nodes, NEW o \in Owners, NEW d \in LeaseTimes,
             StartNode(x, n, o, d)
      PROVE  JobType' /\ \A y \in Workers : JobMoves(y)
  <2>1. fence'[n] \in Nat
    BY <1>7 DEF StartNode, ClaimGraphNode, GraphInv, GraphTypeOK
  <2>2. NodeJob("claimed", n, o, fence'[n]) \in Jobs
    BY <2>1 DEF NodeJob, Jobs
  <2>3. job' = [job EXCEPT ![x] = NodeJob("claimed", n, o, fence'[n])] /\ Starts(x)
    BY <1>7 DEF StartNode, Starts
  <2>4. QED
    BY <1>2, <2>2, <2>3
<1>8. ASSUME NEW x \in Workers, NEW r \in Results, RouterFailure(x, r)
      PROVE  JobType' /\ \A y \in Workers : JobMoves(y)
  <2>1. Busy(x) /\ job[x] \in Jobs
    BY <1>1, <1>8, AtIsBusy DEF RouterFailure, At
  <2>2. QED
    BY <1>3, <1>8, <2>1 DEF RouterFailure, MoveWith
<1>9. ASSUME NEW x \in Workers, NEW r \in Results, NEW k \in TokenCounts, RouterAnswer(x, r, k)
      PROVE  JobType' /\ \A y \in Workers : JobMoves(y)
  <2>1. Busy(x) /\ job[x] \in Jobs
    BY <1>1, <1>9, AtIsBusy DEF RouterAnswer, At
  <2>2. QED
    BY <1>3, <1>9, <2>1 DEF RouterAnswer, MoveWith
<1>10. ASSUME NEW x \in Workers,
              ReadDependencies(x) \/ RouterAttempt(x) \/ RouterRetry(x) \/ CompleteAnswered(x)
       PROVE  JobType' /\ \A y \in Workers : JobMoves(y)
  <2>1. Busy(x) /\ job[x] \in Jobs
    BY <1>1, <1>10, AtIsBusy DEF ReadDependencies, RouterAttempt, RouterRetry, CompleteAnswered, At
  <2>2. \E at \in {"routing", "trying", "completed"} : MoveTo(x, at)
    BY <1>10 DEF ReadDependencies, RouterAttempt, RouterRetry, CompleteAnswered
  <2>3. QED
    BY <1>4, <2>1, <2>2
<1>11. ASSUME NEW x \in Workers, CompleteFailed(x) \/ ValidateCompleted(x) \/ AbandonNode(x)
       PROVE  JobType' /\ \A y \in Workers : JobMoves(y)
  BY <1>5, <1>11 DEF CompleteFailed, ValidateCompleted, AbandonNode
<1>12. CASE Outside \/ \E x \in Workers : RouterAttemptEnds(x)
  BY <1>6, <1>12 DEF Outside, RouterAttemptEnds, workerVars
<1>13. CASE UNCHANGED executionVars
  BY <1>6, <1>13 DEF executionVars
<1>14. QED
  BY <1>7, <1>8, <1>9, <1>10, <1>11, <1>12, <1>13 DEF ExecutionNext, WorkerMove
-----------------------------------------------------------------------------
\* generate_task is called for a node only by the worker that read its
\* dependencies.
Runs(n) ==
  \/ runs'[n] = runs[n]
  \/ \E x \in Workers : /\ ReadDependencies(x) /\ job[x].node = n
                        /\ runs'[n] = runs[n] + 1

LEMMA RunsStep ==
  ASSUME GraphInv, WorkersInv, [ExecutionNext]_executionVars
  PROVE  runs' \in [Nodes -> Nat] /\ \A n \in Nodes : Runs(n)
<1>1. JobType /\ runs \in [Nodes -> Nat]
  BY DEF WorkersInv
<1>2. ASSUME NEW x \in Workers, ReadDependencies(x)
      PROVE  runs' \in [Nodes -> Nat] /\ \A n \in Nodes : Runs(n)
  <2>1. job[x].node \in Nodes
    BY <1>1, <1>2, AtIsBusy DEF ReadDependencies, At, Jobs
  <2>2. runs' = [runs EXCEPT ![job[x].node] = @ + 1]
    BY <1>2 DEF ReadDependencies
  <2>3. runs' \in [Nodes -> Nat]
    BY <1>1, <2>1, <2>2
  <2>4. ASSUME NEW n \in Nodes
        PROVE  Runs(n)
    BY <1>1, <1>2, <2>1, <2>2 DEF Runs
  <2>5. QED
    BY <2>3, <2>4
<1>3. ASSUME runs' = runs
      PROVE  runs' \in [Nodes -> Nat] /\ \A n \in Nodes : Runs(n)
  BY <1>1, <1>3 DEF Runs
<1>4. (\E x \in Workers : ReadDependencies(x)) \/ runs' = runs
  BY DEF ExecutionNext, WorkerMove, StartNode, RouterAttempt, RouterAttemptEnds, RouterRetry,
         RouterFailure, RouterAnswer, CompleteFailed, CompleteAnswered, ValidateCompleted,
         AbandonNode, Outside, workerVars, executionVars
<1>5. QED
  BY <1>2, <1>3, <1>4

\* A claim stays in the log, and a fence is never taken back.
LEMMA ClaimStays ==
  ASSUME GraphInv, [GraphNext]_graphVars, NEW n \in Nodes, Created
  PROVE  /\ Claimed(n) => Claimed(n)'
         /\ fence[n] \in Nat /\ fence'[n] \in Nat /\ fence'[n] >= fence[n]
         /\ state[n] \notin {"blocked", "ready"} => state'[n] \notin {"blocked", "ready"}
         /\ Created' /\ deps' = deps /\ policy' = policy
<1>1. /\ Moved(n) /\ fence[n] \in Nat /\ trail[n] \in Seq(NodeStates)
      /\ state'[n] \in NodeStates
  BY Moves, TypeStep DEF GraphInv, GraphTypeOK
<1>2. /\ deps' = deps /\ policy' = policy
      /\ trail'[n] = IF state'[n] = state[n] THEN trail[n] ELSE Append(trail[n], state'[n])
  BY LogStep DEF GraphInv, CreateGraph
<1>3. ASSUME Claimed(n)
      PROVE  Claimed(n)'
  <2>1. PICK i \in DOMAIN trail[n] : trail[n][i] = "running"
    BY <1>3 DEF Claimed
  <2>2. i \in DOMAIN trail'[n] /\ trail'[n][i] = "running"
    BY <1>1, <1>2, <2>1
  <2>3. QED
    BY <2>2 DEF Claimed
<1>4. /\ fence'[n] \in Nat /\ fence'[n] >= fence[n]
      /\ state[n] \notin {"blocked", "ready"} => state'[n] \notin {"blocked", "ready"}
  <2>1. CASE Kept(n)
    BY <1>1, <2>1 DEF Kept
  <2>2. CASE Fenced(n)
    BY <1>1, <2>2 DEF Fenced
  <2>3. CASE Published(n)
    BY <1>1, <2>3 DEF Published
  <2>4. CASE Judged(n)
    BY <1>1, <2>4 DEF Judged
  <2>5. QED
    BY <1>1, <2>1, <2>2, <2>3, <2>4 DEF Moved
<1>5. QED
  BY <1>1, <1>2, <1>3, <1>4 DEF Created

\* A node that has been claimed belongs to a graph that exists.
LEMMA ClaimedIsCreated ==
  ASSUME GraphInv, WorkersInv, NEW n \in Nodes, runs[n] = 1 \/ Claimed(n) \/ fence[n] > 0
  PROVE  Created
<1>1. SUFFICES ASSUME ~ Created PROVE FALSE
  OBVIOUS
<1>2. trail[n] = <<>> /\ fence[n] = 0 /\ (runs[n] = 1 => fence[n] > 0)
  BY <1>1 DEF WorkersInv, NodeOK, TrailOK, GraphInv, Unborn, Created
<1>3. ~ Claimed(n)
  BY <1>2 DEF Claimed
<1>4. QED
  BY <1>2, <1>3

\* A claim for a worker (StartNode) leaves the node running, claimed and fenced.
LEMMA StartStep ==
  ASSUME GraphInv, WorkersInv, NEW x \in Workers, NEW n \in Nodes, NEW o \in Owners,
         NEW d \in LeaseTimes, StartNode(x, n, o, d)
  PROVE  /\ Created' /\ policy' # None
         /\ state[n] = "ready" /\ state'[n] = "running"
         /\ fence'[n] > 0 /\ Claimed(n)' /\ runs'[n] = 0
         /\ job'[x] = NodeJob("claimed", n, o, fence'[n])
         /\ \A y \in Workers : y # x => job'[y] = job[y]
<1>1. /\ GraphTypeOK /\ job \in [Workers -> {NoJob} \cup Jobs] /\ NodeOK(n)
      /\ state \in [Nodes -> NodeStates] /\ fence \in [Nodes -> Nat]
      /\ trail[n] \in Seq(NodeStates) /\ "running" \in NodeStates
  BY DEF GraphInv, GraphTypeOK, WorkersInv, JobType, NodeStates
<1>2. /\ Created /\ deps' = deps /\ policy # None /\ policy' = policy /\ runs' = runs
      /\ state[n] = "ready" /\ state' = [state EXCEPT ![n] = "running"]
      /\ fence' = [fence EXCEPT ![n] = @ + 1] /\ Logged
      /\ job' = [job EXCEPT ![x] = NodeJob("claimed", n, o, fence'[n])]
  BY DEF StartNode, ClaimGraphNode
<1>3. state'[n] = "running" /\ fence'[n] > 0 /\ runs'[n] = 0
  BY <1>1, <1>2 DEF NodeOK
<1>4. trail'[n] = Append(trail[n], "running")
  BY <1>2, <1>3 DEF Logged
<1>5. Len(trail[n]) + 1 \in DOMAIN trail'[n] /\ trail'[n][Len(trail[n]) + 1] = "running"
  BY <1>1, <1>4
<1>6. Claimed(n)'
  BY <1>5 DEF Claimed
<1>7. QED
  BY <1>1, <1>2, <1>3, <1>6 DEF Created

\* A worker's job stays what JobOK says of it.
LEMMA JobOKStep ==
  ASSUME GraphInv, WorkersInv, [ExecutionNext]_executionVars, NEW y \in Workers
  PROVE  JobOK(y)'
<1>1. JobMoves(y) /\ [GraphNext]_graphVars /\ JobOK(y) /\ JobType
  BY JobStep, GraphStep DEF WorkersInv
<1>2. SUFFICES ASSUME Busy(y)'
               PROVE  JobOK(y)'
  BY DEF JobOK
<1>3. CASE Starts(y)
  <2>1. PICK n \in Nodes, o \in Owners, d \in LeaseTimes : StartNode(y, n, o, d)
    BY <1>3 DEF Starts
  <2>2. job'[y].node = n /\ job'[y].at = "claimed"
    <3>1. job'[y] = NodeJob("claimed", n, o, fence'[n])
      BY <2>1, StartStep
    <3>2. QED
      BY <3>1 DEF NodeJob
  <2>3. /\ Created' /\ policy' # None /\ state'[n] = "running" /\ fence'[n] > 0
        /\ Claimed(n)' /\ runs'[n] = 0
    BY <2>1, StartStep
  <2>4. QED
    BY <2>2, <2>3 DEF JobOK, Claimed
<1>4. ASSUME Busy(y), job'[y].node = job[y].node,
             job'[y].at \in {"answered", "refused"} => job'[y].result \in Results,
             job'[y].at = "claimed" => job'[y] = job[y]
      PROVE  JobOK(y)'
  <2>1. PICK n \in Nodes : n = job[y].node
    BY <1>1, <1>4, BusyType DEF Jobs
  <2>2. /\ Created /\ policy # None /\ state[n] \notin {"blocked", "ready"} /\ fence[n] > 0
        /\ Claimed(n) /\ (job[y].at = "claimed" => runs[n] = 0)
    BY <1>1, <1>4, <2>1 DEF JobOK
  <2>3. /\ Created' /\ policy' # None /\ state'[n] \notin {"blocked", "ready"} /\ fence'[n] > 0
        /\ Claimed(n)'
    BY <1>1, <2>1, <2>2, ClaimStays
  <2>4. job'[y].at = "claimed" => runs'[n] = 0
    <3>1. SUFFICES ASSUME job'[y] = job[y], job[y].at = "claimed", runs'[n] # runs[n]
                   PROVE  FALSE
      BY <1>4, <2>2
    <3>2. PICK x \in Workers : ReadDependencies(x) /\ job[x].node = n
      BY <2>1, <3>1, RunsStep DEF Runs
    <3>3. Busy(x)
      BY <1>1, <3>2, AtIsBusy DEF ReadDependencies, At
    <3>4. x = y
      BY <1>4, <2>1, <3>2, <3>3 DEF WorkersInv, OneJob
    <3>5. job'[y].at = "routing"
      BY <1>1, <3>2, <3>4 DEF ReadDependencies, MoveTo, JobType, Jobs
    <3>6. QED
      BY <3>1, <3>5
  <2>5. QED
    BY <1>4, <2>1, <2>3, <2>4 DEF JobOK, Claimed
<1>5. CASE job'[y] = job[y]
  BY <1>1, <1>2, <1>4, <1>5 DEF Busy, JobOK
<1>6. CASE job'[y] = NoJob
  BY <1>2, <1>6 DEF Busy
<1>7. CASE Advances(y)
  BY <1>4, <1>7 DEF Advances
<1>8. QED
  BY <1>1, <1>3, <1>5, <1>6, <1>7 DEF JobMoves

\* No two workers ever have the same node.
LEMMA OneJobStep ==
  ASSUME GraphInv, WorkersInv, [ExecutionNext]_executionVars
  PROVE  OneJob'
<1>1. /\ \A y \in Workers : JobMoves(y) /\ JobOK(y)
      /\ OneJob
  BY JobStep DEF WorkersInv
<1>2. ASSUME NEW x \in Workers, NEW n \in Nodes, NEW o \in Owners, NEW d \in LeaseTimes,
             StartNode(x, n, o, d)
      PROVE  OneJob'
  <2>1. /\ state[n] = "ready" /\ job'[x].node = n /\ \A y \in Workers : y # x => job'[y] = job[y]
    <3>1. /\ state[n] = "ready" /\ job'[x] = NodeJob("claimed", n, o, fence'[n])
          /\ \A y \in Workers : y # x => job'[y] = job[y]
      BY <1>2, StartStep
    <3>2. QED
      BY <3>1 DEF NodeJob
  <2>2. ASSUME NEW y \in Workers, y # x, Busy(y)'
        PROVE  job'[y].node # n
    BY <1>1, <2>1, <2>2 DEF Busy, JobOK
  <2>3. QED
    BY <1>1, <2>1, <2>2 DEF OneJob, Busy
<1>3. CASE \A y \in Workers : ~ Starts(y)
  <2>1. ASSUME NEW y \in Workers, Busy(y)'
        PROVE  Busy(y) /\ job'[y].node = job[y].node
    BY <1>1, <1>3, <2>1 DEF JobMoves, Advances, Busy
  <2>2. QED
    BY <1>1, <2>1 DEF OneJob
<1>4. QED
  BY <1>2, <1>3 DEF Starts

\* A node runs only after it was claimed, and once.
LEMMA NodeOKStep ==
  ASSUME GraphInv, WorkersInv, [ExecutionNext]_executionVars, NEW n \in Nodes
  PROVE  NodeOK(n)'
<1>1. /\ [GraphNext]_graphVars /\ NodeOK(n) /\ JobType /\ Runs(n) /\ Moved(n)
      /\ fence[n] \in Nat /\ state[n] \in NodeStates
  BY GraphStep, RunsStep, Moves DEF WorkersInv, GraphInv, GraphTypeOK
<1>2. CASE runs'[n] = runs[n]
  <2>1. state'[n] \in {"blocked", "ready"} => fence'[n] = 0 /\ runs'[n] = 0
    <3>1. SUFFICES ASSUME state'[n] \in {"blocked", "ready"}
                   PROVE  fence'[n] = 0 /\ runs'[n] = 0
      OBVIOUS
    <3>2. Kept(n)
      BY <1>1, <3>1 DEF Moved, Fenced, Published, Judged
    <3>3. QED
      BY <1>1, <1>2, <3>1, <3>2 DEF Kept, NodeOK
  <2>2. runs'[n] = 1 => fence'[n] > 0 /\ Claimed(n)'
    <3>1. SUFFICES ASSUME runs[n] = 1
                   PROVE  fence'[n] > 0 /\ Claimed(n)'
      BY <1>2
    <3>2. Created /\ fence[n] > 0 /\ Claimed(n)
      BY <1>1, <3>1, ClaimedIsCreated DEF NodeOK
    <3>3. QED
      BY <1>1, <3>2, ClaimStays
  <2>3. QED
    BY <1>1, <1>2, <2>1, <2>2 DEF NodeOK, Claimed
<1>3. ASSUME NEW x \in Workers, ReadDependencies(x), job[x].node = n, runs'[n] = runs[n] + 1
      PROVE  NodeOK(n)'
  <2>1. Busy(x) /\ job[x].at = "claimed" /\ UNCHANGED <<state, fence, trail>>
    BY <1>1, <1>3, AtIsBusy DEF ReadDependencies, At, graphVars
  <2>2. state[n] \notin {"blocked", "ready"} /\ fence[n] > 0 /\ Claimed(n) /\ runs[n] = 0
    BY <1>3, <2>1 DEF WorkersInv, JobOK
  <2>3. QED
    BY <1>3, <2>1, <2>2 DEF NodeOK, Claimed
<1>4. QED
  BY <1>1, <1>2, <1>3 DEF Runs

\* Whatever any worker, process or clock does keeps both invariants.
LEMMA WorkersStep ==
  ASSUME GraphInv, WorkersInv, [ExecutionNext]_executionVars
  PROVE  GraphInv' /\ WorkersInv'
<1>1. [GraphNext]_graphVars
  BY GraphStep
<1>2. GraphInv'
  BY <1>1, GraphInvStep
<1>3. \A n \in Nodes : TrailOK(n)'
  BY <1>1, TrailStep DEF WorkersInv
<1>4. JobType' /\ OneJob' /\ (runs \in [Nodes -> Nat])'
  BY JobStep, OneJobStep, RunsStep
<1>5. (\A x \in Workers : JobOK(x)') /\ (\A n \in Nodes : NodeOK(n)')
  BY JobOKStep, NodeOKStep
<1>6. QED
  BY <1>2, <1>3, <1>4, <1>5 DEF WorkersInv

LEMMA WorkersInit ==
  ASSUME ExecutionInit
  PROVE  GraphInv /\ WorkersInv
<1>1. GraphInv
  BY GraphInvInit DEF ExecutionInit
<1>2. /\ job = [x \in Workers |-> NoJob] /\ runs = [n \in Nodes |-> 0] /\ ~ Created
      /\ \A n \in Nodes : trail[n] = <<>> /\ fence[n] = 0 /\ runs[n] = 0
  BY DEF ExecutionInit, GraphInit, Created
<1>3. JobType /\ OneJob /\ runs \in [Nodes -> Nat] /\ \A x \in Workers : JobOK(x)
  BY <1>2 DEF JobType, OneJob, JobOK, Busy
<1>4. ASSUME NEW n \in Nodes
      PROVE  NodeOK(n) /\ TrailOK(n)
  <2>1. LegalLog(<<>>)
    BY DEF LegalLog
  <2>2. QED
    BY <1>2, <2>1 DEF NodeOK, TrailOK
<1>5. QED
  BY <1>1, <1>3, <1>4 DEF WorkersInv

-----------------------------------------------------------------------------
\* WorkersInv is inductive, for any number of workers, together with the
\* invariant of the graph store they share.
THEOREM ExecutionInvariant == ExecutionSpec => [](GraphInv /\ WorkersInv)
<1>1. ExecutionInit => GraphInv /\ WorkersInv
  BY WorkersInit
<1>2. GraphInv /\ WorkersInv /\ [ExecutionNext]_executionVars => (GraphInv /\ WorkersInv)'
  BY WorkersStep
<1>3. QED
  BY <1>1, <1>2, PTL DEF ExecutionSpec

\* What concurrent GraphNodeExecutor.execute calls do is a behaviour of the
\* graph store: every theorem about GraphSpec holds of the executors too.
THEOREM ExecutionImplementsGraph == ExecutionSpec => GraphSpec
<1>1. ExecutionInit => GraphInit
  BY DEF ExecutionInit
<1>2. GraphInv /\ WorkersInv /\ [ExecutionNext]_executionVars => [GraphNext]_graphVars
  BY GraphStep
<1>3. QED
  BY <1>1, <1>2, ExecutionInvariant, PTL DEF ExecutionSpec, GraphSpec

\* ADR-023, for every graph and any number of workers: generate_task is called at
\* most once for a node, after its claim, and the node's event log is a path of
\* legal moves without repetition.
THEOREM NodeRunsOnceCorrect == ExecutionSpec => []NodeRunsOnce
<1>1. GraphInv /\ WorkersInv => NodeRunsOnce
  <2>1. SUFFICES ASSUME GraphInv, WorkersInv, NEW n \in Nodes
                 PROVE  LET log == trail[n] IN
                        /\ runs[n] <= 1
                        /\ runs[n] = 1 => fence[n] > 0 /\ \E i \in DOMAIN log : log[i] = "running"
                        /\ Created => log[1] \in {"blocked", "ready"} /\ log[Len(log)] = state[n]
                        /\ \A i \in 1..(Len(log) - 1) : <<log[i], log[i + 1]>> \in Allowed \cup Derived
                        /\ \A i, j \in 1..Len(log) : i # j => log[i] # log[j]
    BY DEF NodeRunsOnce
  <2>2. NodeOK(n) /\ TrailOK(n) /\ LegalLog(trail[n])
    BY <2>1 DEF WorkersInv, TrailOK
  <2>3. /\ runs[n] <= 1
        /\ runs[n] = 1 => fence[n] > 0 /\ \E i \in DOMAIN trail[n] : trail[n][i] = "running"
    BY <2>2 DEF NodeOK, Claimed
  <2>4. ASSUME NEW i \in 1..Len(trail[n]), NEW j \in 1..Len(trail[n]), i # j
        PROVE  trail[n][i] # trail[n][j]
    <3>1. \A s : Rank(s) \in Nat
      BY DEF Rank
    <3>2. i < j \/ j < i
      BY <2>1, <2>4 DEF GraphInv, GraphTypeOK
    <3>3. Rank(trail[n][i]) < Rank(trail[n][j]) \/ Rank(trail[n][j]) < Rank(trail[n][i])
      BY <2>2, <3>2 DEF LegalLog
    <3>4. QED
      BY <3>1, <3>3
  <2>5. QED
    BY <2>2, <2>3, <2>4 DEF TrailOK, LegalLog
<1>2. QED
  BY <1>1, ExecutionInvariant, PTL

\* reserve_graph_attempt is the only way to a provider call, so the durable
\* count covers every call ever made, for any number of workers and restarts,
\* and it respects the limit.
THEOREM AttemptsSharedCorrect == ExecutionSpec => []AttemptsAreShared
<1> DEFINE Counted == tried \in Nat /\ attempts \in Nat /\ tried <= attempts
<1>1. ExecutionInit => Counted
  BY DEF ExecutionInit, GraphInit
<1>2. Counted /\ [ExecutionNext]_executionVars => Counted'
  <2>1. SUFFICES ASSUME Counted, [ExecutionNext]_executionVars
                 PROVE  Counted'
    OBVIOUS
  <2>2. ASSUME NEW x \in Workers, RouterAttempt(x) \/ RouterAttemptEnds(x)
        PROVE  Counted'
    BY <2>1, <2>2 DEF RouterAttempt, RouterAttemptEnds, ReserveGraphAttempt, workerVars
  <2>3. ASSUME UNCHANGED <<tried, attempts>>
        PROVE  Counted'
    BY <2>1, <2>3
  <2>4. \/ \E x \in Workers : RouterAttempt(x) \/ RouterAttemptEnds(x)
        \/ UNCHANGED <<tried, attempts>>
    <3>1. ASSUME NEW x \in Workers, WorkerMove(x)
          PROVE  RouterAttempt(x) \/ RouterAttemptEnds(x) \/ UNCHANGED <<tried, attempts>>
      <4>1. CASE \/ \E n \in Nodes, o \in Owners, d \in LeaseTimes : StartNode(x, n, o, d)
                 \/ ReadDependencies(x)
        BY <4>1 DEF StartNode, ReadDependencies, ClaimGraphNode, spent, workerVars, graphVars
      <4>2. CASE \/ RouterRetry(x)
                 \/ \E r \in Results : RouterFailure(x, r)
                 \/ \E r \in Results, k \in TokenCounts : RouterAnswer(x, r, k)
        BY <4>2 DEF RouterRetry, RouterFailure, RouterAnswer, RecordGraphOutputTokens,
             spent, workerVars, graphVars
      <4>3. CASE CompleteFailed(x) \/ CompleteAnswered(x) \/ ValidateCompleted(x) \/ AbandonNode(x)
        BY <4>3 DEF CompleteFailed, CompleteAnswered, ValidateCompleted, AbandonNode,
             CompleteGraphNode, ValidateGraphNode, spent, workerVars, graphVars
      <4>4. QED
        BY <3>1, <4>1, <4>2, <4>3 DEF WorkerMove
    <3>2. ASSUME Outside
          PROVE  UNCHANGED <<tried, attempts>>
      BY <3>2 DEF Outside, CreateGraph, BindGraphBudget, CancelGraph, RecoverGraphNodes, GraphTick,
           spent, graphVars, workerVars
    <3>3. ASSUME UNCHANGED executionVars
          PROVE  UNCHANGED <<tried, attempts>>
      BY <3>3 DEF executionVars, graphVars, workerVars, spent
    <3>4. QED
      BY <2>1, <3>1, <3>2, <3>3 DEF ExecutionNext
  <2>5. QED
    BY <2>2, <2>3, <2>4
<1>3. GraphInv /\ Counted => AttemptsAreShared
  BY DEF GraphInv, GraphTypeOK, WithinBudget, AttemptsAreShared
<1>4. QED
  BY <1>1, <1>2, <1>3, ExecutionInvariant, PTL DEF ExecutionSpec

-----------------------------------------------------------------------------
(* What a node is given, and what becomes of it. *)

\* Executors judge by the graph's own policy only.
JudgedByPolicy == \A n \in Nodes : artifact[n].judge \in {None, policy}

\* The prompt of a node that ran holds what its dependencies have.
HandedOver ==
  /\ handed = [n \in Nodes |-> handed[n]]
  /\ \A n \in Nodes : runs[n] > 0 => handed[n] = [m \in deps[n] |-> artifact[m].result]

HandoffInv == JudgedByPolicy /\ HandedOver

\* An executor leaves the artifacts alone, publishes one without a judgement or
\* has one judged by the policy of the graph.
LEMMA ArtifactStep ==
  ASSUME GraphInv, WorkersInv, [ExecutionNext]_executionVars, JudgedByPolicy
  PROVE  JudgedByPolicy'
<1>1. /\ artifact \in [Nodes -> Artifact \cup {NoArtifact}] /\ JobType /\ GraphTypeOK
      /\ NoArtifact.judge = None
      /\ \A n \in Nodes : artifact[n].judge \in {None, policy}
  BY DEF GraphInv, GraphTypeOK, WorkersInv, NoArtifact, JudgedByPolicy
<1>2. ASSUME UNCHANGED <<artifact, policy>>
      PROVE  JudgedByPolicy'
  BY <1>1, <1>2 DEF JudgedByPolicy
<1>3. ASSUME NEW d, NEW p, NEW b, CreateGraph(d, p, b)
      PROVE  JudgedByPolicy'
  <2>1. \A n \in Nodes : state[n] = "blocked"
    BY <1>3 DEF GraphInv, Unborn, Created, CreateGraph
  <2>2. \A n \in Nodes : artifact[n] = NoArtifact
    BY <2>1 DEF GraphInv, AcceptedHandoff
  <2>3. QED
    BY <1>1, <1>3, <2>2 DEF CreateGraph, JudgedByPolicy
<1>4. ASSUME NEW k, NEW o, NEW f, NEW r, NEW ok, CompleteGraphNode(k, o, f, r, ok)
      PROVE  JudgedByPolicy'
  <2>1. /\ artifact' = [artifact EXCEPT ![k] = [result |-> r, judge |-> None, accepted |-> FALSE]]
        /\ policy' = policy
    BY <1>4 DEF CompleteGraphNode
  <2>2. ASSUME NEW n \in Nodes
        PROVE  artifact'[n].judge \in {None, policy}
    <3>1. artifact'[n] = IF n = k THEN [result |-> r, judge |-> None, accepted |-> FALSE]
                         ELSE artifact[n]
      BY <1>1, <2>1
    <3>2. [result |-> r, judge |-> None, accepted |-> FALSE].judge = None
      OBVIOUS
    <3>3. QED
      BY <1>1, <3>1, <3>2
  <2>3. QED
    BY <2>1, <2>2 DEF JudgedByPolicy
<1>5. ASSUME NEW k, ValidateGraphNode(k, policy)
      PROVE  JudgedByPolicy'
  <2>1. PICK a, r : /\ artifact' = [artifact EXCEPT ![k] = [result |-> r, judge |-> policy, accepted |-> a]]
                    /\ policy' = policy
    BY <1>5 DEF ValidateGraphNode
  <2>2. ASSUME NEW n \in Nodes
        PROVE  artifact'[n].judge \in {None, policy}
    <3>1. artifact'[n] = IF n = k THEN [result |-> r, judge |-> policy, accepted |-> a]
                         ELSE artifact[n]
      BY <1>1, <2>1
    <3>2. [result |-> r, judge |-> policy, accepted |-> a].judge = policy
      OBVIOUS
    <3>3. QED
      BY <1>1, <3>1, <3>2
  <2>3. QED
    BY <2>1, <2>2 DEF JudgedByPolicy
<1>6. \/ UNCHANGED <<artifact, policy>>
      \/ \E d, p, b : CreateGraph(d, p, b)
      \/ \E k, o, f, r, ok : CompleteGraphNode(k, o, f, r, ok)
      \/ \E k : ValidateGraphNode(k, policy)
  <2>1. ASSUME NEW x \in Workers, NEW n \in Nodes, NEW o \in Owners, NEW d \in LeaseTimes,
               StartNode(x, n, o, d)
        PROVE  UNCHANGED <<artifact, policy>>
    BY <2>1 DEF StartNode, ClaimGraphNode
  <2>2. ASSUME NEW x \in Workers,
               \/ ReadDependencies(x) \/ RouterAttempt(x) \/ RouterAttemptEnds(x)
               \/ RouterRetry(x)
               \/ (\E r \in Results : RouterFailure(x, r))
               \/ (\E r \in Results, k \in TokenCounts : RouterAnswer(x, r, k))
               \/ AbandonNode(x)
        PROVE  UNCHANGED <<artifact, policy>>
    BY <2>2 DEF ReadDependencies, RouterAttempt, RouterAttemptEnds, ReserveGraphAttempt,
         RouterRetry, RouterFailure,
         RouterAnswer, RecordGraphOutputTokens, AbandonNode, graphVars
  <2>3. ASSUME NEW x \in Workers, CompleteFailed(x) \/ CompleteAnswered(x)
        PROVE  \E k, o, f, r, ok : CompleteGraphNode(k, o, f, r, ok)
    BY <2>3 DEF CompleteFailed, CompleteAnswered
  <2>4. ASSUME NEW x \in Workers, ValidateCompleted(x)
        PROVE  \E k : ValidateGraphNode(k, policy)
    BY <2>4 DEF ValidateCompleted
  <2>5. CASE Outside
    BY <2>5 DEF Outside, BindGraphBudget, CancelGraph, RecoverGraphNodes, GraphTick
  <2>6. CASE UNCHANGED executionVars
    BY <2>6 DEF executionVars
  <2>7. QED
    BY <2>1, <2>2, <2>3, <2>4, <2>5, <2>6 DEF ExecutionNext, WorkerMove
<1>7. QED
  BY <1>2, <1>3, <1>4, <1>5, <1>6

\* The dependencies of a node that ran are settled: they keep their artifacts.
LEMMA DependenciesSettled ==
  ASSUME GraphInv, WorkersInv, [GraphNext]_graphVars, NEW n \in Nodes, runs[n] > 0
  PROVE  /\ Created /\ deps[n] \subseteq Nodes /\ deps' = deps
         /\ \A m \in deps[n] : /\ state[m] = "succeeded" /\ artifact[m].accepted
                               /\ artifact'[m] = artifact[m]
<1>1. fence[n] > 0 /\ runs[n] = 1
  BY DEF WorkersInv, NodeOK
<1>2. Created
  BY <1>1, ClaimedIsCreated
<1>3. deps \in [Nodes -> SUBSET Nodes] /\ deps' = deps
  BY <1>2, GraphShapes, ClaimStays DEF GraphInv, GraphTypeOK, Created
<1>4. ASSUME NEW m \in deps[n]
      PROVE  /\ state[m] = "succeeded" /\ artifact[m].accepted
             /\ artifact'[m] = artifact[m]
  <2>1. m \in Nodes
    BY <1>3
  <2>2. artifact[m].accepted /\ state[m] = "succeeded"
    BY <1>1, <2>1 DEF GraphInv, AcceptedHandoff
  <2>3. Moved(m)
    BY <2>1, Moves DEF GraphInv
  <2>4. Kept(m)
    BY <2>2, <2>3 DEF Moved, Fenced, Published, Judged
  <2>5. QED
    BY <2>2, <2>4 DEF Kept
<1>5. QED
  BY <1>2, <1>3, <1>4

LEMMA HandedStep ==
  ASSUME GraphInv, WorkersInv, [ExecutionNext]_executionVars, HandedOver
  PROVE  HandedOver'
<1>1. [GraphNext]_graphVars /\ JobType
  BY GraphStep DEF WorkersInv
<1>2. \A n \in Nodes : runs[n] \in Nat /\ (runs[n] > 0 => handed[n] = [m \in deps[n] |-> artifact[m].result])
  BY DEF HandedOver, WorkersInv
<1>3. ASSUME NEW n \in Nodes, runs[n] > 0, handed'[n] = handed[n]
      PROVE  handed'[n] = [m \in deps'[n] |-> artifact'[m].result]
  <2>1. deps' = deps /\ \A m \in deps[n] : artifact'[m] = artifact[m]
    BY <1>1, <1>3, DependenciesSettled
  <2>2. [m \in deps'[n] |-> artifact'[m].result] = [m \in deps[n] |-> artifact[m].result]
    BY <2>1
  <2>3. QED
    BY <1>2, <1>3, <2>2
<1>4. ASSUME NEW x \in Workers, ReadDependencies(x)
      PROVE  HandedOver'
  <2>1. PICK k \in Nodes : k = job[x].node
    BY <1>1, <1>4, AtIsBusy DEF ReadDependencies, At, Jobs
  <2>2. /\ handed' = [handed EXCEPT ![k] = [m \in deps[k] |-> artifact[m].result]]
        /\ runs' = [runs EXCEPT ![k] = @ + 1] /\ UNCHANGED <<deps, artifact>>
    BY <1>4, <2>1 DEF ReadDependencies, graphVars
  <2>3. handed' = [n \in Nodes |-> handed'[n]]
    BY <2>1, <2>2 DEF HandedOver
  <2>4. ASSUME NEW n \in Nodes, runs'[n] > 0
        PROVE  handed'[n] = [m \in deps'[n] |-> artifact'[m].result]
    <3>1. CASE n = k
      <4>1. handed'[n] = [m \in deps[n] |-> artifact[m].result]
        BY <2>2, <3>1 DEF HandedOver
      <4>2. QED
        BY <2>2, <4>1
    <3>2. CASE n # k
      <4>1. handed'[n] = handed[n] /\ runs'[n] = runs[n]
        BY <2>2, <3>2 DEF HandedOver, WorkersInv
      <4>2. QED
        BY <1>3, <2>4, <4>1
    <3>3. QED
      BY <3>1, <3>2
  <2>5. QED
    BY <2>3, <2>4 DEF HandedOver
<1>5. CASE UNCHANGED <<handed, runs>>
  BY <1>3, <1>5 DEF HandedOver
<1>6. (\E x \in Workers : ReadDependencies(x)) \/ UNCHANGED <<handed, runs>>
  BY DEF ExecutionNext, WorkerMove, StartNode, RouterAttempt, RouterAttemptEnds, RouterRetry,
         RouterFailure, RouterAnswer, CompleteFailed, CompleteAnswered, ValidateCompleted,
         AbandonNode, Outside, workerVars, executionVars
<1>7. QED
  BY <1>4, <1>5, <1>6

\* For every graph, policy and number of workers: what was bound into a node's
\* prompt (bind_dependency_artifacts) is for ever the result its dependencies
\* were accepted with, under the policy the graph was created with.
THEOREM HandoffStays == ExecutionSpec => []HandoffStaysAccepted
<1>1. ExecutionInit => HandoffInv
  <2>1. SUFFICES ASSUME ExecutionInit PROVE HandoffInv
    OBVIOUS
  <2>2. handed = [n \in Nodes |-> None] /\ runs = [n \in Nodes |-> 0]
        /\ artifact = [n \in Nodes |-> NoArtifact]
    BY <2>1 DEF ExecutionInit, GraphInit
  <2>3. NoArtifact.judge = None
    BY DEF NoArtifact
  <2>4. QED
    BY <2>2, <2>3 DEF HandoffInv, JudgedByPolicy, HandedOver
<1>2. GraphInv /\ WorkersInv /\ HandoffInv /\ [ExecutionNext]_executionVars => HandoffInv'
  BY ArtifactStep, HandedStep DEF HandoffInv
<1>3. GraphInv /\ WorkersInv /\ HandoffInv => HandoffStaysAccepted
  <2>1. SUFFICES ASSUME GraphInv, WorkersInv, HandoffInv, NEW n \in Nodes, runs[n] > 0
                 PROVE  /\ handed[n] = [m \in deps[n] |-> artifact[m].result]
                        /\ \A m \in deps[n] : state[m] = "succeeded" /\ artifact[m].judge = policy
    BY DEF HandoffStaysAccepted
  <2>2. fence[n] > 0 /\ Created
    BY <2>1, ClaimedIsCreated DEF WorkersInv, NodeOK
  <2>3. ASSUME NEW m \in deps[n]
        PROVE  state[m] = "succeeded" /\ artifact[m].judge = policy
    <3>1. m \in Nodes
      BY <2>1, <2>2, GraphShapes DEF GraphInv, GraphTypeOK, Created
    <3>2. /\ artifact[m].accepted /\ state[m] = "succeeded"
          /\ <<artifact[m].judge, artifact[m].result>> \in Accepts
      BY <2>1, <2>2, <3>1 DEF GraphInv, AcceptedHandoff
    <3>3. artifact[m].judge \in Policies
      BY <3>2, GraphAccepts
    <3>4. QED
      BY <2>1, <3>1, <3>2, <3>3, GraphNone DEF HandoffInv, JudgedByPolicy
  <2>4. QED
    BY <2>1, <2>3 DEF HandoffInv, HandedOver
<1>4. QED
  BY <1>1, <1>2, <1>3, ExecutionInvariant, PTL DEF ExecutionSpec
=============================================================================
