--------------------------- MODULE GraphTransition ---------------------------
(***************************************************************************)
(* The loops behind one graph transition, step by step:                    *)
(* WorkflowGraph._require_acyclic, GraphState.transition with its          *)
(* _refresh_waiting_nodes (src/backend/workflows/graph.py) and the event   *)
(* ordering of SQLiteWorkflowStore._transition_graph_node.  WorkflowGraph  *)
(* takes their results as closed forms (Doomed, Refreshed); this module    *)
(* shows that the loops compute them.                                      *)
(*                                                                         *)
(* Node ids are numbers, so their canonical sorted order is <.             *)
(***************************************************************************)
EXTENDS GraphStates, Sorting, Sequences, Functions

\* Sorted by id, the nodes are numbered.
ASSUME NodeNumbers ==
  IsFiniteSet(Nodes) /\ Nodes = 1..Cardinality(Nodes)

VARIABLES
  at,         \* which loop runs
  deps,       \* the graph under construction, any dependency function
  remaining,  \* _require_acyclic
  before, node, target,      \* GraphState.transition's self and arguments
  states, next, changed,     \* _refresh_waiting_nodes
  pending, ordered           \* _transition_graph_node

transitionVars == <<at, deps, remaining, before, node, target, states, next,
                    changed, pending, ordered>>

transition == <<before, node, target>>

\* The checks before _require_acyclic: known nodes, none its own dependency.
Init ==
  /\ at = "peel"
  /\ deps \in {d \in [Nodes -> SUBSET Nodes] : \A n \in Nodes : n \notin d[n]}
  /\ remaining = Nodes
  /\ before = <<>> /\ node = 0 /\ target = "ready"
  /\ states = <<>> /\ next = 0 /\ changed = FALSE
  /\ pending = {} /\ ordered = <<>>

Peelable == {n \in remaining : deps[n] \cap remaining = {}}

Peel ==
  /\ at = "peel"
  /\ remaining # {}
  /\ IF Peelable = {}
     THEN at' = "cyclic" /\ UNCHANGED remaining
     ELSE remaining' = remaining \ Peelable /\ UNCHANGED at
  /\ UNCHANGED <<deps, transition, states, next, changed, pending, ordered>>

\* A legal transition of some state the constructor accepts; only a terminal
\* target starts the refresh.
Transition ==
  /\ at = "peel"
  /\ remaining = {}
  /\ \E s \in {v \in [Nodes -> NodeStates] : \A m \in Nodes : Consistent(deps, v, m)},
        n \in Nodes, t \in NodeStates :
       /\ <<s[n], t>> \in Allowed
       /\ before' = s /\ node' = n /\ target' = t
       /\ states' = [s EXCEPT ![n] = t]
       /\ at' = IF t \in TerminalStates THEN "refresh" ELSE "compare"
  /\ next' = 1
  /\ changed' = FALSE
  /\ UNCHANGED <<deps, remaining, pending, ordered>>

Waiting(n) == states[n] = "blocked"

Skips(n) == Waiting(n) /\ \E m \in deps[n] : states[m] \in Unsuccessful

\* Mutant: the loop ends after one pass.
RefreshedOnce == next > Cardinality(Nodes)

\* The while loop ends with a pass that changed nothing.
RefreshEnds == next > Cardinality(Nodes) /\ ~ changed

\* One iteration of the for loop, in place: later nodes see the change.
RefreshNode ==
  /\ at = "refresh"
  /\ next <= Cardinality(Nodes)
  /\ states' = [states EXCEPT ![next] =
       IF Skips(next) THEN "skipped"
       ELSE IF Waiting(next) /\ \A m \in deps[next] : states[m] = "succeeded"
            THEN "ready" ELSE @]
  /\ changed' = (changed \/ states' # states)
  /\ next' = next + 1
  /\ UNCHANGED <<at, deps, remaining, transition, pending, ordered>>

RefreshAgain ==
  /\ at = "refresh"
  /\ next > Cardinality(Nodes)
  /\ ~ RefreshEnds
  /\ next' = 1
  /\ changed' = FALSE
  /\ UNCHANGED <<at, deps, remaining, transition, states, pending, ordered>>

RefreshDone ==
  /\ at = "refresh"
  /\ RefreshEnds
  /\ at' = "compare"
  /\ UNCHANGED <<deps, remaining, transition, states, next, changed, pending, ordered>>

\* before and after are compared; the transition's own node goes first.
Compare ==
  /\ at = "compare"
  /\ pending' = {n \in Nodes \ {node} : before[n] # states[n]}
  /\ ordered' = <<node>>
  /\ at' = "order"
  /\ UNCHANGED <<deps, remaining, transition, states, next, changed>>

\* Mutant: the changed nodes are taken in canonical order.
EligibleAll == pending

Eligible == {n \in pending : deps[n] \cap pending = {}}

\* One layer of the changed nodes, in canonical order; the code raises if there
\* is none.
Order ==
  /\ at = "order"
  /\ pending # {}
  /\ IF Eligible = {}
     THEN at' = "stuck" /\ UNCHANGED <<pending, ordered>>
     ELSE /\ ordered' = ordered \o Sorted(Eligible)
          /\ pending' = pending \ Eligible
          /\ UNCHANGED at
  /\ UNCHANGED <<deps, remaining, transition, states, next, changed>>

LoopStep ==
  \/ Peel
  \/ RefreshNode \/ RefreshAgain \/ RefreshDone
  \/ Compare \/ Order

Next == LoopStep \/ Transition

Spec == Init /\ [][Next]_transitionVars

-----------------------------------------------------------------------------
\* Nodes that wait for one another in a circle
Circular(C) == C # {} /\ \A n \in C : deps[n] \cap C # {}

\* _require_acyclic refuses exactly the graphs in which some nodes wait for one
\* another in a circle; on the others, whatever the order of the nodes and the
\* number of passes, the refresh loop leaves the one state vector the closed
\* forms describe, and the constructor accepts it, so a legal transition is
\* never refused half way.
RefreshIsClosure ==
  /\ at = "cyclic" => \E C \in SUBSET Nodes : Circular(C)
  /\ at # "none" /\ remaining = {} => \A C \in SUBSET Nodes : ~ Circular(C)
  /\ at \in {"compare", "order", "stuck"} =>
       LET first == [before EXCEPT ![node] = target]
           skipped == {S \in SUBSET Nodes : Doomed(deps, first, S)}
       IN /\ {Refreshed(deps, first, S) : S \in skipped} = {states}
          /\ \A n \in Nodes : Consistent(deps, states, n)

\* The events of one transition are written in causal order: each changed node
\* once, and every derived change after a change of one of its dependencies.
EventsInCausalOrder ==
  /\ at # "stuck"
  /\ \A i \in 2..Len(ordered) :
       /\ \E j \in 1..(i - 1) : ordered[j] \in deps[ordered[i]]
       /\ \A j \in 1..Len(ordered) : ordered[j] \in deps[ordered[i]] => j < i
  /\ at = "order" /\ pending = {} =>
       /\ Range(ordered) = {n \in Nodes : before[n] # states[n]}
       /\ Len(ordered) = Cardinality(Range(ordered))
=============================================================================
