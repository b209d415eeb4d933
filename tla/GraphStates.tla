----------------------------- MODULE GraphStates -----------------------------
(***************************************************************************)
(* The node-state contract of src/backend/workflows/graph.py, free of any  *)
(* store: d gives each node its dependencies, s its state.                 *)
(***************************************************************************)
CONSTANT Nodes   \* node ids

NodeStates == {"blocked", "ready", "running", "awaiting_validation",
               "succeeded", "failed", "rejected", "cancelled", "uncertain",
               "skipped"}

TerminalStates == {"succeeded", "failed", "rejected", "cancelled", "skipped"}

Unsuccessful == TerminalStates \ {"succeeded"}

\* _ALLOWED_TRANSITIONS, and the two moves _refresh_waiting_nodes derives
Allowed == {<<"ready", "running">>, <<"ready", "cancelled">>,
            <<"running", "awaiting_validation">>, <<"running", "failed">>,
            <<"running", "cancelled">>, <<"running", "uncertain">>,
            <<"awaiting_validation", "succeeded">>,
            <<"awaiting_validation", "rejected">>,
            <<"awaiting_validation", "cancelled">>,
            <<"uncertain", "awaiting_validation">>, <<"uncertain", "failed">>,
            <<"uncertain", "cancelled">>}

Derived == {<<"blocked", "ready">>, <<"blocked", "skipped">>}

-----------------------------------------------------------------------------
\* WorkflowGraph.initial_state
InitialState(d, n) == IF d[n] = {} THEN "ready" ELSE "blocked"

\* Mutant: skipping does not cascade.
DoomedDirect(d, s, S) ==
  \A n \in Nodes :
    n \in S <=> s[n] = "blocked" /\ \E m \in d[n] : s[m] \in Unsuccessful

\* S is what _refresh_waiting_nodes skips: the blocked nodes behind an
\* unsuccessful node, directly or through nodes that are skipped themselves.
Doomed(d, s, S) ==
  \A n \in Nodes :
    n \in S <=> /\ s[n] = "blocked"
                /\ \E m \in d[n] : s[m] \in Unsuccessful \/ m \in S

\* Mutant: one accepted dependency is enough.
RefreshedEarly(d, s, S) ==
  [n \in Nodes |->
     IF n \in S THEN "skipped"
     ELSE IF s[n] = "blocked" /\ \E m \in d[n] : s[m] = "succeeded"
          THEN "ready" ELSE s[n]]

Refreshed(d, s, S) ==
  [n \in Nodes |->
     IF n \in S THEN "skipped"
     ELSE IF s[n] = "blocked" /\ \A m \in d[n] : s[m] = "succeeded"
          THEN "ready" ELSE s[n]]

\* What GraphState.__post_init__ requires of one node
Consistent(d, s, n) ==
  /\ s[n] = "blocked" =>
       /\ \E m \in d[n] : s[m] # "succeeded"
       /\ \A m \in d[n] : s[m] \notin Unsuccessful
  /\ s[n] = "skipped" => \E m \in d[n] : s[m] \in Unsuccessful
  /\ s[n] \notin {"blocked", "skipped"} => \A m \in d[n] : s[m] = "succeeded"
=============================================================================
