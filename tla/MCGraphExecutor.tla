--------------------------- MODULE MCGraphExecutor ---------------------------
(***************************************************************************)
(* GraphExecutor on every acyclic graph over a few nodes.                  *)
(***************************************************************************)
EXTENDS GraphExecutor

CONSTANTS strict, lenient, good, bad

MCPolicies == {strict, lenient}
MCResults == {good, bad}
MCAccepts == {<<strict, good>>, <<lenient, good>>, <<lenient, bad>>}

\* An order of the nodes in which every node comes after its dependencies.
MCAcyclic(d) ==
  \E rank \in [Nodes -> 1..Cardinality(Nodes)] :
    \A n \in Nodes : \A m \in d[n] : rank[m] < rank[n]

MCShapes == {d \in [Nodes -> SUBSET Nodes] : MCAcyclic(d)}

MCLimits == {[deadline |-> 2, attempts |-> 2, tokens |-> 2]}
=============================================================================
