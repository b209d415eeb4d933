------------------------------- MODULE Sorting -------------------------------
(***************************************************************************)
(* A comprehension that walks a list keeps its order: the segments of a    *)
(* context (_deduplicate_optional in src/backend/context/preparation.py)   *)
(* and the nodes of a graph (_transition_graph_node in                     *)
(* src/backend/workflows/store.py).                                        *)
(***************************************************************************)
EXTENDS Integers, FiniteSets

\* The positions S, ascending
Sorted(S) ==
  CHOOSE s \in [1..Cardinality(S) -> S] :
    \A m, n \in 1..Cardinality(S) : m < n => s[m] < s[n]
=============================================================================
