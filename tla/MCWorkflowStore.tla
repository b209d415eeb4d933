--------------------------- MODULE MCWorkflowStore ---------------------------
(***************************************************************************)
(* Small instances of WorkflowStore for TLC: two workflows of two tenants  *)
(* (or of one), two policies that disagree on one of the two results.      *)
(***************************************************************************)
EXTENDS WorkflowStore, TLC

CONSTANTS strict, lenient, good, bad

MCPolicies == {strict, lenient}
MCResults == {good, bad}
MCAccepts == {<<strict, good>>, <<lenient, good>>, <<lenient, bad>>}

StoreSymmetry == Permutations(Workflows) \cup Permutations(Owners) \cup
  Permutations(Tenants) \cup Permutations(Keys)
=============================================================================
