------------------------------ MODULE MCRouter ------------------------------
(***************************************************************************)
(* Two deployments: the second is a little cheaper, so the dynamic part of *)
(* the score decides.                                                      *)
(***************************************************************************)
EXTENDS Router, TLC

CONSTANTS d1, d2

MCRegistered == <<d1, d2>>

MCTasks == {[eligible |-> Deployments,
             static |-> [d \in Deployments |-> IF d = d2 THEN 5 ELSE 0],
             deadline |-> n] : n \in {0, 2}}

MCBudgets == {[left |-> 1, attempts |-> 2, tokens |-> 1]}

MCBackoff == <<0, 1>>

RouterSymmetry == Permutations(Calls)
=============================================================================
