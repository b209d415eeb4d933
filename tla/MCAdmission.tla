---------------------------- MODULE MCAdmission ----------------------------
(***************************************************************************)
(* A tenant with a quota and one without.                                  *)
(***************************************************************************)
EXTENDS Admission, TLC

CONSTANTS t1

MCPolicy == t1 :> [requests |-> 3, concurrent |-> 2, tokens |-> 4]
=============================================================================
