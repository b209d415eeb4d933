----------------------------- MODULE MCDispatcher -----------------------------
(***************************************************************************)
(* Small instances of Dispatcher for TLC: one legacy workflow without a    *)
(* binding beside ordinary ones.                                           *)
(***************************************************************************)
EXTENDS Dispatcher, TLC

DispatcherSymmetry == Permutations(Dispatchers)
=============================================================================
