-------------------------- MODULE MCWorkflowExecutor --------------------------
(***************************************************************************)
(* Small instances of WorkflowExecutor for TLC.                            *)
(***************************************************************************)
EXTENDS WorkflowExecutor

CONSTANTS good, bad

MCResults == {good, bad}
=============================================================================
