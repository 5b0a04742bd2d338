--------------------------- MODULE MCWorkflowTrail ---------------------------
(***************************************************************************)
(* The instances of MCWorkflowEngine with their audit trail.               *)
(***************************************************************************)
EXTENDS MCWorkflowEngine, WorkflowTrail
=============================================================================
