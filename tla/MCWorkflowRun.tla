--------------------------- MODULE MCWorkflowRun ---------------------------
(* Small histories of a workflow run for TLC. *)
EXTENDS WorkflowRun, TLC
=============================================================================
