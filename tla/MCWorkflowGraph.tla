---------------------------- MODULE MCWorkflowGraph ----------------------------
(* WorkflowGraph on three departments. *)
EXTENDS WorkflowGraph
CONSTANTS sales, survey, build, g1, e1, e2, e3
================================================================================
