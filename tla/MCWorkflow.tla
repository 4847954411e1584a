------------------------------ MODULE MCWorkflow ------------------------------
(* The instance of Workflow for TLC needs no definitions. *)
EXTENDS Workflow
===============================================================================
