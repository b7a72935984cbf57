-------------------------- MODULE MCWorkflowSession --------------------------
(***************************************************************************)
(* A small instance of WorkflowSession: one workflow with both kinds of    *)
(* step, two clients that share it, and the thread of shutdown.            *)
(***************************************************************************)
EXTENDS WorkflowSession, TLC

CONSTANT w1

MixedProgram == w1 :> <<"server", "client">>
=============================================================================
