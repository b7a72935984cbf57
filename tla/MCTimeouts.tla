---------------------------- MODULE MCTimeouts ----------------------------
(* A workflow with a step and, inside the step, an asynchronous operation. *)
EXTENDS Timeouts
CONSTANTS flow, step, wait

MCParent == [i \in Id |-> CASE i = flow -> Nothing [] i = step -> flow [] OTHER -> step]
===========================================================================
