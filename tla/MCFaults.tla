----------------------------- MODULE MCFaults -----------------------------
(* Accounts, circuit breaker, retries, error handlers and the errors of    *)
(* parallel tasks share at most the clock: in a behaviour only one of them *)
(* moves and the others keep their initial state.                          *)
(*                                                                         *)
(* Two workflows ask for much of one resource and little of the other; two *)
(* threads use the breaker.                                                *)
EXTENDS Resources, Retries, ErrorHandlers, ParallelErrors

MCKind == {"memory", "cpu"}
MCAmount == {[memory |-> 2, cpu |-> 1], [memory |-> 1, cpu |-> 2]}
MCLimit == [memory |-> 4, cpu |-> 3]

CircuitIdle ==
  /\ breaker = None /\ pc = [t \in Thread |-> "outside"] /\ found = [t \in Thread |-> 0]
  /\ locked = None /\ ~overtaken
AccountsIdle ==
  /\ usage = [f \in Flow |-> None] /\ total = [k \in Kind |-> 0]
  /\ regular /\ checkpoints = {} /\ collecting

MCInit == Init /\ RetryInit /\ HandlerInit /\ ParallelInit

MCNext ==
  \/ /\ Next /\ (CircuitIdle' \/ AccountsIdle')
     /\ RetryInit /\ HandlerInit /\ ParallelInit
     /\ UNCHANGED <<retryVars, handlerVars, parallelVars>>
  \/ /\ RetryNext
     /\ Init /\ HandlerInit /\ ParallelInit /\ UNCHANGED <<vars, handlerVars, parallelVars>>
  \/ /\ HandlerNext
     /\ Init /\ RetryInit /\ ParallelInit /\ UNCHANGED <<vars, retryVars, parallelVars>>
  \/ /\ ParallelNext
     /\ Init /\ RetryInit /\ HandlerInit /\ UNCHANGED <<vars, retryVars, handlerVars>>

Alone == Init /\ ParallelInit

MCSpec ==
  /\ MCInit
  /\ [][MCNext]_<<vars, retryVars, handlerVars, parallelVars>>
  /\ WF_vars(Collect /\ CircuitIdle)
  /\ RetryFairness
  /\ WF_handlerVars(Alone /\ RetryInit /\ Wait)
  /\ WF_handlerVars(Alone /\ RetryInit /\ Attempt)
  /\ SF_handlerVars(Alone /\ RetryInit /\ Success)
===========================================================================
