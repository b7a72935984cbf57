--------------------------- MODULE ErrorHandlers ---------------------------
(***************************************************************************)
(* ErrorHandlerRegistry for one step of a workflow: handlers, the retry    *)
(* state and the circuit breaker of the step, as handle_error leaves them. *)
(* Whoever executes the step asks check_circuit_breaker first, reports an  *)
(* error to handle_error and a success to reset_circuit_breaker and        *)
(* clear_retry_state.  The clock is what is left of circuit_timeout.       *)
(*                                                                         *)
(* A definition called a mutant is a plausible mistake in the definition   *)
(* that follows it; no formula uses it.  Some property fails with it.      *)
(***************************************************************************)
EXTENDS Integers

CONSTANTS
  Strategy,       (* the strategies in use, of ErrorStrategyType           *)
  MaxRetries,     (* retry_count of the handlers                           *)
  OpenAt,         (* failure_threshold                                     *)
  CircuitTimeout, (* circuit_timeout                                       *)
  MaxErrors       (* bound on the errors that a breaker counts             *)

ASSUME HandlerAssumption ==
  /\ Strategy \subseteq {"fail", "continue", "retry", "fallback", "circuit_breaker"}
  /\ MaxRetries \in Nat /\ OpenAt \in Nat \ {0}
  /\ CircuitTimeout \in Nat /\ MaxErrors \in Nat

VARIABLES
  handler,   (* the strategy registered for the step, or "none"            *)
  retried,   (* attempt_count of its retry state                           *)
  circuit,   (* its CircuitBreakerState                                    *)
  remaining, (* time until next_attempt_time                               *)
  action,    (* history: the action that handle_error answered last        *)
  executing  (* the step has passed check_circuit_breaker                  *)

handlerVars == <<handler, retried, circuit, remaining, action, executing>>

NewCircuit == [state |-> "closed", failures |-> 0]

HandlerInit ==
  /\ handler = "none"
  /\ retried = 0
  /\ circuit = NewCircuit
  /\ remaining = 0
  /\ action = "none"
  /\ executing = FALSE

(* register_handler under the key of the step: a new breaker comes with it.*)
Register(s) ==
  /\ handler' = s
  /\ IF s = "circuit_breaker" THEN circuit' = NewCircuit /\ remaining' = 0
                              ELSE UNCHANGED <<circuit, remaining>>
  /\ UNCHANGED <<retried, action, executing>>

(* check_circuit_breaker says yes                                          *)
Attempt ==
  /\ ~executing
  /\ circuit.state = "open" => remaining = 0
  /\ executing' = TRUE
  /\ UNCHANGED <<handler, retried, circuit, remaining, action>>

(* _handle_retry: an error that is not to be retried fails, and so does    *)
(* one too many.                                                           *)
HandleRetry ==
  \/ action' = "fail" /\ UNCHANGED retried
  \/ IF retried < MaxRetries THEN retried' = retried + 1 /\ action' = "retry"
                             ELSE action' = "fail" /\ UNCHANGED retried

(* _handle_circuit_breaker                                                 *)
HandleCircuitBreaker ==
  LET n == circuit.failures + 1
  IN  /\ n <= MaxErrors
      /\ action' = "circuit_breaker"
      /\ IF n >= OpenAt
         THEN circuit' = [state |-> "open", failures |-> n] /\ remaining' = CircuitTimeout
         ELSE circuit' = [circuit EXCEPT !.failures = n] /\ UNCHANGED remaining

(* handle_error of the step that is executing, with the strategy that is   *)
(* registered, or else the default                                         *)
HandleError(default) ==
  LET s == IF handler = "none" THEN default ELSE handler
  IN  /\ executing
      /\ executing' = FALSE
      /\ CASE s = "retry" -> HandleRetry /\ UNCHANGED <<circuit, remaining>>
           [] s = "circuit_breaker" -> HandleCircuitBreaker /\ UNCHANGED retried
           [] OTHER -> action' = s /\ UNCHANGED <<retried, circuit, remaining>>
      /\ UNCHANGED handler

(* Mutant: an open circuit stays open.                                     *)
ResetHalfOpen ==
  IF circuit.state = "half-open" THEN NewCircuit ELSE circuit

(* reset_circuit_breaker: the first success after the circuit was opened   *)
(* opens it half, the second closes it.                                    *)
Reset ==
  CASE circuit.state = "half-open" -> NewCircuit
    [] circuit.state = "open" -> [circuit EXCEPT !.state = "half-open"]
    [] OTHER -> circuit

(* The step succeeds: reset_circuit_breaker and clear_retry_state.         *)
Success ==
  /\ executing
  /\ executing' = FALSE
  /\ circuit' = Reset
  /\ retried' = 0
  /\ UNCHANGED <<handler, remaining, action>>

Wait ==
  /\ remaining > 0
  /\ remaining' = remaining - 1
  /\ UNCHANGED <<handler, retried, circuit, action, executing>>

HandlerNext ==
  \/ \E s \in Strategy : Register(s) \/ HandleError(s)
  \/ Attempt \/ Success \/ Wait

(* Time passes, the step is tried again, and it does not fail for ever: a  *)
(* step that is executed again and again succeeds again and again.         *)
HandlerFairness ==
  /\ WF_handlerVars(Wait) /\ WF_handlerVars(Attempt) /\ SF_handlerVars(Success)

HandlerSpec == HandlerInit /\ [][HandlerNext]_handlerVars /\ HandlerFairness

-----------------------------------------------------------------------------
HandlerTypeOK ==
  /\ handler \in Strategy \cup {"none"}
  /\ retried \in 0..MaxRetries
  /\ circuit \in [state : {"closed", "open", "half-open"}, failures : 0..MaxErrors]
  /\ remaining \in 0..CircuitTimeout
  /\ action \in Strategy \cup {"none", "fail", "retry", "circuit_breaker"}
  /\ executing \in BOOLEAN

(* A circuit is open, or half, exactly when as many errors are counted as  *)
(* open it: one more error in a half-open circuit opens it again.          *)
CircuitCounts == circuit.state = "closed" <=> circuit.failures < OpenAt

(* A circuit that was opened is closed again, when its step comes to       *)
(* succeed: errors in between open it again, but not for ever.             *)
CircuitCloses == (circuit.state # "closed") ~> (circuit.state = "closed")
=============================================================================
