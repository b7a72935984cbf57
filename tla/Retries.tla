------------------------------ MODULE Retries ------------------------------
(***************************************************************************)
(* RetryManager.execute_with_retry for one operation key, called by        *)
(* several coroutines: each attempt is an await, and so is the delay       *)
(* between attempts; everything else is one step.  A call looks its        *)
(* RetryState up once, when it begins, so that calls share the object of   *)
(* another one or count on their own.  Beside it, the counting of          *)
(* SubAgentRetryCoordinator for one sub-agent.  The circuit breakers of    *)
(* the class are never made (_update_circuit_breaker_on_failure has no     *)
(* caller), so that _check_circuit_breaker lets everything pass.           *)
(*                                                                         *)
(* A definition called a mutant is a plausible mistake in the definition   *)
(* that follows it; no formula uses it.  Some property fails with it.      *)
(***************************************************************************)
EXTENDS Integers, FiniteSets

CONSTANTS
  Call,        (* calls of execute_with_retry                              *)
  RetryCount,  (* error_handler.retry_count                                *)
  MaxReports,  (* bound on the failures of the sub-agent that are reported *)
  NoCall

ASSUME RetryAssumption ==
  /\ IsFiniteSet(Call) /\ NoCall \notin Call
  /\ RetryCount \in Nat /\ MaxReports \in Nat

VARIABLES
  state,     (* the RetryState a call has, named by the call that made it  *)
  attempts,  (* attempt_count of each RetryState                           *)
  stored,    (* _retry_states[key]: whose RetryState, or NoCall            *)
  at,        (* where a call is                                            *)
  tried,     (* history: how often a call has executed the operation       *)
  reports    (* retry_count of the sub-agent, and what was answered last   *)

retryVars == <<state, attempts, stored, at, tried, reports>>

Ended == {"succeeded", "gave_up"}

RetryInit ==
  /\ state = [c \in Call |-> NoCall]
  /\ attempts = [c \in Call |-> 0]
  /\ stored = NoCall
  /\ at = [c \in Call |-> "idle"]
  /\ tried = [c \in Call |-> 0]
  /\ reports = [count |-> 0, answer |-> "none"]

(* The head of the loop: should_retry, then the next attempt               *)
Loop(c, s) ==
  IF attempts[s] < RetryCount
  THEN at' = [at EXCEPT ![c] = "executing"] /\ tried' = [tried EXCEPT ![c] = @ + 1]
  ELSE at' = [at EXCEPT ![c] = "gave_up"] /\ UNCHANGED tried

Begin(c) ==
  LET s == IF stored = NoCall THEN c ELSE stored
  IN  /\ at[c] = "idle"
      /\ state' = [state EXCEPT ![c] = s]
      /\ Loop(c, s)
      /\ UNCHANGED <<attempts, stored, reports>>

(* The state is forgotten, whosever it is.                                 *)
Succeed(c) ==
  /\ at[c] = "executing"
  /\ stored' = NoCall
  /\ at' = [at EXCEPT ![c] = "succeeded"]
  /\ UNCHANGED <<state, attempts, tried, reports>>

(* An error of a type that is not retried ends the call; it is counted, in *)
(* a state that is not stored for it.                                      *)
FailForGood(c) ==
  /\ at[c] = "executing"
  /\ attempts' = [attempts EXCEPT ![state[c]] = @ + 1]
  /\ at' = [at EXCEPT ![c] = "gave_up"]
  /\ UNCHANGED <<state, stored, tried, reports>>

(* Mutant: only the attempts that end the call are counted.                *)
FailUncounted(c) ==
  /\ at[c] = "executing"
  /\ IF attempts[state[c]] + 1 < RetryCount
     THEN stored' = state[c] /\ at' = [at EXCEPT ![c] = "sleeping"] /\ UNCHANGED attempts
     ELSE /\ attempts' = [attempts EXCEPT ![state[c]] = @ + 1]
          /\ at' = [at EXCEPT ![c] = "gave_up"] /\ UNCHANGED stored
  /\ UNCHANGED <<state, tried, reports>>

(* Another error: the state is stored before the delay.                    *)
Fail(c) ==
  /\ at[c] = "executing"
  /\ attempts' = [attempts EXCEPT ![state[c]] = @ + 1]
  /\ IF attempts'[state[c]] < RetryCount
     THEN stored' = state[c] /\ at' = [at EXCEPT ![c] = "sleeping"]
     ELSE UNCHANGED stored /\ at' = [at EXCEPT ![c] = "gave_up"]
  /\ UNCHANGED <<state, tried, reports>>

(* Mutant: the state is looked for again, and may be gone.                 *)
WakeWithStored(c) ==
  /\ at[c] = "sleeping"
  /\ stored = state[c]
  /\ Loop(c, state[c])
  /\ UNCHANGED <<state, attempts, stored, reports>>

(* The delay is over.                                                      *)
Wake(c) ==
  /\ at[c] = "sleeping"
  /\ Loop(c, state[c])
  /\ UNCHANGED <<state, attempts, stored, reports>>

(* clear_retry_state_for_workflow                                          *)
ClearRetryState ==
  /\ stored # NoCall
  /\ stored' = NoCall
  /\ UNCHANGED <<state, attempts, at, tried, reports>>

(* coordinate_sub_agent_retry                                              *)
ReportSubAgent ==
  /\ reports.count < MaxReports
  /\ reports' = [count |-> reports.count + 1,
                 answer |-> IF reports.count + 1 > RetryCount THEN "fail" ELSE "retry"]
  /\ UNCHANGED <<state, attempts, stored, at, tried>>

(* clear_sub_agent_retry                                                   *)
ClearSubAgent ==
  /\ reports.count > 0
  /\ reports' = [count |-> 0, answer |-> "none"]
  /\ UNCHANGED <<state, attempts, stored, at, tried>>

Advance(c) == Succeed(c) \/ FailForGood(c) \/ Fail(c) \/ Wake(c)

RetryNext ==
  \/ \E c \in Call : Begin(c) \/ Advance(c)
  \/ ClearRetryState \/ ReportSubAgent \/ ClearSubAgent

(* Operations come to an end, and delays too.                              *)
RetryFairness == \A c \in Call : WF_retryVars(Advance(c))

RetrySpec == RetryInit /\ [][RetryNext]_retryVars /\ RetryFairness

-----------------------------------------------------------------------------
RetryTypeOK ==
  /\ state \in [Call -> Call \cup {NoCall}]
  /\ attempts \in [Call -> Nat]
  /\ stored \in Call \cup {NoCall}
  /\ at \in [Call -> {"idle", "executing", "sleeping"} \cup Ended]
  /\ tried \in [Call -> Nat]
  /\ reports \in [count : 0..MaxReports, answer : {"none", "retry", "fail"}]

Sharers(s) == {c \in Call : state[c] = s}

(* No call executes the operation more often than retry_count allows, with *)
(* whomever it shares its state; a shared state counts no more failures    *)
(* than that and one for each other call that was under way.               *)
AttemptsBounded ==
  /\ \A c \in Call : tried[c] <= RetryCount
  /\ \A s \in Call : Sharers(s) # {} => attempts[s] < RetryCount + Cardinality(Sharers(s))

(* Every call that has begun ends, also when the state it counts in is     *)
(* forgotten or used up by others.                                         *)
RetriesReturn == \A c \in Call : (at[c] # "idle") ~> (at[c] \in Ended)
=============================================================================
