----------------------------- MODULE Resources -----------------------------
(***************************************************************************)
(* WorkflowResourceManager: what memory and processor share workflows have *)
(* been allocated, kept per workflow and in totals, a collector that takes *)
(* back what was not renewed, recovery checkpoints, and a circuit breaker  *)
(* around an operation.  The accounts are under one lock, so that each     *)
(* call is one action.  circuit_breaker_context does not ask for the lock: *)
(* threads enter, work, and come back with a result whenever they do, and  *)
(* the methods of the breaker, is_open, record_success and record_failure, *)
(* interleave at each field they read or write.                            *)
(*                                                                         *)
(* execute_protected_operation has the lock while it uses the breaker, of  *)
(* which accounts know nothing: locked keeps apart two such calls, and     *)
(* configure_circuit_breaker, and lets the accounts go on.                 *)
(*                                                                         *)
(* A definition called a mutant is a plausible mistake in the definition   *)
(* that follows it; no formula uses it.  Some property fails with it.      *)
(***************************************************************************)
EXTENDS Integers, FiniteSets, FiniteSetsExt

CONSTANTS
  Flow,         (* workflows                                               *)
  Kind,         (* memory and processor share                              *)
  Amount,       (* what callers ask for: functions on Kind                 *)
  Limit,        (* max_memory_mb and max_cpu_percent: a function on Kind   *)
  MaxFlows,     (* max_workflows                                           *)
  StaleAfter,   (* age at which an allocation is taken back                *)
  Thread,       (* threads inside circuit_breaker_context                  *)
  Threshold,    (* failure_threshold                                       *)
  Recovery,     (* recovery_time_seconds                                   *)
  MaxTime,      (* bound: the clock stops there                            *)
  MinTotal,     (* bound: nothing is adjusted when totals are below it     *)
  MaxFailures,  (* bound on the failures a breaker counts                  *)
  None

ASSUME ResourceAssumption ==
  /\ Amount \subseteq [Kind -> Nat] /\ Limit \in [Kind -> Nat]
  /\ MaxFlows \in Nat /\ StaleAfter \in Nat
  /\ Threshold \in Nat \ {0} /\ Recovery \in Nat
  /\ MaxTime \in Nat /\ MaxFailures \in Nat /\ MinTotal \in Int
  /\ None \notin [held : [Kind -> Nat], updated : Nat]
  /\ None \notin [state : {"closed", "open", "half-open"}, count : Nat, last : Nat]
  /\ None \notin Thread

VARIABLES
  now,         (* the clock                                                *)
  usage,       (* _resource_usage: what a workflow holds, and since when   *)
  total,       (* _total_memory_mb, _total_cpu_percent                     *)
  regular,     (* history: nothing was allocated twice or adjusted         *)
  checkpoints, (* _checkpoints                                             *)
  collecting,  (* _gc_active                                               *)
  breaker,     (* the CircuitBreaker of the operation, or None             *)
  pc,          (* where a thread is in the context of the breaker          *)
  found,       (* the failure_count that a thread has read                 *)
  locked,      (* the thread in execute_protected_operation, or None       *)
  overtaken    (* history of the breaker: a thread wrote because of what   *)
               (* another one had changed in between                       *)

accounts == <<usage, total, regular, checkpoints, collecting>>
protection == <<breaker, pc, found, locked, overtaken>>
vars == <<now, accounts, protection>>

Holders == {f \in Flow : usage[f] # None}

Init ==
  /\ now = 0
  /\ usage = [f \in Flow |-> None]
  /\ total = [k \in Kind |-> 0]
  /\ regular = TRUE
  /\ checkpoints = {}
  /\ collecting = TRUE
  /\ breaker = None
  /\ pc = [t \in Thread |-> "outside"]
  /\ found = [t \in Thread |-> 0]
  /\ locked = None
  /\ overtaken = FALSE

-----------------------------------------------------------------------------
(* Accounts                                                                *)

(* check_resource_availability                                             *)
Available(a) ==
  /\ \A k \in Kind : total[k] + a[k] <= Limit[k]
  /\ Cardinality(Holders) < MaxFlows

(* allocate_resources: a refusal changes nothing.  A second allocation     *)
(* replaces the first in the usage and is added to it in the totals.       *)
Allocate(f, a) ==
  /\ Available(a)
  /\ usage' = [usage EXCEPT ![f] = [held |-> a, updated |-> now]]
  /\ total' = [k \in Kind |-> total[k] + a[k]]
  /\ regular' = (regular /\ f \notin Holders)
  /\ UNCHANGED <<checkpoints, collecting, now, protection>>

(* set_workflow_limits changes what is held, and not the totals, which the *)
(* next release can bring below zero.                                      *)
Adjust(f, a) ==
  /\ f \in Holders
  /\ \A k \in Kind : total[k] >= MinTotal
  /\ \E K \in SUBSET Kind :
       usage' = [usage EXCEPT ![f] =
                   [held |-> [k \in Kind |-> IF k \in K THEN a[k] ELSE @.held[k]],
                    updated |-> now]]
  /\ regular' = FALSE
  /\ UNCHANGED <<total, checkpoints, collecting, now, protection>>

(* What the workflows of S hold together                                   *)
Held(S, k) == MapThenSumSet(LAMBDA f : usage[f].held[k], S)

Freed(S) ==
  /\ usage' = [f \in Flow |-> IF f \in S THEN None ELSE usage[f]]
  /\ total' = [k \in Kind |-> total[k] - Held(S, k)]

(* release_resources                                                       *)
Release(f) ==
  /\ f \in Holders
  /\ Freed({f})
  /\ UNCHANGED <<regular, checkpoints, collecting, now, protection>>

(* cleanup_workflow_resources                                              *)
CleanupFlow(f) ==
  /\ Freed({f} \cap Holders)
  /\ checkpoints' = checkpoints \ {f}
  /\ UNCHANGED <<regular, collecting, now, protection>>

(* store_recovery_checkpoint                                               *)
StoreCheckpoint(f) ==
  /\ checkpoints' = checkpoints \cup {f}
  /\ UNCHANGED <<usage, total, regular, collecting, now, protection>>

Stale == {f \in Holders : now - usage[f].updated > StaleAfter}

(* Mutant: taken out of the usage, not out of the totals.                  *)
CollectUsage ==
  /\ collecting /\ Stale # {}
  /\ usage' = [f \in Flow |-> IF f \in Stale THEN None ELSE usage[f]]
  /\ UNCHANGED <<total, regular, checkpoints, collecting, now, protection>>

(* Mutant: not what has a checkpoint.                                      *)
CollectUnsaved ==
  /\ collecting /\ Stale \ checkpoints # {}
  /\ Freed(Stale \ checkpoints)
  /\ UNCHANGED <<regular, checkpoints, collecting, now, protection>>

(* _cleanup_stale_resources, by the collector thread                       *)
Collect ==
  /\ collecting /\ Stale # {}
  /\ Freed(Stale)
  /\ UNCHANGED <<regular, checkpoints, collecting, now, protection>>

(* stop                                                                    *)
Stop ==
  /\ collecting
  /\ collecting' = FALSE
  /\ UNCHANGED <<usage, total, regular, checkpoints, now, protection>>

-----------------------------------------------------------------------------
(* Circuit breaker: a step of a thread reads or writes one field of it.    *)

(* configure_circuit_breaker, under the lock.  Threads that were in a      *)
(* method of the breaker that is replaced go on with that one, which       *)
(* nobody looks up again: those that found it open may find it recovered.  *)
Configure ==
  /\ locked = None
  /\ breaker' = [state |-> "closed", count |-> 0, last |-> 0]
  /\ overtaken' = FALSE
  /\ \E let_in \in SUBSET {t \in Thread : pc[t] = "timing"} :
       pc' = [t \in Thread |->
                IF pc[t] \in {"inside", "opening"} \/ t \in let_in THEN "inside" ELSE "outside"]
  /\ UNCHANGED <<now, accounts, found, locked>>

(* A thread goes on; execute_protected_operation ends outside.             *)
Goes(t, to) ==
  /\ pc' = [pc EXCEPT ![t] = to]
  /\ locked' = IF to = "outside" /\ locked = t THEN None ELSE locked
  /\ UNCHANGED <<now, accounts>>

Reads(t, to) == Goes(t, to) /\ UNCHANGED <<breaker, found, overtaken>>

(* asked: what made the thread write is still so.                          *)
Writes(t, b, to, asked) ==
  /\ breaker' = b
  /\ overtaken' = (overtaken \/ ~asked)
  /\ Goes(t, to)
  /\ UNCHANGED found

(* is_open reads the state,                                                *)
Looked == IF breaker # None /\ breaker.state = "open" THEN "timing" ELSE "inside"

(* __enter__                                                               *)
Enter(t) == pc[t] = "outside" /\ Reads(t, Looked)

(* execute_protected_operation holds the lock to its end, and ends as      *)
(* __exit__ does; __enter__ and __exit__ do not ask for the lock.          *)
Execute(t) ==
  /\ pc[t] = "outside" /\ locked = None /\ breaker # None
  /\ pc' = [pc EXCEPT ![t] = Looked]
  /\ locked' = t
  /\ UNCHANGED <<now, accounts, breaker, found, overtaken>>

(* then clock and last_failure_time, and refuses,                          *)
Timed(t) ==
  /\ pc[t] = "timing"
  /\ Reads(t, IF now - breaker.last >= Recovery THEN "opening" ELSE "outside")

(* or opens half.                                                          *)
OpenHalf(t) ==
  /\ pc[t] = "opening"
  /\ Writes(t, [breaker EXCEPT !.state = "half-open"], "inside", breaker.state = "open")

(* __exit__ without an error, of whatever breaker there is now             *)
ExitSuccess(t) ==
  /\ pc[t] = "inside"
  /\ Reads(t, IF breaker # None /\ breaker.state = "half-open" THEN "closing" ELSE "outside")

(* Mutant: the failures of before stay counted.                            *)
CloseCounting(t) ==
  /\ pc[t] = "closing"
  /\ Writes(t, [breaker EXCEPT !.state = "closed"], "outside", breaker.state = "half-open")

(* record_success writes state and count,                                  *)
Close(t) ==
  /\ pc[t] = "closing"
  /\ Writes(t, [breaker EXCEPT !.state = "closed"], "resetting", breaker.state = "half-open")

ResetCount(t) ==
  /\ pc[t] = "resetting"
  /\ Writes(t, [breaker EXCEPT !.count = 0], "outside", breaker.state = "closed")

(* __exit__ with an error: the count is read,                              *)
ExitFailure(t) ==
  /\ pc[t] = "inside"
  /\ IF breaker = None THEN Reads(t, "outside")
     ELSE /\ breaker.count < MaxFailures
          /\ found' = [found EXCEPT ![t] = breaker.count]
          /\ Goes(t, "counting")
          /\ UNCHANGED <<breaker, overtaken>>

(* record_failure adds one, notes the time,                                *)
Count(t) ==
  /\ pc[t] = "counting"
  /\ Writes(t, [breaker EXCEPT !.count = found[t] + 1], "stamping", breaker.count = found[t])

Stamp(t) ==
  /\ pc[t] = "stamping"
  /\ Writes(t, [breaker EXCEPT !.last = now], "judging", TRUE)

(* compares what has been counted by then,                                 *)
Judge(t) ==
  /\ pc[t] = "judging"
  /\ Reads(t, IF breaker.count >= Threshold THEN "tripping" ELSE "outside")

(* and opens.                                                              *)
Trip(t) ==
  /\ pc[t] = "tripping"
  /\ Writes(t, [breaker EXCEPT !.state = "open"], "outside", breaker.count >= Threshold)

Tick ==
  /\ now < MaxTime
  /\ now' = now + 1
  /\ UNCHANGED <<accounts, protection>>

Next ==
  \/ \E f \in Flow, a \in Amount : Allocate(f, a) \/ Adjust(f, a)
  \/ \E f \in Flow : Release(f) \/ CleanupFlow(f) \/ StoreCheckpoint(f)
  \/ Collect \/ Stop \/ Configure \/ Tick
  \/ \E t \in Thread :
       \/ Enter(t) \/ Execute(t) \/ Timed(t) \/ OpenHalf(t)
       \/ ExitSuccess(t) \/ Close(t) \/ ResetCount(t)
       \/ ExitFailure(t) \/ Count(t) \/ Stamp(t) \/ Judge(t) \/ Trip(t)

Spec == Init /\ [][Next]_vars

(* The collector thread looks at intervals until it is stopped.            *)
FairSpec == Spec /\ WF_vars(Collect)

-----------------------------------------------------------------------------
Usage == [held : [Kind -> Nat], updated : 0..MaxTime]
Breaker == [state : {"closed", "open", "half-open"}, count : 0..MaxFailures, last : 0..MaxTime]

(* Where a thread is in a method of the breaker                            *)
Within == {"timing", "opening", "closing", "resetting", "counting", "stamping", "judging", "tripping"}

(* Accounts, breaker and threads have the form the code gives them.        *)
TypeOK ==
  /\ now \in 0..MaxTime
  /\ usage \in [Flow -> Usage \cup {None}]
  /\ total \in [Kind -> Int]
  /\ regular \in BOOLEAN /\ collecting \in BOOLEAN
  /\ checkpoints \subseteq Flow
  /\ breaker \in Breaker \cup {None}
  /\ pc \in [Thread -> Within \cup {"outside", "inside"}]
  /\ found \in [Thread -> 0..MaxFailures]
  /\ locked \in Thread \cup {None}
  /\ overtaken \in BOOLEAN

(* The totals never exceed the limits, and the refusals go by them rightly:*)
(* as long as every workflow allocates once before it releases, they are   *)
(* the sum of what workflows hold, however releases, clean-ups and the     *)
(* collector take turns.                                                   *)
Accounted ==
  \A k \in Kind :
    /\ total[k] <= Limit[k]
    /\ regular => total[k] = Held(Holders, k)

(* However reads and writes of threads fall between each other, a breaker  *)
(* that has counted as many failures as it takes to open it does not stay  *)
(* closed: some thread is still to judge them, to open, or to reset them.  *)
(* One that is open, or half, has counted as many, so that one more        *)
(* failure opens it again, unless a thread has written because of what     *)
(* another one had changed since (OpenHasCounted).                         *)
BreakerCounts ==
  breaker # None =>
    /\ breaker.state = "closed" /\ breaker.count >= Threshold =>
         \E t \in Thread : pc[t] \in {"stamping", "judging", "tripping", "resetting"}
    /\ breaker.state # "closed" /\ breaker.count < Threshold => overtaken

(* The same without exception: refuted.                                    *)
OpenHasCounted ==
  breaker # None /\ breaker.state # "closed" => breaker.count >= Threshold

(* What is not renewed is taken back, as long as the collector runs.       *)
StaleReleased == \A f \in Flow : f \in Stale ~> (~collecting \/ f \notin Stale)
=============================================================================
