--------------------------- MODULE ParallelTasks ---------------------------
(***************************************************************************)
(* ParallelForEachProcessor, which keeps the status of the tasks of one    *)
(* parallel execution, and TaskDistributor, which runs functions for them  *)
(* in a thread pool.  One starter asks for tasks and starts them, worker   *)
(* threads finish them in any order, failed tasks may be put back.  Each   *)
(* class has its own lock; a call is one action, but for wait_for_all,     *)
(* which waits without the lock.                                           *)
(*                                                                         *)
(* A definition called a mutant is a plausible mistake in the definition   *)
(* that follows it; no formula uses it.  Some property fails with it.      *)
(***************************************************************************)
EXTENDS Integers, FiniteSets

CONSTANTS
  TaskCount,   (* tasks of the execution                                   *)
  Slots,       (* its max_parallel                                         *)
  MaxWork      (* bound on the functions that run for one task             *)

ASSUME TasksAssumption == TaskCount \in Nat /\ Slots \in Nat /\ MaxWork \in Nat

TaskIds == 1..TaskCount

VARIABLES
  status,    (* of the tasks                                               *)
  execution, (* the status of the execution                                *)
  picked,    (* tasks the starter was given and has not started            *)
  active,    (* _active_tasks of the distributor                           *)
  work,      (* how many functions run for a task in the pool              *)
  waited,    (* the tasks wait_for_all waits for, or NotWaiting            *)
  gaveUp     (* history: wait_for_all has timed out                        *)

taskVars == <<status, execution, picked, active, work, waited, gaveUp>>

processor == <<status, execution, picked>>
distributor == <<active, work, waited, gaveUp>>

NotWaiting == {0}

TasksInit ==
  /\ status = [t \in TaskIds |-> "pending"]
  /\ execution = "pending"
  /\ picked = {}
  /\ active = {}
  /\ work = [t \in TaskIds |-> 0]
  /\ waited = NotWaiting
  /\ gaveUp = FALSE

With(s) == {t \in TaskIds : status[t] = s}
Done == With("completed") \cup With("failed")

-----------------------------------------------------------------------------
(* Mutant: the tasks that run are not counted.                             *)
GetNextUncounted ==
  /\ picked = {} /\ With("pending") # {}
  /\ picked' = {t \in With("pending") :
                  Cardinality({u \in With("pending") : u <= t}) <= Slots}
  /\ UNCHANGED <<status, execution, distributor>>

(* get_next_available_tasks: the first pending ones, for the free slots    *)
GetNextAvailable ==
  LET free == Slots - Cardinality(With("running"))
  IN  /\ picked = {} /\ With("pending") # {} /\ free > 0
      /\ picked' = {t \in With("pending") :
                      Cardinality({u \in With("pending") : u <= t}) <= free}
      /\ UNCHANGED <<status, execution, distributor>>

(* update_task_status(running)                                             *)
StartTask(t) ==
  /\ t \in picked
  /\ picked' = picked \ {t}
  /\ status' = [status EXCEPT ![t] = "running"]
  /\ execution' = IF status[t] = "pending" /\ execution = "pending" THEN "running" ELSE execution
  /\ UNCHANGED distributor

(* update_task_status(completed) and (failed)                              *)
EndTask(t, s) ==
  /\ status[t] = "running"
  /\ status' = [status EXCEPT ![t] = s]
  /\ execution' = IF \A u \in TaskIds : status'[u] \in {"completed", "failed"}
                  THEN IF \E u \in TaskIds : status'[u] = "failed" THEN "failed" ELSE "completed"
                  ELSE execution
  /\ UNCHANGED <<picked, distributor>>

(* update_task_status(pending), to try a failed task again                 *)
PutBack(t) ==
  /\ status[t] = "failed"
  /\ status' = [status EXCEPT ![t] = "pending"]
  /\ UNCHANGED <<execution, picked, distributor>>

(* cleanup_execution; the next execution begins.                           *)
CleanupExecution ==
  /\ Done = TaskIds
  /\ status' = [t \in TaskIds |-> "pending"] /\ execution' = "pending"
  /\ UNCHANGED <<picked, distributor>>

-----------------------------------------------------------------------------
(* submit_task: one that is active is refused.                             *)
Submit(t) ==
  /\ t \notin active
  /\ work[t] < MaxWork
  /\ active' = active \cup {t}
  /\ work' = [work EXCEPT ![t] = @ + 1]
  /\ UNCHANGED <<waited, gaveUp, processor>>

FunctionEnds(t) ==
  /\ work[t] > 0
  /\ work' = [work EXCEPT ![t] = @ - 1]
  /\ UNCHANGED <<active, waited, gaveUp, processor>>

(* Mutant: all are taken out.                                              *)
GetCompletedAll ==
  /\ active # {}
  /\ active' = {}
  /\ UNCHANGED <<work, waited, gaveUp, processor>>

(* get_completed_tasks                                                     *)
GetCompleted ==
  /\ \E t \in active : work[t] = 0
  /\ active' = {t \in active : work[t] > 0}
  /\ UNCHANGED <<work, waited, gaveUp, processor>>

(* wait_for_all: looks at what is active ...                               *)
WaitBegin ==
  /\ waited = NotWaiting
  /\ waited' = active
  /\ UNCHANGED <<active, work, gaveUp, processor>>

(* ... waits for each, or until its time is over, and takes them out,      *)
(* whether they have ended or not.                                         *)
WaitEnd ==
  /\ waited # NotWaiting
  /\ active' = active \ waited
  /\ waited' = NotWaiting
  /\ gaveUp' = (gaveUp \/ \E t \in waited : work[t] > 0)
  /\ UNCHANGED <<work, processor>>

TasksNext ==
  \/ GetNextAvailable \/ CleanupExecution \/ GetCompleted \/ WaitBegin \/ WaitEnd
  \/ \E t \in TaskIds :
       \/ StartTask(t) \/ PutBack(t) \/ Submit(t) \/ FunctionEnds(t)
       \/ EndTask(t, "completed") \/ EndTask(t, "failed")

TasksSpec == TasksInit /\ [][TasksNext]_taskVars

-----------------------------------------------------------------------------
TasksTypeOK ==
  /\ status \in [TaskIds -> {"pending", "running", "completed", "failed"}]
  /\ execution \in {"pending", "running", "completed", "failed"}
  /\ picked \subseteq With("pending") /\ active \subseteq TaskIds
  /\ work \in [TaskIds -> 0..MaxWork]
  /\ waited = NotWaiting \/ waited \subseteq TaskIds
  /\ gaveUp \in BOOLEAN

(* No more tasks run than max_parallel allows, counting those the starter  *)
(* is about to start; and one function runs for a task, unless some call   *)
(* of wait_for_all has given up waiting for one.                           *)
TasksLimited ==
  /\ Cardinality(With("running")) + Cardinality(picked) <= Slots
  /\ ~gaveUp => \A t \in TaskIds : work[t] <= 1
=============================================================================
