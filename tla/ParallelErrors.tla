-------------------------- MODULE ParallelErrors --------------------------
(***************************************************************************)
(* ParallelErrorHandler and ParallelErrorAggregator: tasks that run in     *)
(* parallel report their errors from their threads.  handle_task_error     *)
(* takes the lock of the aggregator once to add the error and again to     *)
(* read the counts it decides by, and other reports come in between.       *)
(*                                                                         *)
(* A definition called a mutant is a plausible mistake in the definition   *)
(* that follows it; no formula uses it.  Some property fails with it.      *)
(***************************************************************************)
EXTENDS Integers, FiniteSets

CONSTANTS
  Task,         (* the tasks of one parallel step                          *)
  Percent,      (* error_threshold, in percent                             *)
  ErrorStrategy (* fail_fast, collect_all, best_effort or threshold        *)

ASSUME ParallelAssumption == IsFiniteSet(Task) /\ Task # {} /\ Percent \in 0..100

VARIABLES
  errors,    (* _task_errors: the tasks with an error                      *)
  failed,    (* _failed_tasks                                              *)
  tasks,     (* _total_tasks                                               *)
  recovered, (* the errors marked recovered                                *)
  reporting, (* where the report of a task is                              *)
  answers    (* history: what the reports of a task were answered          *)

parallelVars == <<errors, failed, tasks, recovered, reporting, answers>>

ParallelInit ==
  /\ errors = {} /\ failed = 0 /\ tasks = 0
  /\ recovered = {}
  /\ reporting = [t \in Task |-> "no"]
  /\ answers = [t \in Task |-> {}]

(* set_total_tasks, if the caller gives the number, and add_task_error: a  *)
(* task that fails again replaces its error and is not counted again.      *)
AddTaskError(t) ==
  /\ reporting[t] = "no"
  /\ errors' = errors \cup {t}
  /\ failed' = IF t \in errors THEN failed ELSE failed + 1
  /\ \E given \in {tasks, Cardinality(Task)} :
       tasks' = IF given < Cardinality(errors') THEN Cardinality(errors') ELSE given
  /\ recovered' = recovered \ {t}
  /\ reporting' = [reporting EXCEPT ![t] = "added"]
  /\ UNCHANGED answers

(* Mutant: the rate of the errors that are not recovered.                  *)
ExceededUnrecovered == tasks > 0 /\ 100 * (failed - Cardinality(recovered)) > Percent * tasks

(* should_fail_fast, for the threshold                                     *)
Exceeded == tasks > 0 /\ 100 * failed > Percent * tasks

(* The rest of handle_task_error                                           *)
Decide(t) ==
  /\ reporting[t] = "added"
  /\ reporting' = [reporting EXCEPT ![t] = "no"]
  /\ answers' = [answers EXCEPT ![t] = @ \cup
       {IF ErrorStrategy = "fail_fast" \/ (ErrorStrategy = "threshold" /\ Exceeded)
        THEN "stop_all" ELSE "continue"}]
  /\ UNCHANGED <<errors, failed, tasks, recovered>>

(* attempt_recovery, when the callback answers yes                         *)
Recover(t) ==
  /\ t \in errors \ recovered
  /\ recovered' = recovered \cup {t}
  /\ UNCHANGED <<errors, failed, tasks, reporting, answers>>

(* clear, between two parallel steps                                       *)
ClearErrors ==
  /\ errors # {}
  /\ \A t \in Task : reporting[t] = "no"
  /\ errors' = {} /\ failed' = 0 /\ tasks' = 0
  /\ recovered' = {}
  /\ answers' = [t \in Task |-> {}]
  /\ UNCHANGED reporting

ParallelNext ==
  \/ \E t \in Task : AddTaskError(t) \/ Decide(t) \/ Recover(t)
  \/ ClearErrors

ParallelSpec == ParallelInit /\ [][ParallelNext]_parallelVars

-----------------------------------------------------------------------------
ParallelTypeOK ==
  /\ errors \subseteq Task /\ recovered \subseteq errors
  /\ failed = Cardinality(errors) /\ tasks \in 0..Cardinality(Task)
  /\ reporting \in [Task -> {"no", "added"}]
  /\ answers \in [Task -> SUBSET {"stop_all", "continue"}]

(* When more tasks have failed than the threshold allows and all reports   *)
(* are answered, one of the answers was to stop all tasks: whichever way   *)
(* the reports overlap, somebody learns of it.                             *)
StopAnswered ==
  (/\ ErrorStrategy = "threshold"
   /\ \A t \in Task : reporting[t] = "no"
   /\ 100 * Cardinality(errors) > Percent * Cardinality(Task))
    => \E t \in Task : "stop_all" \in answers[t]
===========================================================================
