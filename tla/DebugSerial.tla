---------------------------- MODULE DebugSerial ----------------------------
(***************************************************************************)
(* The debug mode of the executor (AROMCP_WORKFLOW_DEBUG=serial): the      *)
(* tasks of a parallel_foreach are not given to sub-agents; their steps    *)
(* are put into the queue of the workflow one at a time.  The step itself  *)
(* comes back for each of them: a marker after an expanded step puts it    *)
(* into the queue, a marker after a task does, and so does the implicit    *)
(* completion of the step when it was shown to the client.  The position   *)
(* is kept in two attributes of the queue.                                 *)
(*                                                                         *)
(* A step is a record.  "client" and "server" steps have a name; "if" has  *)
(* the body that was chosen; "pf" is a parallel_foreach with a name, the   *)
(* set of the numbers of items that its expression can come to (negative:  *)
(* it fails), and the steps of its task; "wait" is a while loop that waits *)
(* for its results.                                                        *)
(* Calls of get_next_step are made one at a time, under a lock.            *)
(***************************************************************************)
EXTENDS Integers, Sequences, SequencesExt

CONSTANTS
  Workflows,    (* workflow definitions: sequences of steps                *)
  MaxWaits,     (* max_iterations of a waiting loop                        *)
  Nothing

VARIABLES
  main,         (* the steps of the definition                             *)
  main_queue,   (* WorkflowQueue.main_queue                                *)
  pending_step, (* name of the client step of the last answer, or Nothing  *)
  seen,         (* the parallel_foreach steps with the mark _debug_seen    *)
  tasks_done,   (* _debug_processed_tasks                                  *)
  step_index,   (* _debug_current_step_index                               *)
  in_call,      (* a call of get_next_step is working                      *)
  completed,    (* status                                                  *)
  executed      (* history: the steps executed, of a task with its index   *)

position == <<seen, tasks_done, step_index>>
debugVars == <<main, main_queue, pending_step, position, in_call, completed, executed>>

Rest == Tail(main_queue)
Top == Head(main_queue)

Foreachs == {i \in DOMAIN main : main[i].kind = "pf"}

(* What markers put into the queue: the first parallel_foreach of the      *)
(* definition, at its top level.                                           *)
Retrigger ==
  IF Foreachs = {} THEN <<>>
                   ELSE <<main[CHOOSE i \in Foreachs : \A j \in Foreachs : i <= j]>>

(* _flatten_sub_agent_steps_for_debug: both branches of a conditional, the *)
(* body of a loop once; steps of other kinds are dropped.                  *)
RECURSIVE Flattened(_)
Flattened(steps) ==
  FlattenSeq([i \in DOMAIN steps |->
    CASE steps[i].kind \in {"client", "server"} -> <<steps[i]>>
      [] steps[i].kind = "branch" -> Flattened(steps[i].body) \o Flattened(steps[i].other)
      [] steps[i].kind = "loop" -> Flattened(steps[i].body)
      [] OTHER -> <<>>])

(* _skip_parallel_waiting_loops                                            *)
WithoutWaits(q) == SelectSeq(q, LAMBDA s : s.kind # "wait")

DebugInit ==
  /\ main \in Workflows
  /\ main_queue = main
  /\ pending_step = Nothing
  /\ seen = {} /\ tasks_done = 0 /\ step_index = 0
  /\ in_call = FALSE /\ completed = FALSE
  /\ executed = <<>>

-----------------------------------------------------------------------------
(* _implicitly_complete_step: what has to come back                        *)
CompletedForeach ==
  {i \in Foreachs : main[i].name = pending_step /\ pending_step \in seen}

BeginCall ==
  /\ ~in_call /\ ~completed
  /\ in_call' = TRUE
  /\ main_queue' = (IF CompletedForeach = {} THEN <<>>
                                             ELSE <<main[CHOOSE i \in CompletedForeach : TRUE]>>)
                     \o main_queue
  /\ pending_step' = Nothing
  /\ UNCHANGED <<main, position, completed, executed>>

Continues(q) ==
  /\ main_queue' = q
  /\ UNCHANGED <<main, pending_step, in_call, completed>>

Answers(q, name) ==
  /\ main_queue' = q
  /\ pending_step' = name
  /\ in_call' = FALSE
  /\ UNCHANGED <<main, completed>>

(* In debug mode every client step ends the call.                          *)
DebugClientStep ==
  /\ Top.kind = "client"
  /\ executed' = Append(executed, Top)
  /\ Answers(Rest, Top.name)
  /\ UNCHANGED position

DebugServerStep ==
  /\ Top.kind = "server"
  /\ executed' = Append(executed, Top)
  /\ Continues(Rest)
  /\ UNCHANGED position

DebugConditional ==
  /\ Top.kind = "if"
  /\ Continues(Top.body \o Rest)
  /\ UNCHANGED <<position, executed>>

(* A waiting loop that was not removed waits, at most MaxWaits times.      *)
WaitingLoop ==
  /\ Top.kind = "wait"
  /\ \/ Continues(Rest)
     \/ /\ Top.waited < MaxWaits
        /\ Answers(<<[Top EXCEPT !.waited = @ + 1]>> \o Rest, Top.name)
  /\ UNCHANGED <<position, executed>>

(* process_debug_step_advance                                              *)
StepAdvance ==
  /\ Top.kind = "advance"
  /\ Continues(Retrigger \o Rest)
  /\ UNCHANGED <<position, executed>>

(* process_debug_task_completion                                           *)
TaskCompletion ==
  /\ Top.kind = "completion"
  /\ Continues((IF Top.index + 1 < Top.total THEN Retrigger ELSE <<>>) \o Rest)
  /\ UNCHANGED <<position, executed>>

-----------------------------------------------------------------------------
(* _handle_debug_serial_foreach, for a step with n items                   *)

(* A step without items is shown, and put back.                            *)
NoItems(n) ==
  /\ n = 0
  /\ Answers(main_queue, Top.name)
  /\ UNCHANGED <<position, executed>>

(* The items cannot be evaluated, or the task has no steps: an error.      *)
Fails(n) ==
  /\ n < 0 \/ (n > 0 /\ Top.steps = <<>>)
  /\ Answers(Rest, Nothing)
  /\ UNCHANGED <<position, executed>>

(* Mutant: the mark is not set.                                            *)
FirstTimeUnmarked(n) ==
  /\ n > 0 /\ Top.steps # <<>> /\ Top.name \notin seen
  /\ Answers(main_queue, Top.name)
  /\ UNCHANGED <<position, executed>>

FirstTime(n) ==
  /\ n > 0 /\ Top.steps # <<>> /\ Top.name \notin seen
  /\ seen' = seen \cup {Top.name}
  /\ Answers(main_queue, Top.name)
  /\ UNCHANGED <<tasks_done, step_index, executed>>

Expanding(n) == n > 0 /\ Top.steps # <<>> /\ Top.name \in seen

(* Mutant: one task too few.                                               *)
AllTasksDoneEarly(n) ==
  /\ Expanding(n) /\ tasks_done + 1 >= n
  /\ Continues(WithoutWaits(Rest))
  /\ UNCHANGED <<position, executed>>

AllTasksDone(n) ==
  /\ Expanding(n) /\ tasks_done >= n
  /\ Continues(WithoutWaits(Rest))
  /\ UNCHANGED <<position, executed>>

Remaining(n) == Expanding(n) /\ tasks_done < n

(* The step is shown again, before a marker of its own.                    *)
NextTask(n) ==
  /\ Remaining(n) /\ step_index >= Len(Flattened(Top.steps))
  /\ tasks_done' = tasks_done + 1
  /\ step_index' = 0
  /\ Answers(<<Top, [kind |-> "completion", index |-> tasks_done, total |-> n]>> \o Rest, Top.name)
  /\ UNCHANGED <<seen, executed>>

OfTask(s, k) == [kind |-> s.kind, name |-> s.name, task |-> k]

ExpandStep(n) ==
  LET steps == Flattened(Top.steps)
  IN  /\ Remaining(n) /\ step_index < Len(steps)
      /\ step_index' = step_index + 1
      /\ Continues(WithoutWaits(
           <<OfTask(steps[step_index + 1], tasks_done), [kind |-> "advance"]>> \o Rest))
      /\ UNCHANGED <<seen, tasks_done, executed>>

ParallelForeach ==
  /\ Top.kind = "pf"
  /\ \E n \in Top.items :
       \/ NoItems(n) \/ Fails(n) \/ FirstTime(n)
       \/ AllTasksDone(n) \/ NextTask(n) \/ ExpandStep(n)

-----------------------------------------------------------------------------
ProcessTop ==
  /\ in_call /\ main_queue # <<>>
  /\ \/ DebugClientStep \/ DebugServerStep \/ DebugConditional \/ WaitingLoop
     \/ StepAdvance \/ TaskCompletion \/ ParallelForeach

CompleteWorkflow ==
  /\ in_call /\ main_queue = <<>>
  /\ in_call' = FALSE
  /\ completed' = TRUE
  /\ UNCHANGED <<main, main_queue, pending_step, position, executed>>

DebugNext == BeginCall \/ ProcessTop \/ CompleteWorkflow

(* A call in progress goes on, and the client calls again.                 *)
DebugSpec == DebugInit /\ [][DebugNext]_debugVars /\ WF_debugVars(DebugNext)

-----------------------------------------------------------------------------
(* The work that the workflow describes: its steps in order, in place of a *)
(* parallel_foreach the steps of its tasks, one task after the other.      *)
RECURSIVE Described(_)
Described(steps) ==
  FlattenSeq([i \in DOMAIN steps |->
    CASE steps[i].kind \in {"client", "server"} -> <<steps[i]>>
      [] steps[i].kind = "if" -> Described(steps[i].body)
      [] steps[i].kind = "pf" ->
           FlattenSeq([k \in 1..(CHOOSE n \in steps[i].items : TRUE) |->
             LET own == Flattened(steps[i].steps)
             IN  [j \in DOMAIN own |-> OfTask(own[j], k - 1)]])
      [] OTHER -> <<>>])

(* However often the parallel_foreach step comes back into the queue, each *)
(* step of each task is executed once, task after task, before what        *)
(* follows; a workflow that is completed has done everything it describes. *)
(* ("Automatic conversion to sequential foreach must occur with identical  *)
(* functional behavior", AC-MD-002.)                                       *)
TasksInSequence ==
  /\ IsPrefix(executed, Described(main))
  /\ completed => executed = Described(main)

(* A client that keeps asking comes to the end of the workflow, unless the *)
(* list of a parallel_foreach is empty: such a step is shown for ever.     *)
DebugCompletes ==
  (in_call /\ \A i \in Foreachs : 0 \notin main[i].items) ~> completed
=============================================================================
