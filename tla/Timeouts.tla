----------------------------- MODULE Timeouts -----------------------------
(***************************************************************************)
(* TimeoutManager: a registry of running operations, each with a time      *)
(* limit, some with callbacks, in a hierarchy of workflows, steps and      *)
(* sub-steps.  A monitor thread looks at all of them again and again and   *)
(* marks those whose time is over, with everything below them.  Threads    *)
(* start, extend, complete and cancel operations meanwhile.  All this is   *)
(* done under one lock, so that each call is one action.  Operations of    *)
(* AsyncTimeoutManager have a task of the event loop beside the monitor,   *)
(* which is not under the lock.                                            *)
(*                                                                         *)
(* A definition called a mutant is a plausible mistake in the definition   *)
(* that follows it; no formula uses it.  Some property fails with it.      *)
(***************************************************************************)
EXTENDS Integers, FiniteSets

CONSTANTS
  Id,           (* operations: workflows and steps                         *)
  Async,        (* those of the AsyncTimeoutManager                        *)
  Parent,       (* the operation inside which one is started, or None      *)
  Duration,     (* time limits that callers give                           *)
  StepDefault,  (* the limit of a step that was given none                 *)
  FlowDefault,  (* the limit of a workflow that was given none             *)
  Retention,    (* how long an ended operation stays in the registry       *)
  LastTime,     (* bound: the clock stops there                            *)
  MaxLimit,     (* bound: limits are not extended past it                  *)
  MaxCalls,     (* bound on the calls of operations                        *)
  Nothing       (* None                                                    *)

Steps == {i \in Id : Parent[i] # Nothing}
Workflows == Id \ Steps

(* TimeoutContext                                                          *)
Mark == [start : 0..LastTime, limit : Nat, end : (0..LastTime) \cup {Nothing},
         warned : BOOLEAN, timed_out : BOOLEAN, cancelled : BOOLEAN,
         children : SUBSET Id]

ASSUME TimeoutAssumption ==
  /\ Nothing \notin Id \cup Nat \cup Mark /\ Async \subseteq Id
  /\ Parent \in [Id -> Id \cup {Nothing}]
  /\ Duration \subseteq Nat
  /\ StepDefault \in Nat /\ FlowDefault \in Nat /\ Retention \in Nat
  /\ LastTime \in Nat /\ MaxLimit \in Nat /\ MaxCalls \in Nat

VARIABLES
  clock,      (* the clock                                                 *)
  ctx,        (* _contexts: a TimeoutContext, or None                      *)
  callbacks,  (* _callbacks: who has a timeout callback                    *)
  warners,    (* _warning_callbacks                                        *)
  task,       (* _async_tasks: at which of its two waits, and until when   *)
  monitoring, (* _monitor_active                                           *)
  called,     (* history: whose timeout callback this step has called      *)
  calls       (* how many calls there were                                 *)

timeoutVars == <<clock, ctx, callbacks, warners, task, monitoring, called, calls>>

Known == {i \in Id : ctx[i] # Nothing}
Elapsed(c) == (IF c.end = Nothing THEN clock ELSE c.end) - c.start
Remaining(c) == IF c.limit > Elapsed(c) THEN c.limit - Elapsed(c) ELSE 0

(* TimeoutContext.is_timed_out                                             *)
IsTimedOut(c) ==
  IF c.timed_out \/ c.cancelled THEN c.timed_out ELSE Elapsed(c) >= c.limit

(* Nobody has ended it, and the monitor has not yet found it overdue.      *)
Running(i) == ctx[i] # Nothing /\ ~ctx[i].cancelled /\ ctx[i].end = Nothing
Overdue(i) == Running(i) /\ IsTimedOut(ctx[i])

(* The recursion over children: what it reaches from S, going on through   *)
(* those that it has not been at before.                                   *)
Below(S, Through(_)) ==
  LET Closed(T) == \A p \in T : \A c \in ctx[p].children :
                     c \in Known /\ Through(c) => c \in T
  IN  {i \in Known : \A T \in SUBSET Known : S \subseteq T /\ Closed(T) => i \in T}

Context(d) ==
  [start |-> clock, limit |-> d, end |-> Nothing, warned |-> FALSE,
   timed_out |-> FALSE, cancelled |-> FALSE, children |-> {}]

(* A call begins to monitor an operation from now.                         *)
Restarted(c) ==
  [c EXCEPT !.start = clock, !.end = Nothing, !.warned = FALSE,
            !.timed_out = FALSE, !.cancelled = FALSE]

(* create_timeout: registers a new context, also over an old one, and puts *)
(* it among the children of its parent, if that is registered.             *)
Created(i, d, p) ==
  LET registered == [ctx EXCEPT ![i] = Context(d)]
  IN  IF p # Nothing /\ p \in Known
      THEN [registered EXCEPT ![p].children = @ \cup {i}] ELSE registered

(* coordinate_nested_timeouts: the child ends no later than its parent.    *)
Coordinated(f, p, i) ==
  LET left == Remaining(f[p])
  IN  [f EXCEPT ![i].limit = IF @ > left THEN left ELSE @,
                ![p].children = @ \cup {i}]

TimeoutsInit ==
  /\ clock = 0
  /\ ctx = [i \in Id |-> Nothing]
  /\ callbacks = {} /\ warners = {}
  /\ task = [i \in Id |-> [at |-> "none", wake |-> 0]]
  /\ monitoring = TRUE
  /\ called = {} /\ calls = 0

Quiet == called' = {}

-----------------------------------------------------------------------------
(* Starting                                                                *)

(* create_timeout, which set_workflow_timeout calls with a cleanup         *)
(* callback and no parent.  Without callbacks, those of an earlier context *)
(* stay registered.                                                        *)
Create(i, d) ==
  /\ i \notin Async
  /\ \/ callbacks' = callbacks \cup {i} /\ warners' = warners \cup {i}
     \/ UNCHANGED <<callbacks, warners>>
  /\ ctx' = Created(i, d, Parent[i])
  /\ Quiet /\ UNCHANGED <<clock, task, monitoring>>

(* set_step_timeout                                                        *)
SetLimit(i, d) ==
  /\ i \notin Async \/ i \in Known
  /\ IF i \in Known
     THEN ctx' = [ctx EXCEPT ![i].limit = d]
     ELSE ctx' = Created(i, d, Nothing)
  /\ Quiet /\ UNCHANGED <<clock, callbacks, warners, task, monitoring>>

(* start_workflow                                                          *)
StartWorkflow(w) ==
  /\ w \in Workflows \ Async
  /\ ctx' = IF w \in Known THEN [ctx EXCEPT ![w] = Restarted(@)]
                           ELSE Created(w, FlowDefault, Nothing)
  /\ Quiet /\ UNCHANGED <<clock, callbacks, warners, task, monitoring>>

(* start_step                                                              *)
StartStep(s) ==
  LET started == IF s \in Known THEN [ctx EXCEPT ![s] = Restarted(@)]
                                ELSE Created(s, StepDefault, Parent[s])
  IN  /\ s \in Steps \ Async
      /\ ctx' = IF Parent[s] \in Known THEN Coordinated(started, Parent[s], s)
                                       ELSE started
      /\ Quiet /\ UNCHANGED <<clock, callbacks, warners, task, monitoring>>

(* coordinate_hierarchical_timeouts, for one child; it raises an error when*)
(* the parent is not registered.                                           *)
CreateBelow(s, d) ==
  /\ s \in Steps \ Async
  /\ Parent[s] \in Known
  /\ LET left == Remaining(ctx[Parent[s]])
     IN  ctx' = Created(s, IF d > left THEN left ELSE d, Parent[s])
  /\ Quiet /\ UNCHANGED <<clock, callbacks, warners, task, monitoring>>

(* coordinate_nested_timeouts                                              *)
Coordinate(s) ==
  /\ s \in Steps
  /\ Parent[s] \in Known /\ s \in Known
  /\ ctx' = Coordinated(ctx, Parent[s], s)
  /\ Quiet /\ UNCHANGED <<clock, callbacks, warners, task, monitoring>>

-----------------------------------------------------------------------------
(* Ending                                                                  *)

Forget(S) == callbacks' = callbacks \ S /\ warners' = warners \ S

(* Mutant: the callback stays.                                             *)
CompleteKeepsCallback(i) ==
  /\ i \in Known \ Async
  /\ ctx' = [ctx EXCEPT ![i].end = clock]
  /\ Quiet /\ UNCHANGED <<clock, callbacks, warners, task, monitoring>>

(* complete_timeout, also as end_step                                      *)
Complete(i) ==
  /\ i \in Known \ Async
  /\ ctx' = [ctx EXCEPT ![i].end = clock]
  /\ Forget({i})
  /\ Quiet /\ UNCHANGED <<clock, task, monitoring>>

(* cancel_timeout, of one operation or of all that is below it             *)
Cancelled(S) ==
  [i \in Id |-> IF i \in S THEN [ctx[i] EXCEPT !.cancelled = TRUE, !.end = clock] ELSE ctx[i]]

Always(i) == TRUE

Cancel(i) ==
  /\ i \in Known \ Async
  /\ \E S \in {{i}, Below({i}, Always)} :
       ctx' = Cancelled(S) /\ Forget(S)
  /\ Quiet /\ UNCHANGED <<clock, task, monitoring>>

(* extend_timeout                                                          *)
Extend(i, d) ==
  /\ i \in Known
  /\ ~ctx[i].timed_out /\ ~ctx[i].cancelled
  /\ ctx[i].limit + d <= MaxLimit
  /\ ctx' = [ctx EXCEPT ![i].limit = @ + d]
  /\ Quiet /\ UNCHANGED <<clock, callbacks, warners, task, monitoring>>

(* send_warning                                                            *)
SendWarning(i, d) ==
  /\ i \in Known
  /\ Elapsed(ctx[i]) >= d
  /\ ctx' = [ctx EXCEPT ![i].warned = TRUE]
  /\ Quiet /\ UNCHANGED <<clock, callbacks, warners, task, monitoring>>

(* handle_timeout: the callback, and the operation is completed.           *)
HandleTimeout(i) ==
  /\ i \in Known \ Async
  /\ called' = {i} \cap callbacks
  /\ ctx' = [ctx EXCEPT ![i].end = clock]
  /\ Forget({i})
  /\ UNCHANGED <<clock, task, monitoring>>

-----------------------------------------------------------------------------
(* The monitor thread                                                      *)

(* _trigger_timeout does not go on through what is timed out already.      *)
NotTimedOut(i) == ~ctx[i].timed_out

TimedOut(S) ==
  [i \in Id |-> IF i \in S THEN [ctx[i] EXCEPT !.timed_out = TRUE, !.end = clock] ELSE ctx[i]]

(* should_warn, at 80 percent of the limit; the callback can fail, and the *)
(* parent may be visited before and end it.                                *)
MayWarn ==
  {i \in warners : Running(i) /\ ~ctx[i].warned /\ 5 * Elapsed(ctx[i]) >= 4 * ctx[i].limit}

(* The monitor marks these and calls their callbacks, under the lock.      *)
Expire(expired) ==
  /\ monitoring
  /\ LET marked == TimedOut(expired)
     IN  \E W \in SUBSET MayWarn :
           ctx' = [i \in Id |-> IF i \in W THEN [marked[i] EXCEPT !.warned = TRUE]
                                           ELSE marked[i]]
  /\ called' = (expired \cap callbacks) \ Async
  /\ UNCHANGED <<clock, callbacks, warners, task, monitoring>>

OverdueIds == {i \in Id : Overdue(i)}

(* Mutant: only the children, not what is below them.                      *)
CheckTimeoutsOneLevel ==
  Expire(OverdueIds \cup {c \in Known : \E p \in OverdueIds : c \in ctx[p].children})

(* Mutant: the monitor gives warned operations up.                         *)
CheckTimeoutsUnwarned == Expire({i \in OverdueIds : ~ctx[i].warned})

(* _check_timeouts                                                         *)
CheckTimeouts == Expire(Below(OverdueIds, NotTimedOut))

(* stop                                                                    *)
StopMonitor ==
  /\ monitoring
  /\ monitoring' = FALSE
  /\ Quiet /\ UNCHANGED <<clock, ctx, callbacks, warners, task>>

(* clear_completed_timeouts                                                *)
Clear ==
  LET old == {i \in Known : /\ ctx[i].end # Nothing
                            /\ clock - ctx[i].end > Retention}
  IN  /\ old # {}
      /\ ctx' = [i \in Id |-> IF i \in old THEN Nothing ELSE ctx[i]]
      /\ Forget(old)
      /\ Quiet /\ UNCHANGED <<clock, task, monitoring>>

-----------------------------------------------------------------------------
(* AsyncTimeoutManager                                                     *)

NoTask == [at |-> "none", wake |-> 0]
Waiting(i) == task[i].at \in {"first", "last"}

(* create_async_timeout with both callbacks, for an operation that is not  *)
(* registered.                                                             *)
CreateAsync(i, d) ==
  /\ i \in Async \ Known
  /\ task[i] = NoTask
  /\ ctx' = Created(i, d, Parent[i])
  /\ callbacks' = callbacks \cup {i}
  /\ warners' = warners \cup {i}
  /\ task' = [task EXCEPT ![i] = [at |-> "new", wake |-> (4 * d) \div 5]]
  /\ Quiet /\ UNCHANGED <<clock, monitoring>>

(* monitor_async begins: it sleeps for 80 percent of the limit of its call.*)
TaskBegins(i) ==
  /\ task[i].at = "new"
  /\ task' = [task EXCEPT ![i].at = "first", ![i].wake = clock + @]
  /\ Quiet /\ UNCHANGED <<clock, ctx, callbacks, warners, monitoring>>

Unmarked(i) == i \in Known /\ ~ctx[i].cancelled /\ ~ctx[i].timed_out

(* It warns, and sleeps for what remains then.                             *)
TaskWarns(i) ==
  /\ task[i].at = "first" /\ clock >= task[i].wake
  /\ ctx' = IF Unmarked(i) THEN [ctx EXCEPT ![i].warned = TRUE] ELSE ctx
  /\ task' = [task EXCEPT ![i].at = "last",
                          ![i].wake = clock + (IF i \in Known THEN Remaining(ctx[i]) ELSE 0)]
  /\ Quiet /\ UNCHANGED <<clock, callbacks, warners, monitoring>>

(* It wakes up, whatever the limit is now; the children are left alone.    *)
TaskExpires(i) ==
  /\ task[i].at = "last" /\ clock >= task[i].wake
  /\ IF Unmarked(i) THEN ctx' = TimedOut({i}) /\ called' = {i}
                    ELSE UNCHANGED ctx /\ Quiet
  /\ task' = [task EXCEPT ![i] = NoTask]
  /\ UNCHANGED <<clock, callbacks, warners, monitoring>>

(* The tasks of S are cancelled one after the other.  One that waits takes *)
(* itself out of _async_tasks then; the del that follows fails, and what   *)
(* the call would do after its tasks is left out.                          *)
TasksCancelled(S, first) ==
  LET waiting == {i \in S : Waiting(i)}
      none(C) == task' = [i \in Id |-> IF i \in C THEN NoTask ELSE task[i]]
  IN  IF waiting = {} THEN none(S)
      ELSE IF first \in waiting THEN none({first})
      ELSE \E w \in waiting, C \in SUBSET (S \ waiting) : first \in C /\ none(C \cup {w})

(* complete_async_timeout                                                  *)
CompleteAsync(i) ==
  /\ i \in Async \cap Known
  /\ TasksCancelled({i}, i)
  /\ IF Waiting(i) THEN UNCHANGED <<ctx, callbacks, warners>>
                   ELSE ctx' = [ctx EXCEPT ![i].end = clock] /\ Forget({i})
  /\ Quiet /\ UNCHANGED <<clock, monitoring>>

(* cancel_async_timeout, which takes the tasks of the children along       *)
CancelAsync(i) ==
  /\ i \in Async \cap Known
  /\ \E cascade \in BOOLEAN :
       LET T == IF cascade THEN {i} \cup ctx[i].children ELSE {i}
           S == IF cascade THEN Below({i}, Always) ELSE {i}
       IN  /\ TasksCancelled(T, i)
           /\ IF \E c \in T : Waiting(c) THEN UNCHANGED <<ctx, callbacks, warners>>
                                         ELSE ctx' = Cancelled(S) /\ Forget(S)
  /\ Quiet /\ UNCHANGED <<clock, monitoring>>

-----------------------------------------------------------------------------
ClockTicks ==
  /\ clock < LastTime
  /\ clock' = clock + 1
  /\ Quiet /\ UNCHANGED <<ctx, callbacks, warners, task, monitoring>>

CallOperation ==
  \/ \E i \in Id, d \in Duration :
       Create(i, d) \/ SetLimit(i, d) \/ CreateBelow(i, d) \/ Extend(i, d)
         \/ SendWarning(i, d) \/ CreateAsync(i, d)
  \/ \E i \in Id :
       StartWorkflow(i) \/ StartStep(i) \/ Coordinate(i) \/ Complete(i)
         \/ Cancel(i) \/ HandleTimeout(i) \/ CompleteAsync(i) \/ CancelAsync(i)
  \/ StopMonitor \/ Clear

Elapse ==
  \/ \E i \in Id : TaskBegins(i) \/ TaskWarns(i) \/ TaskExpires(i)
  \/ CheckTimeouts \/ ClockTicks

TimeoutsNext ==
  \/ calls < MaxCalls /\ calls' = calls + 1 /\ CallOperation
  \/ UNCHANGED calls /\ Elapse

TimeoutsSpec == TimeoutsInit /\ [][TimeoutsNext]_timeoutVars

(* The monitor thread looks every half second until it is stopped.         *)
TimeoutsFairSpec == TimeoutsSpec /\ WF_timeoutVars(CheckTimeouts /\ UNCHANGED calls)

-----------------------------------------------------------------------------
(* Contexts, tasks and callbacks have the form the code gives them; an     *)
(* operation that the monitor marks, or that is cancelled, has an end.     *)
TimeoutsTypeOK ==
  /\ clock \in 0..LastTime
  /\ ctx \in [Id -> Mark \cup {Nothing}]
  /\ callbacks \subseteq Known /\ warners \subseteq Known /\ called \subseteq Id
  /\ task \in [Id -> [at : {"none", "new", "first", "last"}, wake : Nat]]
  /\ monitoring \in BOOLEAN /\ calls \in 0..MaxCalls
  /\ \A i \in Known : ctx[i].timed_out \/ ctx[i].cancelled => ctx[i].end # Nothing

(* When the time of an operation is over, the step that marks it marks all *)
(* operations that were started inside it, at any depth, and running: none *)
(* goes on under a parent that has timed out (AC-PR-023).  The tasks of the*)
(* event loop do not do this, and are left out.                            *)
ExpiryReachesChildren ==
  [][\A p \in Known \ Async :
       (Running(p) /\ ctx'[p] # Nothing /\ ctx'[p].timed_out)
         => \A c \in ctx[p].children \cap Known : ctx'[c].timed_out]_timeoutVars

(* The callback of an operation is called only while it runs or after its  *)
(* time was over: never after it was completed or cancelled in time.       *)
NoLateCallback ==
  [][\A i \in called' \ Async :
       /\ i \in Known /\ ~ctx[i].cancelled
       /\ ctx[i].end = Nothing \/ ctx[i].timed_out]_timeoutVars

(* Both: an end, in time or not, is respected by what comes after it.      *)
EndsRespected == ExpiryReachesChildren /\ NoLateCallback

(* As long as the monitor runs, no operation stays overdue.                *)
OverdueEnds == \A i \in Id : Overdue(i) ~> (~monitoring \/ ~Overdue(i))
=============================================================================
