--------------------------- MODULE WorkflowSession ---------------------------
(***************************************************************************)
(* The threads around the workflows of one QueueBasedWorkflowExecutor:     *)
(* clients that call get_next_step, start, the removal of workflows that   *)
(* are over, and the coroutines shutdown_gracefully and                    *)
(* cancel_all_workflows of the event loop.                                 *)
(*                                                                         *)
(* What ControlFlow does with one queue in one call is reduced here to a   *)
(* list of steps, server steps that are executed and client steps that end *)
(* the call.  What counts is who may touch the queue, and when: threads    *)
(* switch between any two accesses to what they share.                     *)
(*                                                                         *)
(* A definition called a mutant is a plausible mistake in the definition   *)
(* that follows it; no formula uses it.  Some property fails with it.      *)
(***************************************************************************)
EXTENDS Integers, Sequences, FiniteSets

CONSTANTS
  Workflow,  (* workflow ids, never used twice (uuid4)                     *)
  Client,    (* threads that call get_next_step, each for one workflow     *)
  Worker,    (* the thread of the executor pool that shutdown waits for    *)
  None,      (* no workflow                                                *)
  Program    (* the steps of each workflow, "server" or "client"           *)

ASSUME SessionAssumption ==
  /\ IsFiniteSet(Workflow)
  /\ Program \in [Workflow -> Seq({"server", "client"})]
  /\ Worker \notin Client
  /\ None \notin Workflow

Thread == Client \cup {Worker}

VARIABLES
  stage,       (* which of its entries in the dictionaries a workflow has  *)
  lock,        (* self._workflow_locks: which lock object, 0 if none       *)
  made,        (* how many lock objects were made for a workflow           *)
  main,        (* WorkflowQueue.main_queue, as positions in the program    *)
  status,      (* WorkflowInstance.status                                  *)
  taken,       (* history: the steps popped, in order                      *)
  pc,          (* where a thread is in get_next_step                       *)
  on,          (* the workflow it called it for                            *)
  mine,        (* the lock object it waits for or holds                    *)
  peeked,      (* the step it found at the front of the queue              *)
  answer,      (* what its last call returned                              *)
  shutdown,    (* where shutdown_gracefully is                             *)
  active,      (* its active_workflows                                     *)
  owed,        (* history: those of them whose start had returned          *)
  round,       (* those it still calls in this round                       *)
  asked,       (* the one whose answer it awaits                           *)
  late,        (* its timeout has passed                                   *)
  cancel,      (* where cancel_all_workflows is                            *)
  doomed,      (* the workflow it found running and will mark as cancelled *)
  seen,        (* workflows the iteration over self.workflows has visited  *)
  size         (* how many there were when it began                        *)

queueVars == <<main, taken>>
lockVars == <<lock, made>>
callVars == <<pc, on, mine, peeked, answer>>
shutdownVars == <<shutdown, active, owed, round, asked, late>>
cancelVars == <<cancel, doomed>>
iterVars == <<seen, size>>
loopVars == <<shutdownVars, cancelVars, iterVars>>
vars == <<stage, lockVars, queueVars, status, callVars, loopVars>>

(* The life of a workflow: start registers the instance, then the queue;   *)
(* its removal deletes the instance, the queue and the lock.               *)
Stages == {"new", "starting", "started", "uninstanced", "unqueued", "removed"}

workflows == {w \in Workflow : stage[w] \in {"starting", "started"}}
queues == {w \in Workflow : stage[w] \in {"started", "uninstanced"}}
Known == {w \in Workflow : stage[w] \notin {"new", "starting"}}

(* Inside the with block of get_next_step; after it has read the queue.    *)
Inside == {"read", "scan", "pop"}
Working(t) == pc[t] \in {"scan", "pop"}
Holds(t, w, l) == pc[t] \in Inside /\ on[t] = w /\ mine[t] = l

Goto(t, l) == pc' = [pc EXCEPT ![t] = l]

(* A call ends, and with it its local variables and its hold on the lock.  *)
Return(t, a) ==
  /\ Goto(t, "idle")
  /\ answer' = [answer EXCEPT ![t] = a]
  /\ mine' = [mine EXCEPT ![t] = 0]
  /\ peeked' = [peeked EXCEPT ![t] = 0]

Init ==
  /\ stage = [w \in Workflow |-> "new"]
  /\ lock = [w \in Workflow |-> 0]
  /\ made = [w \in Workflow |-> 0]
  /\ main = [w \in Workflow |-> [i \in 1 .. Len(Program[w]) |-> i]]
  /\ status = [w \in Workflow |-> "running"]
  /\ taken = [w \in Workflow |-> <<>>]
  /\ pc = [t \in Thread |-> "idle"]
  /\ on = [t \in Thread |-> None]
  /\ mine = [t \in Thread |-> 0]
  /\ peeked = [t \in Thread |-> 0]
  /\ answer = [t \in Thread |-> "dict"]
  /\ shutdown = "off" /\ cancel = "off"
  /\ active = {} /\ owed = {} /\ round = {} /\ seen = {}
  /\ asked = None /\ doomed = None
  /\ late = FALSE
  /\ size = 0

-----------------------------------------------------------------------------
(* start and _cleanup_workflow_resources                                   *)

Advance(w, from, to) ==
  /\ stage[w] = from
  /\ stage' = [stage EXCEPT ![w] = to]

StartInstance(w) ==
  /\ Advance(w, "new", "starting")
  /\ UNCHANGED <<lockVars, queueVars, status, callVars, loopVars>>

StartQueue(w) ==
  /\ Advance(w, "starting", "started")
  /\ UNCHANGED <<lockVars, queueVars, status, callVars, loopVars>>

(* Mutant: the lock goes first.                                            *)
RemoveLockFirst(w) ==
  /\ status[w] # "running" /\ stage[w] = "started"
  /\ lock' = [lock EXCEPT ![w] = 0]
  /\ UNCHANGED <<stage, made, queueVars, status, callVars, loopVars>>

RemoveInstance(w) ==
  /\ status[w] # "running"
  /\ Advance(w, "started", "uninstanced")
  /\ UNCHANGED <<lockVars, queueVars, status, callVars, loopVars>>

RemoveQueue(w) ==
  /\ Advance(w, "uninstanced", "unqueued")
  /\ UNCHANGED <<lockVars, queueVars, status, callVars, loopVars>>

RemoveLock(w) ==
  /\ Advance(w, "unqueued", "removed")
  /\ lock' = [lock EXCEPT ![w] = 0]
  /\ UNCHANGED <<made, queueVars, status, callVars, loopVars>>

-----------------------------------------------------------------------------
(* get_next_step                                                           *)

(* Is the workflow there?  Asked before the lock is taken.                 *)
Call(t, w) ==
  /\ pc[t] = "idle"
  /\ on' = [on EXCEPT ![t] = w]
  /\ IF w \in workflows THEN Goto(t, "found") /\ UNCHANGED <<answer, mine, peeked>>
                        ELSE Return(t, "missing")

(* A client knows the id from the answer of start, and calls until it is   *)
(* told None, an unknown workflow, or an exception.                        *)
ClientCall(t) ==
  /\ answer[t] = "dict"
  /\ \E w \in Known : on[t] \in {None, w} /\ Call(t, w)
  /\ UNCHANGED <<stage, lockVars, queueVars, status, loopVars>>

(* _get_workflow_lock: get or make the lock, under the global lock.        *)
GetLock(t) ==
  /\ pc[t] = "found"
  /\ Goto(t, "waiting")
  /\ IF lock[on[t]] = 0
     THEN /\ made' = [made EXCEPT ![on[t]] = @ + 1]
          /\ lock' = [lock EXCEPT ![on[t]] = made[on[t]] + 1]
          /\ mine' = [mine EXCEPT ![t] = made[on[t]] + 1]
     ELSE /\ mine' = [mine EXCEPT ![t] = lock[on[t]]]
          /\ UNCHANGED lockVars
  /\ UNCHANGED <<stage, queueVars, status, on, peeked, answer, loopVars>>

(* Mutant: the lock is not awaited.                                        *)
AcquireAnyway(t) ==
  /\ pc[t] = "waiting"
  /\ Goto(t, "read")
  /\ UNCHANGED <<stage, lockVars, queueVars, status, on, mine, peeked, answer, loopVars>>

Acquire(t) ==
  /\ pc[t] = "waiting"
  /\ \A u \in Thread : ~Holds(u, on[t], mine[t])
  /\ Goto(t, "read")
  /\ UNCHANGED <<stage, lockVars, queueVars, status, on, mine, peeked, answer, loopVars>>

(* Mutant: waits, with the lock, for a queue that is not there.            *)
ReadQueueWhenThere(t) ==
  /\ pc[t] = "read"
  /\ on[t] \in queues \cap workflows
  /\ Goto(t, "scan")
  /\ UNCHANGED <<stage, lockVars, queueVars, status, on, mine, peeked, answer, loopVars>>

(* The queue and the instance are looked up again, now with the lock: a    *)
(* KeyError when one is not there.                                         *)
ReadQueue(t) ==
  /\ pc[t] = "read"
  /\ IF on[t] \in queues \cap workflows
     THEN Goto(t, "scan") /\ UNCHANGED <<answer, mine, peeked>>
     ELSE Return(t, "raised")
  /\ UNCHANGED <<stage, lockVars, queueVars, status, on, loopVars>>

(* queue.peek_next and queue.pop_next are two accesses.                    *)
Peek(t) ==
  /\ pc[t] = "scan"
  /\ main[on[t]] # <<>>
  /\ peeked' = [peeked EXCEPT ![t] = Head(main[on[t]])]
  /\ Goto(t, "pop")
  /\ UNCHANGED <<stage, lockVars, queueVars, status, on, mine, answer, loopVars>>

(* A server step is executed and the call goes on, or fails and ends the   *)
(* call with an error; a client step ends it.  pop_next returns None, which*)
(* nobody looks at, if the queue is empty by now.                          *)
Pop(t) ==
  /\ pc[t] = "pop"
  /\ LET w == on[t] IN
     /\ main' = [main EXCEPT ![w] = SubSeq(@, 2, Len(@))]
     /\ taken' = [taken EXCEPT ![w] = Append(@, peeked[t])]
     /\ \/ /\ Program[w][peeked[t]] = "server"
           /\ Goto(t, "scan") /\ UNCHANGED <<answer, mine, peeked>>
        \/ Return(t, "dict")
  /\ UNCHANGED <<stage, lockVars, status, on, loopVars>>

(* No step is left: completed, unless failed, which is never set.          *)
Complete(t) ==
  /\ pc[t] = "scan"
  /\ main[on[t]] = <<>>
  /\ status' = [status EXCEPT ![on[t]] = "completed"]
  /\ Return(t, "over")
  /\ UNCHANGED <<stage, lockVars, queueVars, on, loopVars>>

-----------------------------------------------------------------------------
(* The event loop: an iteration over self.workflows has no await, so there *)
(* is one at a time; the other threads go on meanwhile.                    *)

Iterating == "listing" \in {shutdown, cancel}

(* shutdown_gracefully awaits an answer or sleeps, or does not run.        *)
LoopFree ==
  /\ ~Iterating
  /\ shutdown \in {"rounds", "stopping"} =>
       shutdown = "rounds" /\ (asked # None \/ (round = {} /\ active # {}))

(* Mutant: the size is off by one.                                         *)
BeginIterationOffByOne ==
  /\ LoopFree
  /\ seen' = {}
  /\ size' = Cardinality(workflows) - 1

BeginIteration ==
  /\ LoopFree
  /\ seen' = {}
  /\ size' = Cardinality(workflows)

Visit(w) ==
  /\ Cardinality(workflows) = size
  /\ w \in workflows \ seen
  /\ seen' = seen \cup {w}
  /\ UNCHANGED size

(* Every workflow visited; or, when the dictionary changed its size since, *)
(* a RuntimeError.                                                         *)
EndIteration(variable, ended) ==
  /\ variable' = IF Cardinality(workflows) # size THEN "raised" ELSE ended
  /\ Cardinality(workflows) = size => workflows \subseteq seen
  /\ seen' = {} /\ size' = 0

threadVars == <<stage, lockVars, queueVars, callVars>>

ShutdownBegin ==
  /\ shutdown = "off"
  /\ BeginIteration
  /\ shutdown' = "listing"
  /\ UNCHANGED <<threadVars, status, active, owed, round, asked, late, cancelVars>>

ShutdownVisit(w) ==
  /\ shutdown = "listing"
  /\ Visit(w)
  /\ active' = IF status[w] = "running" THEN active \cup {w} ELSE active
  /\ owed' = IF status[w] = "running" /\ stage[w] = "started" THEN owed \cup {w} ELSE owed
  /\ UNCHANGED <<threadVars, status, shutdown, round, asked, late, cancelVars>>

ShutdownListed ==
  /\ shutdown = "listing"
  /\ EndIteration(shutdown, "rounds")
  /\ UNCHANGED <<threadVars, status, active, owed, round, asked, late, cancelVars>>

(* Between two awaits of shutdown_gracefully: it calls nobody.             *)
InRounds == shutdown = "rounds" /\ asked = None /\ ~Iterating

(* Mutant: the timeout only counts once everything is over.                *)
ShutdownRoundAnyway ==
  /\ InRounds /\ round = {} /\ active # {}
  /\ round' = active
  /\ UNCHANGED <<threadVars, status, shutdown, active, owed, asked, late, cancelVars, iterVars>>

ShutdownRound ==
  /\ InRounds /\ round = {} /\ active # {} /\ ~late
  /\ round' = active
  /\ UNCHANGED <<threadVars, status, shutdown, active, owed, asked, late, cancelVars, iterVars>>

(* execute_next runs get_next_step in the executor pool.                   *)
ShutdownCall(w) ==
  /\ InRounds /\ w \in round
  /\ Call(Worker, w)
  /\ asked' = w
  /\ UNCHANGED <<stage, lockVars, queueVars, status, shutdown, active, owed, round, late,
                 cancelVars, iterVars>>

(* None and an exception take the workflow off the list; an error in a     *)
(* dict, and the steps that were meant for a client, do not.               *)
ShutdownAnswer ==
  /\ shutdown = "rounds" /\ asked # None /\ ~Iterating
  /\ pc[Worker] = "idle"
  /\ active' = IF answer[Worker] \in {"over", "raised"} THEN active \ {asked} ELSE active
  /\ round' = round \ {asked}
  /\ asked' = None
  /\ on' = [on EXCEPT ![Worker] = None]
  /\ answer' = [answer EXCEPT ![Worker] = "dict"]
  /\ UNCHANGED <<stage, lockVars, queueVars, pc, mine, peeked, status, shutdown, owed, late,
                 cancelVars, iterVars>>

ClockPasses ==
  /\ shutdown = "rounds" /\ ~late
  /\ late' = TRUE
  /\ UNCHANGED <<threadVars, status, shutdown, active, owed, round, asked, cancelVars, iterVars>>

ShutdownLeave ==
  /\ InRounds /\ round = {} /\ (active = {} \/ late)
  /\ shutdown' = "stopping"
  /\ UNCHANGED <<threadVars, status, active, owed, round, asked, late, cancelVars, iterVars>>

(* Mutant: what is left after the timeout is only counted.                 *)
ForceNothing(w) ==
  /\ shutdown = "stopping" /\ w \in active
  /\ active' = active \ {w}
  /\ UNCHANGED <<threadVars, status, shutdown, owed, round, asked, late, cancelVars, iterVars>>

ForceStop(w) ==
  /\ shutdown = "stopping" /\ w \in active
  /\ active' = active \ {w}
  /\ status' = IF w \in workflows THEN [status EXCEPT ![w] = "stopped"] ELSE status
  /\ UNCHANGED <<threadVars, shutdown, owed, round, asked, late, cancelVars, iterVars>>

ShutdownEnd ==
  /\ shutdown = "stopping" /\ active = {}
  /\ shutdown' = "done"
  /\ UNCHANGED <<threadVars, status, active, owed, round, asked, late, cancelVars, iterVars>>

CancelBegin ==
  /\ cancel = "off"
  /\ BeginIteration
  /\ cancel' = "listing"
  /\ UNCHANGED <<threadVars, status, shutdownVars, doomed>>

(* The status is read, and written in a step of its own.                   *)
CancelVisit(w) ==
  /\ cancel = "listing" /\ doomed = None
  /\ Visit(w)
  /\ doomed' = IF status[w] = "running" THEN w ELSE None
  /\ UNCHANGED <<threadVars, status, shutdownVars, cancel>>

CancelWrite ==
  /\ doomed # None
  /\ status' = [status EXCEPT ![doomed] = "cancelled"]
  /\ doomed' = None
  /\ UNCHANGED <<threadVars, shutdownVars, cancel, iterVars>>

CancelEnd ==
  /\ cancel = "listing" /\ doomed = None
  /\ EndIteration(cancel, "done")
  /\ UNCHANGED <<threadVars, status, shutdownVars, doomed>>

-----------------------------------------------------------------------------
Starter(w) == StartInstance(w) \/ StartQueue(w)
Remover(w) == RemoveInstance(w) \/ RemoveQueue(w) \/ RemoveLock(w)

(* What a thread does once it is in get_next_step.                         *)
InCall(t) ==
  GetLock(t) \/ Acquire(t) \/ ReadQueue(t) \/ Peek(t) \/ Pop(t) \/ Complete(t)

ShutdownGoesOn ==
  \/ \E w \in Workflow : ShutdownVisit(w) \/ ShutdownCall(w) \/ ForceStop(w)
  \/ ShutdownListed \/ ShutdownRound \/ ShutdownAnswer \/ ShutdownLeave \/ ShutdownEnd

CancelGoesOn == (\E w \in Workflow : CancelVisit(w)) \/ CancelWrite \/ CancelEnd

Next ==
  \/ \E w \in Workflow : Starter(w) \/ Remover(w)
  \/ \E t \in Client : ClientCall(t)
  \/ \E t \in Thread : InCall(t)
  \/ ShutdownBegin \/ ShutdownGoesOn \/ ClockPasses
  \/ CancelBegin \/ CancelGoesOn

Spec == Init /\ [][Next]_vars

(* Threads and the event loop are scheduled, and time passes.  Nobody has  *)
(* to call, start, remove, shut down or cancel anything.                   *)
Fairness ==
  /\ \A t \in Thread : WF_vars(InCall(t))
  /\ WF_vars(ShutdownGoesOn)
  /\ WF_vars(ClockPasses)
  /\ WF_vars(CancelGoesOn)

FairSpec == Spec /\ Fairness

-----------------------------------------------------------------------------
(* Properties                                                              *)

TypeOK ==
  /\ stage \in [Workflow -> Stages]
  /\ lock \in [Workflow -> Nat] /\ made \in [Workflow -> Nat]
  /\ main \in [Workflow -> Seq(Nat)]
  /\ status \in [Workflow -> {"running", "completed", "stopped", "cancelled"}]
  /\ taken \in [Workflow -> Seq(Nat)]
  /\ pc \in [Thread -> {"idle", "found", "waiting"} \cup Inside]
  /\ on \in [Thread -> Workflow \cup {None}]
  /\ mine \in [Thread -> Nat] /\ peeked \in [Thread -> Nat]
  /\ answer \in [Thread -> {"dict", "over", "missing", "raised"}]
  /\ shutdown \in {"off", "listing", "rounds", "stopping", "done", "raised"}
  /\ cancel \in {"off", "listing", "done", "raised"}
  /\ active \subseteq Workflow /\ owed \subseteq Workflow
  /\ round \subseteq Workflow /\ seen \subseteq Workflow
  /\ asked \in Workflow \cup {None} /\ doomed \in Workflow \cup {None}
  /\ late \in BOOLEAN
  /\ size \in Nat

(* No two threads are at work on the queue of one workflow, although the   *)
(* lock is forgotten when the workflow is removed and a thread that is     *)
(* still on its way then makes, and holds, another one.                    *)
OneCallAtATime ==
  \A t, u \in Thread : Working(t) /\ Working(u) /\ on[t] = on[u] => t = u

(* No step is lost, taken twice or out of order, whoever takes them: the   *)
(* steps taken, in order, and those left make up the program.              *)
StepsInOrder ==
  \A w \in Workflow :
    taken[w] \o main[w] = [i \in 1 .. Len(Program[w]) |-> i]

(* Every call of get_next_step returns, whatever becomes of its workflow   *)
(* while it waits.                                                         *)
CallsReturn == \A t \in Thread : pc[t] # "idle" ~> pc[t] = "idle"

(* Once shutdown_gracefully has returned, no workflow that had been        *)
(* started when it looked is running.                                      *)
ShutdownSettles ==
  shutdown = "done" => \A w \in owed \cap workflows : status[w] # "running"

(* shutdown_gracefully returns or raises, whatever the workflows, their    *)
(* clients, start and removal do.                                          *)
ShutdownEnds == shutdown = "listing" ~> shutdown \in {"done", "raised"}

(* Whoever calls gets an answer, a client as well as the event loop.       *)
EveryCallEnds == CallsReturn /\ ShutdownEnds

(* What AC-PR-024 says of shutdown: the state of a workflow in progress is *)
(* preserved, so shutdown takes no step that only a client can do.         *)
ShutdownPreservesSteps ==
  pc[Worker] = "pop" => Program[on[Worker]][peeked[Worker]] = "server"

(* What the docstring of cancel_all_workflows and the comment in           *)
(* shutdown_gracefully say: only active workflows are cancelled, and only  *)
(* what remains is stopped; a workflow that completed stays completed.     *)
OnlyActiveStopped ==
  [][\A w \in Workflow : status[w] = "completed" => status'[w] = "completed"]_vars
=============================================================================
