----------------------------- MODULE ControlFlow -----------------------------
(***************************************************************************)
(* The queue-based interpreter of a workflow: QueueBasedWorkflowExecutor's *)
(* get_next_step, the control-flow steps of StepProcessor, WorkflowQueue   *)
(* and the loop stack of ExecutionContext, for one workflow instance.      *)
(*                                                                         *)
(* The workflow is a constant: Def maps each step id to its definition,    *)
(* Main is the top level.  A step id is the sequence of the components     *)
(* between its dots, as the processors generate them ("w.body.0" is        *)
(* <<"w","body","0">>), so that str.startswith(loop_id + ".") is a proper  *)
(* prefix.  What an expression evaluates to depends on the state, which    *)
(* update_workflow_state changes at any time without the workflow's lock:  *)
(* conditions are nondeterministic, and the number of items of a foreach   *)
(* is any member of its items field.                                       *)
(*                                                                         *)
(* A call of get_next_step runs under the workflow's lock.  It is a        *)
(* sequence of steps here, one per step it takes from the queue, because a *)
(* call need not come to an end.                                           *)
(*                                                                         *)
(* A definition called a mutant is a plausible mistake in the definition   *)
(* that follows it; no formula uses it.  Some property fails with it.      *)
(***************************************************************************)
EXTENDS Integers, Sequences, FiniteSets

CONSTANTS
  Def,      (* step id -> definition                                       *)
  Main,     (* WorkflowDefinition.steps                                    *)
  NoStep    (* None                                                        *)

Step == DOMAIN Def

BlockingKinds == {"mcp_call", "wait_step", "unknown"}
Kinds == BlockingKinds \cup
  {"user_message", "parallel_foreach", "shell_command", "conditional",
   "while_loop", "foreach", "break", "continue"}

(* The expressions of a definition whose templates get replaced by values. *)
Fields == {"condition", "items"}

Definition ==
  [kind      : Kinds,
   body      : Seq(Step),   (* then_steps of a conditional, body of a loop *)
   orelse    : Seq(Step),   (* else_steps                                  *)
   limit     : Nat,         (* max_iterations of a while loop              *)
   items     : SUBSET Nat,  (* lengths the list of a foreach can have      *)
   fails     : BOOLEAN,     (* its expression or execution may fail        *)
   templated : BOOLEAN]     (* its expression is written in {{ }}          *)

ASSUME DefAssumption ==
  /\ Def \in [Step -> Definition]
  /\ Main \in Seq(Step)
  /\ NoStep \notin Step

VARIABLES
  main_queue,    (* WorkflowQueue.main_queue                               *)
  client_queue,  (* WorkflowQueue.client_queue                             *)
  pending,       (* WorkflowQueue.pending_client_steps                     *)
  loop_stack,    (* ExecutionContext.loop_stack                            *)
  status,        (* WorkflowInstance.status                                *)
  phase,         (* of the call: not running, in the loop, after the loop  *)
  failed_step    (* step_id of the error the last call returned            *)

vars == <<main_queue, client_queue, pending, loop_stack, status, phase, failed_step>>

-----------------------------------------------------------------------------
(* Queue entries and loop states                                           *)

(* A WorkflowStep in the queue: the step, whether it is the continuation   *)
(* the while loop appends after its body, its _loop_id metadata, and the   *)
(* fields of its definition in which templates have been replaced.         *)
Entry == [step : Step, cont : BOOLEAN, loop : Step \cup {NoStep}, resolved : SUBSET Fields]

(* control_signal of a LoopState.                                          *)
Signals == {"none", "break", "continue"}

(* runs is a history variable: how often the body has been queued.         *)
LoopState == [id : Step, iter : Nat, limit : Nat, signal : Signals, runs : Nat]

Queued(steps, loop, resolved) ==
  [i \in 1..Len(steps) |->
     [step |-> steps[i], cont |-> FALSE, loop |-> loop, resolved |-> resolved]]

(* Mutant: the first iteration is counted when it is advanced to.          *)
NewLoopNotStarted(s, n) ==
  [id |-> s, iter |-> -1, limit |-> n, signal |-> "none", runs |-> 0]

NewLoop(s, n) == [id |-> s, iter |-> 0, limit |-> n, signal |-> "none", runs |-> 0]

CurrentLoop == loop_stack[Len(loop_stack)]
InLoop(s) == loop_stack # <<>> /\ CurrentLoop.id = s
(* Mutant: exit_loop is forgotten.                                         *)
ExitForgotten(stack) == stack

ExitedLoop(stack) == SubSeq(stack, 1, Len(stack) - 1)

(* Mutant: advance_iteration clears the signal but does not count.         *)
NotAdvanced == [loop_stack EXCEPT ![Len(loop_stack)].signal = "none"]

(* LoopState.advance_iteration of the current loop.                        *)
Advanced == [loop_stack EXCEPT ![Len(loop_stack)].iter = @ + 1,
                               ![Len(loop_stack)].signal = "none"]
Signalled(sig) == [loop_stack EXCEPT ![Len(loop_stack)].signal = sig]
BodyQueued(stack) == [stack EXCEPT ![Len(stack)].runs = @ + 1]

Front == Head(main_queue)
Rest == Tail(main_queue)

Id(e) == IF e.cont THEN Append(e.step, "continuation") ELSE e.step
StartsWith(id, loop) == Len(id) > Len(loop) /\ SubSeq(id, 1, Len(loop)) = loop

IsLoopStep(e, loop) == ~e.cont /\ e.step = loop
(* Mutant: the _loop_id metadata is not looked at.                         *)
BelongsById(e, loop) == ~IsLoopStep(e, loop) /\ StartsWith(Id(e), loop)

Belongs(e, loop) == ~IsLoopStep(e, loop) /\ (StartsWith(Id(e), loop) \/ e.loop = loop)

(* n entries at the front of q belong to the loop's body, and no more.     *)
BodyPrefix(q, loop, n) ==
  /\ \A i \in 1..n : Belongs(q[i], loop)
  /\ n < Len(q) => ~Belongs(q[n + 1], loop)

-----------------------------------------------------------------------------
(* The ways a step ends: the loop of get_next_step goes on, stops, or the  *)
(* call returns an error at once.                                          *)

Scanning(kinds) ==
  /\ phase = "scan"
  /\ main_queue # <<>>
  /\ ~Front.cont
  /\ Def[Front.step].kind \in kinds

GoOn(queue, stack) ==
  /\ main_queue' = queue
  /\ loop_stack' = stack
  /\ UNCHANGED <<client_queue, pending, status, phase, failed_step>>

Fail(stack) ==
  /\ main_queue' = Rest
  /\ loop_stack' = stack
  /\ phase' = "idle"
  /\ failed_step' = Front.step
  /\ UNCHANGED <<client_queue, pending, status>>

(* A template was replaced by its value, which is then evaluated as if it  *)
(* were the text of an expression: startswith fails on what is no string,  *)
(* as the values of templates are here.                                    *)
Spoiled(field) == Def[Front.step].templated /\ field \in Front.resolved
EvaluationFails(field) == Def[Front.step].fails \/ Spoiled(field)

-----------------------------------------------------------------------------
Init ==
  /\ main_queue = Queued(Main, NoStep, {})
  /\ client_queue = <<>>
  /\ pending = <<>>
  /\ loop_stack = <<>>
  /\ status = "running"
  /\ phase = "idle"
  /\ failed_step = NoStep

(* Mutant: the call does not complete the steps of the last one.           *)
BeginCallKeepsPending ==
  /\ phase = "idle"
  /\ phase' = "scan"
  /\ failed_step' = NoStep
  /\ UNCHANGED <<main_queue, client_queue, pending, loop_stack, status>>

(* get_next_step is called: the steps handed out by the last call are      *)
(* implicitly complete.                                                    *)
BeginCall ==
  /\ phase = "idle"
  /\ phase' = "scan"
  /\ pending' = <<>>
  /\ failed_step' = NoStep
  /\ UNCHANGED <<main_queue, client_queue, loop_stack, status>>

(* Mutant: the loop goes on after every client step.                       *)
ClientStepAlwaysBatched ==
  /\ Scanning(BlockingKinds \cup {"user_message", "parallel_foreach"})
  /\ main_queue' = Rest
  /\ client_queue' = Append(client_queue, Front.step)
  /\ UNCHANGED <<pending, loop_stack, status, phase, failed_step>>

(* A client step goes to the client queue.  Only user_message is batched:  *)
(* the loop goes on after it and ends after every other step.              *)
ClientStep ==
  /\ Scanning(BlockingKinds \cup {"user_message", "parallel_foreach"})
  /\ main_queue' = Rest
  /\ client_queue' = Append(client_queue, Front.step)
  /\ phase' = IF Def[Front.step].kind = "user_message" THEN "scan" ELSE "respond"
  /\ UNCHANGED <<pending, loop_stack, status, failed_step>>

(* Preparing the sub-agents of a parallel_foreach fails.                   *)
PrepareFails ==
  /\ Scanning({"parallel_foreach"})
  /\ Def[Front.step].fails
  /\ Fail(loop_stack)

(* shell_command, and mcp_call of workflow_state_update.                   *)
ServerStep ==
  /\ Scanning({"shell_command"})
  /\ \/ GoOn(Rest, loop_stack)
     \/ Def[Front.step].fails /\ Fail(loop_stack)

(* A conditional is replaced by the steps of one branch.  Their items (but *)
(* not their conditions) have their templates replaced with its own.       *)
ProcessConditional ==
  /\ Scanning({"conditional"})
  /\ \/ /\ ~Spoiled("condition")
        /\ \E branch \in {Def[Front.step].body, Def[Front.step].orelse} :
             GoOn(Queued(branch, NoStep, Front.resolved \cup {"items"}) \o Rest, loop_stack)
     \/ /\ EvaluationFails("condition")
        /\ Fail(loop_stack)

-----------------------------------------------------------------------------
(* A while loop is entered, or resumed after an iteration.                 *)
WhileStack ==
  IF InLoop(Front.step) THEN Advanced
                        ELSE Append(loop_stack, NewLoop(Front.step, Def[Front.step].limit))
WhileExhausted == WhileStack[Len(WhileStack)].iter >= Def[Front.step].limit

(* The template was replaced by a false value: "Missing 'condition'".      *)
WhileWithoutCondition ==
  /\ Scanning({"while_loop"})
  /\ Spoiled("condition")
  /\ Fail(loop_stack)

(* Its condition is false, it has no body, or max_iterations is reached.   *)
WhileExit ==
  /\ Scanning({"while_loop"})
  /\ Spoiled("condition") => InLoop(Front.step) /\ WhileExhausted
  /\ GoOn(Rest, ExitedLoop(WhileStack))

WhileFails ==
  /\ Scanning({"while_loop"})
  /\ EvaluationFails("condition")
  /\ ~(InLoop(Front.step) /\ WhileExhausted)
  /\ Fail(ExitedLoop(WhileStack))

(* Its condition is true: the body is queued, then the continuation.       *)
WhileIterate ==
  /\ Scanning({"while_loop"})
  /\ ~Spoiled("condition")
  /\ ~WhileExhausted
  /\ Def[Front.step].body # <<>>
  /\ GoOn(Queued(Def[Front.step].body, NoStep, Front.resolved)
            \o <<[Front EXCEPT !.cont = TRUE, !.loop = NoStep]>> \o Rest,
          BodyQueued(WhileStack))

(* The continuation puts the while loop back, whose definition has all its *)
(* templates replaced by now, unless break was signalled to the innermost  *)
(* loop.                                                                   *)
ProcessContinuation ==
  /\ phase = "scan"
  /\ main_queue # <<>>
  /\ Front.cont
  /\ IF loop_stack = <<>> THEN Fail(loop_stack)
     ELSE IF CurrentLoop.signal = "break" THEN GoOn(Rest, ExitedLoop(loop_stack))
     ELSE GoOn(Queued(<<Front.step>>, NoStep, Fields) \o Rest, Signalled("none"))

-----------------------------------------------------------------------------
(* A foreach evaluates its items each time it comes to the front.          *)
ForeachFails ==
  /\ Scanning({"foreach"})
  /\ EvaluationFails("items")
  /\ Fail(loop_stack)

ForeachBody == Queued(Def[Front.step].body, Front.step, Front.resolved) \o <<Front>> \o Rest

(* It is new: a loop state is pushed, also for a list of no items, whose   *)
(* loop state then stays on the stack.                                     *)
ForeachEnter ==
  /\ Scanning({"foreach"})
  /\ ~Spoiled("items")
  /\ ~InLoop(Front.step)
  /\ \E n \in Def[Front.step].items :
       LET entered == Append(loop_stack, NewLoop(Front.step, n))
       IN  IF n = 0 THEN GoOn(Rest, entered) ELSE GoOn(ForeachBody, BodyQueued(entered))

(* Mutants: the last item is left out; a finished foreach is not popped.   *)
ForeachResumeTooShort ==
  /\ Scanning({"foreach"})
  /\ ~Spoiled("items")
  /\ InLoop(Front.step)
  /\ IF CurrentLoop.signal = "break" \/ CurrentLoop.iter + 2 >= CurrentLoop.limit
     THEN GoOn(Rest, ExitedLoop(loop_stack))
     ELSE GoOn(ForeachBody, BodyQueued(Advanced))

ForeachResumeNotPopped ==
  /\ Scanning({"foreach"})
  /\ ~Spoiled("items")
  /\ InLoop(Front.step)
  /\ IF CurrentLoop.signal = "break" \/ CurrentLoop.iter + 1 >= CurrentLoop.limit
     THEN GoOn(main_queue, ExitedLoop(loop_stack))
     ELSE GoOn(ForeachBody, BodyQueued(Advanced))

(* It comes back for the next item, unless break was signalled or the last *)
(* item was processed.                                                     *)
ForeachResume ==
  /\ Scanning({"foreach"})
  /\ ~Spoiled("items")
  /\ InLoop(Front.step)
  /\ IF CurrentLoop.signal = "break" \/ CurrentLoop.iter + 1 >= CurrentLoop.limit
     THEN GoOn(Rest, ExitedLoop(loop_stack))
     ELSE GoOn(ForeachBody, BodyQueued(Advanced))

-----------------------------------------------------------------------------
(* break signals the innermost loop and removes the entries of its body    *)
(* from the front of the queue, with the loop step if that comes next.     *)
ProcessBreak ==
  /\ Scanning({"break"})
  /\ \/ loop_stack = <<>> /\ Fail(loop_stack)
     \/ /\ loop_stack # <<>>
        /\ \E n \in 0..Len(Rest) :
             /\ BodyPrefix(Rest, CurrentLoop.id, n)
             /\ LET atLoop == n < Len(Rest) /\ IsLoopStep(Rest[n + 1], CurrentLoop.id)
                    first  == IF atLoop THEN n + 2 ELSE n + 1
                IN  GoOn(SubSeq(Rest, first, Len(Rest)), Signalled("break"))

(* Mutant: continue removes the loop step as break does.                   *)
ContinueDropsLoop ==
  /\ Scanning({"continue"})
  /\ \/ loop_stack = <<>> /\ Fail(loop_stack)
     \/ /\ loop_stack # <<>>
        /\ \E n \in 0..Len(Rest) :
             /\ BodyPrefix(Rest, CurrentLoop.id, n)
             /\ GoOn(SubSeq(Rest, n + 2, Len(Rest)), Signalled("continue"))

(* continue does the same but keeps the loop step.                         *)
ProcessContinue ==
  /\ Scanning({"continue"})
  /\ \/ loop_stack = <<>> /\ Fail(loop_stack)
     \/ /\ loop_stack # <<>>
        /\ \E n \in 0..Len(Rest) :
             /\ BodyPrefix(Rest, CurrentLoop.id, n)
             /\ GoOn(SubSeq(Rest, n + 1, Len(Rest)), Signalled("continue"))

-----------------------------------------------------------------------------
(* The loop of get_next_step is over.                                      *)
LoopOver == phase = "respond" \/ (phase = "scan" /\ main_queue = <<>>)

(* The client queue is the response, and is pending from now on.           *)
Respond ==
  /\ LoopOver
  /\ client_queue # <<>>
  /\ pending' = client_queue
  /\ client_queue' = <<>>
  /\ phase' = "idle"
  /\ UNCHANGED <<main_queue, loop_stack, status, failed_step>>

(* Mutant: the workflow is completed only while steps are outstanding.     *)
FinishWhilePending ==
  /\ LoopOver
  /\ client_queue = <<>>
  /\ main_queue = <<>>
  /\ status' = IF pending # <<>> THEN "completed" ELSE status
  /\ loop_stack' = <<>>
  /\ phase' = "idle"
  /\ UNCHANGED <<main_queue, client_queue, pending, failed_step>>

(* Nothing is left: the workflow is completed and its context removed.     *)
Finish ==
  /\ LoopOver
  /\ client_queue = <<>>
  /\ main_queue = <<>>
  /\ status' = "completed"
  /\ loop_stack' = <<>>
  /\ phase' = "idle"
  /\ UNCHANGED <<main_queue, client_queue, pending, failed_step>>

ProcessStep ==
  \/ ClientStep \/ PrepareFails \/ ServerStep \/ ProcessConditional
  \/ WhileWithoutCondition \/ WhileExit \/ WhileFails \/ WhileIterate \/ ProcessContinuation
  \/ ForeachFails \/ ForeachEnter \/ ForeachResume
  \/ ProcessBreak \/ ProcessContinue

Next == BeginCall \/ ProcessStep \/ Respond \/ Finish

Spec == Init /\ [][Next]_vars

(* The thread that runs get_next_step is not suspended for ever; a client  *)
(* that wants its workflow done calls it again and again.                  *)
ServerFairness == WF_vars(ProcessStep \/ Respond \/ Finish)
ClientFairness == WF_vars(BeginCall)
FairSpec == Spec /\ ServerFairness /\ ClientFairness

-----------------------------------------------------------------------------
(* Workflows whose loops keep their loop steps.  What a workflow is made   *)
(* of: the parts of a step are the steps of its body and of its branches,  *)
(* and Under is the parts of parts, as far as the steps are of some kinds. *)

Parts(s) ==
  {Def[s].body[i] : i \in DOMAIN Def[s].body} \cup {Def[s].orelse[i] : i \in DOMAIN Def[s].orelse}
AllParts == UNION {Parts(s) : s \in Step}
Closed(S, kinds) == \A s \in S : Def[s].kind \in kinds => Parts(s) \subseteq S
Under(base, kinds) ==
  LET closed == {S \in {base \cup T : T \in SUBSET AllParts} : Closed(S, kinds)}
  IN  {s \in Step : \A S \in closed : s \in S}

(* What an iteration of l executes itself, and with the loops inside it.   *)
Direct(l) == Under(Parts(l), {"conditional"})
Inside(l) == Under(Parts(l), Kinds)

(* The steps that may come to the front with a field that has been         *)
(* replaced: a conditional replaces the items of what it queues, and a     *)
(* continuation all fields of its while loop.                              *)
Replaces(field) == IF field = "items" THEN {"conditional", "while_loop"} ELSE {"while_loop"}
Replaced(field) ==
  Under({s \in Step : \/ Def[s].kind = "while_loop"
                      \/ \E c \in Step : Def[c].kind \in Replaces(field) /\ s \in Parts(c)}, Kinds)

LoopKinds == {"while_loop", "foreach"}

(* A loop is not inside itself; no break belongs to a loop, and no         *)
(* continue to a while loop; no list of a foreach is empty, or cannot be   *)
(* evaluated; the condition of a while loop is not a template.             *)
LoopHolds(l) ==
  /\ Def[l].kind \in LoopKinds =>
       l \notin Inside(l) /\ \A s \in Direct(l) : Def[s].kind # "break"
  /\ Def[l].kind = "while_loop" =>
       ~Def[l].templated /\ \A s \in Direct(l) : Def[s].kind # "continue"
  /\ Def[l].kind = "foreach" =>
       /\ 0 \notin Def[l].items /\ ~Def[l].fails
       /\ Def[l].templated => l \notin Replaced("items")

LoopsHold == \A l \in Step : LoopHolds(l)

(* Besides: the condition of a conditional is not a template that gets     *)
(* replaced, and all that an iteration with a continue executes itself has *)
(* an id under that of its loop.                                           *)
Structured ==
  /\ LoopsHold
  /\ \A s \in Step :
       Def[s].kind = "conditional" /\ Def[s].templated => s \notin Replaced("condition")
  /\ \A l \in Step :
       Def[l].kind = "foreach" /\ (\E s \in Direct(l) : Def[s].kind = "continue")
         => \A s \in Direct(l) : StartsWith(s, l)

(* Workflows whose breaks end the iteration.  A loop that is in no other   *)
(* one, with what is inside it, and the steps that it is in.               *)
Outermost ==
  {x \in Step : Def[x].kind \in LoopKinds
                /\ \A l \in Step : Def[l].kind \in LoopKinds => x \notin Inside(l)}
Family(x) == {x} \cup Inside(x)
Around(x) == {s \in Step : s = x \/ x \in Inside(s)}

Once(steps, S) == \A i, j \in DOMAIN steps : steps[i] \in S /\ steps[j] \in S => i = j

(* It is at one place of the workflow, and what is inside it is nowhere    *)
(* else.                                                                   *)
InOnePlace(x, inside, around) ==
  /\ \A i \in DOMAIN Main : Main[i] \notin inside
  /\ \A s \in Step : s # x /\ s \notin inside => Parts(s) \cap inside = {}
  /\ Once(Main, around)
  /\ \A s \in Step :
       Def[s].kind \notin LoopKinds => Once(Def[s].body, around) /\ Once(Def[s].orelse, around)

(* What its iteration executes itself has an id under that of the loop,    *)
(* except for the first step of the body of a while loop and of a branch.  *)
Recognized(x) ==
  /\ x \in Seq(STRING)
  /\ Def[x].kind = "while_loop" => \A i \in 2..Len(Def[x].body) : StartsWith(Def[x].body[i], x)
  /\ \A c \in Direct(x) : Def[c].kind = "conditional" =>
       /\ \A i \in 2..Len(Def[c].body) : StartsWith(Def[c].body[i], x)
       /\ \A i \in 2..Len(Def[c].orelse) : StartsWith(Def[c].orelse[i], x)

HasBreak(x) == \E s \in Inside(x) : Def[s].kind = "break"

BreaksHold ==
  /\ \A l \in Step : Def[l].kind \in LoopKinds => \E x \in Outermost : l \in Family(x)
  /\ \A x \in Outermost :
       /\ InOnePlace(x, Inside(x), Around(x))
       /\ HasBreak(x) =>
            /\ Recognized(x)
            /\ \A l \in Inside(x) : Def[l].kind \in LoopKinds => LoopHolds(l)

-----------------------------------------------------------------------------
(* Properties                                                              *)

TypeOK ==
  /\ main_queue \in Seq(Entry)
  /\ client_queue \in Seq(Step)
  /\ pending \in Seq(Step)
  /\ loop_stack \in Seq(LoopState)
  /\ status \in {"running", "completed"}
  /\ phase \in {"idle", "scan", "respond"}
  /\ failed_step \in Step \cup {NoStep}

(* No activation of a loop queues its body more often than max_iterations  *)
(* allows, or more often than its list had items: the counter that bounds  *)
(* it survives the way of the loop step through the queue (AC-CF-009).     *)
IterationBound == \A i \in DOMAIN loop_stack : loop_stack[i].runs <= loop_stack[i].limit

(* Every loop state on the stack has its loop step or continuation in the  *)
(* queue, an inner loop's before an outer one's: the two structures that   *)
(* process_foreach, process_while_loop and the continuation update apart   *)
(* from each other describe the same nesting (AC-CF-015).                  *)
LoopsNested ==
  \A i \in DOMAIN loop_stack : \E p \in DOMAIN main_queue :
    /\ main_queue[p].step = loop_stack[i].id
    /\ \A j \in i + 1 .. Len(loop_stack) :
         \E r \in 1 .. p - 1 : main_queue[r].step = loop_stack[j].id

(* A foreach that no break ends leaves the stack only after its body was   *)
(* queued once for each of its items (AC-CF-014).                          *)
ForeachComplete ==
  [][\A i \in DOMAIN loop_stack :
       /\ i > Len(loop_stack')
       /\ Def[loop_stack[i].id].kind = "foreach"
       /\ loop_stack[i].signal # "break"
       => loop_stack[i].runs = loop_stack[i].limit]_vars

(* A workflow is reported completed only when no step is left in the       *)
(* queue, none waits to be sent and none that was sent is outstanding.     *)
CompletedMeansDrained ==
  status = "completed" => main_queue = <<>> /\ client_queue = <<>> /\ pending = <<>>

(* A client that keeps calling sees the workflow completed.                *)
WorkflowCompletes == <>(status = "completed")

(* A loop is active at most once: what happens in an inner loop does not   *)
(* start an enclosing one again (AC-CF-015, AC-CF-022).                    *)
LoopEnteredOnce ==
  \A i, j \in DOMAIN loop_stack : loop_stack[i].id = loop_stack[j].id => i = j

(* After continue the loop goes on: its loop step or continuation is still *)
(* in the queue (AC-CF-019, AC-CF-020).                                    *)
ContinueKeepsLoop ==
  [][\A i \in DOMAIN loop_stack \cap DOMAIN loop_stack' :
       loop_stack[i].signal = "none" /\ loop_stack'[i].signal = "continue" =>
         \E p \in DOMAIN main_queue' : main_queue'[p].step = loop_stack'[i].id]_vars

(* After break no step of the loop's body is left to run (AC-CF-016).      *)
BreakEndsIteration ==
  \A i \in DOMAIN loop_stack :
    loop_stack[i].signal = "break" =>
      \A p \in DOMAIN main_queue, b \in DOMAIN Def[loop_stack[i].id].body :
        main_queue[p].step # Def[loop_stack[i].id].body[b]

(* Only a step that has something wrong with it makes a call return an     *)
(* error: the form of its expression and the place of the step do not.     *)
OnlyFaultyStepsFail ==
  failed_step # NoStep => Def[failed_step].fails

(* Every step of a response but the last is a user_message, also when an   *)
(* error return left messages of an earlier call in the client queue: the  *)
(* client never gets two steps to execute at once (queue.py STEP_CONFIG).  *)
ResponseShape ==
  \A response \in {client_queue, pending} :
    \A i \in 1 .. Len(response) - 1 : Def[response[i]].kind = "user_message"

-----------------------------------------------------------------------------
(* The structured program that the queue implements.  A loop that still    *)
(* has its loop step or continuation in the queue is a frame; the steps    *)
(* between its marker and that of the loop inside are the frame's rest.    *)

HasMarker(l) == \E p \in DOMAIN main_queue : main_queue[p].step = l.id
LiveLoops == {i \in DOMAIN loop_stack : HasMarker(loop_stack[i])}
Depth == Cardinality(LiveLoops)
Live(k) == loop_stack[CHOOSE i \in LiveLoops : Cardinality({j \in LiveLoops : j <= i}) = k]
MarkerOf(l) ==
  CHOOSE p \in DOMAIN main_queue :
    /\ main_queue[p].step = l.id
    /\ \A r \in 1 .. p - 1 : main_queue[r].step # l.id

FrameRest(k) ==
  LET from == IF k = Depth THEN 1 ELSE MarkerOf(Live(k + 1)) + 1
      to   == IF k = 0 THEN Len(main_queue) ELSE MarkerOf(Live(k)) - 1
  IN  [i \in 1 .. (to - from + 1) |-> main_queue[from + i - 1].step]

Frame(k) ==
  [loop  |-> IF k = 0 THEN NoStep ELSE Live(k).id,
   rest  |-> FrameRest(k),
   runs  |-> IF k = 0 THEN 0 ELSE Live(k).runs,
   limit |-> IF k = 0 THEN 0 ELSE Live(k).limit]

Frames == [k \in 1 .. Depth + 1 |-> Frame(k - 1)]

Program == INSTANCE StructuredProgram WITH frames <- Frames, batch <- client_queue

(* The queue executes the workflow as a structured program.                *)
ImplementsProgram == Program!Spec
=============================================================================
