----------------------------- MODULE SubAgents -----------------------------
(***************************************************************************)
(* SubAgentManager: a parallel_foreach step of a workflow becomes one task *)
(* per item, each with a context, a state of its own and a queue of steps. *)
(* Sub-agents ask for the next step of their task from their own threads;  *)
(* two of them may ask for one task, when a call is repeated.  The context *)
(* is looked up under the lock of the manager, the queue is worked through *)
(* under the lock of the workflow, which the parent holds while it creates *)
(* the tasks.                                                              *)
(*                                                                         *)
(* What a condition or an update computes is abstracted to a counter, the  *)
(* raw state of the task.  A step is a record: client steps have a name;   *)
(* "while" runs its body as long as the counter is below n, at most max    *)
(* times; "if" has two bodies; "foreach" has n items; "skip" stands for    *)
(* what sub-agents drop: shell commands, break, continue.                  *)
(*                                                                         *)
(* A definition called a mutant is a plausible mistake in the definition   *)
(* that follows it; no formula uses it.  Some property fails with it.      *)
(***************************************************************************)
EXTENDS Integers, Sequences, SequencesExt

CONSTANTS
  Agent,        (* threads of sub-agents                                   *)
  TaskOf,       (* the task an agent works on                              *)
  Items,        (* number of items                                         *)
  MaxParallel,  (* max_parallel                                            *)
  Program,      (* the steps of the sub-agent task                         *)
  Expected,     (* the client steps that Program consists of, in order     *)
  MaxRounds,    (* bound: how often the workflow comes to parallel_foreach *)
  Overlap,      (* the next round may begin before all agents are done     *)
  Parent, Free, None

Tasks == 1..(IF Items < MaxParallel THEN Items ELSE MaxParallel)

ASSUME SubAgentAssumption ==
  /\ Items \in Nat /\ MaxParallel \in Nat /\ MaxRounds \in Nat
  /\ TaskOf \in [Agent -> 1..Items]
  /\ Overlap \in BOOLEAN
  /\ Expected \in Seq(STRING)
  /\ Parent \notin Agent /\ Free \notin Agent \cup {Parent}
  /\ None \notin [round : Nat, index : Nat, raw : Nat,
                  parent : {"parallel_foreach", "last step of the task"}]

VARIABLES
  contexts, (* sub_agent_contexts: round, index, parent step, counter      *)
  queues,   (* sub_agent_queues: the steps left                            *)
  loops,    (* their loop_stack                                            *)
  item,     (* raw.loop_item in the state of the parent workflow           *)
  lock,     (* who holds the lock of the workflow                          *)
  round,    (* how often parallel_foreach was prepared                     *)
  created,  (* how many tasks of the round are created                     *)
  pc,       (* where an agent is                                           *)
  known,    (* the round of the context an agent has looked up             *)
  peeked,   (* the step it has seen at the head of the queue               *)
  handed    (* history: the client steps of a task that were handed out    *)

vars == <<contexts, queues, loops, item, lock, round, created, pc, known, peeked, handed>>

Init ==
  /\ contexts = [t \in 1..Items |-> None]
  /\ queues = [t \in 1..Items |-> <<>>]
  /\ loops = [t \in 1..Items |-> <<>>]
  /\ item = 0
  /\ lock = Free
  /\ round = 0 /\ created = 0
  /\ pc = [a \in Agent |-> "idle"]
  /\ known = [a \in Agent |-> 0]
  /\ peeked = [a \in Agent |-> None]
  /\ handed = [t \in 1..Items |-> <<>>]

Release == lock' = Free

-----------------------------------------------------------------------------
(* The parent                                                              *)

(* get_next_step of the workflow comes to the step, under its lock.        *)
PrepareBegin ==
  /\ lock = Free
  /\ round < MaxRounds
  /\ Overlap \/ round = 0 \/ \A a \in Agent : TaskOf[a] \in Tasks => pc[a] = "stopped"
  /\ lock' = Parent
  /\ round' = round + 1 /\ created' = 0
  /\ UNCHANGED <<contexts, queues, loops, item, pc, known, peeked, handed>>

(* The loop that prints the steps of the first task leaves its variable    *)
(* behind: the other tasks are told a wrong parent step.                   *)
ParentStep(t) == IF t = 1 THEN "parallel_foreach" ELSE "last step of the task"

(* The task of the next item, under the lock of the manager.  Its id is    *)
(* that of the same item of the round before.                              *)
CreateTask ==
  LET t == created + 1
  IN  /\ lock = Parent /\ t \in Tasks
      /\ contexts' = [contexts EXCEPT ![t] =
           [round |-> round, index |-> t, parent |-> ParentStep(t), raw |-> 0]]
      /\ queues' = [queues EXCEPT ![t] = Program]
      /\ loops' = [loops EXCEPT ![t] = <<>>]
      /\ handed' = [handed EXCEPT ![t] = <<>>]
      /\ created' = t
      /\ pc' = [a \in Agent |-> IF TaskOf[a] = t /\ pc[a] = "stopped" THEN "idle" ELSE pc[a]]
      /\ UNCHANGED <<item, lock, round, known, peeked>>

PrepareEnd ==
  /\ lock = Parent /\ created + 1 \notin Tasks
  /\ Release
  /\ UNCHANGED <<contexts, queues, loops, item, round, created, pc, known, peeked, handed>>

-----------------------------------------------------------------------------
(* get_next_sub_agent_step                                                 *)

(* The context is copied; an agent whose task is not known gets an error   *)
(* and nothing changes.                                                    *)
Lookup(a) ==
  /\ pc[a] = "idle"
  /\ contexts[TaskOf[a]] # None
  /\ known' = [known EXCEPT ![a] = contexts[TaskOf[a]].round]
  /\ pc' = [pc EXCEPT ![a] = "waiting"]
  /\ UNCHANGED <<contexts, queues, loops, item, lock, round, created, peeked, handed>>

(* Mutant: the lock of the workflow is not taken.                          *)
AcquireAnyway(a) ==
  /\ pc[a] = "waiting"
  /\ lock' = a
  /\ pc' = [pc EXCEPT ![a] = "looking"]
  /\ UNCHANGED <<contexts, queues, loops, item, round, created, known, peeked, handed>>

Acquire(a) ==
  /\ pc[a] = "waiting" /\ lock = Free
  /\ lock' = a
  /\ pc' = [pc EXCEPT ![a] = "looking"]
  /\ UNCHANGED <<contexts, queues, loops, item, round, created, known, peeked, handed>>

(* peek_next                                                               *)
Peek(a) ==
  /\ pc[a] = "looking" /\ queues[TaskOf[a]] # <<>>
  /\ peeked' = [peeked EXCEPT ![a] = Head(queues[TaskOf[a]])]
  /\ pc' = [pc EXCEPT ![a] = "processing"]
  /\ UNCHANGED <<contexts, queues, loops, item, lock, round, created, known, handed>>

(* Mutant: the lock stays taken.                                           *)
DrainedLocked(a) ==
  /\ pc[a] = "looking" /\ queues[TaskOf[a]] = <<>>
  /\ pc' = [pc EXCEPT ![a] = "stopped"]
  /\ UNCHANGED <<contexts, queues, loops, item, lock, round, created, known, peeked, handed>>

(* No more steps: the answer is None, and the agent stops asking.          *)
Drained(a) ==
  /\ pc[a] = "looking" /\ queues[TaskOf[a]] = <<>>
  /\ pc' = [pc EXCEPT ![a] = "stopped"]
  /\ Release
  /\ UNCHANGED <<contexts, queues, loops, item, round, created, known, peeked, handed>>

(* pop_next takes what is at the head then.                                *)
Popped(t) == IF queues[t] = <<>> THEN <<>> ELSE Tail(queues[t])

(* A client step is handed out with the context that was looked up.        *)
HandOut(a, t, s) ==
  /\ s.kind = "client"
  /\ queues' = [queues EXCEPT ![t] = Popped(t)]
  /\ handed' = [handed EXCEPT ![t] = Append(@, [step |-> s.name, round |-> known[a]])]
  /\ pc' = [pc EXCEPT ![a] = "idle"]
  /\ Release
  /\ UNCHANGED <<contexts, loops, item>>

GoesOn(a) == pc' = [pc EXCEPT ![a] = "looking"] /\ UNCHANGED <<lock, handed>>

(* state_update, on the state of the current context                       *)
Update(a, t, s) ==
  /\ s.kind = "update"
  /\ queues' = [queues EXCEPT ![t] = Popped(t)]
  /\ contexts' = [contexts EXCEPT ![t].raw = @ + 1]
  /\ GoesOn(a) /\ UNCHANGED <<loops, item>>

Skip(a, t, s) ==
  /\ s.kind = "skip"
  /\ queues' = [queues EXCEPT ![t] = Popped(t)]
  /\ GoesOn(a) /\ UNCHANGED <<contexts, loops, item>>

(* _expand_conditional                                                     *)
ExpandConditional(a, t, s) ==
  /\ s.kind = "if"
  /\ queues' = [queues EXCEPT ![t] =
       (IF contexts[t].raw >= s.n THEN s.body ELSE s.other) \o Popped(t)]
  /\ GoesOn(a) /\ UNCHANGED <<contexts, loops, item>>

(* The loop context of a step is found by its name, or pushed; when the    *)
(* loop is over the context on top is popped.                              *)
LoopOf(stack, s) ==
  IF \E i \in DOMAIN stack : stack[i].loop = s.name THEN stack
                                                    ELSE Append(stack, [loop |-> s.name, count |-> 0])
Position(l, s) == CHOOSE i \in DOMAIN l : l[i].loop = s.name
Count(stack, s) == LET l == LoopOf(stack, s) IN l[Position(l, s)].count
Counted(stack, s) ==
  LET l == LoopOf(stack, s) IN [l EXCEPT ![Position(l, s)].count = @ + 1]

Expand(a, t, s, more) ==
  /\ IF more
     THEN /\ queues' = [queues EXCEPT ![t] = s.body \o <<s>> \o Popped(t)]
          /\ loops' = [loops EXCEPT ![t] = Counted(loops[t], s)]
     ELSE /\ queues' = [queues EXCEPT ![t] = Popped(t)]
          /\ loops' = [loops EXCEPT ![t] = Front(LoopOf(loops[t], s))]
  /\ GoesOn(a) /\ UNCHANGED contexts

(* _expand_while_loop                                                      *)
WhileMore(stack, raw, s) == Count(stack, s) < s.max /\ raw < s.n /\ s.body # <<>>

ExpandWhile(a, t, s) ==
  /\ s.kind = "while"
  /\ Expand(a, t, s, WhileMore(loops[t], contexts[t].raw, s))
  /\ UNCHANGED item

(* _expand_foreach also writes the item into the state of the workflow.    *)
ForeachMore(stack, s) == Count(stack, s) < s.n

ExpandForeach(a, t, s) ==
  /\ s.kind = "foreach"
  /\ Expand(a, t, s, ForeachMore(loops[t], s))
  /\ item' = IF ForeachMore(loops[t], s) THEN t ELSE item

Process(a) ==
  LET t == TaskOf[a]
      s == peeked[a]
  IN  /\ pc[a] = "processing"
      /\ \/ HandOut(a, t, s) \/ Update(a, t, s) \/ Skip(a, t, s)
         \/ ExpandConditional(a, t, s) \/ ExpandWhile(a, t, s) \/ ExpandForeach(a, t, s)
      /\ UNCHANGED <<round, created, known, peeked>>

AgentStep(a) == Lookup(a) \/ Acquire(a) \/ Peek(a) \/ Drained(a) \/ Process(a)

Next ==
  \/ PrepareBegin \/ CreateTask \/ PrepareEnd
  \/ \E a \in Agent : AgentStep(a)

(* Calls in progress go on, the lock is handed on, and an agent asks again *)
(* until it is told that its task is complete.                             *)
Fairness ==
  /\ WF_vars(CreateTask) /\ WF_vars(PrepareEnd)
  /\ \A a \in Agent : WF_vars(AgentStep(a))

Spec == Init /\ [][Next]_vars /\ Fairness

-----------------------------------------------------------------------------
(* Locks, program counters and contexts have the form the code gives them, *)
(* and an agent that works on a queue holds the lock.                      *)
TypeOK ==
  /\ lock \in Agent \cup {Parent, Free}
  /\ round \in 0..MaxRounds /\ created \in {0} \cup Tasks
  /\ pc \in [Agent -> {"idle", "waiting", "looking", "processing", "stopped"}]
  /\ \A a \in Agent : pc[a] \in {"looking", "processing"} => lock = a
  /\ \A t \in Tasks : contexts[t] # None => contexts[t].round \in 1..round

(* Whoever asks, and however the calls for all tasks are interleaved, the  *)
(* client steps of a task are handed out as the task prescribes: in order, *)
(* none twice, all before the task is reported complete, each with the     *)
(* context of its own round; conditions see the state of this task only.   *)
RunsTask ==
  \A t \in Tasks : contexts[t] # None =>
    LET all == [i \in DOMAIN Expected |-> [step |-> Expected[i], round |-> contexts[t].round]]
    IN  /\ IsPrefix(handed[t], all)
        /\ (\E a \in Agent : TaskOf[a] = t /\ pc[a] = "stopped") => handed[t] = all

(* One task by itself: what is left of its queue, its loops and its state, *)
(* and which of the expected client steps comes next.                      *)
Alone(queue, stack, raw, next) == [queue |-> queue, loops |-> stack, raw |-> raw, next |-> next]
Beginning == Alone(Program, <<>>, 0, 1)

(* What a single agent makes of it with one step                           *)
After(c) ==
  LET s == Head(c.queue)
      rest == Tail(c.queue)
      loop(more) ==
        IF more THEN Alone(s.body \o <<s>> \o rest, Counted(c.loops, s), c.raw, c.next)
                ELSE Alone(rest, Front(LoopOf(c.loops, s)), c.raw, c.next)
  IN  CASE s.kind = "client" -> Alone(rest, c.loops, c.raw, c.next + 1)
        [] s.kind = "update" -> Alone(rest, c.loops, c.raw + 1, c.next)
        [] s.kind = "skip" -> Alone(rest, c.loops, c.raw, c.next)
        [] s.kind = "if" ->
             Alone((IF c.raw >= s.n THEN s.body ELSE s.other) \o rest, c.loops, c.raw, c.next)
        [] s.kind = "while" -> loop(WhileMore(c.loops, c.raw, s))
        [] s.kind = "foreach" -> loop(ForeachMore(c.loops, s))

(* Runs holds what a single agent meets: Program makes it hand out exactly *)
(* what is expected.                                                       *)
RunsAlone(Runs) ==
  /\ Beginning \in Runs
  /\ \A c \in Runs :
       IF c.queue = <<>> THEN c.next = Len(Expected) + 1
       ELSE /\ After(c) \in Runs
            /\ Head(c.queue).kind = "client" =>
                 /\ c.next \in 1..Len(Expected)
                 /\ Expected[c.next] = Head(c.queue).name

(* Each agent that has asked comes to be told that its task is complete.   *)
AgentsStop == \A a \in Agent : (pc[a] = "waiting") ~> (pc[a] = "stopped")
=============================================================================
