---------------------------- MODULE MCSubAgents ----------------------------
(* Two agents ask for the first of two tasks, one for the second; a third  *)
(* item is beyond max_parallel.  In a behaviour only the sub-agents, only  *)
(* the task library, or only a workflow in debug mode moves.               *)
EXTENDS SubAgents, ParallelTasks, DebugSerial
CONSTANTS a1, a2, a3

MCTaskOf == [a \in Agent |-> IF a = a3 THEN 2 ELSE 1]

Client(n) == [kind |-> "client", name |-> n]
Plain(k) == [kind |-> k]

(* The counter is 2 after the while loop, which is the second way out of   *)
(* it; the foreach in it is entered twice.                                 *)
MCProgram ==
  <<[kind |-> "while", name |-> "w", n |-> 2, max |-> 3,
     body |-> <<Client("plan"),
                [kind |-> "foreach", name |-> "f", n |-> 1, body |-> <<Client("lint")>>],
                Plain("update")>>],
    [kind |-> "if", n |-> 2, body |-> <<Client("fix")>>, other |-> <<Client("report")>>],
    Plain("skip"),
    [kind |-> "while", name |-> "v", n |-> 9, max |-> 1, body |-> <<Client("check")>>]>>

MCExpected == <<"plan", "lint", "plan", "lint", "fix", "check">>

(* What a single agent meets: with MCProgram it hands out what is expected.*)
MCRun[n \in 0..40] ==
  IF n = 0 THEN Beginning
  ELSE LET c == MCRun[n - 1] IN IF c.queue = <<>> THEN c ELSE After(c)

ASSUME MCProgramRuns == RunsAlone({MCRun[n] : n \in 0..40})

Server(n) == [kind |-> "server", name |-> n]
Waits == [kind |-> "wait", name |-> "wait", waited |-> 0]
Foreach(n, steps) == [kind |-> "pf", name |-> "each", items |-> {n}, steps |-> steps]
Nested ==
  <<Client("get"),
    [kind |-> "branch", body |-> <<Server("fix")>>, other |-> <<Client("tell")>>],
    Plain("prompt"),
    [kind |-> "loop", body |-> <<Server("lint")>>]>>

(* The second and third loop wait where nothing removes them; tasks have   *)
(* no steps that are expanded, no steps at all, or no items.               *)
MCWorkflows ==
  {<<>>,
   <<Client("plan"), Foreach(2, Nested), Server("sum"), Waits,
     [kind |-> "if", body |-> <<Waits, Client("report")>>]>>,
   <<Foreach(3, <<Client("get")>>), Waits, Client("report")>>,
   <<Foreach(2, <<Plain("prompt")>>), Client("report")>>,
   <<Foreach(1, <<>>), Waits, Client("report")>>,
   <<Foreach(-1, Nested), Client("report")>>,
   <<Foreach(0, Nested), Client("report")>>}

(* Two parallel_foreach steps one after the other.                         *)
TwoForeachs ==
  {<<Foreach(2, <<Client("get")>>),
     [Foreach(2, <<Client("put")>>) EXCEPT !.name = "again"],
     Client("report")>>}

NothingPrepared == round = 0 /\ \A a \in Agent : pc[a] = "idle"
NothingDebugged == main = <<>> /\ DebugInit

MCInit == Init /\ TasksInit /\ DebugInit

MCNext ==
  \/ Next /\ TasksInit /\ NothingDebugged /\ UNCHANGED <<taskVars, debugVars>>
  \/ TasksNext /\ NothingPrepared /\ NothingDebugged /\ UNCHANGED <<vars, debugVars>>
  \/ DebugNext /\ NothingPrepared /\ TasksInit /\ UNCHANGED <<vars, taskVars>>

MCSpec ==
  /\ MCInit
  /\ [][MCNext]_<<vars, taskVars, debugVars>>
  /\ WF_vars(CreateTask) /\ WF_vars(PrepareEnd)
  /\ \A a \in Agent : WF_vars(AgentStep(a))
  /\ WF_debugVars(DebugNext /\ NothingPrepared /\ TasksInit)
============================================================================
