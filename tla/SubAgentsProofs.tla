-------------------------- MODULE SubAgentsProofs --------------------------
(***************************************************************************)
(* What SubAgents and ParallelTasks promise, for any number of items,      *)
(* agents and rounds, and for any limit of tasks that run.                 *)
(*                                                                         *)
(* TasksInv is inductive: a function runs only for a task that is active,  *)
(* and what the starter was given fits into the slots that are free,       *)
(* because the first tasks of a set are as many as were asked for.         *)
(*                                                                         *)
(* SubAgentsInv is inductive: who works on a queue has the lock and knows  *)
(* what is at its head, a call has looked up the context of the present    *)
(* round, and what a task has left and has handed out is what a single     *)
(* agent would have left and have handed out.                              *)
(***************************************************************************)
EXTENDS SubAgents, ParallelTasks, FiniteSetTheorems, WellFoundedInduction,
        SequenceTheorems, TLAPS

(* The limits hold, and who runs a function has an active task.            *)
TasksInv ==
  /\ TasksTypeOK
  /\ TasksLimited
  /\ ~gaveUp => \A t \in TaskIds : work[t] > 0 => t \in active

(* A set of numbers that is not empty has a least one.                     *)
LEMMA Least ==
  ASSUME NEW T, T \subseteq Nat, T # {}
  PROVE  \E n \in T : \A m \in T : n <= m
<1>1. PICK n \in T : \A m \in T : ~ (<<m, n>> \in OpToRel(<, Nat))
  BY WFMin, NatLessThanWellFounded, Zenon
<1>2. \A m \in T : m \in Nat /\ n \in Nat /\ ~ (m < n)
  BY <1>1 DEF OpToRel
<1> QED BY <1>2

LEMMA TaskSets ==
  ASSUME NEW S, S \subseteq TaskIds
  PROVE  /\ IsFiniteSet(S) /\ Cardinality(S) \in Nat
         /\ \A R \in SUBSET S : IsFiniteSet(R) /\ Cardinality(R) \in Nat
                                /\ Cardinality(R) <= Cardinality(S)
<1>1. IsFiniteSet(TaskIds)
  BY TasksAssumption, FS_Interval DEF TaskIds
<1>2. IsFiniteSet(S)
  BY <1>1, FS_Subset
<1> QED BY <1>2, FS_Subset, FS_CardinalityType

(* The first n tasks of a set are at most n.                               *)
LEMMA FirstTasks ==
  ASSUME NEW P, P \subseteq TaskIds, NEW n \in Nat
  PROVE  Cardinality({t \in P : Cardinality({u \in P : u <= t}) <= n}) <= n
<1> DEFINE Q == {t \in P : Cardinality({u \in P : u <= t}) <= n}
<1>1. CASE Q = {}
  <2>1. Cardinality(Q) = 0
    BY <1>1, FS_EmptySet
  <2> HIDE DEF Q
  <2>2. Cardinality(Q) <= n
    BY <2>1
  <2> QED BY <2>2 DEF Q
<1>2. CASE Q # {}
  <2> DEFINE T == {m \in Nat : TaskCount - m \in Q}
  <2>1. PICK q \in Q : TRUE
    BY <1>2
  <2>2. \A t \in Q : t \in Nat /\ t <= TaskCount /\ TaskCount - t \in T
    BY TasksAssumption DEF TaskIds
  <2>3. TaskCount - q \in T /\ T \subseteq Nat
    BY <2>2
  <2>4. PICK l \in T : \A m \in T : l <= m
    BY <2>3, Least
  <2> DEFINE last == TaskCount - l
  <2>5. last \in Q /\ l \in Nat
    BY <2>4
  <2>6. \A t \in Q : t <= last
    <3>1. TAKE t \in Q
    <3>2. l <= TaskCount - t /\ t \in Nat
      BY <2>2, <2>4
    <3> QED BY <2>5, <3>2, TasksAssumption
  <2> HIDE DEF last
  <2>7. Q \subseteq {u \in P : u <= last} /\ Cardinality({u \in P : u <= last}) <= n
    BY <2>5, <2>6
  <2>8. {u \in P : u <= last} \subseteq TaskIds
    OBVIOUS
  <2> HIDE DEF Q
  <2>9. /\ Cardinality(Q) \in Nat /\ Cardinality({u \in P : u <= last}) \in Nat
        /\ Cardinality(Q) <= Cardinality({u \in P : u <= last})
    BY <2>7, <2>8, TaskSets
  <2>10. Cardinality(Q) <= n
    BY <2>7, <2>9
  <2> QED BY <2>10 DEF Q
<1> QED BY <1>1, <1>2

LEMMA TasksInitOK == TasksInit => TasksInv
<1> SUFFICES ASSUME TasksInit PROVE TasksInv
  OBVIOUS
<1>1. With("running") = {} /\ picked = {} /\ Cardinality({}) = 0
  BY FS_EmptySet DEF TasksInit, With
<1>2. TasksTypeOK
  <2>1. 0 \in 0..MaxWork
    BY TasksAssumption
  <2> QED BY <2>1 DEF TasksInit, TasksTypeOK
<1>3. TasksLimited
  BY <1>1, TasksAssumption DEF TasksInit, TasksLimited
<1> QED BY <1>2, <1>3 DEF TasksInv, TasksInit

(* The processor, whose tasks do not concern the pool                      *)
ProcessorOK ==
  /\ status \in [TaskIds -> {"pending", "running", "completed", "failed"}]
  /\ execution \in {"pending", "running", "completed", "failed"}
  /\ picked \subseteq With("pending")
  /\ Cardinality(With("running")) + Cardinality(picked) <= Slots

(* The pool: what runs in it is known, unless a wait was given up.         *)
DistributorOK ==
  /\ active \subseteq TaskIds
  /\ work \in [TaskIds -> 0..MaxWork]
  /\ waited = NotWaiting \/ waited \subseteq TaskIds
  /\ gaveUp \in BOOLEAN
  /\ ~gaveUp => \A t \in TaskIds : work[t] <= 1 /\ (work[t] > 0 => t \in active)

LEMMA TasksInvParts == TasksInv <=> ProcessorOK /\ DistributorOK
BY DEF TasksInv, TasksTypeOK, TasksLimited, ProcessorOK, DistributorOK

LEMMA ProcessorSame == ASSUME ProcessorOK, UNCHANGED processor PROVE ProcessorOK'
BY DEF ProcessorOK, processor, With

LEMMA DistributorSame == ASSUME DistributorOK, UNCHANGED distributor PROVE DistributorOK'
BY DEF DistributorOK, distributor

LEMMA GetNextAvailableStep ==
  ASSUME ProcessorOK, GetNextAvailable
  PROVE  ProcessorOK'
<1> DEFINE free == Slots - Cardinality(With("running"))
<1>1. /\ picked' = {t \in With("pending") :
                      Cardinality({u \in With("pending") : u <= t}) <= free}
      /\ free > 0 /\ status' = status /\ execution' = execution
  BY DEF GetNextAvailable
<1>2. Cardinality(With("running")) \in Nat /\ With("pending") \subseteq TaskIds
  BY TaskSets DEF With
<1>3. free \in Nat
  BY <1>1, <1>2, TasksAssumption
<1>4. Cardinality(picked') <= free
  BY <1>1, <1>2, <1>3, FirstTasks
<1>5. picked' \subseteq With("pending") /\ Cardinality(picked') \in Nat
  BY <1>1, <1>2, TaskSets
<1>6. With("pending")' = With("pending") /\ With("running")' = With("running")
  BY <1>1 DEF With
<1> QED BY <1>1, <1>2, <1>4, <1>5, <1>6, TasksAssumption DEF ProcessorOK

(* A task that is started was counted among those picked.                  *)
LEMMA StartTaskStep ==
  ASSUME ProcessorOK, NEW t \in TaskIds, StartTask(t)
  PROVE  ProcessorOK'
<1>1. /\ t \in picked /\ picked' = picked \ {t}
      /\ status' = [status EXCEPT ![t] = "running"]
      /\ execution' \in {execution, "running"}
  BY DEF StartTask
<1>2. /\ With("running")' = With("running") \cup {t} /\ t \notin With("running")
      /\ With("pending")' = With("pending") \ {t}
  BY <1>1 DEF ProcessorOK, With
<1>3. With("running") \subseteq TaskIds /\ picked \subseteq TaskIds
  BY DEF With, ProcessorOK
<1>4. IsFiniteSet(With("running")) /\ IsFiniteSet(picked)
  BY <1>3, TaskSets
<1>5. /\ Cardinality(With("running")') = Cardinality(With("running")) + 1
      /\ Cardinality(picked') = Cardinality(picked) - 1
  <2>1. Cardinality(With("running") \cup {t}) = Cardinality(With("running")) + 1
    BY <1>2, <1>4, FS_AddElement
  <2>2. Cardinality(picked \ {t}) = Cardinality(picked) - 1
    BY <1>1, <1>4, FS_RemoveElement
  <2> QED BY <1>1, <1>2, <2>1, <2>2
<1>6. Cardinality(With("running")) \in Nat /\ Cardinality(picked) \in Nat
  BY <1>3, TaskSets
<1>7. Cardinality(With("running")') + Cardinality(picked') = Cardinality(With("running")) + Cardinality(picked)
  BY <1>5, <1>6
<1>8. status' \in [TaskIds -> {"pending", "running", "completed", "failed"}] /\ picked' \subseteq With("pending")'
  BY <1>1, <1>2 DEF ProcessorOK
<1> QED BY <1>1, <1>7, <1>8 DEF ProcessorOK

(* No task starts; those that are pending stay so.                         *)
LEMMA FewerRunningStep ==
  ASSUME ProcessorOK, UNCHANGED picked,
         status' \in [TaskIds -> {"pending", "running", "completed", "failed"}],
         execution' \in {"pending", "running", "completed", "failed"},
         \A t \in TaskIds : status[t] = "pending" => status'[t] = "pending",
         \A t \in TaskIds : status'[t] = "running" => status[t] = "running"
  PROVE  ProcessorOK'
<1>1. With("pending") \subseteq With("pending")' /\ With("running")' \in SUBSET With("running")
  BY DEF With
<1>2. With("running") \subseteq TaskIds /\ picked \subseteq TaskIds
  BY DEF With, ProcessorOK
<1>3. /\ Cardinality(With("running")') <= Cardinality(With("running"))
      /\ Cardinality(With("running")') \in Nat /\ Cardinality(With("running")) \in Nat
      /\ Cardinality(picked) \in Nat
  BY <1>1, <1>2, TaskSets
<1> QED BY <1>1, <1>3, TasksAssumption DEF ProcessorOK

LEMMA ProcessorStepOK ==
  ASSUME ProcessorOK,
         \/ GetNextAvailable \/ CleanupExecution
         \/ \E t \in TaskIds : \/ StartTask(t) \/ PutBack(t)
                               \/ EndTask(t, "completed") \/ EndTask(t, "failed")
  PROVE  ProcessorOK'
<1>1. CASE CleanupExecution
  <2>1. /\ status' = [t \in TaskIds |-> "pending"] /\ execution' = "pending"
        /\ UNCHANGED picked
    BY <1>1 DEF CleanupExecution
  <2> QED BY <2>1, FewerRunningStep
<1>2. ASSUME NEW t \in TaskIds, PutBack(t) PROVE ProcessorOK'
  <2>1. status[t] = "failed" /\ status' = [status EXCEPT ![t] = "pending"] /\ UNCHANGED <<execution, picked>>
    BY <1>2 DEF PutBack
  <2>2. status' \in [TaskIds -> {"pending", "running", "completed", "failed"}]
    BY <2>1 DEF ProcessorOK
  <2> QED BY <2>1, <2>2, FewerRunningStep DEF ProcessorOK
<1>3. ASSUME NEW t \in TaskIds, NEW s \in {"completed", "failed"}, EndTask(t, s) PROVE ProcessorOK'
  <2>1. /\ status[t] = "running" /\ status' = [status EXCEPT ![t] = s] /\ UNCHANGED picked
        /\ execution' \in {"completed", "failed", execution}
    BY <1>3 DEF EndTask
  <2>2. status' \in [TaskIds -> {"pending", "running", "completed", "failed"}]
    BY <2>1 DEF ProcessorOK
  <2>3. \A u \in TaskIds : status[u] = "pending" => status'[u] = "pending"
    BY <2>1 DEF ProcessorOK
  <2>4. \A u \in TaskIds : status'[u] = "running" => status[u] = "running"
    BY <2>1 DEF ProcessorOK
  <2>5. execution' \in {"pending", "running", "completed", "failed"}
    BY <2>1 DEF ProcessorOK
  <2> QED BY <2>1, <2>2, <2>3, <2>4, <2>5, FewerRunningStep
<1> QED BY <1>1, <1>2, <1>3, GetNextAvailableStep, StartTaskStep

(* A task is refused as long as the pool knows of it, and forgotten when   *)
(* nothing runs for it: or the wait for it was given up.                   *)
LEMMA DistributorStepOK ==
  ASSUME DistributorOK,
         \/ GetCompleted \/ WaitBegin \/ WaitEnd
         \/ \E t \in TaskIds : Submit(t) \/ FunctionEnds(t)
  PROVE  DistributorOK'
<1>1. ASSUME NEW t \in TaskIds, Submit(t) PROVE DistributorOK'
  <2>1. /\ t \notin active /\ work[t] < MaxWork /\ active' = active \cup {t}
        /\ work' = [work EXCEPT ![t] = @ + 1] /\ UNCHANGED <<waited, gaveUp>>
    BY <1>1 DEF Submit
  <2>2. /\ work[t] \in Nat /\ work[t] + 1 \in 0..MaxWork
        /\ ~gaveUp => work[t] = 0
    BY <2>1, TasksAssumption DEF DistributorOK
  <2> QED BY <2>1, <2>2 DEF DistributorOK
<1>2. ASSUME NEW t \in TaskIds, FunctionEnds(t) PROVE DistributorOK'
  <2>1. /\ work[t] > 0 /\ work' = [work EXCEPT ![t] = @ - 1]
        /\ UNCHANGED <<active, waited, gaveUp>>
    BY <1>2 DEF FunctionEnds
  <2>2. work[t] \in Nat /\ work[t] - 1 \in 0..MaxWork
    BY <2>1, TasksAssumption DEF DistributorOK
  <2> QED BY <2>1, <2>2 DEF DistributorOK
<1>3. CASE GetCompleted
  <2>1. active' = {t \in active : work[t] > 0} /\ UNCHANGED <<work, waited, gaveUp>>
    BY <1>3 DEF GetCompleted
  <2> QED BY <2>1 DEF DistributorOK
<1>4. CASE WaitBegin
  BY <1>4 DEF WaitBegin, DistributorOK
<1>5. CASE WaitEnd
  <2>1. /\ waited # NotWaiting /\ active' = active \ waited /\ waited' = NotWaiting /\ work' = work
        /\ gaveUp' = (gaveUp \/ \E t \in waited : work[t] > 0)
    BY <1>5 DEF WaitEnd
  <2> QED BY <2>1 DEF DistributorOK
<1> QED BY <1>1, <1>2, <1>3, <1>4, <1>5

LEMMA TasksStepOK == TasksInv /\ [TasksNext]_taskVars => TasksInv'
<1> SUFFICES ASSUME TasksInv, [TasksNext]_taskVars PROVE TasksInv'
  OBVIOUS
<1>1. ProcessorOK /\ DistributorOK
  BY TasksInvParts
<1>2. /\ \/ UNCHANGED processor
         \/ GetNextAvailable \/ CleanupExecution
         \/ \E t \in TaskIds : \/ StartTask(t) \/ PutBack(t)
                               \/ EndTask(t, "completed") \/ EndTask(t, "failed")
      /\ \/ UNCHANGED distributor
         \/ GetCompleted \/ WaitBegin \/ WaitEnd
         \/ \E t \in TaskIds : Submit(t) \/ FunctionEnds(t)
  <2>1. CASE UNCHANGED taskVars
    BY <2>1 DEF taskVars, processor, distributor
  <2>2. CASE \/ GetNextAvailable \/ CleanupExecution
             \/ \E t \in TaskIds : \/ StartTask(t) \/ PutBack(t)
                                   \/ EndTask(t, "completed") \/ EndTask(t, "failed")
    <3>1. UNCHANGED distributor
      BY <2>2 DEF GetNextAvailable, CleanupExecution, StartTask, PutBack, EndTask
    <3> QED BY <2>2, <3>1
  <2>3. CASE \/ GetCompleted \/ WaitBegin \/ WaitEnd
             \/ \E t \in TaskIds : Submit(t) \/ FunctionEnds(t)
    <3>1. UNCHANGED processor
      BY <2>3 DEF GetCompleted, WaitBegin, WaitEnd, Submit, FunctionEnds
    <3> QED BY <2>3, <3>1
  <2> QED BY <2>1, <2>2, <2>3 DEF TasksNext
<1>3. ProcessorOK'
  BY <1>1, <1>2, ProcessorSame, ProcessorStepOK
<1>4. DistributorOK'
  BY <1>1, <1>2, DistributorSame, DistributorStepOK
<1>5. ProcessorOK' /\ DistributorOK' => TasksInv'
  BY DEF TasksInv, TasksTypeOK, TasksLimited, ProcessorOK, DistributorOK
<1> QED BY <1>3, <1>4, <1>5

(* However tasks end, fail and are put back between the call that picks    *)
(* tasks and their start, no more run than max_parallel allows; and a task *)
(* has one function in the pool, unless a wait for it was given up.        *)
THEOREM TasksAreLimited == TasksSpec => []TasksLimited
<1>1. TasksSpec => []TasksInv
  BY TasksInitOK, TasksStepOK, PTL DEF TasksSpec
<1>2. TasksInv => TasksLimited
  BY DEF TasksInv
<1> QED BY <1>1, <1>2, PTL

-----------------------------------------------------------------------------
Context == [round : Nat, index : Nat, raw : Nat,
            parent : {"parallel_foreach", "last step of the task"}]

Stamped(n, r) == [i \in 1..n |-> [step |-> Expected[i], round |-> r]]

(* What a task has left and has handed out is what a single agent would    *)
(* have left and have handed out at some point.                            *)
Follows(Runs, queue, stack, context, given) ==
  \E n \in 0..Len(Expected) :
    /\ given = Stamped(n, context.round)
    /\ Alone(queue, stack, context.raw, n + 1) \in Runs

FunctionOn(f, S) == f = [x \in S |-> f[x]]

SubAgentsTypeOK ==
  /\ contexts \in [1..Items -> Context \cup {None}]
  /\ FunctionOn(queues, 1..Items) /\ FunctionOn(loops, 1..Items) /\ FunctionOn(handed, 1..Items)
  /\ round \in Nat /\ created \in Nat
  /\ pc \in [Agent -> {"idle", "waiting", "looking", "processing", "stopped"}]
  /\ known \in [Agent -> Nat] /\ FunctionOn(peeked, Agent)

(* Whoever works on a queue has the lock, and knows what is at its head.   *)
QueuesOwned ==
  \A a \in Agent :
    /\ pc[a] \in {"looking", "processing"} => lock = a
    /\ pc[a] = "processing" =>
         queues[TaskOf[a]] # <<>> /\ peeked[a] = Head(queues[TaskOf[a]])

(* An agent that is told that there is nothing left was told so by a       *)
(* queue that stays empty; one in a call has looked up the present context;*)
(* and nobody is in a call for a task that is about to be created.         *)
CallsOfRound ==
  /\ \A a \in Agent :
       /\ pc[a] # "idle" => contexts[TaskOf[a]] # None
       /\ pc[a] = "stopped" => queues[TaskOf[a]] = <<>>
       /\ pc[a] \in {"waiting", "looking", "processing"} => known[a] = contexts[TaskOf[a]].round
  /\ round = 0 => \A t \in 1..Items : contexts[t] = None
  /\ lock = Parent => round # 0
  /\ lock = Parent =>
       \A a \in Agent : TaskOf[a] \in Tasks /\ TaskOf[a] > created =>
         pc[a] = "stopped" \/ (pc[a] = "idle" /\ contexts[TaskOf[a]] = None)

TasksFollow(Runs) ==
  \A t \in 1..Items : contexts[t] # None =>
    Follows(Runs, queues[t], loops[t], contexts[t], handed[t])

SubAgentsInv(Runs) == SubAgentsTypeOK /\ QueuesOwned /\ CallsOfRound /\ TasksFollow(Runs)

-----------------------------------------------------------------------------
LEMMA NoneIsNoContext == None \notin Context
BY SubAgentAssumption DEF Context

LEMMA CountedRecord ==
  ASSUME NEW P, NEW c \in [round : Nat, index : Nat, raw : Nat, parent : P]
  PROVE  /\ [c EXCEPT !.raw = @ + 1] \in [round : Nat, index : Nat, raw : Nat, parent : P]
         /\ [c EXCEPT !.raw = @ + 1].round = c.round
<1>1. c.raw + 1 \in Nat
  OBVIOUS
<1> QED BY <1>1

LEMMA CountedContext ==
  ASSUME NEW c \in Context
  PROVE  [c EXCEPT !.raw = @ + 1] \in Context /\ [c EXCEPT !.raw = @ + 1].round = c.round
BY CountedRecord DEF Context

LEMMA TasksAreItems == Tasks \subseteq 1..Items
<1>1. Items \in Nat /\ MaxParallel \in Nat
  BY SubAgentAssumption
<1>2. CASE Items < MaxParallel
  BY <1>2 DEF Tasks
<1>3. CASE ~(Items < MaxParallel)
  <2>1. Tasks = 1..MaxParallel
    BY <1>3 DEF Tasks
  <2> QED BY <1>1, <1>3, <2>1
<1> QED BY <1>2, <1>3

LEMMA StampedNone == ASSUME NEW r PROVE Stamped(0, r) = <<>>
<1>1. 1..0 = {}
  OBVIOUS
<1> QED BY <1>1 DEF Stamped

LEMMA StampedAppend ==
  ASSUME NEW n \in Nat, NEW r, n + 1 \in 1..Len(Expected)
  PROVE  Append(Stamped(n, r), [step |-> Expected[n + 1], round |-> r]) = Stamped(n + 1, r)
<1> DEFINE e == [step |-> Expected[n + 1], round |-> r]
           E == {[step |-> Expected[i], round |-> r] : i \in 1..(n + 1)}
<1>1. Stamped(n, r) \in Seq(E) /\ e \in E /\ Len(Stamped(n, r)) = n
  <2>1. Stamped(n, r) \in [1..n -> E]
    BY DEF Stamped
  <2> HIDE DEF E
  <2>2. Stamped(n, r) \in Seq(E)
    BY <2>1
  <2>3. DOMAIN Stamped(n, r) = 1..n
    BY DEF Stamped
  <2>4. Len(Stamped(n, r)) = n
    BY <2>2, <2>3, LenProperties
  <2> QED BY <2>2, <2>4 DEF E
<1> HIDE DEF e, E
<1>2. /\ Append(Stamped(n, r), e) \in Seq(E)
      /\ Len(Append(Stamped(n, r), e)) = n + 1
      /\ \A i \in 1..n : Append(Stamped(n, r), e)[i] = Stamped(n, r)[i]
      /\ Append(Stamped(n, r), e)[n + 1] = e
  BY <1>1, AppendProperties
<1>3. /\ DOMAIN Append(Stamped(n, r), e) = 1..(n + 1)
      /\ \A i \in 1..(n + 1) : Append(Stamped(n, r), e)[i] = Stamped(n + 1, r)[i]
  <2>1. DOMAIN Append(Stamped(n, r), e) = 1..(n + 1)
    BY <1>2, LenProperties
  <2>2. ASSUME NEW i \in 1..n PROVE Append(Stamped(n, r), e)[i] = Stamped(n + 1, r)[i]
    BY <1>2 DEF Stamped
  <2>3. Append(Stamped(n, r), e)[n + 1] = Stamped(n + 1, r)[n + 1]
    BY <1>2 DEF Stamped, e
  <2> QED BY <2>1, <2>2, <2>3
<1>4. Append(Stamped(n, r), e) = [i \in 1..(n + 1) |-> Append(Stamped(n, r), e)[i]]
  <2>1. Append(Stamped(n, r), e) \in [1..(n + 1) -> E]
    BY <1>2, LenProperties
  <2> QED BY <2>1
<1>5. Append(Stamped(n, r), e) = Stamped(n + 1, r)
  BY <1>3, <1>4 DEF Stamped
<1> QED BY <1>5 DEF e

LEMMA StampedPrefix ==
  ASSUME NEW n \in 0..Len(Expected), NEW r, Len(Expected) \in Nat
  PROVE  IsPrefix(Stamped(n, r), Stamped(Len(Expected), r))
<1> DEFINE N == Len(Expected)
           E == {[step |-> Expected[i], round |-> r] : i \in 1..N}
<1>1. \A m \in 0..N : Stamped(m, r) \in Seq(E) /\ Len(Stamped(m, r)) = m
  <2>1. SUFFICES ASSUME NEW m \in 0..N PROVE Stamped(m, r) \in Seq(E) /\ Len(Stamped(m, r)) = m
    OBVIOUS
  <2>2. Stamped(m, r) \in [1..m -> E] /\ DOMAIN Stamped(m, r) = 1..m
    BY DEF Stamped
  <2> HIDE DEF E, N
  <2>3. Stamped(m, r) \in Seq(E)
    BY <2>2 DEF N
  <2> QED BY <2>2, <2>3, LenProperties DEF N
<1> HIDE DEF E
<1>2. /\ SubSeq(Stamped(n, r), 1, n) = [i \in 1..n |-> Stamped(n, r)[i]]
      /\ SubSeq(Stamped(N, r), 1, n) = [i \in 1..n |-> Stamped(N, r)[i]]
  BY <1>1
<1>3. \A i \in 1..n : Stamped(n, r)[i] = Stamped(N, r)[i]
  BY DEF Stamped
<1> QED BY <1>1, <1>2, <1>3 DEF IsPrefix

-----------------------------------------------------------------------------
(* What a step of an agent does to its task is what After says.            *)

LEMMA ClientFollows ==
  ASSUME NEW Runs, RunsAlone(Runs), NEW q, NEW l, NEW x \in Context, NEW g,
         Follows(Runs, q, l, x, g), q # <<>>, Head(q).kind = "client"
  PROVE  Follows(Runs, Tail(q), l, x, Append(g, [step |-> Head(q).name, round |-> x.round]))
<1>1. PICK n \in 0..Len(Expected) :
        g = Stamped(n, x.round) /\ Alone(q, l, x.raw, n + 1) \in Runs
  BY DEF Follows
<1> DEFINE c == Alone(q, l, x.raw, n + 1)
<1>2. c.queue = q /\ c.loops = l /\ c.raw = x.raw /\ c.next = n + 1
  BY DEF Alone
<1>3. /\ After(c) \in Runs /\ c.next \in 1..Len(Expected)
      /\ Expected[c.next] = Head(c.queue).name
  BY <1>1, <1>2 DEF RunsAlone
<1>4. After(c) = Alone(Tail(q), l, x.raw, n + 1 + 1)
  BY <1>2 DEF After
<1>5. Append(g, [step |-> Head(q).name, round |-> x.round]) = Stamped(n + 1, x.round)
  BY <1>1, <1>2, <1>3, StampedAppend
<1>6. n + 1 \in 0..Len(Expected)
  BY <1>2, <1>3
<1> QED BY <1>3, <1>4, <1>5, <1>6 DEF Follows

LEMMA OthersFollow ==
  ASSUME NEW Runs, RunsAlone(Runs), NEW q, NEW l, NEW x \in Context, NEW g,
         Follows(Runs, q, l, x, g), q # <<>>, NEW s, s = Head(q)
  PROVE  /\ s.kind = "skip" => Follows(Runs, Tail(q), l, x, g)
         /\ s.kind = "update" => Follows(Runs, Tail(q), l, [x EXCEPT !.raw = @ + 1], g)
         /\ s.kind = "if" =>
              Follows(Runs, (IF x.raw >= s.n THEN s.body ELSE s.other) \o Tail(q), l, x, g)
         /\ s.kind = "while" =>
              IF WhileMore(l, x.raw, s)
              THEN Follows(Runs, s.body \o <<s>> \o Tail(q), Counted(l, s), x, g)
              ELSE Follows(Runs, Tail(q), Front(LoopOf(l, s)), x, g)
         /\ s.kind = "foreach" =>
              IF ForeachMore(l, s)
              THEN Follows(Runs, s.body \o <<s>> \o Tail(q), Counted(l, s), x, g)
              ELSE Follows(Runs, Tail(q), Front(LoopOf(l, s)), x, g)
<1>1. PICK n \in 0..Len(Expected) :
        g = Stamped(n, x.round) /\ Alone(q, l, x.raw, n + 1) \in Runs
  BY DEF Follows
<1> DEFINE c == Alone(q, l, x.raw, n + 1)
<1>2. c.queue = q /\ c.loops = l /\ c.raw = x.raw /\ c.next = n + 1
  BY DEF Alone
<1>3. After(c) \in Runs
  BY <1>1, <1>2 DEF RunsAlone
<1> HIDE DEF c
<1>4. CASE s.kind = "skip"
  <2>1. After(c) = Alone(Tail(q), l, x.raw, n + 1)
    BY <1>2, <1>4 DEF After
  <2> QED BY <1>1, <1>3, <1>4, <2>1 DEF Follows
<1>5. CASE s.kind = "update"
  <2>1. After(c) = Alone(Tail(q), l, x.raw + 1, n + 1)
    BY <1>2, <1>5 DEF After
  <2>2. [x EXCEPT !.raw = @ + 1].raw = x.raw + 1 /\ [x EXCEPT !.raw = @ + 1].round = x.round
    BY DEF Context
  <2> QED BY <1>1, <1>3, <1>5, <2>1, <2>2 DEF Follows
<1>6. CASE s.kind = "if"
  <2>1. After(c) = Alone((IF x.raw >= s.n THEN s.body ELSE s.other) \o Tail(q), l, x.raw, n + 1)
    BY <1>2, <1>6 DEF After
  <2> QED BY <1>1, <1>3, <1>6, <2>1 DEF Follows
<1>7. CASE s.kind = "while"
  <2>1. After(c) = IF WhileMore(l, x.raw, s)
                   THEN Alone(s.body \o <<s>> \o Tail(q), Counted(l, s), x.raw, n + 1)
                   ELSE Alone(Tail(q), Front(LoopOf(l, s)), x.raw, n + 1)
    BY <1>2, <1>7 DEF After
  <2> QED BY <1>1, <1>3, <1>7, <2>1 DEF Follows
<1>8. CASE s.kind = "foreach"
  <2>1. After(c) = IF ForeachMore(l, s)
                   THEN Alone(s.body \o <<s>> \o Tail(q), Counted(l, s), x.raw, n + 1)
                   ELSE Alone(Tail(q), Front(LoopOf(l, s)), x.raw, n + 1)
    BY <1>2, <1>8 DEF After
  <2> QED BY <1>1, <1>3, <1>8, <2>1 DEF Follows
<1> QED BY <1>4, <1>5, <1>6, <1>7, <1>8

-----------------------------------------------------------------------------
LEMMA SubAgentsInitOK ==
  ASSUME NEW Runs PROVE Init => SubAgentsInv(Runs)
<1> SUFFICES ASSUME Init PROVE SubAgentsInv(Runs)
  OBVIOUS
<1>1. lock # Parent
  BY SubAgentAssumption DEF Init
<1>2. SubAgentsTypeOK
  BY DEF Init, SubAgentsTypeOK, FunctionOn
<1>3. \A a \in Agent : TaskOf[a] \in 1..Items
  BY SubAgentAssumption
<1> QED BY <1>1, <1>2, <1>3 DEF Init, SubAgentsInv, QueuesOwned, CallsOfRound, TasksFollow

LEMMA PrepareBeginStep ==
  ASSUME NEW Runs, SubAgentsInv(Runs), ~Overlap, PrepareBegin
  PROVE  SubAgentsInv(Runs)'
<1>1. /\ lock = Free /\ lock' = Parent /\ round' = round + 1 /\ created' = 0
      /\ UNCHANGED <<contexts, queues, loops, pc, known, peeked, handed>>
      /\ round = 0 \/ \A a \in Agent : TaskOf[a] \in Tasks => pc[a] = "stopped"
  BY DEF PrepareBegin
<1>2. SubAgentsTypeOK' /\ TasksFollow(Runs)'
  BY <1>1 DEF SubAgentsInv, SubAgentsTypeOK, TasksFollow
<1>3. \A a \in Agent : pc[a] \notin {"looking", "processing"}
  BY <1>1, SubAgentAssumption DEF SubAgentsInv, QueuesOwned
<1>4. QueuesOwned'
  BY <1>1, <1>3 DEF QueuesOwned
<1>5. \A a \in Agent : TaskOf[a] \in 1..Items /\ pc[a] \in {"idle", "waiting", "looking", "processing", "stopped"}
  BY SubAgentAssumption DEF SubAgentsInv, SubAgentsTypeOK
<1>6. round # round' /\ round' # 0
  BY <1>1 DEF SubAgentsInv, SubAgentsTypeOK
<1>7. CallsOfRound'
  BY <1>1, <1>5, <1>6 DEF SubAgentsInv, CallsOfRound
<1> QED BY <1>2, <1>4, <1>7 DEF SubAgentsInv

LEMMA CreateTaskStep ==
  ASSUME NEW Runs, RunsAlone(Runs), SubAgentsInv(Runs), CreateTask
  PROVE  SubAgentsInv(Runs)'
<1> DEFINE t == created + 1
           new == [round |-> round, index |-> t, parent |-> ParentStep(t), raw |-> 0]
<1>1. /\ lock = Parent /\ t \in Tasks
      /\ contexts' = [contexts EXCEPT ![t] = new]
      /\ queues' = [queues EXCEPT ![t] = Program]
      /\ loops' = [loops EXCEPT ![t] = <<>>]
      /\ handed' = [handed EXCEPT ![t] = <<>>]
      /\ created' = t
      /\ pc' = [a \in Agent |-> IF TaskOf[a] = t /\ pc[a] = "stopped" THEN "idle" ELSE pc[a]]
      /\ UNCHANGED <<lock, round, known, peeked>>
  BY DEF CreateTask
<1>2. t \in 1..Items /\ t \in Nat /\ created \in Nat
  BY <1>1, TasksAreItems DEF SubAgentsInv, SubAgentsTypeOK
<1>3. new \in Context /\ new.raw = 0
  BY <1>2 DEF Context, ParentStep, SubAgentsInv, SubAgentsTypeOK
<1> HIDE DEF new
<1>4. SubAgentsTypeOK'
  BY <1>1, <1>2, <1>3 DEF SubAgentsInv, SubAgentsTypeOK, FunctionOn
<1>5. \A a \in Agent : pc[a] \notin {"looking", "processing"}
  BY <1>1, SubAgentAssumption DEF SubAgentsInv, QueuesOwned
<1>6. QueuesOwned'
  BY <1>1, <1>5 DEF QueuesOwned
<1>7. \A a \in Agent : TaskOf[a] = t => pc'[a] = "idle"
  BY <1>1, <1>2 DEF SubAgentsInv, CallsOfRound
<1>8. \A a \in Agent : TaskOf[a] # t =>
        /\ pc'[a] = pc[a] /\ contexts'[TaskOf[a]] = contexts[TaskOf[a]]
        /\ queues'[TaskOf[a]] = queues[TaskOf[a]]
  <2>1. \A a \in Agent : TaskOf[a] \in 1..Items
    BY SubAgentAssumption
  <2> QED BY <1>1, <2>1 DEF SubAgentsInv, SubAgentsTypeOK, FunctionOn
<1>9. CallsOfRound'
  <2>1. round # 0 /\ t \in Tasks /\ t = created + 1
    BY <1>1 DEF SubAgentsInv, CallsOfRound
  <2>2. contexts'[t] # None
    BY <1>1, <1>2, <1>3, NoneIsNoContext DEF SubAgentsInv, SubAgentsTypeOK
  <2>3. ASSUME NEW a \in Agent
        PROVE  /\ pc'[a] # "idle" => contexts'[TaskOf[a]] # None
               /\ pc'[a] = "stopped" => queues'[TaskOf[a]] = <<>>
               /\ pc'[a] \in {"waiting", "looking", "processing"} => known'[a] = contexts'[TaskOf[a]].round
    BY <1>1, <1>7, <1>8, <2>2 DEF SubAgentsInv, CallsOfRound
  <2>4. ASSUME NEW a \in Agent, TaskOf[a] \in Tasks, TaskOf[a] > created'
        PROVE  pc'[a] = "stopped" \/ (pc'[a] = "idle" /\ contexts'[TaskOf[a]] = None)
    <3>1. TaskOf[a] \in Nat /\ TaskOf[a] > t
      <4>1. TaskOf[a] \in 1..Items
        BY SubAgentAssumption
      <4> QED BY <1>1, <2>4, <4>1
    <3>2. TaskOf[a] # t /\ TaskOf[a] > created
      BY <1>2, <3>1
    <3> QED BY <1>1, <1>8, <2>4, <3>2 DEF SubAgentsInv, CallsOfRound
  <2> QED BY <1>1, <2>1, <2>3, <2>4 DEF CallsOfRound
<1>10. TasksFollow(Runs)'
  <2>1. Follows(Runs, Program, <<>>, new, <<>>)
    <3>1. Stamped(0, new.round) = <<>> /\ Len(Expected) \in Nat
      BY SubAgentAssumption, StampedNone, LenProperties
    <3>2. Alone(Program, <<>>, new.raw, 0 + 1) \in Runs
      BY <1>3 DEF RunsAlone, Beginning
    <3> QED BY <3>1, <3>2 DEF Follows
  <2>2. /\ contexts'[t] = new /\ queues'[t] = Program /\ loops'[t] = <<>> /\ handed'[t] = <<>>
        /\ \A u \in 1..Items : u # t =>
             /\ contexts'[u] = contexts[u] /\ queues'[u] = queues[u]
             /\ loops'[u] = loops[u] /\ handed'[u] = handed[u]
    BY <1>1, <1>2 DEF SubAgentsInv, SubAgentsTypeOK, FunctionOn
  <2> QED BY <2>1, <2>2 DEF SubAgentsInv, TasksFollow
<1> QED BY <1>4, <1>6, <1>9, <1>10 DEF SubAgentsInv

LEMMA PrepareEndStep ==
  ASSUME NEW Runs, SubAgentsInv(Runs), PrepareEnd
  PROVE  SubAgentsInv(Runs)'
<1>1. /\ lock = Parent /\ lock' = Free
      /\ UNCHANGED <<contexts, queues, loops, round, created, pc, known, peeked, handed>>
  BY DEF PrepareEnd, Release
<1>2. SubAgentsTypeOK' /\ TasksFollow(Runs)'
  BY <1>1 DEF SubAgentsInv, SubAgentsTypeOK, TasksFollow
<1>3. QueuesOwned'
  BY <1>1, SubAgentAssumption DEF SubAgentsInv, QueuesOwned
<1>4. CallsOfRound'
  BY <1>1, SubAgentAssumption DEF SubAgentsInv, CallsOfRound
<1> QED BY <1>2, <1>3, <1>4 DEF SubAgentsInv

(* A call goes on to its next section, with the queues as they are.        *)
LEMMA CallStep ==
  ASSUME NEW Runs, SubAgentsInv(Runs), NEW a \in Agent,
         Lookup(a) \/ Acquire(a) \/ Peek(a) \/ Drained(a)
  PROVE  SubAgentsInv(Runs)'
<1>0. /\ TaskOf[a] \in 1..Items /\ Parent \notin Agent /\ Free \notin Agent \cup {Parent}
      /\ SubAgentsTypeOK /\ QueuesOwned /\ CallsOfRound /\ TasksFollow(Runs)
  BY SubAgentAssumption DEF SubAgentsInv
<1>1. UNCHANGED <<contexts, queues, loops, round, created, handed>>
  BY DEF Lookup, Acquire, Peek, Drained
<1>2. TasksFollow(Runs)'
  BY <1>0, <1>1 DEF TasksFollow
<1>3. CASE Lookup(a)
  <2>1. /\ pc[a] = "idle" /\ contexts[TaskOf[a]] # None
        /\ known' = [known EXCEPT ![a] = contexts[TaskOf[a]].round]
        /\ pc' = [pc EXCEPT ![a] = "waiting"] /\ UNCHANGED <<lock, peeked>>
    BY <1>3 DEF Lookup
  <2>2. contexts[TaskOf[a]].round \in Nat
    BY <1>0, <2>1 DEF SubAgentsTypeOK, Context
  <2>3. SubAgentsTypeOK' /\ QueuesOwned'
    BY <1>0, <1>1, <2>1, <2>2 DEF SubAgentsTypeOK, QueuesOwned
  <2>4. /\ \A b \in Agent : b # a => pc'[b] = pc[b] /\ known'[b] = known[b]
        /\ pc'[a] = "waiting" /\ known'[a] = contexts[TaskOf[a]].round
    BY <1>0, <2>1 DEF SubAgentsTypeOK
  <2>5. CallsOfRound'
    BY <1>0, <1>1, <2>1, <2>4 DEF CallsOfRound
  <2> QED BY <1>2, <2>3, <2>5 DEF SubAgentsInv
<1>4. CASE Acquire(a)
  <2>1. /\ pc[a] = "waiting" /\ lock = Free /\ lock' = a
        /\ pc' = [pc EXCEPT ![a] = "looking"] /\ UNCHANGED <<known, peeked>>
    BY <1>4 DEF Acquire
  <2>2. SubAgentsTypeOK' /\ QueuesOwned' /\ CallsOfRound'
    BY <1>0, <1>1, <2>1 DEF SubAgentsTypeOK, QueuesOwned, CallsOfRound
  <2> QED BY <1>2, <2>2 DEF SubAgentsInv
<1>5. CASE Peek(a)
  <2>1. /\ pc[a] = "looking" /\ queues[TaskOf[a]] # <<>>
        /\ peeked' = [peeked EXCEPT ![a] = Head(queues[TaskOf[a]])]
        /\ pc' = [pc EXCEPT ![a] = "processing"] /\ UNCHANGED <<lock, known>>
    BY <1>5 DEF Peek
  <2>2. /\ \A b \in Agent : b # a => pc'[b] = pc[b] /\ peeked'[b] = peeked[b]
        /\ pc'[a] = "processing" /\ peeked'[a] = Head(queues[TaskOf[a]])
    BY <1>0, <2>1 DEF SubAgentsTypeOK, FunctionOn
  <2>3. SubAgentsTypeOK'
    BY <1>0, <1>1, <2>1 DEF SubAgentsTypeOK, FunctionOn
  <2>4. QueuesOwned' /\ CallsOfRound'
    BY <1>0, <1>1, <2>1, <2>2 DEF QueuesOwned, CallsOfRound
  <2> QED BY <1>2, <2>3, <2>4 DEF SubAgentsInv
<1>6. CASE Drained(a)
  <2>1. /\ pc[a] = "looking" /\ queues[TaskOf[a]] = <<>> /\ lock' = Free
        /\ pc' = [pc EXCEPT ![a] = "stopped"] /\ UNCHANGED <<known, peeked>>
    BY <1>6 DEF Drained, Release
  <2>2. SubAgentsTypeOK' /\ QueuesOwned' /\ CallsOfRound'
    BY <1>0, <1>1, <2>1 DEF SubAgentsTypeOK, QueuesOwned, CallsOfRound
  <2> QED BY <1>2, <2>2 DEF SubAgentsInv
<1> QED BY <1>3, <1>4, <1>5, <1>6

(* The agent leaves its task t with this queue, loops, context and steps   *)
(* handed out; no other task changes.                                      *)
Leaves(a, t, q, l, x, g) ==
  /\ queues' = [queues EXCEPT ![t] = q] /\ loops' = [loops EXCEPT ![t] = l]
  /\ contexts' = [contexts EXCEPT ![t] = x] /\ handed' = [handed EXCEPT ![t] = g]
  /\ \/ pc' = [pc EXCEPT ![a] = "looking"] /\ lock' = lock
     \/ pc' = [pc EXCEPT ![a] = "idle"] /\ lock' = Free
  /\ UNCHANGED <<round, created, known, peeked>>

LEMMA TaskGoesOn ==
  ASSUME NEW Runs, SubAgentsInv(Runs), NEW a \in Agent, NEW t, t = TaskOf[a],
         pc[a] = "processing",
         NEW q, NEW l, NEW x \in Context, NEW g, Leaves(a, t, q, l, x, g),
         x.round = contexts[t].round, Follows(Runs, q, l, x, g)
  PROVE  SubAgentsInv(Runs)'
<1> USE DEF Leaves
<1>0. /\ t \in 1..Items /\ Parent \notin Agent /\ Free \notin Agent \cup {Parent}
      /\ SubAgentsTypeOK /\ QueuesOwned /\ CallsOfRound /\ TasksFollow(Runs)
  BY SubAgentAssumption DEF SubAgentsInv
<1>1. /\ contexts'[t] = x /\ queues'[t] = q /\ loops'[t] = l /\ handed'[t] = g
      /\ \A u \in 1..Items : u # t =>
           /\ contexts'[u] = contexts[u] /\ queues'[u] = queues[u]
           /\ loops'[u] = loops[u] /\ handed'[u] = handed[u]
  BY <1>0 DEF SubAgentsTypeOK, FunctionOn
<1>2. /\ pc'[a] \in {"looking", "idle"} /\ \A b \in Agent : b # a => pc'[b] = pc[b]
      /\ pc'[a] = "looking" => lock' = lock
      /\ lock = a /\ lock' # Parent
  BY <1>0 DEF SubAgentsTypeOK, QueuesOwned
<1>3. \A b \in Agent : TaskOf[b] \in 1..Items
  BY SubAgentAssumption
<1>4. SubAgentsTypeOK'
  <2>1. contexts' \in [1..Items -> Context \cup {None}]
    BY <1>0 DEF SubAgentsTypeOK
  <2>2. pc' \in [Agent -> {"idle", "waiting", "looking", "processing", "stopped"}]
    BY <1>0 DEF SubAgentsTypeOK
  <2>3. FunctionOn(queues', 1..Items) /\ FunctionOn(loops', 1..Items) /\ FunctionOn(handed', 1..Items)
    BY <1>0 DEF SubAgentsTypeOK, FunctionOn
  <2> QED BY <1>0, <2>1, <2>2, <2>3 DEF SubAgentsTypeOK, FunctionOn
<1>5. \A b \in Agent : b # a => pc[b] \notin {"looking", "processing"}
  BY <1>0, <1>2 DEF QueuesOwned
<1>6. QueuesOwned'
  BY <1>2, <1>5 DEF QueuesOwned
<1>7. /\ queues[t] # <<>> /\ contexts[t] # None /\ x # None
      /\ round # 0 \/ contexts[t] = None
  BY <1>0, NoneIsNoContext DEF QueuesOwned, CallsOfRound
<1>8. CallsOfRound'
  <2>1. ASSUME NEW b \in Agent
        PROVE  /\ pc'[b] # "idle" => contexts'[TaskOf[b]] # None
               /\ pc'[b] = "stopped" => queues'[TaskOf[b]] = <<>>
               /\ pc'[b] \in {"waiting", "looking", "processing"} => known'[b] = contexts'[TaskOf[b]].round
    <3>1. CASE TaskOf[b] = t
      <4>1. pc'[b] # "stopped"
        BY <1>0, <1>2, <1>7, <3>1 DEF CallsOfRound
      <4>2. pc'[b] # "idle" => pc[b] # "idle" /\ (pc[b] \in {"waiting", "looking", "processing"} \/ pc[b] = "stopped")
        BY <1>0, <1>2 DEF SubAgentsTypeOK
      <4> QED BY <1>0, <1>1, <1>2, <1>7, <3>1, <4>1, <4>2 DEF CallsOfRound
    <3>2. CASE TaskOf[b] # t
      BY <1>0, <1>1, <1>2, <1>3, <3>2 DEF CallsOfRound
    <3> QED BY <3>1, <3>2
  <2> QED BY <1>2, <1>7, <2>1 DEF CallsOfRound
<1>9. TasksFollow(Runs)'
  BY <1>0, <1>1 DEF TasksFollow
<1> QED BY <1>4, <1>6, <1>8, <1>9 DEF SubAgentsInv

LEMMA ProcessStep ==
  ASSUME NEW Runs, RunsAlone(Runs), SubAgentsInv(Runs), NEW a \in Agent, Process(a)
  PROVE  SubAgentsInv(Runs)'
<1>1. PICK t \in 1..Items : t = TaskOf[a]
  BY SubAgentAssumption
<1>2. PICK s : s = Head(queues[t])
  OBVIOUS
<1>3. /\ pc[a] = "processing" /\ peeked[a] = s /\ queues[t] # <<>>
      /\ Popped(t) = Tail(queues[t])
      /\ UNCHANGED <<round, created, known, peeked>>
  BY <1>1, <1>2 DEF Process, SubAgentsInv, QueuesOwned, Popped
<1>4. /\ contexts[t] \in Context /\ known[a] = contexts[t].round
      /\ contexts[t] # None /\ Follows(Runs, queues[t], loops[t], contexts[t], handed[t])
      /\ contexts = [contexts EXCEPT ![t] = contexts[t]]
      /\ loops = [loops EXCEPT ![t] = loops[t]]
      /\ handed = [handed EXCEPT ![t] = handed[t]]
  BY <1>1, <1>3 DEF SubAgentsInv, SubAgentsTypeOK, CallsOfRound, TasksFollow, FunctionOn
<1>5. CASE HandOut(a, t, s)
  <2>1. /\ s.kind = "client"
        /\ queues' = [queues EXCEPT ![t] = Tail(queues[t])]
        /\ handed' = [handed EXCEPT ![t] =
             Append(handed[t], [step |-> s.name, round |-> contexts[t].round])]
        /\ pc' = [pc EXCEPT ![a] = "idle"] /\ lock' = Free
        /\ UNCHANGED <<contexts, loops>>
    BY <1>3, <1>4, <1>5 DEF HandOut, Release
  <2>2. Follows(Runs, Tail(queues[t]), loops[t], contexts[t],
                Append(handed[t], [step |-> s.name, round |-> contexts[t].round]))
    BY <1>2, <1>3, <1>4, <2>1, ClientFollows
  <2>3. Leaves(a, t, Tail(queues[t]), loops[t], contexts[t],
               Append(handed[t], [step |-> s.name, round |-> contexts[t].round]))
    BY <1>3, <1>4, <2>1 DEF Leaves
  <2> QED BY <1>1, <1>3, <1>4, <2>2, <2>3, TaskGoesOn
<1>6. CASE Skip(a, t, s)
  <2>1. /\ s.kind = "skip"
        /\ queues' = [queues EXCEPT ![t] = Tail(queues[t])]
        /\ pc' = [pc EXCEPT ![a] = "looking"]
        /\ UNCHANGED <<contexts, loops, lock, handed>>
    BY <1>3, <1>6 DEF Skip, GoesOn
  <2>2. Follows(Runs, Tail(queues[t]), loops[t], contexts[t], handed[t])
    BY <1>2, <1>3, <1>4, <2>1, OthersFollow
  <2>3. Leaves(a, t, Tail(queues[t]), loops[t], contexts[t], handed[t])
    BY <1>3, <1>4, <2>1 DEF Leaves
  <2> QED BY <1>1, <1>3, <1>4, <2>2, <2>3, TaskGoesOn
<1>7. CASE Update(a, t, s)
  <2> DEFINE x == [contexts[t] EXCEPT !.raw = @ + 1]
  <2>1. /\ s.kind = "update"
        /\ queues' = [queues EXCEPT ![t] = Tail(queues[t])]
        /\ contexts' = [contexts EXCEPT ![t] = x]
        /\ pc' = [pc EXCEPT ![a] = "looking"]
        /\ UNCHANGED <<loops, lock, handed>>
    <3>1. /\ s.kind = "update"
          /\ queues' = [queues EXCEPT ![t] = Tail(queues[t])]
          /\ contexts' = [contexts EXCEPT ![t].raw = @ + 1]
          /\ pc' = [pc EXCEPT ![a] = "looking"]
          /\ UNCHANGED <<loops, lock, handed>>
      BY <1>3, <1>7 DEF Update, GoesOn
    <3>2. [contexts EXCEPT ![t].raw = @ + 1] = [contexts EXCEPT ![t] = x]
      BY <1>1, <1>4 DEF Context, SubAgentsInv, SubAgentsTypeOK
    <3> QED BY <3>1, <3>2
  <2>2. x \in Context /\ x.round = contexts[t].round
    BY <1>4, CountedContext
  <2>3. Follows(Runs, Tail(queues[t]), loops[t], x, handed[t])
    BY <1>2, <1>3, <1>4, <2>1, OthersFollow
  <2> HIDE DEF x
  <2>4. Leaves(a, t, Tail(queues[t]), loops[t], x, handed[t])
    BY <1>3, <1>4, <2>1 DEF Leaves
  <2> QED BY <1>1, <1>3, <1>4, <2>2, <2>3, <2>4, TaskGoesOn
<1>8. CASE ExpandConditional(a, t, s)
  <2> DEFINE q == (IF contexts[t].raw >= s.n THEN s.body ELSE s.other) \o Tail(queues[t])
  <2>1. /\ s.kind = "if"
        /\ queues' = [queues EXCEPT ![t] = q]
        /\ pc' = [pc EXCEPT ![a] = "looking"]
        /\ UNCHANGED <<contexts, loops, lock, handed>>
    BY <1>3, <1>8 DEF ExpandConditional, GoesOn
  <2>2. Follows(Runs, q, loops[t], contexts[t], handed[t])
    BY <1>2, <1>3, <1>4, <2>1, OthersFollow
  <2> HIDE DEF q
  <2>3. Leaves(a, t, q, loops[t], contexts[t], handed[t])
    BY <1>3, <1>4, <2>1 DEF Leaves
  <2> QED BY <1>1, <1>3, <1>4, <2>2, <2>3, TaskGoesOn
<1>9. CASE ExpandWhile(a, t, s) \/ ExpandForeach(a, t, s)
  <2> DEFINE more == IF s.kind = "while" THEN WhileMore(loops[t], contexts[t].raw, s)
                                         ELSE ForeachMore(loops[t], s)
             q == s.body \o <<s>> \o Tail(queues[t])
             l == Counted(loops[t], s)
             f == Front(LoopOf(loops[t], s))
  <2>1. /\ s.kind \in {"while", "foreach"} /\ Expand(a, t, s, more)
    BY <1>9 DEF ExpandWhile, ExpandForeach
  <2>2. /\ \/ more /\ queues' = [queues EXCEPT ![t] = q] /\ loops' = [loops EXCEPT ![t] = l]
           \/ /\ ~more
              /\ queues' = [queues EXCEPT ![t] = Tail(queues[t])] /\ loops' = [loops EXCEPT ![t] = f]
        /\ pc' = [pc EXCEPT ![a] = "looking"]
        /\ UNCHANGED <<contexts, lock, handed>>
    <3> HIDE DEF more
    <3> QED BY <1>3, <2>1 DEF Expand, GoesOn
  <2>3. IF more THEN Follows(Runs, q, l, contexts[t], handed[t])
                ELSE Follows(Runs, Tail(queues[t]), f, contexts[t], handed[t])
    <3>1. s.kind \in {"while", "foreach"}
      BY <2>1
    <3>2. CASE s.kind = "while"
      BY <1>2, <1>3, <1>4, <3>2, OthersFollow
    <3>3. CASE s.kind = "foreach"
      BY <1>2, <1>3, <1>4, <3>3, OthersFollow
    <3> QED BY <3>1, <3>2, <3>3
  <2> HIDE DEF more, q, l, f
  <2>4. CASE more
    <3>1. Leaves(a, t, q, l, contexts[t], handed[t])
      BY <1>3, <1>4, <2>2, <2>4 DEF Leaves
    <3> QED BY <1>1, <1>3, <1>4, <2>3, <2>4, <3>1, TaskGoesOn
  <2>5. CASE ~more
    <3>1. Leaves(a, t, Tail(queues[t]), f, contexts[t], handed[t])
      BY <1>3, <1>4, <2>2, <2>5 DEF Leaves
    <3> QED BY <1>1, <1>3, <1>4, <2>3, <2>5, <3>1, TaskGoesOn
  <2> QED BY <2>4, <2>5
<1> QED BY <1>1, <1>3, <1>5, <1>6, <1>7, <1>8, <1>9 DEF Process

LEMMA SubAgentsStepOK ==
  ASSUME NEW Runs, RunsAlone(Runs), ~Overlap
  PROVE  SubAgentsInv(Runs) /\ [Next]_vars => SubAgentsInv(Runs)'
<1> SUFFICES ASSUME SubAgentsInv(Runs), [Next]_vars PROVE SubAgentsInv(Runs)'
  OBVIOUS
<1>1. CASE PrepareBegin
  BY <1>1, PrepareBeginStep
<1>2. CASE CreateTask
  BY <1>2, CreateTaskStep
<1>3. CASE PrepareEnd
  BY <1>3, PrepareEndStep
<1>4. ASSUME NEW a \in Agent, AgentStep(a) PROVE SubAgentsInv(Runs)'
  BY <1>4, CallStep, ProcessStep DEF AgentStep
<1>5. CASE UNCHANGED vars
  BY <1>5 DEF vars, SubAgentsInv, SubAgentsTypeOK, FunctionOn, QueuesOwned, CallsOfRound, TasksFollow
<1> QED BY <1>1, <1>2, <1>3, <1>4, <1>5 DEF Next

LEMMA FollowedIsRun ==
  ASSUME NEW Runs, RunsAlone(Runs), SubAgentsInv(Runs)
  PROVE  RunsTask
<1> SUFFICES ASSUME NEW t \in Tasks, contexts[t] # None
             PROVE  LET all == [i \in DOMAIN Expected |->
                                  [step |-> Expected[i], round |-> contexts[t].round]]
                    IN  /\ IsPrefix(handed[t], all)
                        /\ (\E a \in Agent : TaskOf[a] = t /\ pc[a] = "stopped") => handed[t] = all
  BY DEF RunsTask
<1>1. Len(Expected) \in Nat /\ DOMAIN Expected = 1..Len(Expected)
  BY SubAgentAssumption, LenProperties
<1>2. PICK r : r = contexts[t].round
  OBVIOUS
<1>3. [i \in DOMAIN Expected |-> [step |-> Expected[i], round |-> contexts[t].round]]
        = Stamped(Len(Expected), r)
  BY <1>1, <1>2 DEF Stamped
<1>4. PICK n \in 0..Len(Expected) :
        /\ handed[t] = Stamped(n, r)
        /\ Alone(queues[t], loops[t], contexts[t].raw, n + 1) \in Runs
  BY <1>2, TasksAreItems DEF SubAgentsInv, TasksFollow, Follows
<1>5. IsPrefix(Stamped(n, r), Stamped(Len(Expected), r))
  BY <1>1, StampedPrefix
<1>6. ASSUME NEW a \in Agent, TaskOf[a] = t, pc[a] = "stopped" PROVE n = Len(Expected)
  <2>1. queues[t] = <<>>
    BY <1>6 DEF SubAgentsInv, CallsOfRound
  <2> DEFINE c == Alone(queues[t], loops[t], contexts[t].raw, n + 1)
  <2>2. c.queue = <<>> /\ c.next = n + 1
    BY <2>1 DEF Alone
  <2>3. c \in Runs
    BY <1>4
  <2> HIDE DEF c
  <2>4. \A d \in Runs : d.queue = <<>> => d.next = Len(Expected) + 1
    BY Zenon DEF RunsAlone
  <2>5. c.next = Len(Expected) + 1
    BY <2>2, <2>3, <2>4
  <2>6. n \in Nat /\ Len(Expected) \in Nat /\ n + 1 = Len(Expected) + 1
    BY <1>1, <2>2, <2>5
  <2> QED BY <2>6
<1>7. (\E a \in Agent : TaskOf[a] = t /\ pc[a] = "stopped") => handed[t] = Stamped(Len(Expected), r)
  BY <1>4, <1>6
<1> QED BY <1>3, <1>4, <1>5, <1>7

(* However many agents there are and however their calls are interleaved:  *)
(* if Program makes a single agent hand out what is expected, then each    *)
(* task hands it out too, in order, once, with the context of its round,   *)
(* provided that no round begins before the agents of the last are done.   *)
THEOREM RunsAsAlone ==
  ASSUME NEW CONSTANT Runs, RunsAlone(Runs), ~Overlap
  PROVE  Spec => []RunsTask
<1>1. Init => SubAgentsInv(Runs)
  BY SubAgentsInitOK
<1>2. SubAgentsInv(Runs) /\ [Next]_vars => SubAgentsInv(Runs)'
  BY SubAgentsStepOK
<1>3. SubAgentsInv(Runs) => RunsTask
  BY FollowedIsRun
<1> QED BY <1>1, <1>2, <1>3, PTL DEF Spec
=============================================================================
