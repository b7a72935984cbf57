------------------------ MODULE WorkflowSessionProofs ------------------------
(***************************************************************************)
(* Theorems about WorkflowSession, for every set of workflows and clients: *)
(* one call at a time works on a queue, so that no step is lost or taken   *)
(* twice; and what shutdown found started does not run when it returns.    *)
(***************************************************************************)
EXTENDS WorkflowSession, FiniteSetTheorems, SequenceTheorems, TLAPS

-----------------------------------------------------------------------------
(* Types.  A thread inside get_next_step is there for some workflow.       *)

Typed ==
  /\ TypeOK
  /\ \A t \in Thread : pc[t] # "idle" => on[t] \in Workflow

(* What TypeOK says of the variables of get_next_step.                     *)
CallTypeOK ==
  /\ pc \in [Thread -> {"idle", "found", "waiting"} \cup Inside]
  /\ on \in [Thread -> Workflow \cup {None}]
  /\ mine \in [Thread -> Nat] /\ peeked \in [Thread -> Nat]
  /\ answer \in [Thread -> {"dict", "over", "missing", "raised"}]
  /\ \A t \in Thread : pc[t] # "idle" => on[t] \in Workflow

LEMMA GotoTyped ==
  ASSUME CallTypeOK, NEW t \in Thread, on[t] \in Workflow, UNCHANGED on,
         NEW l \in {"idle", "found", "waiting"} \cup Inside, Goto(t, l)
  PROVE  /\ pc' \in [Thread -> {"idle", "found", "waiting"} \cup Inside]
         /\ \A u \in Thread : pc'[u] # "idle" => on'[u] \in Workflow
BY DEF CallTypeOK, Goto

LEMMA ReturnTyped ==
  ASSUME CallTypeOK, NEW t \in Thread, UNCHANGED on,
         NEW a \in {"dict", "over", "missing", "raised"}, Return(t, a)
  PROVE  CallTypeOK'
<1>1. pc' \in [Thread -> {"idle", "found", "waiting"} \cup Inside]
  BY DEF CallTypeOK, Return, Goto
<1>2. \A u \in Thread : pc'[u] # "idle" => on'[u] \in Workflow
  BY DEF CallTypeOK, Return, Goto
<1>3. /\ mine' \in [Thread -> Nat] /\ peeked' \in [Thread -> Nat]
      /\ answer' \in [Thread -> {"dict", "over", "missing", "raised"}]
  BY DEF CallTypeOK, Return
<1> QED BY <1>1, <1>2, <1>3 DEF CallTypeOK

LEMMA CalledTyped ==
  ASSUME CallTypeOK, NEW t \in Thread, NEW w \in Workflow, Call(t, w)
  PROVE  CallTypeOK'
<1>1. /\ on' \in [Thread -> Workflow \cup {None}]
      /\ on' = [on EXCEPT ![t] = w]
  BY DEF CallTypeOK, Call
<1>2. CASE w \in workflows
  <2>1. /\ pc' = [pc EXCEPT ![t] = "found"]
        /\ UNCHANGED <<answer, mine, peeked>>
    BY <1>2 DEF Call, Goto
  <2> QED BY <1>1, <2>1 DEF CallTypeOK
<1>3. CASE w \notin workflows
  <2>1. /\ pc' = [pc EXCEPT ![t] = "idle"]
        /\ answer' = [answer EXCEPT ![t] = "missing"]
        /\ mine' = [mine EXCEPT ![t] = 0]
        /\ peeked' = [peeked EXCEPT ![t] = 0]
    BY <1>3 DEF Call, Goto, Return
  <2>2. /\ pc' \in [Thread -> {"idle", "found", "waiting"} \cup Inside]
        /\ \A u \in Thread : pc'[u] # "idle" => on'[u] \in Workflow
    BY <1>1, <2>1 DEF CallTypeOK
  <2>3. /\ mine' \in [Thread -> Nat] /\ peeked' \in [Thread -> Nat]
        /\ answer' \in [Thread -> {"dict", "over", "missing", "raised"}]
    BY <2>1 DEF CallTypeOK
  <2> QED BY <1>1, <2>2, <2>3 DEF CallTypeOK
<1> QED BY <1>2, <1>3

LEMMA SizeTyped == Cardinality(workflows) \in Nat
<1>1. workflows \in SUBSET Workflow
  BY DEF workflows
<1> QED BY <1>1, SessionAssumption, FS_Subset, FS_CardinalityType

LEMMA InitTyped == Init => Typed
<1> SUFFICES ASSUME Init PROVE Typed
  OBVIOUS
<1>1. main \in [Workflow -> Seq(Nat)]
  <2>1. \A w \in Workflow : [i \in 1 .. Len(Program[w]) |-> i] \in Seq(Nat)
    BY SessionAssumption
  <2> QED BY <2>1 DEF Init
<1>2. taken \in [Workflow -> Seq(Nat)]
  BY DEF Init
<1> QED BY <1>1, <1>2 DEF Init, Typed, TypeOK, Stages, Inside

(* The actions of start and of the removal of a workflow.                  *)
LEMMA StageTyped ==
  ASSUME Typed, NEW w \in Workflow, Starter(w) \/ Remover(w)
  PROVE  Typed'
<1>1. stage' \in [Workflow -> Stages]
  BY DEF Typed, TypeOK, Stages, Starter, Remover, StartInstance, StartQueue, RemoveInstance,
     RemoveQueue, RemoveLock, Advance
<1>2. lock' \in [Workflow -> Nat]
  BY DEF Typed, TypeOK, Starter, Remover, StartInstance, StartQueue, RemoveInstance,
     RemoveQueue, RemoveLock, lockVars
<1>3. UNCHANGED <<made, queueVars, status, callVars, loopVars>>
  BY DEF Starter, Remover, StartInstance, StartQueue, RemoveInstance, RemoveQueue, RemoveLock,
     lockVars
<1> QED BY <1>1, <1>2, <1>3
  DEF Typed, TypeOK, queueVars, callVars, loopVars, shutdownVars, cancelVars, iterVars

(* The event loop.                                                         *)
LEMMA LoopTyped ==
  ASSUME Typed,
         \/ ShutdownBegin \/ ShutdownGoesOn \/ ClockPasses
         \/ CancelBegin \/ CancelGoesOn
  PROVE  Typed'
<1> USE DEF Typed, TypeOK, threadVars, lockVars, queueVars, callVars, cancelVars, iterVars,
        shutdownVars
<1>1. CASE ShutdownBegin
  BY <1>1, SizeTyped DEF ShutdownBegin, BeginIteration
<1>2. ASSUME NEW w \in Workflow, ShutdownVisit(w) PROVE Typed'
  BY <1>2 DEF ShutdownVisit, Visit
<1>3. ASSUME NEW w \in Workflow, ShutdownCall(w) PROVE Typed'
  <2>1. Worker \in Thread
    BY DEF Thread
  <2>2. CallTypeOK'
    BY <1>3, <2>1, CalledTyped DEF ShutdownCall, CallTypeOK
  <2>3. asked' \in Workflow \cup {None}
    BY <1>3 DEF ShutdownCall
  <2>4. UNCHANGED <<stage, lockVars, queueVars, status, shutdown, active, owed, round, late,
                    cancelVars, iterVars>>
    BY <1>3 DEF ShutdownCall
  <2> QED BY <2>2, <2>3, <2>4 DEF CallTypeOK
<1>4. ASSUME NEW w \in Workflow, ForceStop(w) PROVE Typed'
  BY <1>4 DEF ForceStop
<1>5. CASE ShutdownListed
  BY <1>5 DEF ShutdownListed, EndIteration
<1>6. CASE ShutdownRound
  BY <1>6 DEF ShutdownRound
<1>7. CASE ShutdownAnswer
  BY <1>7 DEF ShutdownAnswer, Thread
<1>8. CASE ShutdownLeave
  BY <1>8 DEF ShutdownLeave
<1>9. CASE ShutdownEnd
  BY <1>9 DEF ShutdownEnd
<1>10. CASE ClockPasses
  BY <1>10 DEF ClockPasses
<1>11. CASE CancelBegin
  BY <1>11, SizeTyped DEF CancelBegin, BeginIteration
<1>12. ASSUME NEW w \in Workflow, CancelVisit(w) PROVE Typed'
  BY <1>12 DEF CancelVisit, Visit
<1>13. CASE CancelWrite
  BY <1>13, SessionAssumption DEF CancelWrite
<1>14. CASE CancelEnd
  BY <1>14 DEF CancelEnd, EndIteration
<1> QED BY <1>1, <1>2, <1>3, <1>4, <1>5, <1>6, <1>7, <1>8, <1>9, <1>10, <1>11, <1>12, <1>13,
  <1>14 DEF ShutdownGoesOn, CancelGoesOn

(* The threads in get_next_step.                                           *)
LEMMA CallTyped ==
  ASSUME Typed, NEW t \in Thread, InCall(t) \/ ClientCall(t)
  PROVE  Typed'
<1> DEFINE SharedOK == /\ lock' \in [Workflow -> Nat] /\ made' \in [Workflow -> Nat]
                       /\ main' \in [Workflow -> Seq(Nat)]
                       /\ taken' \in [Workflow -> Seq(Nat)]
                       /\ status' \in [Workflow -> {"running", "completed", "stopped", "cancelled"}]
                       /\ UNCHANGED <<stage, loopVars>>
<1>1. CallTypeOK /\ TypeOK
  BY DEF Typed, TypeOK, CallTypeOK
<1>2. ASSUME CallTypeOK', SharedOK PROVE Typed'
  BY <1>1, <1>2 DEF Typed, TypeOK, CallTypeOK, loopVars, cancelVars, iterVars, shutdownVars
<1>3. ASSUME UNCHANGED <<stage, lockVars, queueVars, status, loopVars>> PROVE SharedOK
  BY <1>1, <1>3 DEF TypeOK, lockVars, queueVars
<1>4. ASSUME pc[t] # "idle" PROVE on[t] \in Workflow
  BY <1>1, <1>4 DEF CallTypeOK
<1>5. CASE ClientCall(t)
  <2>1. PICK w \in Known : Call(t, w)
    BY <1>5 DEF ClientCall
  <2>2. CallTypeOK'
    BY <1>1, <2>1, CalledTyped DEF Known
  <2> QED BY <1>2, <1>3, <1>5, <2>2 DEF ClientCall
<1>6. CASE GetLock(t)
  <2>1. on[t] \in Workflow
    BY <1>4, <1>6 DEF GetLock
  <2>2. mine' \in [Thread -> Nat] /\ lock' \in [Workflow -> Nat] /\ made' \in [Workflow -> Nat]
    <3>1. /\ mine \in [Thread -> Nat]
          /\ lock \in [Workflow -> Nat] /\ made \in [Workflow -> Nat]
      BY <1>1 DEF TypeOK
    <3>2. CASE lock[on[t]] = 0
      BY <1>6, <2>1, <3>1, <3>2 DEF GetLock
    <3>3. CASE lock[on[t]] # 0
      BY <1>6, <2>1, <3>1, <3>3 DEF GetLock, lockVars
    <3> QED BY <3>2, <3>3
  <2>3. UNCHANGED <<stage, queueVars, status, on, peeked, answer, loopVars>>
    BY <1>6 DEF GetLock
  <2>4. CallTypeOK'
    <3>1. Goto(t, "waiting")
      BY <1>6 DEF GetLock
    <3>2. /\ pc' \in [Thread -> {"idle", "found", "waiting"} \cup Inside]
          /\ \A u \in Thread : pc'[u] # "idle" => on'[u] \in Workflow
      BY <1>1, <2>1, <2>3, <3>1, GotoTyped
    <3> QED BY <1>1, <2>2, <2>3, <3>2 DEF CallTypeOK
  <2>5. SharedOK
    BY <1>1, <2>2, <2>3 DEF TypeOK, queueVars
  <2> QED BY <1>2, <2>4, <2>5
<1>7. CASE Acquire(t)
  <2>1. CallTypeOK'
    BY <1>1, <1>4, <1>7, GotoTyped DEF Acquire, CallTypeOK, Inside
  <2> QED BY <1>2, <1>3, <1>7, <2>1 DEF Acquire
<1>8. CASE ReadQueue(t)
  <2>1. CallTypeOK'
    <3>1. CASE on[t] \in queues \cap workflows
      BY <1>1, <1>4, <1>8, <3>1, GotoTyped DEF ReadQueue, CallTypeOK, Inside
    <3>2. CASE on[t] \notin queues \cap workflows
      BY <1>1, <1>8, <3>2, ReturnTyped DEF ReadQueue
    <3> QED BY <3>1, <3>2
  <2> QED BY <1>2, <1>3, <1>8, <2>1 DEF ReadQueue
<1>9. CASE Peek(t)
  <2>1. on[t] \in Workflow
    BY <1>4, <1>9 DEF Peek
  <2>2. Head(main[on[t]]) \in Nat
    BY <1>1, <1>9, <2>1 DEF Peek, TypeOK
  <2>3. CallTypeOK'
    BY <1>1, <1>9, <2>1, <2>2, GotoTyped DEF Peek, CallTypeOK, Inside
  <2> QED BY <1>2, <1>3, <1>9, <2>3 DEF Peek
<1>10. CASE Pop(t)
  <2>1. on[t] \in Workflow
    BY <1>4, <1>10 DEF Pop
  <2>2. /\ SubSeq(main[on[t]], 2, Len(main[on[t]])) \in Seq(Nat)
        /\ Append(taken[on[t]], peeked[t]) \in Seq(Nat)
    BY <1>1, <2>1 DEF TypeOK
  <2>3. main' \in [Workflow -> Seq(Nat)] /\ taken' \in [Workflow -> Seq(Nat)]
    BY <1>1, <1>10, <2>1, <2>2 DEF Pop, TypeOK
  <2>4. UNCHANGED <<stage, lockVars, status, on, loopVars>>
    BY <1>10 DEF Pop
  <2>5. CallTypeOK'
    <3>1. CASE Goto(t, "scan") /\ UNCHANGED <<answer, mine, peeked>>
      BY <1>1, <2>1, <2>4, <3>1, GotoTyped DEF CallTypeOK, Inside
    <3>2. CASE Return(t, "dict")
      BY <1>1, <2>4, <3>2, ReturnTyped
    <3> QED BY <1>10, <3>1, <3>2 DEF Pop
  <2>6. SharedOK
    BY <1>1, <2>3, <2>4 DEF TypeOK, lockVars
  <2> QED BY <1>2, <2>5, <2>6
<1>11. CASE Complete(t)
  <2>1. CallTypeOK'
    BY <1>1, <1>11, ReturnTyped DEF Complete
  <2>2. SharedOK
    BY <1>1, <1>11 DEF Complete, TypeOK, lockVars, queueVars
  <2> QED BY <1>2, <2>1, <2>2
<1> QED BY <1>5, <1>6, <1>7, <1>8, <1>9, <1>10, <1>11 DEF InCall

LEMMA NextTyped == Typed /\ [Next]_vars => Typed'
<1> SUFFICES ASSUME Typed, [Next]_vars PROVE Typed'
  OBVIOUS
<1>1. CASE UNCHANGED vars
  BY <1>1 DEF vars, Typed, TypeOK, lockVars, queueVars, callVars, loopVars, cancelVars,
     iterVars, shutdownVars
<1>2. CASE Next
  BY <1>2, StageTyped, LoopTyped, CallTyped DEF Next, Thread
<1> QED BY <1>1, <1>2

(* The variables keep their types, for every set of workflows and clients. *)
THEOREM TypeCorrect == Spec => []TypeOK
<1>1. Typed => TypeOK
  BY DEF Typed
<1> QED BY <1>1, InitTyped, NextTyped, PTL DEF Spec

-----------------------------------------------------------------------------
(* One call at a time.  A workflow that is still somewhere in the          *)
(* dictionaries has had at most one lock object, and it has it; only a     *)
(* removed one can get another.  So a thread that found the queue under    *)
(* its lock holds the first object, for which there is one holder.         *)

LocksMade ==
  \A w \in Workflow :
    /\ lock[w] \in 0 .. made[w]
    /\ stage[w] # "removed" => lock[w] = made[w] /\ made[w] <= 1

LockOfThread(t) ==
  /\ pc[t] \in {"waiting"} \cup Inside => mine[t] \in 1 .. made[on[t]]
  /\ Working(t) => mine[t] = 1

OneHolder(t, u) ==
  pc[t] \in Inside /\ pc[u] \in Inside /\ on[t] = on[u] /\ mine[t] = mine[u] => t = u

Locks ==
  /\ LocksMade
  /\ \A t \in Thread : LockOfThread(t)
  /\ \A t, u \in Thread : OneHolder(t, u)

LEMMA LocksExclude == Locks => OneCallAtATime
BY DEF Locks, LockOfThread, OneHolder, OneCallAtATime, Working, Inside

(* A thread that is not at, or leaves, the lock does not disturb it.       *)
LEMMA LeavingKeepsLocks ==
  ASSUME Typed, Locks, NEW t \in Thread, UNCHANGED <<stage, lockVars>>,
         NEW l \in {"idle", "found"}, pc' = [pc EXCEPT ![t] = l],
         \A u \in Thread \ {t} : on'[u] = on[u] /\ mine'[u] = mine[u]
  PROVE  Locks'
<1>1. \A u \in Thread : pc'[u] = IF u = t THEN l ELSE pc[u]
  BY DEF Typed, TypeOK
<1>2. LocksMade'
  BY DEF Locks, LocksMade, lockVars
<1>3. ASSUME NEW u \in Thread PROVE LockOfThread(u)'
  BY <1>1 DEF Locks, LockOfThread, Working, Inside, lockVars
<1>4. ASSUME NEW u \in Thread, NEW v \in Thread PROVE OneHolder(u, v)'
  BY <1>1 DEF Locks, OneHolder, Inside
<1> QED BY <1>2, <1>3, <1>4 DEF Locks

(* Nor does a thread that goes on while it holds the lock.                 *)
LEMMA HoldingKeepsLocks ==
  ASSUME Typed, Locks, NEW t \in Thread, UNCHANGED <<stage, lockVars, on, mine>>,
         NEW l \in Inside, pc' = [pc EXCEPT ![t] = l],
         pc[t] \in Inside, mine[t] = 1
  PROVE  Locks'
<1>1. \A u \in Thread : pc'[u] = IF u = t THEN l ELSE pc[u]
  BY DEF Typed, TypeOK
<1>2. LocksMade'
  BY DEF Locks, LocksMade, lockVars
<1>3. ASSUME NEW u \in Thread PROVE LockOfThread(u)'
  BY <1>1 DEF Locks, LockOfThread, Working, Inside, lockVars
<1>4. ASSUME NEW u \in Thread, NEW v \in Thread PROVE OneHolder(u, v)'
  BY <1>1 DEF Locks, OneHolder
<1> QED BY <1>2, <1>3, <1>4 DEF Locks

(* Start and removal: the lock is forgotten last.                          *)
LEMMA StageKeepsLocks ==
  ASSUME Typed, Locks, NEW w \in Workflow, Starter(w) \/ Remover(w)
  PROVE  Locks'
<1>1. UNCHANGED <<made, callVars>>
  BY DEF Starter, Remover, StartInstance, StartQueue, RemoveInstance, RemoveQueue, RemoveLock,
     lockVars
<1>2. LocksMade'
  <2>1. /\ stage \in [Workflow -> Stages] /\ lock \in [Workflow -> Nat]
        /\ made \in [Workflow -> Nat]
    BY DEF Typed, TypeOK
  <2>2. CASE RemoveLock(w)
    BY <2>1, <2>2 DEF RemoveLock, Advance, Locks, LocksMade
  <2>3. CASE Starter(w) \/ RemoveInstance(w) \/ RemoveQueue(w)
    <3>1. UNCHANGED lock /\ stage[w] # "removed"
      BY <2>3 DEF Starter, StartInstance, StartQueue, RemoveInstance, RemoveQueue, Advance,
         lockVars
    <3>2. \A v \in Workflow : stage[v] = "removed" => stage'[v] = "removed"
      BY <2>1, <2>3 DEF Starter, StartInstance, StartQueue, RemoveInstance, RemoveQueue, Advance
    <3> QED BY <1>1, <3>1, <3>2 DEF Locks, LocksMade
  <2> QED BY <2>2, <2>3 DEF Remover
<1> QED BY <1>1, <1>2 DEF Locks, LockOfThread, OneHolder, Working, callVars

LEMMA CallKeepsLocks ==
  ASSUME Typed, Locks, NEW t \in Thread, InCall(t)
  PROVE  Locks'
<1>1. /\ pc \in [Thread -> {"idle", "found", "waiting"} \cup Inside]
      /\ mine \in [Thread -> Nat] /\ lock \in [Workflow -> Nat] /\ made \in [Workflow -> Nat]
      /\ on \in [Thread -> Workflow \cup {None}]
      /\ \A u \in Thread : pc[u] # "idle" => on[u] \in Workflow
  BY DEF Typed, TypeOK
<1>2. ASSUME NEW a, Return(t, a), UNCHANGED <<stage, lockVars, on>> PROVE Locks'
  <2>1. /\ pc' = [pc EXCEPT ![t] = "idle"]
        /\ \A u \in Thread \ {t} : on'[u] = on[u] /\ mine'[u] = mine[u]
    BY <1>1, <1>2 DEF Return, Goto
  <2> QED BY <1>2, <2>1, LeavingKeepsLocks
<1>3. CASE GetLock(t)
  <2> DEFINE w == on[t]
  <2>1. /\ w \in Workflow /\ pc[t] = "found"
        /\ UNCHANGED <<stage, on>>
    BY <1>1, <1>3 DEF GetLock
  <2>2. pc' = [pc EXCEPT ![t] = "waiting"]
    BY <1>3 DEF GetLock, Goto
  <2>3. /\ \A v \in Workflow \ {w} : lock'[v] = lock[v] /\ made'[v] = made[v]
        /\ made'[w] \in Nat /\ made[w] <= made'[w]
        /\ mine'[t] = lock'[w] /\ lock'[w] \in 1 .. made'[w]
        /\ \A u \in Thread \ {t} : mine'[u] = mine[u]
        /\ stage[w] # "removed" => lock'[w] = made'[w] /\ made'[w] <= 1
    <3>1. lock[w] \in 0 .. made[w]
      BY <2>1 DEF Locks, LocksMade
    <3>2. CASE lock[w] = 0
      <4>1. /\ made' = [made EXCEPT ![w] = made[w] + 1]
            /\ lock' = [lock EXCEPT ![w] = made[w] + 1]
            /\ mine' = [mine EXCEPT ![t] = made[w] + 1]
        BY <1>1, <1>3, <2>1, <3>2 DEF GetLock
      <4>2. stage[w] # "removed" => made[w] = 0
        BY <2>1, <3>2 DEF Locks, LocksMade
      <4> QED BY <1>1, <2>1, <4>1, <4>2
    <3>3. CASE lock[w] # 0
      <4>1. UNCHANGED lockVars /\ mine' = [mine EXCEPT ![t] = lock[w]]
        BY <1>3, <3>3 DEF GetLock
      <4>2. stage[w] # "removed" => lock[w] = made[w] /\ made[w] <= 1
        BY <2>1 DEF Locks, LocksMade
      <4> QED BY <1>1, <2>1, <3>1, <3>3, <4>1, <4>2 DEF lockVars
    <3> QED BY <3>2, <3>3
  <2>4. LocksMade'
    BY <1>1, <2>1, <2>3 DEF Locks, LocksMade
  <2>5. ASSUME NEW u \in Thread PROVE LockOfThread(u)'
    <3>1. CASE u = t
      BY <1>1, <2>1, <2>2, <2>3, <3>1 DEF LockOfThread, Working
    <3>2. CASE u # t
      <4>1. pc'[u] = pc[u] /\ mine'[u] = mine[u] /\ on'[u] = on[u]
        BY <1>1, <2>1, <2>2, <2>3, <3>2
      <4>2. pc[u] # "idle" => made[on[u]] \in Nat /\ made'[on[u]] \in Nat /\ made[on[u]] <= made'[on[u]]
        BY <1>1, <2>1, <2>3
      <4>3. LockOfThread(u)
        BY DEF Locks
      <4> QED BY <1>1, <2>1, <4>1, <4>2, <4>3 DEF LockOfThread, Working, Inside
    <3> QED BY <3>1, <3>2
  <2>6. ASSUME NEW u \in Thread, NEW v \in Thread PROVE OneHolder(u, v)'
    BY <1>1, <2>1, <2>2, <2>3 DEF Locks, OneHolder, Inside
  <2> QED BY <2>4, <2>5, <2>6 DEF Locks
<1>4. CASE Acquire(t)
  <2>1. /\ UNCHANGED <<stage, lockVars, on, mine>>
        /\ pc[t] = "waiting"
        /\ \A u \in Thread : ~Holds(u, on[t], mine[t])
    BY <1>4 DEF Acquire
  <2>2. \A u \in Thread : pc'[u] = IF u = t THEN "read" ELSE pc[u]
    BY <1>1, <1>4 DEF Acquire, Goto
  <2>3. LocksMade'
    BY <2>1 DEF Locks, LocksMade, lockVars
  <2>4. ASSUME NEW u \in Thread PROVE LockOfThread(u)'
    BY <2>1, <2>2 DEF Locks, LockOfThread, Working, Inside, lockVars
  <2>5. ASSUME NEW u \in Thread, NEW v \in Thread PROVE OneHolder(u, v)'
    BY <2>1, <2>2 DEF Locks, OneHolder, Holds
  <2> QED BY <2>3, <2>4, <2>5 DEF Locks
<1>5. CASE ReadQueue(t)
  <2>1. UNCHANGED <<stage, lockVars, on>> /\ pc[t] = "read"
    BY <1>5 DEF ReadQueue
  <2>2. CASE on[t] \in queues \cap workflows
    <3>1. pc' = [pc EXCEPT ![t] = "scan"] /\ UNCHANGED mine
      BY <1>5, <2>2 DEF ReadQueue, Goto
    <3>2. made[on[t]] <= 1
      BY <2>2 DEF queues, workflows, Locks, LocksMade
    <3>3. mine[t] \in 1 .. made[on[t]]
      BY <2>1 DEF Locks, LockOfThread, Inside
    <3>4. mine[t] = 1
      BY <1>1, <2>2, <3>2, <3>3 DEF queues
    <3> QED BY <2>1, <3>1, <3>4, HoldingKeepsLocks DEF Inside
  <2>3. CASE on[t] \notin queues \cap workflows
    BY <1>2, <1>5, <2>1, <2>3 DEF ReadQueue
  <2> QED BY <2>2, <2>3
<1>6. ASSUME pc[t] \in {"scan", "pop"} PROVE mine[t] = 1
  BY <1>6 DEF Locks, LockOfThread, Working
<1>7. CASE Peek(t)
  BY <1>6, <1>7, HoldingKeepsLocks DEF Peek, Goto, Inside
<1>8. CASE Pop(t)
  <2>1. UNCHANGED <<stage, lockVars, on>> /\ pc[t] = "pop"
    BY <1>8 DEF Pop
  <2>2. CASE Goto(t, "scan") /\ UNCHANGED <<answer, mine, peeked>>
    BY <1>6, <2>1, <2>2, HoldingKeepsLocks DEF Goto, Inside
  <2>3. CASE Return(t, "dict")
    BY <1>2, <2>1, <2>3
  <2> QED BY <1>8, <2>2, <2>3 DEF Pop
<1>9. CASE Complete(t)
  BY <1>2, <1>9 DEF Complete
<1> QED BY <1>3, <1>4, <1>5, <1>7, <1>8, <1>9 DEF InCall

(* A call begins with the thread nowhere near the lock.                    *)
LEMMA CalledKeepsLocks ==
  ASSUME Typed, Locks, NEW t \in Thread, NEW w, Call(t, w), UNCHANGED <<stage, lockVars>>
  PROVE  Locks'
<1>1. \A u \in Thread \ {t} : on'[u] = on[u] /\ mine'[u] = mine[u]
  BY DEF Call, Return, Typed, TypeOK
<1>2. pc' = [pc EXCEPT ![t] = "found"] \/ pc' = [pc EXCEPT ![t] = "idle"]
  BY DEF Call, Return, Goto
<1> QED BY <1>1, <1>2, LeavingKeepsLocks

LEMMA NextKeepsLocks == Typed /\ Locks /\ [Next]_vars => Locks'
<1> SUFFICES ASSUME Typed, Locks, [Next]_vars PROVE Locks'
  OBVIOUS
<1>1. ASSUME UNCHANGED <<stage, lockVars, pc, on, mine>> PROVE Locks'
  BY <1>1 DEF Locks, LocksMade, LockOfThread, OneHolder, Working, lockVars
<1>2. Worker \in Thread /\ Client \subseteq Thread
  BY DEF Thread
<1>3. CASE UNCHANGED vars
  BY <1>1, <1>3 DEF vars, callVars
<1>4. ASSUME NEW t \in Client, ClientCall(t) PROVE Locks'
  BY <1>2, <1>4, CalledKeepsLocks DEF ClientCall
<1>5. ASSUME NEW w \in Workflow, ShutdownCall(w) PROVE Locks'
  BY <1>2, <1>5, CalledKeepsLocks DEF ShutdownCall
<1>6. CASE ShutdownAnswer
  <2>1. /\ UNCHANGED <<stage, lockVars, pc, mine>>
        /\ pc[Worker] = "idle"
        /\ \A u \in Thread \ {Worker} : on'[u] = on[u]
    BY <1>6 DEF ShutdownAnswer, Typed, TypeOK
  <2>2. pc' = [pc EXCEPT ![Worker] = "idle"]
    BY <1>2, <2>1 DEF Typed, TypeOK
  <2> QED BY <1>2, <2>1, <2>2, LeavingKeepsLocks
<1>7. CASE ShutdownBegin \/ ClockPasses \/ CancelBegin \/ CancelGoesOn
  BY <1>1, <1>7 DEF ShutdownBegin, ClockPasses, CancelBegin, CancelGoesOn, CancelVisit,
     CancelWrite, CancelEnd, threadVars, callVars
<1>8. CASE ShutdownGoesOn
  <2>1. ASSUME NEW w \in Workflow, ShutdownVisit(w) \/ ForceStop(w) PROVE Locks'
    BY <1>1, <2>1 DEF ShutdownVisit, ForceStop, threadVars, callVars
  <2>2. CASE ShutdownListed \/ ShutdownRound \/ ShutdownLeave \/ ShutdownEnd
    BY <1>1, <2>2 DEF ShutdownListed, ShutdownRound, ShutdownLeave, ShutdownEnd, threadVars,
       callVars
  <2> QED BY <1>5, <1>6, <1>8, <2>1, <2>2 DEF ShutdownGoesOn
<1> QED BY <1>3, <1>4, <1>7, <1>8, StageKeepsLocks, CallKeepsLocks DEF Next

(* No two threads are at work on the queue of one workflow, whatever start *)
(* and removal do to the dictionaries meanwhile.                           *)
THEOREM MutualExclusion == Spec => []OneCallAtATime
<1>1. Init => Locks
  BY DEF Init, Locks, LocksMade, LockOfThread, OneHolder, Working, Inside
<1> QED BY <1>1, InitTyped, NextTyped, NextKeepsLocks, LocksExclude, PTL DEF Spec

-----------------------------------------------------------------------------
(* Steps in order.  What is left of a program of n steps when k are taken. *)

Taken(k) == [i \in 1 .. k |-> i]
Left(k, n) == [i \in 1 .. n - k |-> k + i]

LEMMA LeftProperties ==
  ASSUME NEW n \in Nat, NEW k \in 0 .. n
  PROVE  /\ Left(k, n) \in Seq(Nat)
         /\ Len(Left(k, n)) = n - k
         /\ Left(k, n) = <<>> <=> k = n
         /\ Taken(k) \o Left(k, n) = Taken(n)
         /\ k < n => /\ Head(Left(k, n)) = k + 1
                     /\ SubSeq(Left(k, n), 2, n - k) = Left(k + 1, n)
                     /\ Append(Taken(k), k + 1) = Taken(k + 1)
<1>1. \A m \in Nat : Taken(m) \in Seq(Nat) /\ Len(Taken(m)) = m
  BY DEF Taken
<1>2. n - k \in Nat /\ \A i \in 1 .. n - k : k + i \in Nat
  OBVIOUS
<1>3. Left(k, n) \in Seq(Nat) /\ Len(Left(k, n)) = n - k
  BY <1>2 DEF Left
<1>4. Left(k, n) = <<>> <=> k = n
  BY <1>3, EmptySeq
<1>5. Taken(k) \o Left(k, n) = Taken(n)
  <2> DEFINE s1 == Taken(k)
             s2 == Left(k, n)
  <2>0. /\ s1 \in Seq(Nat) /\ s2 \in Seq(Nat)
        /\ Len(s1) = k /\ Len(s2) = n - k /\ k + (n - k) = n
    BY <1>1, <1>3
  <2>1. /\ s1 \o s2 \in Seq(Nat)
        /\ Len(s1 \o s2) = n
        /\ \A i \in 1 .. n : (s1 \o s2)[i] = IF i <= k THEN s1[i] ELSE s2[i - k]
    <3> HIDE DEF s1, s2
    <3>1. /\ s1 \o s2 \in Seq(Nat)
          /\ Len(s1 \o s2) = Len(s1) + Len(s2)
          /\ \A i \in 1 .. Len(s1) + Len(s2) : (s1 \o s2)[i] =
               IF i <= Len(s1) THEN s1[i] ELSE s2[i - Len(s1)]
      BY <2>0, ConcatProperties
    <3> QED BY <2>0, <3>1
  <2>2. \A i \in 1 .. n : (Taken(k) \o Left(k, n))[i] = Taken(n)[i]
    BY <2>1 DEF Taken, Left
  <2> QED BY <1>1, <2>1, <2>2, SeqEqual
<1>6. ASSUME k < n
      PROVE  /\ Head(Left(k, n)) = k + 1
             /\ SubSeq(Left(k, n), 2, n - k) = Left(k + 1, n)
             /\ Append(Taken(k), k + 1) = Taken(k + 1)
  <2>1. Head(Left(k, n)) = k + 1
    BY <1>3, <1>4, <1>6, HeadTailProperties DEF Left
  <2>2. SubSeq(Left(k, n), 2, n - k) = Left(k + 1, n)
    <3>1. \A i \in 2 .. n - k : Left(k, n)[i] \in Nat
      BY DEF Left
    <3>2. /\ SubSeq(Left(k, n), 2, n - k) \in Seq(Nat)
          /\ Len(SubSeq(Left(k, n), 2, n - k)) = n - k - 1
          /\ \A i \in 1 .. n - k - 1 : SubSeq(Left(k, n), 2, n - k)[i] = Left(k, n)[i + 1]
      BY <1>6, <3>1, SubSeqProperties
    <3>3. Left(k + 1, n) \in Seq(Nat) /\ Len(Left(k + 1, n)) = n - k - 1
      BY <1>6 DEF Left
    <3>4. \A i \in 1 .. n - k - 1 : SubSeq(Left(k, n), 2, n - k)[i] = Left(k + 1, n)[i]
      BY <1>6, <3>2 DEF Left
    <3> QED BY <3>2, <3>3, <3>4, SeqEqual
  <2>3. Append(Taken(k), k + 1) = Taken(k + 1)
    <3> DEFINE s == Taken(k)
               e == k + 1
    <3>0. s \in Seq(Nat) /\ Len(s) = k /\ e \in Nat /\ e = k + 1
      BY <1>1
    <3>1. /\ Append(s, e) \in Seq(Nat)
          /\ Len(Append(s, e)) = e
          /\ \A i \in 1 .. k : Append(s, e)[i] = s[i]
          /\ Append(s, e)[e] = e
      <4> HIDE DEF s, e
      <4>1. /\ Append(s, e) \in Seq(Nat)
            /\ Len(Append(s, e)) = Len(s) + 1
            /\ \A i \in 1 .. Len(s) : Append(s, e)[i] = s[i]
            /\ Append(s, e)[Len(s) + 1] = e
        BY <3>0, AppendProperties
      <4> QED BY <3>0, <4>1
    <3>2. \A i \in 1 .. e : Append(s, e)[i] = Taken(e)[i]
      <4>1. ASSUME NEW i \in 1 .. e PROVE Append(s, e)[i] = i
        BY <3>1 DEF Taken
      <4> QED BY <4>1 DEF Taken
    <3>3. Taken(e) \in Seq(Nat) /\ Len(Taken(e)) = e
      BY <1>1, <3>0
    <3> QED
      <4> HIDE DEF s
      <4>1. Append(s, e) = Taken(e)
        BY <3>1, <3>2, <3>3, SeqEqual
      <4> QED BY <4>1 DEF s
  <2> QED BY <2>1, <2>2, <2>3
<1> QED BY <1>3, <1>4, <1>5, <1>6

(* k(w) steps were taken in order, and a thread that is about to pop has   *)
(* peeked at the next one.                                                 *)
Consumed(w) == Len(taken[w])

Progress ==
  \A w \in Workflow :
    /\ Consumed(w) <= Len(Program[w])
    /\ taken[w] = Taken(Consumed(w))
    /\ main[w] = Left(Consumed(w), Len(Program[w]))

PeekedNext(t) ==
  pc[t] = "pop" => Consumed(on[t]) < Len(Program[on[t]]) /\ peeked[t] = Consumed(on[t]) + 1

Ordered == Progress /\ \A t \in Thread : PeekedNext(t)

LEMMA OrderedSteps == Typed /\ Ordered => StepsInOrder
<1> SUFFICES ASSUME Typed, Ordered, NEW w \in Workflow
             PROVE  taken[w] \o main[w] = Taken(Len(Program[w]))
  BY DEF StepsInOrder, Taken
<1>1. Consumed(w) \in 0 .. Len(Program[w]) /\ Len(Program[w]) \in Nat
  BY SessionAssumption DEF Ordered, Progress, Consumed, Typed, TypeOK
<1>2. taken[w] = Taken(Consumed(w)) /\ main[w] = Left(Consumed(w), Len(Program[w]))
  BY DEF Ordered, Progress
<1>3. Taken(Consumed(w)) \o Left(Consumed(w), Len(Program[w])) = Taken(Len(Program[w]))
  BY <1>1, LeftProperties
<1> QED BY <1>2, <1>3

LEMMA InitOrdered == Init => Ordered
<1> SUFFICES ASSUME Init PROVE Ordered
  OBVIOUS
<1>1. ASSUME NEW w \in Workflow
      PROVE  /\ Consumed(w) = 0 /\ Len(Program[w]) \in Nat
             /\ taken[w] = Taken(0) /\ main[w] = Left(0, Len(Program[w]))
  <2>1. Consumed(w) = 0 /\ Len(Program[w]) \in Nat /\ taken[w] = <<>>
    BY SessionAssumption DEF Init, Consumed
  <2>2. <<>> = Taken(0)
    BY DEF Taken
  <2>3. main[w] = Left(0, Len(Program[w]))
    BY <2>1 DEF Init, Left
  <2> QED BY <2>1, <2>2, <2>3
<1> QED BY <1>1 DEF Init, Ordered, Progress, PeekedNext

LEMMA NextOrdered == Typed /\ Locks /\ Ordered /\ [Next]_vars => Ordered'
<1> SUFFICES ASSUME Typed, Locks, Ordered, [Next]_vars PROVE Ordered'
  OBVIOUS
<1>1. /\ pc \in [Thread -> {"idle", "found", "waiting"} \cup Inside]
      /\ peeked \in [Thread -> Nat]
      /\ on \in [Thread -> Workflow \cup {None}]
      /\ main \in [Workflow -> Seq(Nat)] /\ taken \in [Workflow -> Seq(Nat)]
      /\ \A u \in Thread : pc[u] # "idle" => on[u] \in Workflow
  BY DEF Typed, TypeOK
<1>2. ASSUME NEW w \in Workflow
      PROVE  Len(Program[w]) \in Nat /\ Consumed(w) \in 0 .. Len(Program[w])
  BY <1>1, SessionAssumption DEF Ordered, Progress, Consumed
<1>3. ASSUME UNCHANGED queueVars, NEW t \in Thread,
             \A u \in Thread \ {t} : pc'[u] = pc[u] /\ on'[u] = on[u] /\ peeked'[u] = peeked[u],
             PeekedNext(t)'
      PROVE  Ordered'
  BY <1>3 DEF Ordered, Progress, PeekedNext, Consumed, queueVars
<1>4. ASSUME UNCHANGED queueVars, UNCHANGED <<pc, on, peeked>> PROVE Ordered'
  BY <1>4 DEF Ordered, Progress, PeekedNext, Consumed, queueVars
<1>5. ASSUME NEW t \in Thread, NEW w, Call(t, w), UNCHANGED queueVars PROVE Ordered'
  <2>1. \A u \in Thread \ {t} : pc'[u] = pc[u] /\ on'[u] = on[u] /\ peeked'[u] = peeked[u]
    BY <1>1, <1>5 DEF Call, Goto, Return
  <2>2. pc'[t] # "pop"
    BY <1>1, <1>5 DEF Call, Goto, Return
  <2> QED BY <1>3, <1>5, <2>1, <2>2 DEF PeekedNext
<1>6. CASE UNCHANGED vars
  BY <1>4, <1>6 DEF vars, callVars
<1>7. ASSUME NEW w \in Workflow, Starter(w) \/ Remover(w) PROVE Ordered'
  BY <1>4, <1>7 DEF Starter, Remover, StartInstance, StartQueue, RemoveInstance, RemoveQueue,
     RemoveLock, callVars
<1>8. CASE ShutdownBegin \/ ClockPasses \/ CancelBegin \/ CancelGoesOn
  BY <1>4, <1>8 DEF ShutdownBegin, ClockPasses, CancelBegin, CancelGoesOn, CancelVisit,
     CancelWrite, CancelEnd, threadVars, callVars
<1>9. CASE ShutdownGoesOn
  <2>1. ASSUME NEW w \in Workflow, ShutdownVisit(w) \/ ForceStop(w) PROVE Ordered'
    BY <1>4, <2>1 DEF ShutdownVisit, ForceStop, threadVars, callVars
  <2>2. CASE ShutdownListed \/ ShutdownRound \/ ShutdownLeave \/ ShutdownEnd
    BY <1>4, <2>2 DEF ShutdownListed, ShutdownRound, ShutdownLeave, ShutdownEnd, threadVars,
       callVars
  <2>3. ASSUME NEW w \in Workflow, ShutdownCall(w) PROVE Ordered'
    BY <1>5, <2>3 DEF ShutdownCall, Thread
  <2>4. CASE ShutdownAnswer
    <3>1. /\ UNCHANGED <<queueVars, pc, peeked>> /\ pc[Worker] = "idle"
          /\ \A u \in Thread \ {Worker} : on'[u] = on[u]
      BY <1>1, <2>4 DEF ShutdownAnswer
    <3> QED BY <1>3, <3>1 DEF PeekedNext, Thread
  <2> QED BY <1>9, <2>1, <2>2, <2>3, <2>4 DEF ShutdownGoesOn
<1>10. ASSUME NEW t \in Client, ClientCall(t) PROVE Ordered'
  BY <1>5, <1>10 DEF ClientCall, Thread
<1>11. ASSUME NEW t \in Thread, InCall(t) PROVE Ordered'
  <2>1. ASSUME UNCHANGED <<queueVars, on>>, NEW l, Goto(t, l), l # "pop", UNCHANGED peeked PROVE Ordered'
    BY <1>1, <1>3, <2>1 DEF Goto, PeekedNext
  <2>2. ASSUME UNCHANGED <<queueVars, on>>, NEW a, Return(t, a) PROVE Ordered'
    BY <1>1, <1>3, <2>2 DEF Goto, Return, PeekedNext
  <2>3. CASE GetLock(t) \/ Acquire(t)
    BY <2>1, <2>3 DEF GetLock, Acquire
  <2>4. CASE ReadQueue(t)
    BY <2>1, <2>2, <2>4 DEF ReadQueue
  <2>5. CASE Complete(t)
    BY <2>2, <2>5 DEF Complete
  <2>6. CASE Peek(t)
    <3>1. /\ on[t] \in Workflow /\ main[on[t]] # <<>>
          /\ UNCHANGED <<queueVars, on>>
      BY <1>1, <2>6 DEF Peek
    <3>2. /\ Consumed(on[t]) < Len(Program[on[t]])
          /\ Head(main[on[t]]) = Consumed(on[t]) + 1
      <4> DEFINE n == Len(Program[on[t]])
                 k == Consumed(on[t])
      <4>1. n \in Nat /\ k \in 0 .. n
        BY <1>2, <3>1
      <4>2. main[on[t]] = Left(k, n)
        BY <3>1 DEF Ordered, Progress
      <4>3. /\ Left(k, n) = <<>> <=> k = n
            /\ k < n => Head(Left(k, n)) = k + 1
        <5> HIDE DEF n, k
        <5> QED BY <4>1, LeftProperties
      <4>4. k < n
        BY <3>1, <4>1, <4>2, <4>3
      <4> QED BY <4>2, <4>3, <4>4
    <3>3. /\ peeked'[t] = Head(main[on[t]])
          /\ \A u \in Thread \ {t} : pc'[u] = pc[u] /\ on'[u] = on[u] /\ peeked'[u] = peeked[u]
      BY <1>1, <2>6 DEF Peek, Goto
    <3> QED BY <1>3, <3>1, <3>2, <3>3 DEF PeekedNext, Consumed, queueVars
  <2>7. CASE Pop(t)
    <3> DEFINE w == on[t]
               k == Consumed(w)
               n == Len(Program[w])
    <3>1. w \in Workflow /\ pc[t] = "pop" /\ UNCHANGED on
      BY <1>1, <2>7 DEF Pop
    <3>2. k \in 0 .. n /\ n \in Nat /\ k < n /\ peeked[t] = k + 1
      BY <1>2, <3>1 DEF Ordered, PeekedNext
    <3>3. main[w] = Left(k, n) /\ taken[w] = Taken(k) /\ Len(main[w]) = n - k
      BY <3>1, <3>2, LeftProperties DEF Ordered, Progress
    <3>4. /\ main' = [main EXCEPT ![w] = SubSeq(main[w], 2, Len(main[w]))]
          /\ taken' = [taken EXCEPT ![w] = Append(taken[w], peeked[t])]
      BY <2>7 DEF Pop
    <3>5. main'[w] = Left(k + 1, n) /\ taken'[w] = Taken(k + 1)
      <4>1. /\ SubSeq(Left(k, n), 2, n - k) = Left(k + 1, n)
            /\ Append(Taken(k), k + 1) = Taken(k + 1)
        <5> HIDE DEF n, k
        <5> QED BY <3>2, LeftProperties
      <4>2. main'[w] = SubSeq(main[w], 2, Len(main[w])) /\ taken'[w] = Append(taken[w], peeked[t])
        BY <1>1, <3>1, <3>4
      <4> HIDE DEF n, k, w
      <4> QED BY <3>2, <3>3, <4>1, <4>2
    <3>6. Len(taken'[w]) = k + 1
      BY <3>2, <3>5 DEF Taken
    <3>7. \A v \in Workflow \ {w} : main'[v] = main[v] /\ taken'[v] = taken[v]
      BY <1>1, <3>4
    <3>8. Progress'
      <4>1. ASSUME NEW v \in Workflow
            PROVE  /\ Len(taken'[v]) <= Len(Program[v])
                   /\ taken'[v] = Taken(Len(taken'[v]))
                   /\ main'[v] = Left(Len(taken'[v]), Len(Program[v]))
        BY <3>2, <3>5, <3>6, <3>7 DEF Ordered, Progress, Consumed
      <4> QED BY <4>1 DEF Progress, Consumed
    <3>9. ASSUME NEW u \in Thread PROVE PeekedNext(u)'
      <4>1. CASE u = t
        <5>1. pc'[t] # "pop"
          BY <1>1, <2>7 DEF Pop, Goto, Return
        <5> QED BY <4>1, <5>1 DEF PeekedNext
      <4>2. CASE u # t
        <5>1. pc'[u] = pc[u] /\ peeked'[u] = peeked[u]
          BY <1>1, <2>7, <4>2 DEF Pop, Goto, Return
        <5>2. pc[u] = "pop" => on[u] # w /\ on[u] \in Workflow
          BY <1>1, <3>1, <4>2, LocksExclude DEF OneCallAtATime, Working
        <5> QED BY <3>1, <3>7, <5>1, <5>2 DEF Ordered, PeekedNext, Consumed
      <4> QED BY <4>1, <4>2
    <3> QED BY <3>8, <3>9 DEF Ordered
  <2> QED BY <1>11, <2>3, <2>4, <2>5, <2>6, <2>7 DEF InCall
<1> QED BY <1>6, <1>7, <1>8, <1>9, <1>10, <1>11 DEF Next

(* No step is lost, taken twice or taken out of order, however many        *)
(* clients share a workflow and whatever becomes of its lock.              *)
THEOREM StepsTakenInOrder == Spec => []StepsInOrder
<1>1. Init => Locks
  BY DEF Init, Locks, LocksMade, LockOfThread, OneHolder, Working, Inside
<1> QED BY <1>1, InitTyped, InitOrdered, NextTyped, NextKeepsLocks, NextOrdered, OrderedSteps,
  PTL DEF Spec

-----------------------------------------------------------------------------
(* Shutdown.  A workflow it found started stays on its list until it is    *)
(* settled, and what is settled stays so.                                  *)

Settled(w) == status[w] # "running" \/ w \notin workflows

(* What the answer that shutdown awaits, or has got, says of the workflow. *)
AnswerTrue ==
  /\ pc[Worker] # "idle" => asked # None /\ on[Worker] = asked
  /\ answer[Worker] = "over" => asked # None /\ status[asked] # "running"
  /\ answer[Worker] = "raised" => asked # None /\ (asked \in owed => Settled(asked))

Settling ==
  /\ owed \subseteq Known
  /\ asked # None => shutdown = "rounds"
  /\ AnswerTrue
  /\ shutdown \in {"off", "listing"} => owed \subseteq active
  /\ shutdown \in {"rounds", "stopping", "done"} => \A w \in owed \ active : Settled(w)
  /\ shutdown = "done" => active = {}

LEMMA SettlingSettles == Settling => ShutdownSettles
BY DEF Settling, ShutdownSettles, Settled

(* A workflow that does not run, and one that is known and settled, stays  *)
(* that way.                                                               *)
StaysSettled(w) ==
  /\ status[w] # "running" => status'[w] # "running"
  /\ w \in Known => w \in Known' /\ (Settled(w) => Settled(w)')

LEMMA SettledStays ==
  ASSUME Typed, [Next]_vars, NEW w \in Workflow
  PROVE  StaysSettled(w)
<1>1. /\ status \in [Workflow -> {"running", "completed", "stopped", "cancelled"}]
      /\ stage \in [Workflow -> Stages]
  BY DEF Typed, TypeOK
<1>2. ASSUME UNCHANGED stage, status[w] # "running" => status'[w] # "running"
      PROVE  StaysSettled(w)
  BY <1>2 DEF StaysSettled, Known, Settled, workflows
<1>3. CASE UNCHANGED vars
  BY <1>2, <1>3 DEF vars
<1>4. ASSUME NEW v \in Workflow, Starter(v) \/ Remover(v) PROVE StaysSettled(w)
  <2>1. UNCHANGED status
    BY <1>4 DEF Starter, Remover, StartInstance, StartQueue, RemoveInstance, RemoveQueue, RemoveLock
  <2>2. w \in Known => /\ stage'[w] \notin {"new", "starting"}
                       /\ stage'[w] = "started" => stage[w] = "started"
                       /\ stage[w] \notin {"new", "starting"}
    BY <1>1, <1>4 DEF Known, Starter, Remover, StartInstance, StartQueue, RemoveInstance,
       RemoveQueue, RemoveLock, Advance
  <2> QED BY <1>1, <2>1, <2>2 DEF StaysSettled, Known, Settled, workflows
<1>5. ASSUME NEW t \in Client, ClientCall(t) PROVE StaysSettled(w)
  BY <1>2, <1>5 DEF ClientCall
<1>6. ASSUME NEW t \in Thread, InCall(t) PROVE StaysSettled(w)
  <2>1. CASE Complete(t)
    BY <1>1, <1>2, <2>1 DEF Complete
  <2>2. CASE GetLock(t) \/ Acquire(t) \/ ReadQueue(t) \/ Peek(t) \/ Pop(t)
    BY <1>2, <2>2 DEF GetLock, Acquire, ReadQueue, Peek, Pop
  <2> QED BY <1>6, <2>1, <2>2 DEF InCall
<1>7. CASE ShutdownBegin \/ ClockPasses \/ CancelBegin
  BY <1>2, <1>7 DEF ShutdownBegin, ClockPasses, CancelBegin, threadVars
<1>8. CASE ShutdownGoesOn
  <2>1. ASSUME NEW v \in Workflow, ForceStop(v) PROVE StaysSettled(w)
    BY <1>1, <1>2, <2>1 DEF ForceStop, threadVars
  <2>2. ASSUME NEW v \in Workflow, ShutdownVisit(v) \/ ShutdownCall(v) PROVE StaysSettled(w)
    BY <1>2, <2>2 DEF ShutdownVisit, ShutdownCall, threadVars
  <2>3. CASE ShutdownListed \/ ShutdownRound \/ ShutdownAnswer \/ ShutdownLeave \/ ShutdownEnd
    BY <1>2, <2>3 DEF ShutdownListed, ShutdownRound, ShutdownAnswer, ShutdownLeave, ShutdownEnd,
       threadVars
  <2> QED BY <1>8, <2>1, <2>2, <2>3 DEF ShutdownGoesOn
<1>9. CASE CancelGoesOn
  <2>1. CASE CancelWrite
    BY <1>1, <1>2, <2>1 DEF CancelWrite, threadVars
  <2>2. CASE CancelEnd \/ \E v \in Workflow : CancelVisit(v)
    BY <1>2, <2>2 DEF CancelEnd, CancelVisit, threadVars
  <2> QED BY <1>9, <2>1, <2>2 DEF CancelGoesOn
<1> QED BY <1>3, <1>4, <1>5, <1>6, <1>7, <1>8, <1>9 DEF Next

LEMMA NextSettling == Typed /\ Settling /\ [Next]_vars => Settling'
<1> SUFFICES ASSUME Typed, Settling, [Next]_vars PROVE Settling'
  OBVIOUS
<1>1. /\ pc \in [Thread -> {"idle", "found", "waiting"} \cup Inside]
      /\ answer \in [Thread -> {"dict", "over", "missing", "raised"}]
      /\ on \in [Thread -> Workflow \cup {None}]
      /\ asked \in Workflow \cup {None}
      /\ None \notin Workflow /\ Worker \in Thread /\ Worker \notin Client
      /\ active \subseteq Workflow /\ owed \subseteq Workflow
      /\ status \in [Workflow -> {"running", "completed", "stopped", "cancelled"}]
  BY SessionAssumption DEF Typed, TypeOK, Thread
<1>2. /\ owed \subseteq Known'
      /\ \A w \in owed : Settled(w) => Settled(w)'
      /\ \A w \in Workflow : status[w] # "running" => status'[w] # "running"
  BY <1>1, SettledStays DEF Settling, StaysSettled
<1>3. ASSUME UNCHANGED <<asked, owed>>, pc'[Worker] = pc[Worker], on'[Worker] = on[Worker],
             answer'[Worker] = answer[Worker]
      PROVE  AnswerTrue'
  BY <1>1, <1>2, <1>3 DEF Settling, AnswerTrue
<1>4. ASSUME UNCHANGED shutdownVars, AnswerTrue' PROVE Settling'
  BY <1>2, <1>4 DEF Settling, shutdownVars
<1>5. ASSUME UNCHANGED <<callVars, shutdownVars>> PROVE Settling'
  BY <1>3, <1>4, <1>5 DEF callVars, shutdownVars
<1>6. CASE UNCHANGED vars \/ CancelBegin \/ CancelGoesOn
  BY <1>5, <1>6 DEF vars, loopVars, CancelBegin, CancelGoesOn, CancelVisit, CancelWrite, CancelEnd,
     threadVars
<1>7. ASSUME NEW w \in Workflow, Starter(w) \/ Remover(w) PROVE Settling'
  BY <1>5, <1>7 DEF Starter, Remover, StartInstance, StartQueue, RemoveInstance, RemoveQueue,
     RemoveLock, loopVars
<1>8. ASSUME NEW t \in Client, ClientCall(t) PROVE Settling'
  <2>1. UNCHANGED shutdownVars
    BY <1>8 DEF ClientCall, loopVars
  <2>2. pc'[Worker] = pc[Worker] /\ on'[Worker] = on[Worker] /\ answer'[Worker] = answer[Worker]
    BY <1>1, <1>8 DEF ClientCall, Call, Goto, Return
  <2> QED BY <1>3, <1>4, <2>1, <2>2 DEF shutdownVars
<1>9. ASSUME NEW t \in Thread, InCall(t) PROVE Settling'
  <2>1. UNCHANGED shutdownVars
    BY <1>9 DEF InCall, GetLock, Acquire, ReadQueue, Peek, Pop, Complete, loopVars
  <2>2. CASE t # Worker
    <3>1. pc'[Worker] = pc[Worker] /\ on'[Worker] = on[Worker] /\ answer'[Worker] = answer[Worker]
      BY <1>1, <1>9, <2>2 DEF InCall, GetLock, Acquire, ReadQueue, Peek, Pop, Complete, Goto, Return
    <3> QED BY <1>3, <1>4, <2>1, <3>1 DEF shutdownVars
  <2>3. CASE t = Worker
    <3>1. /\ pc[Worker] # "idle" /\ UNCHANGED on
          /\ asked # None /\ on[Worker] = asked /\ asked \in Workflow
      BY <1>1, <1>9, <2>3 DEF InCall, GetLock, Acquire, ReadQueue, Peek, Pop, Complete, Settling,
         AnswerTrue
    <3>2. UNCHANGED <<asked, owed>>
      BY <2>1 DEF shutdownVars
    <3>3. CASE answer' = answer
      BY <1>1, <1>2, <1>4, <2>1, <3>1, <3>2, <3>3 DEF Settling, AnswerTrue
    <3>4. CASE ReadQueue(Worker) /\ on[Worker] \notin queues \cap workflows
      <4>1. answer'[Worker] = "raised" /\ UNCHANGED <<stage, status>>
        BY <1>1, <3>4 DEF ReadQueue, Return
      <4>2. asked \in owed => Settled(asked)
        BY <3>1, <3>4 DEF Settling, Settled, Known, queues, workflows
      <4> QED BY <1>2, <1>4, <2>1, <3>1, <3>2, <4>1, <4>2 DEF AnswerTrue
    <3>5. CASE Pop(Worker) /\ Return(Worker, "dict")
      <4>1. answer'[Worker] = "dict"
        BY <1>1, <3>5 DEF Return
      <4> QED BY <1>4, <2>1, <3>1, <3>2, <4>1 DEF AnswerTrue
    <3>6. CASE Complete(Worker)
      <4>1. answer'[Worker] = "over" /\ status'[asked] = "completed"
        BY <1>1, <3>1, <3>6 DEF Complete, Return
      <4> QED BY <1>4, <2>1, <3>1, <3>2, <4>1 DEF AnswerTrue
    <3> QED BY <1>9, <2>3, <3>3, <3>4, <3>5, <3>6 DEF InCall, GetLock, Acquire, ReadQueue, Peek, Pop
  <2> QED BY <2>2, <2>3
<1>10. CASE ShutdownBegin
  BY <1>2, <1>3, <1>10 DEF ShutdownBegin, Settling, threadVars, callVars
<1>11. CASE ClockPasses
  BY <1>2, <1>3, <1>11 DEF ClockPasses, Settling, threadVars, callVars
<1>12. ASSUME NEW w \in Workflow, ShutdownVisit(w) PROVE Settling'
  <2>1. /\ shutdown = "listing" /\ shutdown' = shutdown
        /\ UNCHANGED <<threadVars, status, asked>>
    BY <1>12 DEF ShutdownVisit
  <2>2. asked = None /\ AnswerTrue'
    BY <2>1 DEF Settling, AnswerTrue, threadVars, callVars
  <2>3. owed' \subseteq owed \cup {w} /\ active \subseteq active' /\ (w \in owed' => w \in owed \/ w \in active')
    BY <1>12 DEF ShutdownVisit
  <2>4. w \in owed' => w \in owed \/ stage'[w] = "started"
    BY <1>12 DEF ShutdownVisit, threadVars
  <2>5. owed' \subseteq Known' /\ owed' \subseteq active'
    BY <1>2, <2>1, <2>3, <2>4 DEF Settling, Known
  <2> QED BY <2>1, <2>2, <2>5 DEF Settling
<1>13. CASE ShutdownListed
  BY <1>2, <1>3, <1>13 DEF ShutdownListed, EndIteration, Settling, threadVars, callVars
<1>14. CASE ShutdownRound \/ ShutdownLeave \/ ShutdownEnd
  BY <1>2, <1>3, <1>14 DEF ShutdownRound, ShutdownLeave, ShutdownEnd, InRounds, Settling,
     threadVars, callVars
<1>15. ASSUME NEW w \in Workflow, ShutdownCall(w) PROVE Settling'
  <2>1. /\ asked = None /\ asked' = w /\ shutdown = "rounds"
        /\ UNCHANGED <<shutdown, active, owed>>
        /\ Call(Worker, w)
    BY <1>15 DEF ShutdownCall, InRounds
  <2>2. /\ on'[Worker] = w
        /\ answer'[Worker] \in {answer[Worker], "missing"}
    BY <1>1, <2>1 DEF Call, Return
  <2>3. AnswerTrue'
    BY <1>1, <2>1, <2>2 DEF Settling, AnswerTrue
  <2> QED BY <1>2, <2>1, <2>3 DEF Settling
<1>16. CASE ShutdownAnswer
  <2>1. /\ asked' = None /\ UNCHANGED <<shutdown, owed>> /\ shutdown = "rounds"
        /\ pc'[Worker] = "idle" /\ answer'[Worker] = "dict" /\ asked # None
    BY <1>1, <1>16 DEF ShutdownAnswer
  <2>2. AnswerTrue'
    BY <2>1 DEF AnswerTrue
  <2>3. \A w \in owed \ active' : Settled(w)
    <3>1. ASSUME asked \in owed, answer[Worker] \in {"over", "raised"} PROVE Settled(asked)
      BY <3>1 DEF Settling, AnswerTrue, Settled
    <3> QED BY <1>16, <2>1, <3>1 DEF ShutdownAnswer, Settling
  <2> QED BY <1>2, <2>1, <2>2, <2>3 DEF Settling
<1>17. ASSUME NEW w \in Workflow, ForceStop(w) PROVE Settling'
  <2>1. /\ UNCHANGED <<threadVars, shutdown, owed, asked>> /\ shutdown = "stopping"
        /\ active' = active \ {w}
    BY <1>17 DEF ForceStop
  <2>2. Settled(w)'
    BY <1>1, <1>17 DEF ForceStop, Settled, threadVars, workflows
  <2>3. AnswerTrue'
    BY <1>3, <2>1 DEF threadVars, callVars
  <2> QED BY <1>2, <2>1, <2>2, <2>3 DEF Settling
<1> QED BY <1>6, <1>7, <1>8, <1>9, <1>10, <1>11, <1>12, <1>13, <1>14, <1>15, <1>16, <1>17
  DEF Next, ShutdownGoesOn

(* When shutdown_gracefully has returned, no workflow it had found started *)
(* is running, whatever their clients and their removal do meanwhile.      *)
THEOREM ShutdownStopsAll == Spec => []ShutdownSettles
<1>1. Init => Settling
  BY SessionAssumption DEF Init, Settling, AnswerTrue, Thread
<1> QED BY <1>1, InitTyped, NextTyped, NextSettling, SettlingSettles, PTL DEF Spec
=============================================================================
