--------------------------- MODULE ControlFlowProofs ---------------------------
(***************************************************************************)
(* Theorems about ControlFlow, for every workflow: its variables keep      *)
(* their types, no activation of a loop runs too often, responses have     *)
(* their shape, and a completed workflow has nothing left.                 *)
(*                                                                         *)
(* And for every workflow with the loops that the queue can execute        *)
(* (LoopsHold, Structured): the loops on the stack stay in the queue, in   *)
(* the order of their nesting, a foreach is left after its last item, and  *)
(* queue and stack together implement a program with nested blocks.        *)
(*                                                                         *)
(* And for every workflow whose breaks the queue can execute (BreaksHold): *)
(* nothing of the body of a loop is left in the queue after its break.     *)
(***************************************************************************)
EXTENDS ControlFlow, SequenceTheorems, FiniteSetTheorems, TLAPS

-----------------------------------------------------------------------------
(* Lemmas about the queue.                                                 *)

(* The steps of a body become a sequence of entries.                       *)
LEMMA QueuedTyped ==
  ASSUME NEW steps \in Seq(Step), NEW loop \in Step \cup {NoStep}, NEW r \in SUBSET Fields
  PROVE  Queued(steps, loop, r) \in Seq(Entry)
<1>1. Len(steps) \in Nat /\ \A i \in 1 .. Len(steps) : steps[i] \in Step
  BY ElementOfSeq, LenProperties
<1>2. \A i \in 1 .. Len(steps) :
        [step |-> steps[i], cont |-> FALSE, loop |-> loop, resolved |-> r] \in Entry
  BY <1>1 DEF Entry
<1>3. Queued(steps, loop, r) \in [1 .. Len(steps) -> Entry]
  BY <1>2 DEF Queued
<1> QED BY <1>1, <1>3, SeqDef

(* What is in front of a queue that is not empty, and its definition.      *)
LEMMA FrontTyped ==
  ASSUME main_queue \in Seq(Entry), main_queue # <<>>
  PROVE  /\ Front \in Entry
         /\ Rest \in Seq(Entry)
         /\ Def[Front.step] \in Definition
<1>1. Front \in Entry /\ Rest \in Seq(Entry)
  BY HeadTailProperties DEF Front, Rest
<1>2. Front.step \in Step
  BY <1>1 DEF Entry
<1> QED BY <1>1, <1>2, DefAssumption

(* What is left of a queue when a break or continue has removed entries.   *)
LEMMA SuffixTyped ==
  ASSUME NEW q \in Seq(Entry), NEW n \in Nat
  PROVE  SubSeq(q, n + 1, Len(q)) \in Seq(Entry)
<1>1. \A i \in n + 1 .. Len(q) : q[i] \in Entry
  BY ElementOfSeq, LenProperties
<1> QED BY <1>1, SubSeqProperties, LenProperties

-----------------------------------------------------------------------------
(* Lemmas about the loop stack.  LoopOK is what makes IterationBound       *)
(* inductive: the iteration counter is never behind the number of times    *)
(* the body was queued, and a while loop's limit is that of its            *)
(* definition, which is what process_while_loop compares the counter with. *)

LoopOK(l) ==
  /\ l.runs <= l.limit
  /\ l.runs <= l.iter + 1
  /\ Def[l.id].kind = "while_loop" => l.limit = Def[l.id].limit

StackOK(stack) == \A i \in 1 .. Len(stack) : LoopOK(stack[i])

(* Leaving the innermost loop.                                             *)
LEMMA ExitedLoopOK ==
  ASSUME NEW stack \in Seq(LoopState), stack # <<>>
  PROVE  /\ ExitedLoop(stack) \in Seq(LoopState)
         /\ StackOK(stack) => StackOK(ExitedLoop(stack))
<1>1. Len(stack) \in Nat \ {0}
  BY EmptySeq
<1>2. \A i \in 1 .. Len(stack) - 1 : stack[i] \in LoopState
  BY <1>1, ElementOfSeq
<1>3. /\ ExitedLoop(stack) \in Seq(LoopState)
      /\ Len(ExitedLoop(stack)) = Len(stack) - 1
      /\ \A i \in 1 .. Len(stack) - 1 : ExitedLoop(stack)[i] = stack[i]
  <2> DEFINE n == Len(stack) - 1
  <2>1. n \in Nat /\ n - 1 + 1 = n
    BY <1>1
  <2>2. \A i \in 1 .. n : stack[i] \in LoopState
    BY <1>2
  <2>3. /\ SubSeq(stack, 1, n) \in Seq(LoopState)
        /\ Len(SubSeq(stack, 1, n)) = n
        /\ \A i \in 1 .. n : SubSeq(stack, 1, n)[i] = stack[i]
    <3> HIDE DEF n
    <3> QED BY <2>1, <2>2, SubSeqProperties
  <2> QED BY <2>3 DEF ExitedLoop
<1> QED BY <1>1, <1>3 DEF StackOK

(* Entering a loop.                                                        *)
LEMMA PushedLoopOK ==
  ASSUME NEW stack \in Seq(LoopState), NEW s \in Step, NEW n \in Nat
  PROVE  LET pushed == Append(stack, NewLoop(s, n))
         IN  /\ pushed \in Seq(LoopState)
             /\ pushed # <<>>
             /\ pushed[Len(pushed)] = NewLoop(s, n)
             /\ StackOK(stack) /\ (Def[s].kind = "while_loop" => n = Def[s].limit)
                  => StackOK(pushed)
<1> DEFINE pushed == Append(stack, NewLoop(s, n))
<1>1. NewLoop(s, n) \in LoopState
  BY DEF NewLoop, LoopState, Signals
<1>2. /\ pushed \in Seq(LoopState)
      /\ Len(pushed) = Len(stack) + 1
      /\ \A i \in 1 .. Len(stack) : pushed[i] = stack[i]
      /\ pushed[Len(stack) + 1] = NewLoop(s, n)
      /\ Len(stack) \in Nat
  BY <1>1, AppendProperties, LenProperties
<1>3. ASSUME StackOK(stack), Def[s].kind = "while_loop" => n = Def[s].limit
      PROVE  StackOK(pushed)
  <2>1. LoopOK(NewLoop(s, n))
    BY <1>3 DEF LoopOK, NewLoop
  <2> QED BY <1>2, <1>3, <2>1 DEF StackOK
<1> QED BY <1>2, <1>3

(* The loop stack when its innermost loop is replaced by l.                *)
LEMMA TopReplacedOK ==
  ASSUME NEW stack \in Seq(LoopState), stack # <<>>, NEW l \in LoopState
  PROVE  LET replaced == [stack EXCEPT ![Len(stack)] = l]
         IN  /\ replaced \in Seq(LoopState)
             /\ replaced # <<>>
             /\ Len(replaced) = Len(stack)
             /\ replaced[Len(replaced)] = l
             /\ StackOK(stack) /\ LoopOK(l) => StackOK(replaced)
<1> DEFINE replaced == [stack EXCEPT ![Len(stack)] = l]
<1>1. Len(stack) \in 1 .. Len(stack)
  BY EmptySeq
<1>2. /\ replaced \in Seq(LoopState)
      /\ Len(replaced) = Len(stack)
      /\ \A i \in 1 .. Len(stack) : replaced[i] = IF i = Len(stack) THEN l ELSE stack[i]
  BY <1>1, ExceptSeq
<1>3. replaced # <<>>
  BY <1>1, <1>2, EmptySeq
<1>4. StackOK(stack) /\ LoopOK(l) => StackOK(replaced)
  BY <1>2 DEF StackOK
<1> HIDE DEF replaced
<1>5. replaced[Len(replaced)] = l
  BY <1>1, <1>2
<1> QED BY <1>2, <1>3, <1>4, <1>5 DEF replaced

(* The innermost loop of a stack that is not empty.                        *)
LEMMA TopTyped ==
  ASSUME loop_stack \in Seq(LoopState), loop_stack # <<>>
  PROVE  /\ CurrentLoop \in LoopState
         /\ StackOK(loop_stack) => LoopOK(CurrentLoop)
<1>1. Len(loop_stack) \in 1 .. Len(loop_stack)
  BY EmptySeq
<1> QED BY <1>1, ElementOfSeq DEF CurrentLoop, StackOK

(* Counting an iteration leaves the body one run behind the counter.       *)
LEMMA AdvancedOK ==
  ASSUME loop_stack \in Seq(LoopState), loop_stack # <<>>
  PROVE  /\ Advanced \in Seq(LoopState)
         /\ Advanced # <<>>
         /\ Advanced[Len(Advanced)] =
              [CurrentLoop EXCEPT !.iter = @ + 1, !.signal = "none"]
         /\ StackOK(loop_stack) => StackOK(Advanced)
<1> DEFINE l == [CurrentLoop EXCEPT !.iter = @ + 1, !.signal = "none"]
<1>1. CurrentLoop \in LoopState /\ (StackOK(loop_stack) => LoopOK(CurrentLoop))
  BY TopTyped
<1>2. l \in LoopState /\ (LoopOK(CurrentLoop) => LoopOK(l))
  <2>1. /\ l \in LoopState
        /\ l.id = CurrentLoop.id /\ l.limit = CurrentLoop.limit
        /\ l.runs = CurrentLoop.runs /\ l.iter = CurrentLoop.iter + 1
    <3> DEFINE n == CurrentLoop.iter + 1
    <3>1. n \in Nat /\ "none" \in Signals
      BY <1>1 DEF LoopState, Signals
    <3> HIDE DEF n
    <3>2. l = [CurrentLoop EXCEPT !.iter = n, !.signal = "none"]
      BY DEF n
    <3>3. l \in LoopState /\ l.iter = n
      BY <1>1, <3>1, <3>2 DEF LoopState
    <3>4. l.id = CurrentLoop.id /\ l.limit = CurrentLoop.limit /\ l.runs = CurrentLoop.runs
      BY <1>1, <3>2 DEF LoopState
    <3> QED BY <3>3, <3>4 DEF n
  <2> HIDE DEF l
  <2>2. CurrentLoop.runs \in Nat /\ CurrentLoop.iter \in Nat
    BY <1>1 DEF LoopState
  <2> QED BY <2>1, <2>2 DEF LoopOK
<1>3. Advanced = [loop_stack EXCEPT ![Len(loop_stack)] = l]
  <2>1. Len(loop_stack) \in DOMAIN loop_stack
    BY EmptySeq, LenProperties
  <2> QED BY <2>1, <1>1 DEF Advanced, CurrentLoop, LoopState
<1> HIDE DEF l
<1>4. QED BY <1>1, <1>2, <1>3, TopReplacedOK DEF l

(* A break or continue signals the innermost loop.                         *)
LEMMA SignalledOK ==
  ASSUME loop_stack \in Seq(LoopState), loop_stack # <<>>, NEW sig \in Signals
  PROVE  /\ Signalled(sig) \in Seq(LoopState)
         /\ StackOK(loop_stack) => StackOK(Signalled(sig))
<1> DEFINE l == [CurrentLoop EXCEPT !.signal = sig]
<1>1. CurrentLoop \in LoopState /\ (StackOK(loop_stack) => LoopOK(CurrentLoop))
  BY TopTyped
<1>2. l \in LoopState /\ (LoopOK(CurrentLoop) => LoopOK(l))
  BY <1>1 DEF LoopState, LoopOK
<1>3. Signalled(sig) = [loop_stack EXCEPT ![Len(loop_stack)] = l]
  BY <1>1 DEF Signalled, CurrentLoop, LoopState
<1> HIDE DEF l
<1>4. QED BY <1>1, <1>2, <1>3, TopReplacedOK

(* Queuing the body when the body is behind the counter, and the counter   *)
(* below the limit.                                                        *)
LEMMA BodyQueuedOK ==
  ASSUME NEW stack \in Seq(LoopState), stack # <<>>
  PROVE  LET top == stack[Len(stack)]
         IN  /\ BodyQueued(stack) \in Seq(LoopState)
             /\ StackOK(stack) /\ top.runs <= top.iter /\ top.iter < top.limit
                  => StackOK(BodyQueued(stack))
<1> DEFINE top == stack[Len(stack)]
           l == [top EXCEPT !.runs = @ + 1]
<1>1. Len(stack) \in 1 .. Len(stack)
  BY EmptySeq
<1>2. top \in LoopState /\ (StackOK(stack) => LoopOK(top))
  BY <1>1, ElementOfSeq DEF StackOK
<1>3. l \in LoopState /\ (LoopOK(top) /\ top.runs <= top.iter /\ top.iter < top.limit => LoopOK(l))
  BY <1>2 DEF LoopState, LoopOK
<1>4. BodyQueued(stack) = [stack EXCEPT ![Len(stack)] = l]
  BY <1>2 DEF BodyQueued, LoopState
<1> HIDE DEF l
<1>5. QED BY <1>2, <1>3, <1>4, TopReplacedOK

-----------------------------------------------------------------------------
(* Types.                                                                  *)

(* A step after which the loop of get_next_step goes on.                   *)
LEMMA GoOnTyped ==
  ASSUME TypeOK, NEW queue \in Seq(Entry), NEW stack \in Seq(LoopState), GoOn(queue, stack)
  PROVE  TypeOK'
BY DEF TypeOK, GoOn

(* A step that makes the call return an error.                             *)
LEMMA FailTyped ==
  ASSUME TypeOK, main_queue # <<>>, NEW stack \in Seq(LoopState), Fail(stack)
  PROVE  TypeOK'
<1>1. Front \in Entry /\ Rest \in Seq(Entry)
  BY FrontTyped DEF TypeOK
<1> QED BY <1>1 DEF TypeOK, Fail, Entry

(* The stack with which a while loop compares its counter: its loop is on  *)
(* top, and its body one run behind.                                       *)
LEMMA WhileStackOK ==
  ASSUME TypeOK, Scanning({"while_loop"})
  PROVE  /\ WhileStack \in Seq(LoopState)
         /\ WhileStack # <<>>
         /\ StackOK(loop_stack) =>
              LET top == WhileStack[Len(WhileStack)]
              IN  /\ StackOK(WhileStack)
                  /\ top.runs <= top.iter
                  /\ top.limit = Def[Front.step].limit
<1>1. /\ loop_stack \in Seq(LoopState)
      /\ Front.step \in Step /\ Def[Front.step] \in Definition
      /\ Def[Front.step].kind = "while_loop"
  BY FrontTyped DEF TypeOK, Scanning, Entry
<1>2. Def[Front.step].limit \in Nat
  BY <1>1 DEF Definition
<1>3. CASE InLoop(Front.step)
  <2>1. loop_stack # <<>> /\ CurrentLoop.id = Front.step /\ WhileStack = Advanced
    BY <1>3 DEF InLoop, WhileStack
  <2>2. CurrentLoop \in LoopState /\ (StackOK(loop_stack) => LoopOK(CurrentLoop))
    BY <1>1, <2>1, TopTyped
  <2>3. LET top == [CurrentLoop EXCEPT !.iter = @ + 1, !.signal = "none"]
        IN  LoopOK(CurrentLoop) =>
              top.runs <= top.iter /\ top.limit = Def[Front.step].limit
    BY <1>1, <2>1, <2>2 DEF LoopOK, LoopState
  <2> QED BY <1>1, <2>1, <2>2, <2>3, AdvancedOK
<1>4. CASE ~InLoop(Front.step)
  <2>1. WhileStack = Append(loop_stack, NewLoop(Front.step, Def[Front.step].limit))
    BY <1>4 DEF WhileStack
  <2>2. LET new == NewLoop(Front.step, Def[Front.step].limit)
        IN  new.runs <= new.iter /\ new.limit = Def[Front.step].limit
    BY DEF NewLoop
  <2> QED BY <1>1, <1>2, <2>1, <2>2, PushedLoopOK
<1> QED BY <1>3, <1>4

(* The two loop steps put their bodies in front of the queue.              *)
LEMMA BodyTyped ==
  ASSUME TypeOK, main_queue # <<>>, NEW loop \in Step \cup {NoStep},
         NEW e \in Entry
  PROVE  Queued(Def[Front.step].body, loop, Front.resolved) \o <<e>> \o Rest \in Seq(Entry)
<1>1. /\ Front \in Entry /\ Rest \in Seq(Entry) /\ Def[Front.step] \in Definition
      /\ Front.resolved \in SUBSET Fields
  BY FrontTyped DEF TypeOK, Entry
<1>2. Def[Front.step].body \in Seq(Step)
  BY <1>1 DEF Definition
<1>3. Queued(Def[Front.step].body, loop, Front.resolved) \in Seq(Entry)
  BY <1>1, <1>2, QueuedTyped
<1>4. <<e>> \in Seq(Entry)
  OBVIOUS
<1> QED BY <1>1, <1>3, <1>4, ConcatProperties

(* Every variable keeps its type, whatever the workflow.                   *)
THEOREM TypeCorrect == Spec => []TypeOK
<1>1. Init => TypeOK
  <2> SUFFICES ASSUME Init PROVE TypeOK
    OBVIOUS
  <2>1. Queued(Main, NoStep, {}) \in Seq(Entry)
    BY QueuedTyped, DefAssumption
  <2> QED BY <2>1 DEF Init, TypeOK
<1>2. TypeOK /\ [Next]_vars => TypeOK'
  <2> SUFFICES ASSUME TypeOK, [Next]_vars PROVE TypeOK'
    OBVIOUS
  <2>0. /\ main_queue # <<>> =>
             /\ Front \in Entry /\ Rest \in Seq(Entry) /\ Front.step \in Step
             /\ Front.resolved \in SUBSET Fields /\ Def[Front.step] \in Definition
        /\ loop_stack \in Seq(LoopState) /\ main_queue \in Seq(Entry)
    BY FrontTyped DEF TypeOK, Entry
  <2>1. CASE BeginCall
    BY <2>1 DEF TypeOK, BeginCall
  <2>2. CASE ClientStep
    <3>1. Append(client_queue, Front.step) \in Seq(Step)
      BY <2>0, <2>2 DEF ClientStep, Scanning, TypeOK
    <3> QED BY <2>0, <2>2, <3>1 DEF ClientStep, Scanning, TypeOK
  <2>3. CASE PrepareFails
    BY <2>0, <2>3, FailTyped DEF PrepareFails, Scanning
  <2>4. CASE ServerStep
    BY <2>0, <2>4, FailTyped, GoOnTyped DEF ServerStep, Scanning
  <2>5. CASE ProcessConditional
    <3>1. CASE Fail(loop_stack)
      BY <2>0, <2>5, <3>1, FailTyped DEF ProcessConditional, Scanning
    <3>2. ASSUME NEW branch \in {Def[Front.step].body, Def[Front.step].orelse},
                 GoOn(Queued(branch, NoStep, Front.resolved \cup {"items"}) \o Rest, loop_stack)
          PROVE  TypeOK'
      <4>1. main_queue # <<>>
        BY <2>5 DEF ProcessConditional, Scanning
      <4>2. branch \in Seq(Step)
        BY <2>0, <4>1 DEF Definition
      <4>3. Front.resolved \cup {"items"} \in SUBSET Fields
        BY <2>0, <4>1 DEF Fields
      <4>4. Queued(branch, NoStep, Front.resolved \cup {"items"}) \in Seq(Entry)
        BY <4>2, <4>3, QueuedTyped
      <4>5. Queued(branch, NoStep, Front.resolved \cup {"items"}) \o Rest \in Seq(Entry)
        BY <2>0, <4>1, <4>4, ConcatProperties
      <4> QED BY <2>0, <3>2, <4>5, GoOnTyped
    <3> QED BY <2>5, <3>1, <3>2 DEF ProcessConditional
  <2>6. CASE WhileWithoutCondition
    BY <2>0, <2>6, FailTyped DEF WhileWithoutCondition, Scanning
  <2>7. CASE WhileExit \/ WhileFails
    <3>1. main_queue # <<>> /\ ExitedLoop(WhileStack) \in Seq(LoopState)
      BY <2>7, WhileStackOK, ExitedLoopOK DEF WhileExit, WhileFails, Scanning
    <3> QED BY <2>0, <2>7, <3>1, FailTyped, GoOnTyped DEF WhileExit, WhileFails
  <2>8. CASE WhileIterate
    <3>1. main_queue # <<>> /\ BodyQueued(WhileStack) \in Seq(LoopState)
      BY <2>8, WhileStackOK, BodyQueuedOK DEF WhileIterate, Scanning
    <3>2. [Front EXCEPT !.cont = TRUE, !.loop = NoStep] \in Entry
      BY <2>0, <3>1 DEF Entry
    <3> QED BY <2>8, <3>1, <3>2, BodyTyped, GoOnTyped DEF WhileIterate
  <2>9. CASE ProcessContinuation
    <3>1. main_queue # <<>> /\ "none" \in Signals
      BY <2>9 DEF ProcessContinuation, Signals
    <3>2. CASE loop_stack = <<>>
      BY <2>0, <2>9, <3>1, <3>2, FailTyped DEF ProcessContinuation
    <3>3. CASE loop_stack # <<>> /\ CurrentLoop.signal = "break"
      BY <2>0, <2>9, <3>1, <3>3, ExitedLoopOK, GoOnTyped DEF ProcessContinuation
    <3>4. CASE loop_stack # <<>> /\ CurrentLoop.signal # "break"
      <4>1. <<Front.step>> \in Seq(Step) /\ Fields \in SUBSET Fields
        BY <2>0, <3>1
      <4>2. Queued(<<Front.step>>, NoStep, Fields) \in Seq(Entry)
        BY <4>1, QueuedTyped
      <4>3. Queued(<<Front.step>>, NoStep, Fields) \o Rest \in Seq(Entry)
        BY <2>0, <3>1, <4>2, ConcatProperties
      <4> QED BY <2>0, <2>9, <3>1, <3>4, <4>3, SignalledOK, GoOnTyped DEF ProcessContinuation
    <3> QED BY <3>2, <3>3, <3>4
  <2>10. CASE ForeachFails
    BY <2>0, <2>10, FailTyped DEF ForeachFails, Scanning
  <2>11. CASE ForeachEnter
    <3>1. main_queue # <<>> /\ Def[Front.step].items \in SUBSET Nat
      BY <2>0, <2>11 DEF ForeachEnter, Scanning, Definition
    <3>2. ForeachBody \in Seq(Entry)
      BY <2>0, <3>1, BodyTyped DEF ForeachBody
    <3>3. PICK n \in Def[Front.step].items :
            LET entered == Append(loop_stack, NewLoop(Front.step, n))
            IN  IF n = 0 THEN GoOn(Rest, entered) ELSE GoOn(ForeachBody, BodyQueued(entered))
      BY <2>11 DEF ForeachEnter
    <3> DEFINE entered == Append(loop_stack, NewLoop(Front.step, n))
    <3>4. entered \in Seq(LoopState) /\ entered # <<>>
      BY <2>0, <3>1, PushedLoopOK
    <3> HIDE DEF entered
    <3>5. BodyQueued(entered) \in Seq(LoopState)
      BY <3>4, BodyQueuedOK
    <3> QED BY <2>0, <3>1, <3>2, <3>3, <3>4, <3>5, GoOnTyped DEF entered
  <2>12. CASE ForeachResume
    <3>1. main_queue # <<>> /\ loop_stack # <<>>
      BY <2>12 DEF ForeachResume, Scanning, InLoop
    <3>2. ForeachBody \in Seq(Entry)
      BY <2>0, <3>1, BodyTyped DEF ForeachBody
    <3>3. BodyQueued(Advanced) \in Seq(LoopState) /\ ExitedLoop(loop_stack) \in Seq(LoopState)
      BY <2>0, <3>1, AdvancedOK, BodyQueuedOK, ExitedLoopOK
    <3> QED BY <2>0, <2>12, <3>1, <3>2, <3>3, GoOnTyped DEF ForeachResume
  <2>13. CASE ProcessBreak \/ ProcessContinue
    <3>1. main_queue # <<>>
      BY <2>13 DEF ProcessBreak, ProcessContinue, Scanning
    <3>2. \A n \in Nat : SubSeq(Rest, n + 1, Len(Rest)) \in Seq(Entry)
      BY <2>0, <3>1, SuffixTyped
    <3>3. \A n \in Nat : SubSeq(Rest, n + 2, Len(Rest)) \in Seq(Entry)
      <4>1. ASSUME NEW n \in Nat PROVE SubSeq(Rest, n + 2, Len(Rest)) \in Seq(Entry)
        <5>1. n + 1 \in Nat /\ n + 2 = (n + 1) + 1
          OBVIOUS
        <5> QED BY <3>2, <5>1
      <4> QED BY <4>1
    <3>4. "break" \in Signals /\ "continue" \in Signals
      BY DEF Signals
    <3>5. CASE Fail(loop_stack)
      BY <2>0, <3>1, <3>5, FailTyped
    <3>6. CASE ProcessBreak /\ ~Fail(loop_stack)
      <4>1. PICK n \in 0 .. Len(Rest) :
              LET atLoop == n < Len(Rest) /\ IsLoopStep(Rest[n + 1], CurrentLoop.id)
                  first  == IF atLoop THEN n + 2 ELSE n + 1
              IN  GoOn(SubSeq(Rest, first, Len(Rest)), Signalled("break"))
        BY <3>6 DEF ProcessBreak
      <4>2. loop_stack # <<>>
        BY <3>6 DEF ProcessBreak
      <4>3. Signalled("break") \in Seq(LoopState)
        BY <2>0, <3>4, <4>2, SignalledOK
      <4>4. n \in Nat
        OBVIOUS
      <4>5. \/ GoOn(SubSeq(Rest, n + 1, Len(Rest)), Signalled("break"))
            \/ GoOn(SubSeq(Rest, n + 2, Len(Rest)), Signalled("break"))
        BY <4>1
      <4> QED BY <3>2, <3>3, <4>3, <4>4, <4>5, GoOnTyped
    <3>7. CASE ProcessContinue /\ ~Fail(loop_stack)
      <4>1. PICK n \in 0 .. Len(Rest) :
              GoOn(SubSeq(Rest, n + 1, Len(Rest)), Signalled("continue"))
        BY <3>7 DEF ProcessContinue
      <4>2. loop_stack # <<>>
        BY <3>7 DEF ProcessContinue
      <4>3. Signalled("continue") \in Seq(LoopState)
        BY <2>0, <3>4, <4>2, SignalledOK
      <4>4. SubSeq(Rest, n + 1, Len(Rest)) \in Seq(Entry)
        BY <3>2
      <4> QED BY <4>1, <4>3, <4>4, GoOnTyped
    <3> QED BY <2>13, <3>5, <3>6, <3>7
  <2>14. CASE Respond
    BY <2>14 DEF TypeOK, Respond
  <2>15. CASE Finish
    BY <2>15, EmptySeq DEF TypeOK, Finish
  <2>16. CASE UNCHANGED vars
    BY <2>16 DEF TypeOK, vars
  <2> QED
    BY <2>1, <2>2, <2>3, <2>4, <2>5, <2>6, <2>7, <2>8, <2>9, <2>10, <2>11, <2>12, <2>13,
       <2>14, <2>15, <2>16 DEF Next, ProcessStep
<1> QED BY <1>1, <1>2, PTL DEF Spec

-----------------------------------------------------------------------------
(* The number of iterations.                                               *)

(* What GoOn and Fail do to the stack, and nothing else, matters here.     *)
LEMMA StackStep ==
  ASSUME NEW queue, NEW stack, GoOn(queue, stack) \/ Fail(stack), StackOK(stack)
  PROVE  StackOK(loop_stack)'
BY DEF GoOn, Fail, StackOK

(* No action makes a loop's counter fall behind its runs.                  *)
LEMMA IterationInductive ==
  ASSUME TypeOK, StackOK(loop_stack), [Next]_vars
  PROVE  StackOK(loop_stack)'
<1>0. /\ main_queue # <<>> => Front.step \in Step /\ Def[Front.step] \in Definition
      /\ loop_stack \in Seq(LoopState)
  BY FrontTyped DEF TypeOK, Entry
<1>1. CASE loop_stack' = loop_stack
  BY <1>1 DEF StackOK
<1>2. CASE loop_stack' = <<>>
  BY <1>2, EmptySeq DEF StackOK
<1>3. CASE WhileExit \/ WhileFails
  <2>1. StackOK(ExitedLoop(WhileStack))
    BY <1>3, WhileStackOK, ExitedLoopOK DEF WhileExit, WhileFails
  <2> QED BY <1>3, <2>1, StackStep DEF WhileExit, WhileFails
<1>4. CASE WhileIterate
  <2>1. /\ WhileStack \in Seq(LoopState) /\ WhileStack # <<>> /\ StackOK(WhileStack)
        /\ WhileStack[Len(WhileStack)].runs <= WhileStack[Len(WhileStack)].iter
        /\ WhileStack[Len(WhileStack)].limit = Def[Front.step].limit
    BY <1>4, WhileStackOK DEF WhileIterate
  <2>2. main_queue # <<>> /\ Def[Front.step].limit \in Nat
    BY <1>0, <1>4 DEF WhileIterate, Scanning, Definition
  <2>3. WhileStack[Len(WhileStack)] \in LoopState
    BY <2>1, EmptySeq, ElementOfSeq
  <2>4. WhileStack[Len(WhileStack)].iter < WhileStack[Len(WhileStack)].limit
    BY <1>4, <2>1, <2>2, <2>3 DEF WhileIterate, WhileExhausted, LoopState
  <2>5. StackOK(BodyQueued(WhileStack))
    BY <2>1, <2>4, BodyQueuedOK
  <2> QED BY <1>4, <2>5, StackStep DEF WhileIterate
<1>5. CASE ProcessContinuation
  <2>1. "none" \in Signals
    BY DEF Signals
  <2> QED BY <1>0, <1>1, <1>5, <2>1, ExitedLoopOK, SignalledOK, StackStep
          DEF ProcessContinuation, Fail
<1>6. CASE ForeachEnter
  <2>1. /\ main_queue # <<>> /\ Def[Front.step].items \in SUBSET Nat
        /\ Def[Front.step].kind = "foreach"
    BY <1>0, <1>6 DEF ForeachEnter, Scanning, Definition
  <2>2. PICK n \in Def[Front.step].items :
          LET entered == Append(loop_stack, NewLoop(Front.step, n))
          IN  IF n = 0 THEN GoOn(Rest, entered) ELSE GoOn(ForeachBody, BodyQueued(entered))
    BY <1>6 DEF ForeachEnter
  <2> DEFINE entered == Append(loop_stack, NewLoop(Front.step, n))
  <2>3. n \in Nat
    BY <2>1
  <2>4. /\ entered \in Seq(LoopState) /\ entered # <<>> /\ StackOK(entered)
        /\ entered[Len(entered)] = NewLoop(Front.step, n)
    BY <1>0, <2>1, <2>3, PushedLoopOK
  <2> HIDE DEF entered
  <2>5. n # 0 => StackOK(BodyQueued(entered))
    <3>1. n # 0 => LET top == entered[Len(entered)]
                   IN  top.runs <= top.iter /\ top.iter < top.limit
      BY <2>3, <2>4 DEF NewLoop
    <3> QED BY <2>4, <3>1, BodyQueuedOK
  <2> QED BY <2>2, <2>4, <2>5, StackStep DEF entered
<1>7. CASE ForeachResume
  <2>1. main_queue # <<>> /\ loop_stack # <<>>
    BY <1>7 DEF ForeachResume, Scanning, InLoop
  <2>2. StackOK(ExitedLoop(loop_stack))
    BY <1>0, <2>1, ExitedLoopOK
  <2>3. CASE CurrentLoop.iter + 1 < CurrentLoop.limit
    <3>1. CurrentLoop \in LoopState /\ LoopOK(CurrentLoop)
      BY <1>0, <2>1, TopTyped
    <3>2. LET top == [CurrentLoop EXCEPT !.iter = @ + 1, !.signal = "none"]
          IN  top.runs <= top.iter /\ top.iter < top.limit
      BY <2>3, <3>1 DEF LoopOK, LoopState
    <3>3. StackOK(BodyQueued(Advanced))
      BY <1>0, <2>1, <3>2, AdvancedOK, BodyQueuedOK
    <3> QED BY <1>7, <2>2, <3>3, StackStep DEF ForeachResume
  <2>4. CASE ~(CurrentLoop.iter + 1 < CurrentLoop.limit)
    <3>1. CurrentLoop \in LoopState
      BY <1>0, <2>1, TopTyped
    <3>2. CurrentLoop.iter + 1 >= CurrentLoop.limit
      BY <2>4, <3>1 DEF LoopState
    <3> QED BY <1>7, <2>2, <3>2, StackStep DEF ForeachResume
  <2> QED BY <2>3, <2>4
<1>8. CASE ProcessBreak \/ ProcessContinue
  <2>1. "break" \in Signals /\ "continue" \in Signals
    BY DEF Signals
  <2>2. loop_stack # <<>> =>
          StackOK(Signalled("break")) /\ StackOK(Signalled("continue"))
    BY <1>0, <2>1, SignalledOK
  <2>3. CASE loop_stack = <<>>
    BY <1>8, <2>3, StackStep DEF ProcessBreak, ProcessContinue
  <2>4. CASE loop_stack # <<>>
    BY <1>8, <2>2, <2>4, StackStep DEF ProcessBreak, ProcessContinue
  <2> QED BY <2>3, <2>4
<1> QED
  BY <1>1, <1>2, <1>3, <1>4, <1>5, <1>6, <1>7, <1>8
     DEF Next, ProcessStep, vars, BeginCall, ClientStep, PrepareFails, ServerStep,
         ProcessConditional, WhileWithoutCondition, ForeachFails, Respond, Finish, GoOn, Fail

(* No loop of any workflow queues its body more often than max_iterations  *)
(* or than its list had items when it was entered.                         *)
THEOREM IterationsBounded == Spec => []IterationBound
<1>1. Init => StackOK(loop_stack)
  BY EmptySeq DEF Init, StackOK
<1>2. TypeOK /\ TypeOK' /\ StackOK(loop_stack) /\ [Next]_vars => StackOK(loop_stack)'
  BY IterationInductive
<1>3. TypeOK /\ StackOK(loop_stack) => IterationBound
  BY LenProperties DEF TypeOK, StackOK, LoopOK, IterationBound
<1> QED BY <1>1, <1>2, <1>3, TypeCorrect, PTL DEF Spec

-----------------------------------------------------------------------------
(* What the client gets.                                                   *)

Messages(q) == \A i \in 1 .. Len(q) : Def[q[i]].kind = "user_message"
AllButLast(q) == \A i \in 1 .. Len(q) - 1 : Def[q[i]].kind = "user_message"

(* The loop goes on only while the client queue has nothing but messages.  *)
ClientQueueOK ==
  /\ phase # "respond" => Messages(client_queue)
  /\ AllButLast(client_queue)
  /\ AllButLast(pending)

(* Every action keeps the shape of what is collected for the client.       *)
LEMMA ClientQueueInductive ==
  ASSUME TypeOK, ClientQueueOK, [Next]_vars
  PROVE  ClientQueueOK'
<1>0. client_queue \in Seq(Step) /\ Len(client_queue) \in Nat
  BY LenProperties DEF TypeOK
<1>1. CASE ClientStep
  <2>1. Front.step \in Step /\ Messages(client_queue)
    BY <1>1, FrontTyped DEF ClientStep, Scanning, TypeOK, Entry, ClientQueueOK
  <2>2. /\ Len(client_queue') = Len(client_queue) + 1
        /\ \A i \in 1 .. Len(client_queue) : client_queue'[i] = client_queue[i]
        /\ client_queue'[Len(client_queue) + 1] = Front.step
    BY <1>0, <1>1, <2>1, AppendProperties DEF ClientStep
  <2>3. AllButLast(client_queue')
    BY <1>0, <2>1, <2>2 DEF AllButLast, Messages
  <2>4. phase' # "respond" => Messages(client_queue')
    BY <1>0, <1>1, <2>1, <2>2 DEF ClientStep, Messages
  <2>5. pending' = pending
    BY <1>1 DEF ClientStep
  <2> QED BY <2>3, <2>4, <2>5 DEF ClientQueueOK, AllButLast, Messages
<1>2. CASE BeginCall
  BY <1>2, EmptySeq DEF BeginCall, ClientQueueOK, AllButLast, Messages
<1>3. CASE Respond
  BY <1>3, EmptySeq DEF Respond, ClientQueueOK, AllButLast, Messages
<1>4. CASE Finish
  BY <1>4, EmptySeq DEF Finish, ClientQueueOK, AllButLast, Messages
<1>5. ASSUME UNCHANGED <<client_queue, pending>>, phase' # "respond" => phase # "respond"
      PROVE  ClientQueueOK'
  BY <1>5 DEF ClientQueueOK, AllButLast, Messages
<1>6. CASE ProcessStep /\ ~ClientStep
  <2>1. phase = "scan"
    BY <1>6 DEF ProcessStep, PrepareFails, ServerStep, ProcessConditional,
         WhileWithoutCondition, WhileExit, WhileFails, WhileIterate, ProcessContinuation,
         ForeachFails, ForeachEnter, ForeachResume, ProcessBreak, ProcessContinue, Scanning
  <2>2. UNCHANGED <<client_queue, pending>>
    BY <1>6 DEF ProcessStep, PrepareFails, ServerStep, ProcessConditional,
         WhileWithoutCondition, WhileExit, WhileFails, WhileIterate, ProcessContinuation,
         ForeachFails, ForeachEnter, ForeachResume, ProcessBreak, ProcessContinue, GoOn, Fail
  <2> QED BY <1>5, <2>1, <2>2
<1>7. CASE UNCHANGED vars
  BY <1>5, <1>7 DEF vars
<1> QED BY <1>1, <1>2, <1>3, <1>4, <1>6, <1>7 DEF Next

(* No response of any workflow has a step after one that is no message.    *)
THEOREM ResponsesShaped == Spec => []ResponseShape
<1>1. Init => ClientQueueOK
  BY EmptySeq DEF Init, ClientQueueOK, AllButLast, Messages
<1>2. TypeOK /\ ClientQueueOK /\ [Next]_vars => ClientQueueOK'
  BY ClientQueueInductive
<1>3. ClientQueueOK => ResponseShape
  BY DEF ClientQueueOK, AllButLast, ResponseShape
<1> QED BY <1>1, <1>2, <1>3, TypeCorrect, PTL DEF Spec

-----------------------------------------------------------------------------
(* Completion.                                                             *)

(* During a call no step is outstanding, so that Finish leaves none.       *)
DrainedInv ==
  /\ CompletedMeansDrained
  /\ phase # "idle" => pending = <<>>

(* A workflow that is reported completed has nothing queued, nothing to    *)
(* send and nothing outstanding, and later calls do not change that.       *)
THEOREM CompletedDrained == Spec => []CompletedMeansDrained
<1>1. Init => DrainedInv
  BY DEF Init, DrainedInv, CompletedMeansDrained
<1>2. DrainedInv /\ [Next]_vars => DrainedInv'
  <2> SUFFICES ASSUME DrainedInv, [Next]_vars PROVE DrainedInv'
    OBVIOUS
  <2>1. CASE BeginCall
    BY <2>1 DEF BeginCall, DrainedInv, CompletedMeansDrained
  <2>2. CASE ProcessStep
    <3>1. phase = "scan" /\ main_queue # <<>>
      BY <2>2 DEF ProcessStep, ClientStep, PrepareFails, ServerStep, ProcessConditional,
         WhileWithoutCondition, WhileExit, WhileFails, WhileIterate, ProcessContinuation,
         ForeachFails, ForeachEnter, ForeachResume, ProcessBreak, ProcessContinue, Scanning
    <3>2. UNCHANGED <<pending, status>>
      BY <2>2 DEF ProcessStep, ClientStep, PrepareFails, ServerStep, ProcessConditional,
         WhileWithoutCondition, WhileExit, WhileFails, WhileIterate, ProcessContinuation,
         ForeachFails, ForeachEnter, ForeachResume, ProcessBreak, ProcessContinue, GoOn, Fail
    <3> QED BY <3>1, <3>2 DEF DrainedInv, CompletedMeansDrained
  <2>3. CASE Respond
    BY <2>3 DEF Respond, DrainedInv, CompletedMeansDrained
  <2>4. CASE Finish
    BY <2>4 DEF Finish, LoopOver, DrainedInv, CompletedMeansDrained
  <2>5. CASE UNCHANGED vars
    BY <2>5 DEF vars, DrainedInv, CompletedMeansDrained
  <2> QED BY <2>1, <2>2, <2>3, <2>4, <2>5 DEF Next
<1> QED BY <1>1, <1>2, PTL DEF Spec, DrainedInv

-----------------------------------------------------------------------------
(* The parts of steps.                                                     *)

(* The parts of a step are steps.                                          *)
LEMMA PartsTyped ==
  ASSUME NEW s \in Step
  PROVE  Parts(s) \in SUBSET Step
<1>1. Def[s].body \in Seq(Step) /\ Def[s].orelse \in Seq(Step)
  BY DefAssumption DEF Definition
<1>2. /\ DOMAIN Def[s].body = 1..Len(Def[s].body) /\ DOMAIN Def[s].orelse = 1..Len(Def[s].orelse)
      /\ \A i \in 1..Len(Def[s].body) : Def[s].body[i] \in Step
      /\ \A i \in 1..Len(Def[s].orelse) : Def[s].orelse[i] \in Step
  BY <1>1, ElementOfSeq, LenProperties
<1> QED BY <1>2 DEF Parts

(* Under is the least set that has the base and is closed.                 *)
LEMMA UnderClosed ==
  ASSUME NEW base \in SUBSET Step, NEW kinds
  PROVE  /\ base \subseteq Under(base, kinds) /\ Closed(Under(base, kinds), kinds)
         /\ Under(base, kinds) \in SUBSET Step
<1>1. base \subseteq Under(base, kinds) /\ Under(base, kinds) \in SUBSET Step
  BY DEF Under
<1>2. ASSUME NEW s \in Under(base, kinds), Def[s].kind \in kinds, NEW t \in Parts(s)
      PROVE  t \in Under(base, kinds)
  <2>1. s \in Step /\ t \in Step
    BY PartsTyped DEF Under
  <2>2. ASSUME NEW T \in SUBSET AllParts, Closed(base \cup T, kinds) PROVE t \in base \cup T
    <3>1. s \in base \cup T
      BY <2>2 DEF Under
    <3> QED BY <1>2, <2>2, <3>1 DEF Closed
  <2> QED BY <2>1, <2>2 DEF Under
<1> QED BY <1>1, <1>2 DEF Closed

LEMMA UnderLeast ==
  ASSUME NEW base \in SUBSET Step, NEW kinds,
         NEW S \in SUBSET Step, base \subseteq S, Closed(S, kinds)
  PROVE  Under(base, kinds) \subseteq S
<1> DEFINE T == S \cap AllParts
<1>1. T \in SUBSET AllParts
  OBVIOUS
<1>2. ASSUME NEW s \in base \cup T, Def[s].kind \in kinds, NEW t \in Parts(s)
      PROVE  t \in base \cup T
  <2>1. s \in S /\ s \in Step
    BY <1>2
  <2>2. t \in S /\ t \in AllParts
    BY <1>2, <2>1 DEF Closed, AllParts
  <2> QED BY <2>2
<1>3. Closed(base \cup T, kinds)
  BY <1>2 DEF Closed
<1> HIDE DEF T
<1>4. Under(base, kinds) \subseteq base \cup T
  BY <1>1, <1>3 DEF Under
<1> QED BY <1>4 DEF T

(* What a loop has inside, directly or at any depth, is closed.            *)
LEMMA InsideLoops ==
  ASSUME NEW l \in Step
  PROVE  /\ Parts(l) \subseteq Direct(l) /\ Parts(l) \subseteq Inside(l)
         /\ \A s \in Direct(l) : Def[s].kind = "conditional" => Parts(s) \subseteq Direct(l)
         /\ \A s \in Inside(l) : Parts(s) \subseteq Inside(l)
<1>1. /\ Parts(l) \subseteq Direct(l) /\ Parts(l) \subseteq Inside(l)
      /\ Closed(Direct(l), {"conditional"}) /\ Closed(Inside(l), Kinds)
  BY PartsTyped, UnderClosed DEF Direct, Inside
<1>2. \A s \in Inside(l) : Def[s].kind \in Kinds
  BY DefAssumption DEF Inside, Under, Definition
<1> QED BY <1>1, <1>2 DEF Closed

(* What may come with a replaced field, and what is inside it.             *)
LEMMA ReplacedParts ==
  ASSUME NEW s \in Step, NEW field \in Fields
  PROVE  /\ Def[s].kind = "while_loop" => s \in Replaced(field)
         /\ Def[s].kind \in Replaces(field) => Parts(s) \subseteq Replaced(field)
         /\ s \in Replaced(field) => Parts(s) \subseteq Replaced(field)
<1> DEFINE base == {t \in Step : \/ Def[t].kind = "while_loop"
                               \/ \E c \in Step : Def[c].kind \in Replaces(field) /\ t \in Parts(c)}
<1>1. base \subseteq Replaced(field) /\ Closed(Replaced(field), Kinds)
  BY UnderClosed DEF Replaced
<1>2. Def[s].kind \in Kinds
  BY DefAssumption DEF Definition
<1> QED BY <1>1, <1>2, PartsTyped DEF Closed

-----------------------------------------------------------------------------
(* A queue and a stack that are nested: where the markers of the loops are.*)

(* pos[i] is where the marker of loop i is: inner ones come first.         *)
Ordered(q, stack, pos) ==
  /\ pos \in [1..Len(stack) -> 1..Len(q)]
  /\ \A i, j \in 1..Len(stack) : i < j => pos[j] < pos[i]

(* Each is an entry of its loop, and a continuation is some loop's marker. *)
MarkersAt(q, stack, pos) ==
  /\ \A i \in 1..Len(stack) :
       /\ q[pos[i]].step = stack[i].id
       /\ Def[stack[i].id].kind \in LoopKinds
       /\ stack[i].signal # "break"
  /\ \A r \in 1..Len(q) :
       q[r].cont => Def[q[r].step].kind = "while_loop" /\ \E i \in 1..Len(stack) : pos[i] = r

(* What is before a marker belongs to its loop; what is behind the next    *)
(* marker is executed by that loop itself.                                 *)
StepsInside(q, stack, pos) ==
  \A i \in 1..Len(stack), r \in 1..Len(q) :
    r < pos[i] =>
      /\ q[r].step \in Inside(stack[i].id)
      /\ (\A j \in 1..Len(stack) : i < j => pos[j] < r) => q[r].step \in Direct(stack[i].id)

(* Only steps that may come with a replaced field do.                      *)
FieldsReplaced(q) ==
  \A r \in 1..Len(q) : \A field \in q[r].resolved : q[r].step \in Replaced(field)

Nested(q, stack, pos) ==
  /\ Ordered(q, stack, pos)
  /\ MarkersAt(q, stack, pos)
  /\ StepsInside(q, stack, pos)
  /\ FieldsReplaced(q)

Moved(pos, n) == [i \in DOMAIN pos |-> pos[i] + n]

(* The loop stack without its innermost loop.                              *)
LEMMA ExitedLoopParts ==
  ASSUME NEW stack \in Seq(LoopState), stack # <<>>
  PROVE  /\ ExitedLoop(stack) \in Seq(LoopState) /\ Len(ExitedLoop(stack)) = Len(stack) - 1
         /\ \A i \in 1..Len(stack) - 1 : ExitedLoop(stack)[i] = stack[i]
<1>1. Len(stack) \in Nat \ {0}
  BY EmptySeq, LenProperties
<1>2. \A i \in 1 .. Len(stack) - 1 : stack[i] \in LoopState
  BY <1>1, ElementOfSeq
<1> DEFINE n == Len(stack) - 1
<1>3. n \in Nat /\ n - 1 + 1 = n
  BY <1>1
<1>4. \A i \in 1 .. n : stack[i] \in LoopState
  BY <1>2
<1>5. /\ SubSeq(stack, 1, n) \in Seq(LoopState)
      /\ Len(SubSeq(stack, 1, n)) = n
      /\ \A i \in 1 .. n : SubSeq(stack, 1, n)[i] = stack[i]
  <2> HIDE DEF n
  <2> QED BY <1>3, <1>4, SubSeqProperties
<1> QED BY <1>5 DEF ExitedLoop

(* Entries are removed from the front, and no marker among them.           *)
LEMMA DroppedNested ==
  ASSUME NEW q \in Seq(Entry), NEW stack \in Seq(LoopState), NEW pos, Nested(q, stack, pos),
         NEW k \in 0..Len(q), \A i \in 1..Len(stack) : k < pos[i]
  PROVE  Nested(SubSeq(q, k + 1, Len(q)), stack, Moved(pos, -k))
<1> DEFINE t == SubSeq(q, k + 1, Len(q))
           p == Moved(pos, -k)
           n == Len(stack)
<1>0. n \in Nat /\ Len(q) \in Nat
  BY LenProperties
<1>1. /\ t \in Seq(Entry) /\ Len(t) = Len(q) - k
      /\ \A r \in 1..Len(t) : t[r] = q[r + k]
  <2>1. k + 1 \in 1..Len(q) + 1 /\ Len(q) \in k..Len(q)
    BY <1>0
  <2>2. \A i \in k + 1..Len(q) : q[i] \in Entry
    BY <1>0, ElementOfSeq
  <2> QED BY <1>0, <2>1, <2>2, SubSeqProperties
<1>2. /\ pos \in [1..n -> 1..Len(q)] /\ p \in [1..n -> 1..Len(t)]
      /\ \A i \in 1..n : p[i] = pos[i] - k
      /\ \A i, j \in 1..n : i < j => pos[j] < pos[i]
  <2>1. pos \in [1..n -> 1..Len(q)] /\ \A i, j \in 1..n : i < j => pos[j] < pos[i]
    BY DEF Nested, Ordered
  <2>2. \A i \in 1..n : pos[i] \in Int /\ p[i] = pos[i] + (-k)
    BY <2>1 DEF Moved
  <2>3. ASSUME NEW i \in 1..n PROVE p[i] = pos[i] - k /\ p[i] \in 1..Len(t)
    <3>1. pos[i] \in 1..Len(q) /\ k < pos[i] /\ p[i] = pos[i] + (-k)
      BY <2>1, <2>2
    <3> HIDE DEF t, p
    <3> QED BY <1>0, <1>1, <3>1
  <2>4. p = [i \in 1..n |-> p[i]]
    BY <2>1 DEF Moved
  <2> QED BY <2>1, <2>3, <2>4
<1> HIDE DEF t, p, n
<1>3. Ordered(t, stack, p)
  <2>1. \A i, j \in 1..n : i < j => p[j] < p[i]
    BY <1>0, <1>2
  <2> QED BY <1>2, <2>1 DEF Ordered, n
<1>4. MarkersAt(t, stack, p)
  <2>1. ASSUME NEW i \in 1..n PROVE t[p[i]] = q[pos[i]]
    BY <1>0, <1>1, <1>2, SMTT(30)
  <2>2. ASSUME NEW r \in 1..Len(t), t[r].cont
        PROVE  Def[t[r].step].kind = "while_loop" /\ \E i \in 1..n : p[i] = r
    <3>1. r + k \in 1..Len(q) /\ t[r] = q[r + k]
      BY <1>0, <1>1
    <3>2. Def[q[r + k].step].kind = "while_loop" /\ \E i \in 1..n : pos[i] = r + k
      BY <2>2, <3>1 DEF Nested, MarkersAt, n
    <3>3. PICK i \in 1..n : pos[i] = r + k
      BY <3>2
    <3>4. p[i] = r
      BY <1>0, <1>2, <3>3
    <3> QED BY <3>1, <3>2, <3>4
  <2> QED BY <2>1, <2>2 DEF Nested, MarkersAt, n
<1>5. StepsInside(t, stack, p)
  <2> SUFFICES ASSUME NEW i \in 1..n, NEW r \in 1..Len(t), r < p[i]
               PROVE  /\ t[r].step \in Inside(stack[i].id)
                      /\ (\A j \in 1..n : i < j => p[j] < r) => t[r].step \in Direct(stack[i].id)
    BY DEF StepsInside, n
  <2>1. r + k \in 1..Len(q) /\ t[r] = q[r + k] /\ r + k < pos[i]
    BY <1>0, <1>1, <1>2, SMTT(30)
  <2>2. (\A j \in 1..n : i < j => p[j] < r) => \A j \in 1..n : i < j => pos[j] < r + k
    BY <1>0, <1>2
  <2> QED BY <2>1, <2>2 DEF Nested, StepsInside, n
<1>6. FieldsReplaced(t)
  <2>1. \A r \in 1..Len(t) : r + k \in 1..Len(q) /\ t[r] = q[r + k]
    BY <1>0, <1>1
  <2> QED BY <2>1 DEF Nested, FieldsReplaced
<1> QED BY <1>3, <1>4, <1>5, <1>6 DEF Nested, t, p

(* The marker of the innermost loop is removed from the front.             *)
LEMMA PoppedNested ==
  ASSUME NEW q \in Seq(Entry), NEW stack \in Seq(LoopState), NEW pos, Nested(q, stack, pos),
         stack # <<>>, pos[Len(stack)] = 1
  PROVE  Nested(Tail(q), ExitedLoop(stack), [i \in 1..Len(stack) - 1 |-> pos[i] - 1])
<1> DEFINE t == Tail(q)
           p == [i \in 1..Len(stack) - 1 |-> pos[i] - 1]
           n == Len(stack)
           s == ExitedLoop(stack)
<1>0. n \in Nat \ {0} /\ Len(q) \in Nat
  BY LenProperties, EmptySeq
<1>1. /\ pos \in [1..n -> 1..Len(q)]
      /\ \A i, j \in 1..n : i < j => pos[j] < pos[i]
  BY DEF Nested, Ordered
<1>2. Len(q) > 0 /\ q # <<>>
  <2>1. pos[n] \in 1..Len(q)
    BY <1>0, <1>1
  <2> QED BY <1>0, <2>1, EmptySeq
<1>3. /\ t \in Seq(Entry) /\ Len(t) = Len(q) - 1
      /\ \A r \in 1..Len(t) : t[r] = q[r + 1]
  BY <1>2, HeadTailProperties
<1>4. /\ s \in Seq(LoopState) /\ Len(s) = n - 1
      /\ \A i \in 1..n - 1 : s[i] = stack[i]
  BY ExitedLoopParts
<1>5. ASSUME NEW i \in 1..n - 1 PROVE p[i] = pos[i] - 1 /\ p[i] \in 1..Len(t)
  <2>1. pos[i] \in 1..Len(q) /\ pos[n] < pos[i] /\ pos[n] = 1
    BY <1>0, <1>1
  <2> HIDE DEF t
  <2> QED BY <1>0, <1>3, <2>1
<1>6. p \in [1..Len(s) -> 1..Len(t)]
  BY <1>4, <1>5
<1> HIDE DEF t, p, n, s
<1>7. Ordered(t, s, p)
  <2>1. \A i, j \in 1..n - 1 : i < j => p[j] < p[i]
    <3> SUFFICES ASSUME NEW i \in 1..n - 1, NEW j \in 1..n - 1, i < j PROVE p[j] < p[i]
      OBVIOUS
    <3>1. pos[j] < pos[i] /\ pos[i] \in 1..Len(q) /\ pos[j] \in 1..Len(q)
      BY <1>0, <1>1
    <3> QED BY <1>5, <3>1
  <2> QED BY <1>4, <1>6, <2>1 DEF Ordered
<1>8. MarkersAt(t, s, p)
  <2>1. ASSUME NEW i \in 1..n - 1 PROVE t[p[i]] = q[pos[i]] /\ s[i] = stack[i] /\ i \in 1..n
    <3>1. i \in 1..n /\ pos[i] \in 1..Len(q)
      BY <1>0, <1>1
    <3>2. p[i] \in 1..Len(t) /\ p[i] + 1 = pos[i]
      BY <1>0, <1>5, <3>1
    <3> QED BY <1>3, <1>4, <3>1, <3>2
  <2>2. ASSUME NEW r \in 1..Len(t), t[r].cont
        PROVE  Def[t[r].step].kind = "while_loop" /\ \E i \in 1..n - 1 : p[i] = r
    <3>1. r + 1 \in 1..Len(q) /\ t[r] = q[r + 1]
      BY <1>0, <1>3
    <3>2. Def[q[r + 1].step].kind = "while_loop" /\ \E i \in 1..n : pos[i] = r + 1
      BY <2>2, <3>1 DEF Nested, MarkersAt, n
    <3>3. PICK i \in 1..n : pos[i] = r + 1
      BY <3>2
    <3>4. pos[n] = 1
      BY DEF n
    <3>5. i \in 1..n - 1
      BY <1>0, <3>3, <3>4
    <3>6. p[i] = r
      BY <1>5, <3>3, <3>5
    <3> QED BY <3>1, <3>2, <3>5, <3>6
  <2> QED BY <1>4, <2>1, <2>2 DEF Nested, MarkersAt, n
<1>9. StepsInside(t, s, p)
  <2> SUFFICES ASSUME NEW i \in 1..n - 1, NEW r \in 1..Len(t), r < p[i]
               PROVE  /\ t[r].step \in Inside(stack[i].id)
                      /\ (\A j \in 1..n - 1 : i < j => p[j] < r) => t[r].step \in Direct(stack[i].id)
    BY <1>4 DEF StepsInside
  <2>1. pos[i] \in 1..Len(q) /\ i \in 1..n
    BY <1>0, <1>1
  <2>2. r + 1 \in 1..Len(q) /\ t[r] = q[r + 1] /\ r + 1 < pos[i]
    BY <1>0, <1>3, <1>5, <2>1
  <2>3. ASSUME \A j \in 1..n - 1 : i < j => p[j] < r, NEW j \in 1..n, i < j PROVE pos[j] < r + 1
    <3>1. CASE j = n
      <4>1. pos[j] = 1
        BY <3>1 DEF n
      <4> QED BY <4>1
    <3>2. CASE j # n
      <4>1. j \in 1..n - 1 /\ pos[j] \in 1..Len(q)
        BY <1>0, <1>1, <3>2
      <4> QED BY <1>5, <2>3, <4>1
    <3> QED BY <3>1, <3>2
  <2> QED BY <2>1, <2>2, <2>3 DEF Nested, StepsInside, n
<1>10. FieldsReplaced(t)
  <2>1. \A r \in 1..Len(t) : r + 1 \in 1..Len(q) /\ t[r] = q[r + 1]
    BY <1>0, <1>3
  <2> QED BY <2>1 DEF Nested, FieldsReplaced
<1> QED BY <1>7, <1>8, <1>9, <1>10 DEF Nested, t, p, s, n

(* Entries of the innermost loop are put in front.                         *)
LEMMA PrependedNested ==
  ASSUME NEW q \in Seq(Entry), NEW stack \in Seq(LoopState), NEW pos, Nested(q, stack, pos),
         NEW w \in Seq(Entry),
         \A r \in 1..Len(w) :
           /\ ~w[r].cont
           /\ \A field \in w[r].resolved : w[r].step \in Replaced(field)
           /\ \A i \in 1..Len(stack) : w[r].step \in Inside(stack[i].id)
           /\ stack # <<>> => w[r].step \in Direct(stack[Len(stack)].id)
  PROVE  Nested(w \o q, stack, Moved(pos, Len(w)))
<1> DEFINE t == w \o q
           m == Len(w)
           p == Moved(pos, m)
           n == Len(stack)
<1>0. n \in Nat /\ Len(q) \in Nat /\ m \in Nat
  BY LenProperties
<1>1. /\ t \in Seq(Entry) /\ Len(t) = m + Len(q)
      /\ \A r \in 1..m + Len(q) : t[r] = IF r <= m THEN w[r] ELSE q[r - m]
  BY ConcatProperties
<1>2. /\ pos \in [1..n -> 1..Len(q)]
      /\ \A i, j \in 1..n : i < j => pos[j] < pos[i]
  BY DEF Nested, Ordered
<1>3. /\ DOMAIN pos = 1..n
      /\ \A i \in 1..n : p[i] = pos[i] + m
  BY <1>2 DEF Moved
<1>4. \A i \in 1..n : p[i] \in m + 1..Len(t) /\ p[i] \in 1..Len(t)
  <2> SUFFICES ASSUME NEW i \in 1..n PROVE p[i] \in m + 1..Len(t) /\ p[i] \in 1..Len(t)
    OBVIOUS
  <2>1. pos[i] \in 1..Len(q) /\ p[i] = pos[i] + m
    BY <1>2, <1>3
  <2> HIDE DEF t, p, m
  <2> QED BY <1>0, <1>1, <2>1
<1>5. p \in [1..n -> 1..Len(t)]
  <2>1. p = [i \in 1..n |-> pos[i] + m]
    BY <1>3 DEF Moved
  <2> QED BY <1>3, <1>4, <2>1
<1> HIDE DEF t, p, m, n
<1>6. \A r \in 1..Len(t) : r > m => r - m \in 1..Len(q) /\ t[r] = q[r - m]
  BY <1>0, <1>1
<1>7. \A r \in 1..Len(t) : ~ (r > m) => r \in 1..m /\ t[r] = w[r]
  BY <1>0, <1>1
<1>8. Ordered(t, stack, p)
  <2> SUFFICES ASSUME NEW i \in 1..n, NEW j \in 1..n, i < j PROVE p[j] < p[i]
    BY <1>5 DEF Ordered, n
  <2>1. pos[j] < pos[i] /\ pos[i] \in 1..Len(q) /\ pos[j] \in 1..Len(q)
    BY <1>2
  <2> QED BY <1>0, <1>3, <2>1
<1>9. MarkersAt(t, stack, p)
  <2>1. ASSUME NEW i \in 1..n PROVE t[p[i]] = q[pos[i]]
    <3>1. p[i] \in 1..Len(t) /\ p[i] > m /\ p[i] - m = pos[i]
      BY <1>0, <1>2, <1>3, <1>4
    <3> QED BY <1>6, <3>1
  <2>2. ASSUME NEW r \in 1..Len(t), t[r].cont
        PROVE  Def[t[r].step].kind = "while_loop" /\ \E i \in 1..n : p[i] = r
    <3>1. r > m
      BY <1>7, <2>2 DEF m
    <3>2. r - m \in 1..Len(q) /\ t[r] = q[r - m]
      BY <1>6, <3>1
    <3>3. Def[q[r - m].step].kind = "while_loop" /\ \E i \in 1..n : pos[i] = r - m
      BY <2>2, <3>2 DEF Nested, MarkersAt, n
    <3>4. PICK i \in 1..n : pos[i] = r - m
      BY <3>3
    <3>5. p[i] = r
      BY <1>0, <1>3, <3>4
    <3> QED BY <3>2, <3>3, <3>5
  <2> QED BY <2>1, <2>2 DEF Nested, MarkersAt, n
<1>10. StepsInside(t, stack, p)
  <2> SUFFICES ASSUME NEW i \in 1..n, NEW r \in 1..Len(t), r < p[i]
               PROVE  /\ t[r].step \in Inside(stack[i].id)
                      /\ (\A j \in 1..n : i < j => p[j] < r) => t[r].step \in Direct(stack[i].id)
    BY DEF StepsInside, n
  <2>1. CASE r > m
    <3>1. r - m \in 1..Len(q) /\ t[r] = q[r - m]
      BY <1>6, <2>1
    <3>2. r - m < pos[i] /\ \A j \in 1..n : p[j] < r => pos[j] < r - m
      BY <1>0, <1>2, <1>3
    <3> QED BY <3>1, <3>2 DEF Nested, StepsInside, n
  <2>2. CASE ~ (r > m)
    <3>1. r \in 1..m /\ t[r] = w[r] /\ n \in 1..n
      BY <1>0, <1>7, <2>2
    <3>2. t[r].step \in Inside(stack[i].id)
      BY <3>1 DEF m, n
    <3>3. i = n => t[r].step \in Direct(stack[i].id)
      <4>1. stack # <<>>
        BY EmptySeq DEF n
      <4> QED BY <3>1, <4>1 DEF m, n
    <3>4. i # n => i < n /\ ~ (p[n] < r)
      <4>1. p[n] \in m + 1..Len(t)
        BY <1>4, <3>1
      <4> QED BY <1>0, <2>2, <4>1
    <3> QED BY <3>1, <3>2, <3>3, <3>4
  <2> QED BY <2>1, <2>2
<1>11. FieldsReplaced(t)
  <2> SUFFICES ASSUME NEW r \in 1..Len(t), NEW field \in t[r].resolved
               PROVE  t[r].step \in Replaced(field)
    BY DEF FieldsReplaced
  <2>1. CASE r > m
    BY <1>6, <2>1 DEF Nested, FieldsReplaced
  <2>2. CASE ~ (r > m)
    BY <1>7, <2>2 DEF m
  <2> QED BY <2>1, <2>2
<1> QED BY <1>8, <1>9, <1>10, <1>11 DEF Nested, t, p, m

(* A loop is put on the stack, and its marker in front of the queue.       *)
LEMMA MarkedNested ==
  ASSUME NEW q \in Seq(Entry), NEW stack \in Seq(LoopState), NEW pos, Nested(q, stack, pos),
         NEW g \in Entry, NEW l \in LoopState,
         g.step = l.id, Def[l.id].kind \in LoopKinds, l.signal # "break",
         g.cont => Def[l.id].kind = "while_loop",
         \A field \in g.resolved : g.step \in Replaced(field),
         \A i \in 1..Len(stack) : g.step \in Inside(stack[i].id)
  PROVE  Nested(<<g>> \o q, Append(stack, l),
                [i \in 1..Len(stack) + 1 |-> IF i = Len(stack) + 1 THEN 1 ELSE pos[i] + 1])
<1> DEFINE t == <<g>> \o q
           s == Append(stack, l)
           n == Len(stack)
           p == [i \in 1..n + 1 |-> IF i = n + 1 THEN 1 ELSE pos[i] + 1]
<1>0. n \in Nat /\ Len(q) \in Nat
  BY LenProperties
<1>1. /\ t \in Seq(Entry) /\ Len(t) = 1 + Len(q)
      /\ \A r \in 1..1 + Len(q) : t[r] = IF r <= 1 THEN g ELSE q[r - 1]
  <2>1. <<g>> \in Seq(Entry) /\ Len(<<g>>) = 1 /\ <<g>>[1] = g
    OBVIOUS
  <2> DEFINE w == <<g>>
  <2> HIDE DEF w
  <2>2. w \in Seq(Entry) /\ Len(w) = 1 /\ w[1] = g
    BY <2>1 DEF w
  <2>3. /\ w \o q \in Seq(Entry) /\ Len(w \o q) = Len(w) + Len(q)
        /\ \A r \in 1..Len(w) + Len(q) : (w \o q)[r] = IF r <= Len(w) THEN w[r] ELSE q[r - Len(w)]
    BY <2>2, ConcatProperties
  <2>4. \A r \in 1..1 + Len(q) : (w \o q)[r] = IF r <= 1 THEN g ELSE q[r - 1]
    BY <1>0, <2>2, <2>3
  <2> QED BY <2>2, <2>3, <2>4 DEF w
<1>2. /\ s \in Seq(LoopState) /\ Len(s) = n + 1
      /\ s[n + 1] = l /\ \A i \in 1..n : s[i] = stack[i]
  BY AppendProperties
<1>3. /\ pos \in [1..n -> 1..Len(q)]
      /\ \A i, j \in 1..n : i < j => pos[j] < pos[i]
  BY DEF Nested, Ordered
<1>4. /\ p[n + 1] = 1
      /\ \A i \in 1..n : p[i] = pos[i] + 1
  BY <1>0
<1>5. \A i \in 1..n : p[i] \in 2..Len(t)
  <2> SUFFICES ASSUME NEW i \in 1..n PROVE p[i] \in 2..Len(t)
    OBVIOUS
  <2>1. pos[i] \in 1..Len(q) /\ p[i] = pos[i] + 1
    BY <1>3, <1>4
  <2> HIDE DEF t, p
  <2> QED BY <1>0, <1>1, <2>1
<1>6. p \in [1..n + 1 -> 1..Len(t)]
  <2>1. DOMAIN p = 1..n + 1 /\ p = [i \in 1..n + 1 |-> p[i]]
    OBVIOUS
  <2> HIDE DEF p, t, n
  <2>2. ASSUME NEW i \in 1..n + 1 PROVE p[i] \in 1..Len(t)
    <3>1. CASE i = n + 1
      BY <1>0, <1>1, <1>4, <3>1
    <3>2. CASE i # n + 1
      <4>1. i \in 1..n
        BY <1>0, <3>2
      <4>2. p[i] \in 2..Len(t)
        BY <1>5, <4>1
      <4> QED BY <1>0, <1>1, <4>2
    <3> QED BY <3>1, <3>2
  <2> QED BY <2>1, <2>2
<1> HIDE DEF t, p, n, s
<1>7. t[1] = g /\ \A r \in 1..Len(t) : r > 1 => r - 1 \in 1..Len(q) /\ t[r] = q[r - 1]
  BY <1>0, <1>1
<1>8. Ordered(t, s, p)
  <2> SUFFICES ASSUME NEW i \in 1..n + 1, NEW j \in 1..n + 1, i < j PROVE p[j] < p[i]
    BY <1>2, <1>6 DEF Ordered
  <2>0. i \in 1..n
    BY <1>0
  <2>1. CASE j = n + 1
    BY <1>4, <1>5, <2>0, <2>1
  <2>2. CASE j # n + 1
    <3>1. j \in 1..n
      BY <1>0, <2>2
    <3>2. pos[j] < pos[i] /\ pos[i] \in 1..Len(q) /\ pos[j] \in 1..Len(q)
      BY <1>3, <2>0, <3>1
    <3> QED BY <1>4, <2>0, <3>1, <3>2
  <2> QED BY <2>1, <2>2
<1>9. MarkersAt(t, s, p)
  <2>1. ASSUME NEW i \in 1..n PROVE t[p[i]] = q[pos[i]] /\ s[i] = stack[i] /\ i \in 1..n + 1
    <3>1. pos[i] \in 1..Len(q) /\ p[i] = pos[i] + 1 /\ p[i] \in 2..Len(t)
      BY <1>3, <1>4, <1>5
    <3>2. p[i] \in 1..Len(t) /\ p[i] > 1 /\ p[i] - 1 = pos[i]
      BY <1>0, <1>1, <3>1
    <3> QED BY <1>0, <1>2, <1>7, <3>2
  <2>2. ASSUME NEW i \in 1..n + 1
        PROVE  t[p[i]].step = s[i].id /\ Def[s[i].id].kind \in LoopKinds /\ s[i].signal # "break"
    <3>1. CASE i = n + 1
      BY <1>2, <1>4, <1>7, <3>1
    <3>2. CASE i # n + 1
      <4>1. i \in 1..n
        BY <1>0, <3>2
      <4> QED BY <2>1, <4>1 DEF Nested, MarkersAt, n
    <3> QED BY <3>1, <3>2
  <2>3. ASSUME NEW r \in 1..Len(t), t[r].cont
        PROVE  Def[t[r].step].kind = "while_loop" /\ \E i \in 1..n + 1 : p[i] = r
    <3>1. CASE r = 1
      <4>1. n + 1 \in 1..n + 1
        BY <1>0
      <4> QED BY <1>4, <1>7, <2>3, <3>1, <4>1
    <3>2. CASE r # 1
      <4>1. r - 1 \in 1..Len(q) /\ t[r] = q[r - 1]
        BY <1>7, <3>2
      <4>2. Def[q[r - 1].step].kind = "while_loop" /\ \E i \in 1..n : pos[i] = r - 1
        BY <2>3, <4>1 DEF Nested, MarkersAt, n
      <4>3. PICK i \in 1..n : pos[i] = r - 1
        BY <4>2
      <4>4. p[i] = r /\ i \in 1..n + 1
        BY <1>0, <1>4, <4>3
      <4> QED BY <4>1, <4>2, <4>4
    <3> QED BY <3>1, <3>2
  <2> QED BY <1>2, <2>2, <2>3 DEF MarkersAt
<1>10. StepsInside(t, s, p)
  <2> SUFFICES ASSUME NEW i \in 1..n + 1, NEW r \in 1..Len(t), r < p[i]
               PROVE  /\ t[r].step \in Inside(s[i].id)
                      /\ (\A j \in 1..n + 1 : i < j => p[j] < r) => t[r].step \in Direct(s[i].id)
    BY <1>2 DEF StepsInside
  <2>1. i \in 1..n
    BY <1>0, <1>4
  <2>2. s[i] = stack[i] /\ pos[i] \in 1..Len(q) /\ p[i] = pos[i] + 1
    BY <1>2, <1>3, <1>4, <2>1
  <2>3. CASE r = 1
    <3>1. t[r].step \in Inside(s[i].id)
      BY <1>7, <2>1, <2>2, <2>3 DEF n
    <3>2. n + 1 \in 1..n + 1 /\ i < n + 1 /\ ~ (p[n + 1] < r)
      BY <1>0, <1>4, <2>1, <2>3
    <3> QED BY <3>1, <3>2
  <2>4. CASE r # 1
    <3>1. r - 1 \in 1..Len(q) /\ t[r] = q[r - 1]
      BY <1>7, <2>4
    <3>2. r - 1 < pos[i] /\ \A j \in 1..n : p[j] < r => pos[j] < r - 1
      <4>1. r - 1 < pos[i]
        BY <2>2
      <4>2. ASSUME NEW j \in 1..n, p[j] < r PROVE pos[j] < r - 1
        <5>1. pos[j] \in 1..Len(q) /\ p[j] = pos[j] + 1
          BY <1>3, <1>4
        <5> QED BY <1>0, <4>2, <5>1
      <4> QED BY <4>1, <4>2
    <3>3. (\A j \in 1..n + 1 : i < j => p[j] < r) => \A j \in 1..n : i < j => pos[j] < r - 1
      BY <1>0, <3>2
    <3> QED BY <2>1, <2>2, <3>1, <3>2, <3>3 DEF Nested, StepsInside, n
  <2> QED BY <2>3, <2>4
<1>11. FieldsReplaced(t)
  <2> SUFFICES ASSUME NEW r \in 1..Len(t), NEW field \in t[r].resolved
               PROVE  t[r].step \in Replaced(field)
    BY DEF FieldsReplaced
  <2>1. CASE r > 1
    BY <1>7, <2>1 DEF Nested, FieldsReplaced
  <2>2. CASE ~ (r > 1)
    BY <1>7, <2>2
  <2> QED BY <2>1, <2>2
<1> QED BY <1>8, <1>9, <1>10, <1>11 DEF Nested, t, s, p, n

(* Only the ids of the loops on the stack matter, and the signal break.    *)
LEMMA RelabelledNested ==
  ASSUME NEW q, NEW stack \in Seq(LoopState), NEW pos, Nested(q, stack, pos),
         NEW other \in Seq(LoopState), Len(other) = Len(stack),
         \A i \in 1..Len(stack) : other[i].id = stack[i].id /\ other[i].signal # "break"
  PROVE  Nested(q, other, pos)
<1>1. Ordered(q, other, pos)
  BY DEF Nested, Ordered
<1>2. MarkersAt(q, other, pos)
  BY DEF Nested, MarkersAt
<1>3. StepsInside(q, other, pos)
  BY DEF Nested, StepsInside
<1> QED BY <1>1, <1>2, <1>3 DEF Nested

(* What is in front of the queue: the marker of the innermost loop, or a   *)
(* step that this loop executes itself, or one of the workflow's own.      *)
LEMMA FrontIs ==
  ASSUME NEW q \in Seq(Entry), q # <<>>, NEW stack \in Seq(LoopState), NEW pos,
         Nested(q, stack, pos),
         stack # <<>> => stack[Len(stack)].id \notin Inside(stack[Len(stack)].id)
  PROVE  \/ /\ stack # <<>> /\ pos[Len(stack)] = 1
            /\ q[1].step = stack[Len(stack)].id
            /\ Def[q[1].step].kind \in LoopKinds
            /\ \A i \in 1..Len(stack) - 1 : q[1].step \in Inside(stack[i].id)
         \/ /\ ~q[1].cont
            /\ \A i \in 1..Len(stack) : 1 < pos[i] /\ q[1].step \in Inside(stack[i].id)
            /\ stack # <<>> =>
                 /\ q[1].step \in Direct(stack[Len(stack)].id)
                 /\ q[1].step # stack[Len(stack)].id
<1> DEFINE n == Len(stack)
<1>0. n \in Nat /\ 1 \in 1..Len(q) /\ (stack # <<>> => n \in 1..n)
  BY LenProperties, EmptySeq
<1>1. /\ pos \in [1..n -> 1..Len(q)]
      /\ \A i, j \in 1..n : i < j => pos[j] < pos[i]
  BY DEF Nested, Ordered
<1>2. \A i \in 1..n : 1 < pos[i] => q[1].step \in Inside(stack[i].id)
  BY <1>0 DEF Nested, StepsInside
<1>3. CASE stack # <<>> /\ pos[n] = 1
  <2>1. q[1].step = stack[n].id /\ Def[q[1].step].kind \in LoopKinds
    BY <1>0, <1>3 DEF Nested, MarkersAt
  <2>2. \A i \in 1..n - 1 : i \in 1..n /\ 1 < pos[i]
    BY <1>0, <1>1, <1>3
  <2> QED BY <1>2, <1>3, <2>1, <2>2
<1>4. CASE ~ (stack # <<>> /\ pos[n] = 1)
  <2>1. ASSUME NEW i \in 1..n PROVE 1 < pos[i]
    <3>1. stack # <<>> /\ n \in 1..n /\ pos[n] # 1 /\ pos[n] \in 1..Len(q)
      BY <1>0, <1>1, <1>4, EmptySeq
    <3>2. pos[i] \in 1..Len(q) /\ (i # n => pos[n] < pos[i])
      BY <1>0, <1>1
    <3> QED BY <3>1, <3>2
  <2>2. ~q[1].cont
    <3>1. q[1].cont => \E i \in 1..n : pos[i] = 1
      BY <1>0 DEF Nested, MarkersAt
    <3> QED BY <2>1, <3>1
  <2>3. ASSUME stack # <<>>
        PROVE  q[1].step \in Direct(stack[n].id) /\ q[1].step # stack[n].id
    <3>1. n \in 1..n /\ 1 < pos[n] /\ \A j \in 1..n : ~ (n < j)
      BY <1>0, <2>1, <2>3
    <3>2. q[1].step \in Direct(stack[n].id) /\ q[1].step \in Inside(stack[n].id)
      BY <1>0, <3>1 DEF Nested, StepsInside
    <3> QED BY <2>3, <3>2
  <2> QED BY <1>2, <2>1, <2>2, <2>3
<1> QED BY <1>3, <1>4

LEMMA FrontPlace ==
  ASSUME LoopsHold, NEW q \in Seq(Entry), q # <<>>, NEW stack \in Seq(LoopState), NEW pos,
         Nested(q, stack, pos)
  PROVE  \/ /\ stack # <<>> /\ pos[Len(stack)] = 1
            /\ q[1].step = stack[Len(stack)].id
            /\ Def[q[1].step].kind \in LoopKinds
            /\ \A i \in 1..Len(stack) - 1 : q[1].step \in Inside(stack[i].id)
         \/ /\ ~q[1].cont
            /\ \A i \in 1..Len(stack) : 1 < pos[i] /\ q[1].step \in Inside(stack[i].id)
            /\ stack # <<>> =>
                 /\ q[1].step \in Direct(stack[Len(stack)].id)
                 /\ q[1].step # stack[Len(stack)].id
<1>1. stack # <<>> => stack[Len(stack)].id \notin Inside(stack[Len(stack)].id)
  <2> SUFFICES ASSUME stack # <<>> PROVE stack[Len(stack)].id \notin Inside(stack[Len(stack)].id)
    OBVIOUS
  <2>1. Len(stack) \in 1..Len(stack)
    BY LenProperties, EmptySeq
  <2>2. stack[Len(stack)] \in LoopState /\ Def[stack[Len(stack)].id].kind \in LoopKinds
    BY <2>1, ElementOfSeq DEF Nested, MarkersAt
  <2> QED BY <2>2 DEF LoopsHold, LoopHolds, LoopState
<1> QED BY <1>1, FrontIs

-----------------------------------------------------------------------------
(* The frames of a queue and a stack that are nested.                      *)

Between(q, a, b) == [i \in 1..b - a - 1 |-> q[a + i].step]
From(stack, pos, k) == IF k = Len(stack) THEN 0 ELSE pos[k + 1]
To(q, pos, k) == IF k = 0 THEN Len(q) + 1 ELSE pos[k]

FrameType == [loop : Step \cup {NoStep}, rest : Seq(Step), runs : Nat, limit : Nat]
FrameAt(q, stack, pos, k) ==
  [loop  |-> IF k = 0 THEN NoStep ELSE stack[k].id,
   rest  |-> Between(q, From(stack, pos, k), To(q, pos, k)),
   runs  |-> IF k = 0 THEN 0 ELSE stack[k].runs,
   limit |-> IF k = 0 THEN 0 ELSE stack[k].limit]
FramesOf(q, stack, pos) == [k \in 1..Len(stack) + 1 |-> FrameAt(q, stack, pos, k - 1)]

TopOf(f) == f[Len(f)]
OuterOf(f) == SubSeq(f, 1, Len(f) - 1)
SetRest(f, r) == Append(OuterOf(f), [TopOf(f) EXCEPT !.rest = r])

(* The steps between two places of the queue.                              *)
LEMMA BetweenTyped ==
  ASSUME NEW q \in Seq(Entry), NEW a \in 0..Len(q), NEW b \in a + 1..Len(q) + 1
  PROVE  /\ Between(q, a, b) \in Seq(Step) /\ Len(Between(q, a, b)) = b - a - 1
         /\ \A i \in 1..b - a - 1 : Between(q, a, b)[i] = q[a + i].step
<1>0. Len(q) \in Nat /\ b - a - 1 \in Nat
  BY LenProperties
<1>1. ASSUME NEW i \in 1..b - a - 1 PROVE q[a + i].step \in Step
  <2>1. a + i \in 1..Len(q)
    BY <1>0
  <2>2. q[a + i] \in Entry
    BY <2>1, ElementOfSeq
  <2> QED BY <2>2 DEF Entry
<1>2. Between(q, a, b) \in [1..b - a - 1 -> Step]
  BY <1>1 DEF Between
<1>3. \A i \in 1..b - a - 1 : Between(q, a, b)[i] = q[a + i].step
  BY DEF Between
<1> DEFINE s == Between(q, a, b)
           n == b - a - 1
<1>4. s \in [1..n -> Step] /\ n \in Nat
  BY <1>0, <1>2
<1> HIDE DEF s, n
<1>5. s \in Seq(Step) /\ Len(s) = n
  BY <1>4
<1> QED BY <1>3, <1>5 DEF s, n

(* Where the entries of the k-th loop begin and end.                       *)
LEMMA BoundsTyped ==
  ASSUME NEW q \in Seq(Entry), NEW stack \in Seq(LoopState), NEW pos, Nested(q, stack, pos),
         NEW k \in 0..Len(stack)
  PROVE  /\ From(stack, pos, k) \in 0..Len(q) /\ To(q, pos, k) \in 1..Len(q) + 1
         /\ From(stack, pos, k) < To(q, pos, k)
<1>0. Len(stack) \in Nat /\ Len(q) \in Nat
  BY LenProperties
<1>1. /\ pos \in [1..Len(stack) -> 1..Len(q)]
      /\ \A i, j \in 1..Len(stack) : i < j => pos[j] < pos[i]
  BY DEF Nested, Ordered
<1>2. k # Len(stack) => k + 1 \in 1..Len(stack) /\ pos[k + 1] \in 1..Len(q)
  BY <1>0, <1>1
<1>3. k # 0 => k \in 1..Len(stack) /\ pos[k] \in 1..Len(q)
  BY <1>0, <1>1
<1>4. k # 0 /\ k # Len(stack) => pos[k + 1] < pos[k]
  <2>1. k < k + 1
    BY <1>0
  <2> QED BY <1>1, <1>2, <1>3, <2>1
<1> QED BY <1>0, <1>2, <1>3, <1>4 DEF From, To

(* The frames, one by one.                                                 *)
LEMMA FramesParts ==
  ASSUME NEW q \in Seq(Entry), NEW stack \in Seq(LoopState), NEW pos, Nested(q, stack, pos)
  PROVE  LET f == FramesOf(q, stack, pos)
         IN  /\ f \in Seq(FrameType) /\ Len(f) = Len(stack) + 1
             /\ \A k \in 0..Len(stack) : f[k + 1] = FrameAt(q, stack, pos, k)
             /\ TopOf(f) = FrameAt(q, stack, pos, Len(stack))
             /\ f # <<>>
<1> DEFINE f == FramesOf(q, stack, pos)
           n == Len(stack) + 1
<1>0. Len(stack) \in Nat /\ n \in Nat /\ n \in 1..n
  BY LenProperties
<1>1. ASSUME NEW k \in 0..Len(stack) PROVE FrameAt(q, stack, pos, k) \in FrameType
  <2> DEFINE a == From(stack, pos, k)
             b == To(q, pos, k)
  <2>1. a \in 0..Len(q) /\ b \in 1..Len(q) + 1 /\ a < b
    BY BoundsTyped
  <2>2. Between(q, a, b) \in Seq(Step)
    <3> HIDE DEF a, b
    <3>1. b \in a + 1..Len(q) + 1
      BY <2>1, LenProperties
    <3> QED BY <2>1, <3>1, BetweenTyped
  <2>3. k # 0 => stack[k] \in LoopState
    <3>1. k # 0 => k \in 1..Len(stack)
      BY <1>0
    <3> QED BY <3>1, ElementOfSeq
  <2> QED BY <2>2, <2>3 DEF FrameAt, FrameType, LoopState
<1>2. \A i \in 1..n : i - 1 \in 0..Len(stack) /\ f[i] = FrameAt(q, stack, pos, i - 1)
  BY <1>0 DEF FramesOf
<1>3. f \in [1..n -> FrameType]
  BY <1>1, <1>2 DEF FramesOf
<1> HIDE DEF f
<1>4. f \in Seq(FrameType) /\ Len(f) = n
  <2> HIDE DEF n
  <2> QED BY <1>0, <1>3
<1>5. \A k \in 0..Len(stack) : f[k + 1] = FrameAt(q, stack, pos, k)
  <2> SUFFICES ASSUME NEW k \in 0..Len(stack) PROVE f[k + 1] = FrameAt(q, stack, pos, k)
    OBVIOUS
  <2>1. k + 1 \in 1..n /\ (k + 1) - 1 = k
    BY <1>0
  <2> QED BY <1>2, <2>1
<1>6. Len(stack) \in 0..Len(stack) /\ f # <<>>
  BY <1>0, <1>4, EmptySeq
<1> QED BY <1>4, <1>5, <1>6 DEF f, TopOf

(* Two sequences of frames are the same if they agree in the length and in *)
(* every frame.                                                            *)
LEMMA RestReplaced ==
  ASSUME NEW f \in Seq(FrameType), NEW g \in Seq(FrameType), f # <<>>, Len(g) = Len(f),
         NEW r \in Seq(Step),
         \A k \in 1..Len(f) - 1 : g[k] = f[k],
         TopOf(g) = [TopOf(f) EXCEPT !.rest = r]
  PROVE  g = SetRest(f, r)
<1> DEFINE n == Len(f)
           o == SubSeq(f, 1, n - 1)
           t == [TopOf(f) EXCEPT !.rest = r]
<1>0. n \in Nat \ {0} /\ n \in 1..n
  BY LenProperties, EmptySeq
<1>1. TopOf(f) \in FrameType /\ t \in FrameType
  <2>1. f[n] \in FrameType
    BY <1>0, ElementOfSeq
  <2> QED BY <2>1 DEF TopOf, FrameType
<1>2. o \in Seq(FrameType) /\ Len(o) = n - 1 /\ \A k \in 1..n - 1 : o[k] = f[k]
  <2> DEFINE m == n - 1
  <2>1. m \in Nat /\ m - 1 + 1 = m
    BY <1>0
  <2>2. \A i \in 1..m : f[i] \in FrameType
    BY <1>0, ElementOfSeq
  <2>3. /\ SubSeq(f, 1, m) \in Seq(FrameType) /\ Len(SubSeq(f, 1, m)) = m
        /\ \A i \in 1..m : SubSeq(f, 1, m)[i] = f[i]
    <3> HIDE DEF m
    <3> QED BY <2>1, <2>2, SubSeqProperties
  <2> QED BY <2>3
<1> HIDE DEF t, o
<1>3. /\ Append(o, t) \in Seq(FrameType) /\ Len(Append(o, t)) = n
      /\ \A k \in 1..n - 1 : Append(o, t)[k] = f[k]
      /\ Append(o, t)[n] = t
  <2>1. /\ Append(o, t) \in Seq(FrameType) /\ Len(Append(o, t)) = Len(o) + 1
        /\ \A k \in 1..Len(o) : Append(o, t)[k] = o[k]
        /\ Append(o, t)[Len(o) + 1] = t
    BY <1>1, <1>2, AppendProperties
  <2> HIDE DEF n
  <2> QED BY <1>0, <1>2, <2>1
<1>4. g[n] = t
  BY DEF t, TopOf
<1>5. \A k \in 1..n : g[k] = Append(o, t)[k]
  <2> SUFFICES ASSUME NEW k \in 1..n PROVE g[k] = Append(o, t)[k]
    OBVIOUS
  <2>1. k = n \/ k \in 1..n - 1
    BY <1>0
  <2> QED BY <1>3, <1>4, <2>1
<1>6. g = Append(o, t)
  BY <1>3, <1>5, SeqEqual
<1> QED BY <1>6 DEF SetRest, OuterOf, o, t, n

(* A sequence without its first k elements.                                *)
LEMMA SuffixParts ==
  ASSUME NEW S, NEW s \in Seq(S), NEW k \in 0..Len(s)
  PROVE  /\ SubSeq(s, k + 1, Len(s)) \in Seq(S)
         /\ Len(SubSeq(s, k + 1, Len(s))) = Len(s) - k
         /\ \A i \in 1..Len(s) - k : SubSeq(s, k + 1, Len(s))[i] = s[i + k]
<1>0. Len(s) \in Nat
  BY LenProperties
<1>1. k + 1 \in 1..Len(s) + 1 /\ Len(s) \in k..Len(s)
  BY <1>0
<1>2. \A i \in k + 1..Len(s) : s[i] \in S
  BY <1>0, ElementOfSeq
<1>3. k + 1 \in Int /\ Len(s) \in Int /\ Len(s) - (k + 1) + 1 = Len(s) - k
  BY <1>0
<1> DEFINE t == SubSeq(s, k + 1, Len(s))
<1>4. /\ t \in Seq(S) /\ Len(t) = Len(s) - k
      /\ \A i \in 1..Len(s) - (k + 1) + 1 : t[i] = s[(k + 1) + i - 1]
  <2> DEFINE m == k + 1
             n == Len(s)
  <2>1. m \in Int /\ n \in Int /\ \A i \in m..n : s[i] \in S
    BY <1>0, <1>2
  <2>2. /\ m <= n => n - m + 1 = n - k
        /\ ~ (m <= n) => 0 = n - k
    BY <1>0
  <2> HIDE DEF m, n
  <2>3. /\ SubSeq(s, m, n) \in Seq(S)
        /\ Len(SubSeq(s, m, n)) = IF m <= n THEN n - m + 1 ELSE 0
        /\ \A i \in 1..n - m + 1 : SubSeq(s, m, n)[i] = s[m + i - 1]
    BY <2>1, SubSeqProperties
  <2>4. Len(SubSeq(s, m, n)) = n - k
    BY <2>2, <2>3
  <2> QED BY <2>3, <2>4 DEF m, n
<1> HIDE DEF t
<1>5. ASSUME NEW i \in 1..Len(s) - k PROVE t[i] = s[i + k]
  <2>1. (k + 1) + i - 1 = i + k /\ i \in 1..Len(s) - (k + 1) + 1
    BY <1>0
  <2> QED BY <1>4, <2>1
<1> QED BY <1>4, <1>5 DEF t

(* The frames when entries of the innermost frame are removed.             *)
LEMMA DroppedFrames ==
  ASSUME NEW q \in Seq(Entry), NEW stack \in Seq(LoopState), NEW pos, Nested(q, stack, pos),
         NEW k \in 0..Len(q), \A i \in 1..Len(stack) : k < pos[i]
  PROVE  LET f == FramesOf(q, stack, pos)
             r == TopOf(f).rest
         IN  /\ r \in Seq(Step) /\ k \in 0..Len(r) /\ \A i \in 1..k : r[i] = q[i].step
             /\ FramesOf(SubSeq(q, k + 1, Len(q)), stack, Moved(pos, -k))
                  = SetRest(f, SubSeq(r, k + 1, Len(r)))
<1> DEFINE t == SubSeq(q, k + 1, Len(q))
           p == Moved(pos, -k)
           n == Len(stack)
           f == FramesOf(q, stack, pos)
           g == FramesOf(t, stack, p)
           r == TopOf(f).rest
<1>0. n \in Nat /\ Len(q) \in Nat
  BY LenProperties
<1>1. t \in Seq(Entry) /\ Len(t) = Len(q) - k /\ \A i \in 1..Len(q) - k : t[i] = q[i + k]
  BY SuffixParts
<1>2. Nested(t, stack, p)
  BY DroppedNested
<1>3. /\ pos \in [1..n -> 1..Len(q)]
      /\ \A i \in 1..n : p[i] = pos[i] - k
  <2>1. pos \in [1..n -> 1..Len(q)]
    BY DEF Nested, Ordered
  <2>2. \A i \in 1..n : p[i] = pos[i] + (-k) /\ pos[i] \in Int
    BY <2>1 DEF Moved
  <2> QED BY <2>1, <2>2
<1> HIDE DEF t, p
<1>4. /\ f \in Seq(FrameType) /\ Len(f) = n + 1 /\ f # <<>>
      /\ \A j \in 0..n : f[j + 1] = FrameAt(q, stack, pos, j)
      /\ TopOf(f) = FrameAt(q, stack, pos, n)
  BY FramesParts
<1>5. /\ g \in Seq(FrameType) /\ Len(g) = n + 1
      /\ \A j \in 0..n : g[j + 1] = FrameAt(t, stack, p, j)
      /\ TopOf(g) = FrameAt(t, stack, p, n)
  BY <1>1, <1>2, FramesParts
<1> HIDE DEF f, g, n
<1>6. ASSUME NEW j \in 0..n
      PROVE  /\ From(stack, pos, j) \in 0..Len(q) /\ To(q, pos, j) \in 1..Len(q) + 1
             /\ From(stack, pos, j) < To(q, pos, j)
             /\ To(t, p, j) = To(q, pos, j) - k
             /\ j # n => From(stack, p, j) = From(stack, pos, j) - k /\ k < From(stack, pos, j)
             /\ k < To(q, pos, j)
  <2>1. /\ From(stack, pos, j) \in 0..Len(q) /\ To(q, pos, j) \in 1..Len(q) + 1
        /\ From(stack, pos, j) < To(q, pos, j)
    BY BoundsTyped DEF n
  <2>2. To(t, p, j) = To(q, pos, j) - k /\ k < To(q, pos, j)
    <3>1. CASE j = 0
      BY <1>0, <1>1, <3>1 DEF To
    <3>2. CASE j # 0
      <4>1. j \in 1..n
        BY <1>0, <3>2
      <4> QED BY <1>3, <3>2, <4>1 DEF To, n
    <3> QED BY <3>1, <3>2
  <2>3. j # n => From(stack, p, j) = From(stack, pos, j) - k /\ k < From(stack, pos, j)
    <3>1. j # n => j + 1 \in 1..n
      BY <1>0
    <3> QED BY <1>3, <3>1 DEF From, n
  <2> QED BY <2>1, <2>2, <2>3
<1>7. ASSUME NEW j \in 0..n, j # n PROVE g[j + 1] = f[j + 1]
  <2> DEFINE a == From(stack, pos, j)
             b == To(q, pos, j)
             a2 == From(stack, p, j)
             b2 == To(t, p, j)
  <2>1. /\ a \in 0..Len(q) /\ b \in 1..Len(q) + 1 /\ a2 = a - k /\ b2 = b - k /\ k < a
    BY <1>6, <1>7
  <2> HIDE DEF a, b, a2, b2
  <2>2. \A i \in 1..b - a - 1 : t[a2 + i] = q[a + i]
    <3> SUFFICES ASSUME NEW i \in 1..b - a - 1 PROVE t[a2 + i] = q[a + i]
      OBVIOUS
    <3>1. a2 + i \in 1..Len(q) - k /\ (a2 + i) + k = a + i
      BY <1>0, <2>1
    <3> QED BY <1>1, <3>1
  <2>3. Between(t, a2, b2) = Between(q, a, b)
    <3>1. a \in Int /\ b \in Int /\ a2 \in Int /\ b2 \in Int /\ b2 - a2 = b - a
      BY <1>0, <2>1
    <3>2. b - a - 1 = b2 - a2 - 1
      BY <3>1
    <3> QED BY <2>2, <3>2 DEF Between
  <2>4. FrameAt(t, stack, p, j) = FrameAt(q, stack, pos, j)
    BY <2>3 DEF FrameAt, a, b, a2, b2
  <2> QED BY <1>4, <1>5, <2>4
<1>8. /\ r = Between(q, 0, To(q, pos, n)) /\ TopOf(g).rest = Between(t, 0, To(t, p, n))
      /\ TopOf(g) = [TopOf(f) EXCEPT !.rest = TopOf(g).rest]
  BY <1>4, <1>5 DEF FrameAt, From, n
<1> DEFINE b == To(q, pos, n)
           b2 == To(t, p, n)
<1>9. b \in 1..Len(q) + 1 /\ b2 = b - k /\ k < b /\ n \in 0..n
  BY <1>0, <1>6
<1> HIDE DEF b, b2, r
<1>10. /\ r \in Seq(Step) /\ Len(r) = b - 1 /\ \A i \in 1..b - 1 : r[i] = q[i].step
  <2>1. 0 \in 0..Len(q) /\ b \in 0 + 1..Len(q) + 1 /\ b - 0 - 1 = b - 1
    BY <1>0, <1>9
  <2>2. \A i \in 1..b - 0 - 1 : Between(q, 0, b)[i] = q[0 + i].step
    BY <2>1, BetweenTyped
  <2>3. \A i \in 1..b - 1 : 0 + i = i
    BY <1>9
  <2> QED BY <1>8, <2>1, <2>2, <2>3, BetweenTyped DEF b
<1>11. k \in 0..Len(r) /\ \A i \in 1..k : r[i] = q[i].step
  BY <1>0, <1>9, <1>10
<1>12. /\ TopOf(g).rest \in Seq(Step) /\ Len(TopOf(g).rest) = b - 1 - k
       /\ \A i \in 1..b - 1 - k : TopOf(g).rest[i] = q[i + k].step
  <2>1. 0 \in 0..Len(t) /\ b2 \in 0 + 1..Len(t) + 1 /\ b2 - 0 - 1 = b - 1 - k
    BY <1>0, <1>1, <1>9
  <2>2. \A i \in 1..b2 - 0 - 1 : Between(t, 0, b2)[i] = t[0 + i].step
    BY <1>1, <2>1, BetweenTyped
  <2>3. \A i \in 1..b - 1 - k : 0 + i = i /\ i \in 1..Len(q) - k
    BY <1>0, <1>9
  <2>4. Between(t, 0, b2) \in Seq(Step) /\ Len(Between(t, 0, b2)) = b2 - 0 - 1
    BY <1>1, <2>1, BetweenTyped
  <2> QED BY <1>1, <1>8, <2>1, <2>2, <2>3, <2>4 DEF b2
<1>13. TopOf(g).rest = SubSeq(r, k + 1, Len(r))
  <2>1. /\ SubSeq(r, k + 1, Len(r)) \in Seq(Step) /\ Len(SubSeq(r, k + 1, Len(r))) = b - 1 - k
        /\ \A i \in 1..b - 1 - k : SubSeq(r, k + 1, Len(r))[i] = r[i + k]
    BY <1>10, <1>11, SuffixParts, SMTT(30)
  <2>2. \A i \in 1..b - 1 - k : r[i + k] = q[i + k].step
    <3> SUFFICES ASSUME NEW i \in 1..b - 1 - k PROVE r[i + k] = q[i + k].step
      OBVIOUS
    <3>1. i + k \in 1..b - 1
      BY <1>0, <1>9
    <3>2. \A j \in 1..b - 1 : r[j] = q[j].step
      BY <1>10
    <3> QED BY <3>1, <3>2, Zenon
  <2> DEFINE u == SubSeq(r, k + 1, Len(r))
             v == TopOf(g).rest
  <2> HIDE DEF u, v
  <2>3. u \in Seq(Step) /\ v \in Seq(Step) /\ Len(u) = Len(v)
    BY <1>12, <2>1 DEF u, v
  <2>4. \A i \in 1..Len(v) : v[i] = u[i]
    BY <1>12, <2>1, <2>2 DEF u, v
  <2>5. v = u
    BY <2>3, <2>4, SeqEqual
  <2> QED BY <2>5 DEF u, v
<1>14. \A j \in 1..Len(f) - 1 : g[j] = f[j]
  <2> SUFFICES ASSUME NEW j \in 1..n PROVE g[j] = f[j]
    BY <1>0, <1>4
  <2>1. j - 1 \in 0..n /\ j - 1 # n /\ (j - 1) + 1 = j
    BY <1>0
  <2> QED BY <1>7, <2>1
<1>15. g = SetRest(f, TopOf(g).rest)
  BY <1>4, <1>5, <1>8, <1>12, <1>14, RestReplaced, SMTT(30)
<1> QED BY <1>10, <1>11, <1>13, <1>15 DEF t, p, f, g, r

(* The frames when the innermost loop is over.                             *)
LEMMA PoppedFrames ==
  ASSUME NEW q \in Seq(Entry), NEW stack \in Seq(LoopState), NEW pos, Nested(q, stack, pos),
         stack # <<>>, pos[Len(stack)] = 1
  PROVE  LET f == FramesOf(q, stack, pos)
         IN  /\ TopOf(f).rest = <<>> /\ TopOf(f).loop = stack[Len(stack)].id
             /\ TopOf(f).runs = stack[Len(stack)].runs /\ TopOf(f).limit = stack[Len(stack)].limit
             /\ Len(f) = Len(stack) + 1 /\ f \in Seq(FrameType)
             /\ FramesOf(Tail(q), ExitedLoop(stack), [i \in 1..Len(stack) - 1 |-> pos[i] - 1])
                  = OuterOf(f)
<1> DEFINE t == Tail(q)
           p == [i \in 1..Len(stack) - 1 |-> pos[i] - 1]
           n == Len(stack)
           s == ExitedLoop(stack)
           f == FramesOf(q, stack, pos)
           g == FramesOf(t, s, p)
<1>0. n \in Nat \ {0} /\ Len(q) \in Nat /\ n - 1 \in 0..n /\ n \in 0..n /\ n # 0
  BY LenProperties, EmptySeq
<1>1. /\ pos \in [1..n -> 1..Len(q)] /\ pos[n] = 1
      /\ \A i \in 1..n - 1 : p[i] = pos[i] - 1
  BY DEF Nested, Ordered
<1>2. q # <<>>
  <2>1. pos[n] \in 1..Len(q)
    BY <1>0, <1>1
  <2> QED BY <1>0, <2>1, EmptySeq
<1>3. /\ t \in Seq(Entry) /\ Len(t) = Len(q) - 1
      /\ \A r \in 1..Len(q) - 1 : t[r] = q[r + 1]
  BY <1>2, HeadTailProperties
<1>4. /\ s \in Seq(LoopState) /\ Len(s) = n - 1
      /\ \A i \in 1..n - 1 : s[i] = stack[i]
  BY ExitedLoopParts
<1>5. Nested(t, s, p)
  BY PoppedNested
<1> HIDE DEF t, p, s
<1>6. /\ f \in Seq(FrameType) /\ Len(f) = n + 1 /\ f # <<>>
      /\ \A j \in 0..n : f[j + 1] = FrameAt(q, stack, pos, j)
      /\ TopOf(f) = FrameAt(q, stack, pos, n)
  BY FramesParts
<1>7. /\ g \in Seq(FrameType) /\ Len(g) = n
      /\ \A j \in 0..n - 1 : g[j + 1] = FrameAt(t, s, p, j)
  <2>1. /\ g \in Seq(FrameType) /\ Len(g) = Len(s) + 1
        /\ \A j \in 0..Len(s) : g[j + 1] = FrameAt(t, s, p, j)
    BY <1>3, <1>4, <1>5, FramesParts
  <2>2. Len(s) = n - 1 /\ (n - 1) + 1 = n
    BY <1>0, <1>4
  <2> HIDE DEF n
  <2> QED BY <2>1, <2>2
<1> HIDE DEF f, g, n
<1>8. ASSUME NEW j \in 0..n - 1 PROVE g[j + 1] = f[j + 1]
  <2> DEFINE a == From(stack, pos, j)
             b == To(q, pos, j)
             a2 == From(s, p, j)
             b2 == To(t, p, j)
  <2>0. j \in 0..n /\ j # n
    BY <1>0
  <2>1. a \in 0..Len(q) /\ b \in 1..Len(q) + 1 /\ a < b
    BY <2>0, BoundsTyped DEF n
  <2>2. b2 = b - 1
    <3>1. CASE j = 0
      BY <1>0, <1>3, <3>1 DEF To
    <3>2. CASE j # 0
      <4>1. j \in 1..n - 1
        BY <1>0, <3>2
      <4> QED BY <1>1, <3>2, <4>1 DEF To
    <3> QED BY <3>1, <3>2
  <2>3. a2 = a - 1 /\ a >= 1
    <3>1. CASE j = n - 1
      <4>1. j + 1 = n /\ j = Len(s) /\ j # Len(stack)
        BY <1>0, <1>4, <2>0, <3>1 DEF n
      <4> QED BY <1>1, <4>1 DEF From
    <3>2. CASE j # n - 1
      <4>1. j + 1 \in 1..n - 1 /\ j # Len(s) /\ j # Len(stack) /\ j + 1 \in 1..n
        BY <1>0, <1>4, <2>0, <3>2 DEF n
      <4>2. pos[j + 1] \in 1..Len(q) /\ p[j + 1] = pos[j + 1] - 1
        BY <1>1, <4>1
      <4> QED BY <4>1, <4>2 DEF From
    <3> QED BY <3>1, <3>2
  <2> HIDE DEF a, b, a2, b2
  <2>4. \A i \in 1..b - a - 1 : t[a2 + i] = q[a + i]
    <3> SUFFICES ASSUME NEW i \in 1..b - a - 1 PROVE t[a2 + i] = q[a + i]
      OBVIOUS
    <3>1. a2 + i \in 1..Len(q) - 1 /\ (a2 + i) + 1 = a + i
      BY <1>0, <2>1, <2>3
    <3> QED BY <1>3, <3>1
  <2>5. Between(t, a2, b2) = Between(q, a, b)
    <3>1. b - a - 1 = b2 - a2 - 1
      BY <1>0, <2>1, <2>2, <2>3
    <3> QED BY <2>4, <3>1 DEF Between
  <2>6. j # 0 => s[j] = stack[j]
    <3>1. j # 0 => j \in 1..n - 1
      BY <1>0
    <3> QED BY <1>4, <3>1
  <2>7. FrameAt(t, s, p, j) = FrameAt(q, stack, pos, j)
    BY <2>5, <2>6 DEF FrameAt, a, b, a2, b2
  <2> QED BY <1>6, <1>7, <2>0, <2>7
<1>9. OuterOf(f) \in Seq(FrameType) /\ Len(OuterOf(f)) = n /\ \A i \in 1..n : OuterOf(f)[i] = f[i]
  <2>1. /\ SubSeq(f, 1, n) \in Seq(FrameType) /\ Len(SubSeq(f, 1, n)) = n
        /\ \A i \in 1..n : SubSeq(f, 1, n)[i] = f[i]
    <3>1. n \in Nat /\ n - 1 + 1 = n /\ 1 <= n
      BY <1>0
    <3>2. \A i \in 1..n : f[i] \in FrameType
      BY <1>0, <1>6, ElementOfSeq
    <3> QED BY <3>1, <3>2, SubSeqProperties
  <2>2. Len(f) - 1 = n
    BY <1>0, <1>6
  <2> QED BY <2>1, <2>2 DEF OuterOf
<1>10. g = OuterOf(f)
  <2>1. ASSUME NEW i \in 1..n PROVE g[i] = OuterOf(f)[i]
    <3>1. i - 1 \in 0..n - 1 /\ (i - 1) + 1 = i
      BY <1>0
    <3> QED BY <1>8, <1>9, <3>1
  <2> QED BY <1>7, <1>9, <2>1, SeqEqual
<1>11. TopOf(f).rest = <<>>
  <2>1. From(stack, pos, n) = 0 /\ To(q, pos, n) = 1
    BY <1>0, <1>1 DEF From, To, n
  <2>2. Between(q, 0, 1) = <<>>
    <3>1. 0 \in 0..Len(q) /\ 1 \in 0 + 1..Len(q) + 1 /\ 1 - 0 - 1 = 0
      BY <1>0
    <3>2. Between(q, 0, 1) \in Seq(Step) /\ Len(Between(q, 0, 1)) = 0
      BY <3>1, BetweenTyped
    <3> QED BY <3>2, EmptySeq
  <2> QED BY <1>6, <2>1, <2>2 DEF FrameAt
<1>12. /\ TopOf(f).loop = stack[n].id /\ TopOf(f).runs = stack[n].runs
       /\ TopOf(f).limit = stack[n].limit
  BY <1>0, <1>6 DEF FrameAt
<1> QED BY <1>6, <1>10, <1>11, <1>12 DEF t, p, s, f, g, n

StepsOf(w) == [i \in 1..Len(w) |-> w[i].step]

(* The frames when entries are put in front.                               *)
LEMMA PrependedFrames ==
  ASSUME NEW q \in Seq(Entry), NEW stack \in Seq(LoopState), NEW pos, Nested(q, stack, pos),
         NEW w \in Seq(Entry), Nested(w \o q, stack, Moved(pos, Len(w)))
  PROVE  LET f == FramesOf(q, stack, pos)
         IN  FramesOf(w \o q, stack, Moved(pos, Len(w))) = SetRest(f, StepsOf(w) \o TopOf(f).rest)
<1> DEFINE t == w \o q
           m == Len(w)
           p == Moved(pos, m)
           n == Len(stack)
           f == FramesOf(q, stack, pos)
           g == FramesOf(t, stack, p)
           r == TopOf(f).rest
           v == StepsOf(w)
<1>0. n \in Nat /\ Len(q) \in Nat /\ m \in Nat
  BY LenProperties
<1>1. /\ t \in Seq(Entry) /\ Len(t) = m + Len(q)
      /\ \A i \in 1..m + Len(q) : t[i] = IF i <= m THEN w[i] ELSE q[i - m]
  BY ConcatProperties
<1>2. Nested(t, stack, p)
  OBVIOUS
<1>3. /\ pos \in [1..n -> 1..Len(q)]
      /\ \A i \in 1..n : p[i] = pos[i] + m
  BY DEF Nested, Ordered, Moved
<1>4. v \in Seq(Step) /\ Len(v) = m /\ \A i \in 1..m : v[i] = w[i].step
  <2>1. ASSUME NEW i \in 1..m PROVE w[i].step \in Step
    <3>1. w[i] \in Entry
      BY ElementOfSeq
    <3> QED BY <3>1 DEF Entry
  <2>2. v \in [1..m -> Step] /\ \A i \in 1..m : v[i] = w[i].step
    BY <2>1 DEF StepsOf
  <2> HIDE DEF v, m
  <2> QED BY <1>0, <2>2
<1> HIDE DEF t, p, m, v
<1>5. /\ f \in Seq(FrameType) /\ Len(f) = n + 1 /\ f # <<>>
      /\ \A j \in 0..n : f[j + 1] = FrameAt(q, stack, pos, j)
      /\ TopOf(f) = FrameAt(q, stack, pos, n)
  BY FramesParts
<1>6. /\ g \in Seq(FrameType) /\ Len(g) = n + 1
      /\ \A j \in 0..n : g[j + 1] = FrameAt(t, stack, p, j)
      /\ TopOf(g) = FrameAt(t, stack, p, n)
  BY <1>1, <1>2, FramesParts
<1> HIDE DEF f, g, n
<1>7. ASSUME NEW j \in 0..n
      PROVE  /\ From(stack, pos, j) \in 0..Len(q) /\ To(q, pos, j) \in 1..Len(q) + 1
             /\ From(stack, pos, j) < To(q, pos, j)
             /\ To(t, p, j) = To(q, pos, j) + m
             /\ j # n => From(stack, p, j) = From(stack, pos, j) + m /\ From(stack, pos, j) >= 1
  <2>1. /\ From(stack, pos, j) \in 0..Len(q) /\ To(q, pos, j) \in 1..Len(q) + 1
        /\ From(stack, pos, j) < To(q, pos, j)
    BY BoundsTyped DEF n
  <2>2. To(t, p, j) = To(q, pos, j) + m
    <3>1. CASE j = 0
      BY <1>0, <1>1, <3>1 DEF To
    <3>2. CASE j # 0
      <4>1. j \in 1..n
        BY <1>0, <3>2
      <4> QED BY <1>3, <3>2, <4>1 DEF To
    <3> QED BY <3>1, <3>2
  <2>3. j # n => From(stack, p, j) = From(stack, pos, j) + m /\ From(stack, pos, j) >= 1
    <3>1. j # n => j + 1 \in 1..n /\ pos[j + 1] \in 1..Len(q)
      BY <1>0, <1>3
    <3> QED BY <1>3, <3>1 DEF From, n
  <2> QED BY <2>1, <2>2, <2>3
<1>8. ASSUME NEW j \in 0..n, j # n PROVE g[j + 1] = f[j + 1]
  <2> DEFINE a == From(stack, pos, j)
             b == To(q, pos, j)
             a2 == From(stack, p, j)
             b2 == To(t, p, j)
  <2>1. a \in 1..Len(q) /\ b \in 1..Len(q) + 1 /\ a < b /\ a2 = a + m /\ b2 = b + m
    BY <1>7, <1>8
  <2> HIDE DEF a, b, a2, b2
  <2>2. \A i \in 1..b - a - 1 : t[a2 + i] = q[a + i]
    <3> SUFFICES ASSUME NEW i \in 1..b - a - 1 PROVE t[a2 + i] = q[a + i]
      OBVIOUS
    <3>1. a2 + i \in 1..m + Len(q) /\ ~ (a2 + i <= m) /\ (a2 + i) - m = a + i
      BY <1>0, <2>1
    <3> QED BY <1>1, <3>1
  <2>3. Between(t, a2, b2) = Between(q, a, b)
    <3>1. b - a - 1 = b2 - a2 - 1
      BY <1>0, <2>1
    <3> QED BY <2>2, <3>1 DEF Between
  <2>4. FrameAt(t, stack, p, j) = FrameAt(q, stack, pos, j)
    BY <2>3 DEF FrameAt, a, b, a2, b2
  <2> QED BY <1>5, <1>6, <2>4
<1>9. /\ r = Between(q, 0, To(q, pos, n)) /\ TopOf(g).rest = Between(t, 0, To(t, p, n))
      /\ TopOf(g) = [TopOf(f) EXCEPT !.rest = TopOf(g).rest]
  BY <1>5, <1>6 DEF FrameAt, From, n
<1> DEFINE b == To(q, pos, n)
           b2 == To(t, p, n)
<1>10. b \in 1..Len(q) + 1 /\ b2 = b + m
  <2>1. n \in 0..n
    BY <1>0
  <2> QED BY <1>7, <2>1
<1> HIDE DEF b, b2, r
<1>11. /\ r \in Seq(Step) /\ Len(r) = b - 1 /\ \A i \in 1..b - 1 : r[i] = q[i].step
  <2>1. 0 \in 0..Len(q) /\ b \in 0 + 1..Len(q) + 1 /\ b - 0 - 1 = b - 1
    BY <1>0, <1>10
  <2>2. \A i \in 1..b - 0 - 1 : Between(q, 0, b)[i] = q[0 + i].step
    BY <2>1, BetweenTyped
  <2>3. \A i \in 1..b - 1 : 0 + i = i
    BY <1>10
  <2> QED BY <1>9, <2>1, <2>2, <2>3, BetweenTyped DEF b
<1>12. /\ TopOf(g).rest \in Seq(Step) /\ Len(TopOf(g).rest) = m + (b - 1)
       /\ \A i \in 1..m + (b - 1) : TopOf(g).rest[i] = t[i].step
  <2>1. 0 \in 0..Len(t) /\ b2 \in 0 + 1..Len(t) + 1 /\ b2 - 0 - 1 = m + (b - 1)
    BY <1>0, <1>1, <1>10
  <2>2. \A i \in 1..b2 - 0 - 1 : Between(t, 0, b2)[i] = t[0 + i].step
    BY <1>1, <2>1, BetweenTyped
  <2>3. \A i \in 1..m + (b - 1) : 0 + i = i
    BY <1>0, <1>10
  <2>4. Between(t, 0, b2) \in Seq(Step) /\ Len(Between(t, 0, b2)) = b2 - 0 - 1
    BY <1>1, <2>1, BetweenTyped
  <2> QED BY <1>9, <2>1, <2>2, <2>3, <2>4 DEF b2
<1>13. TopOf(g).rest = v \o r
  <2> DEFINE x == v \o r
             y == TopOf(g).rest
  <2>1. /\ x \in Seq(Step) /\ Len(x) = m + (b - 1)
        /\ \A i \in 1..m + (b - 1) : x[i] = IF i <= m THEN v[i] ELSE r[i - m]
    <3>1. v \in Seq(Step) /\ r \in Seq(Step)
      BY <1>4, <1>11
    <3>2. /\ v \o r \in Seq(Step) /\ Len(v \o r) = Len(v) + Len(r)
          /\ \A i \in 1..Len(v) + Len(r) : (v \o r)[i] = IF i <= Len(v) THEN v[i] ELSE r[i - Len(v)]
      BY <3>1, ConcatProperties
    <3>3. Len(v) = m /\ Len(r) = b - 1
      BY <1>4, <1>11
    <3> QED BY <3>2, <3>3
  <2> HIDE DEF x, y
  <2>2. ASSUME NEW i \in 1..m + (b - 1) PROVE x[i] = t[i].step
    <3>0. i \in 1..m + Len(q)
      BY <1>0, <1>10
    <3>1. CASE i <= m
      <4>1. i \in 1..m
        BY <1>0, <1>10, <3>1
      <4>2. t[i] = w[i]
        BY <1>1, <3>0, <3>1
      <4>3. v[i] = w[i].step
        BY <1>4, <4>1
      <4> QED BY <2>1, <3>1, <4>2, <4>3
    <3>2. CASE ~ (i <= m)
      <4>1. i - m \in 1..b - 1
        BY <1>0, <1>10, <3>2
      <4>2. t[i] = q[i - m]
        BY <1>1, <3>0, <3>2
      <4>3. \A j \in 1..b - 1 : r[j] = q[j].step
        BY <1>11
      <4>4. r[i - m] = q[i - m].step
        BY <4>1, <4>3, Zenon
      <4> QED BY <2>1, <3>2, <4>2, <4>4
    <3> QED BY <3>1, <3>2
  <2>3. y \in Seq(Step) /\ Len(y) = m + (b - 1) /\ \A i \in 1..m + (b - 1) : y[i] = t[i].step
    BY <1>12 DEF y
  <2>4. \A i \in 1..Len(y) : y[i] = x[i]
    BY <2>2, <2>3
  <2>5. y = x
    BY <2>1, <2>3, <2>4, SeqEqual
  <2> QED BY <2>5 DEF x, y
<1>14. \A j \in 1..Len(f) - 1 : g[j] = f[j]
  <2> SUFFICES ASSUME NEW j \in 1..n PROVE g[j] = f[j]
    BY <1>0, <1>5
  <2>1. j - 1 \in 0..n /\ j - 1 # n /\ (j - 1) + 1 = j
    BY <1>0
  <2> QED BY <1>8, <2>1
<1>15. g = SetRest(f, TopOf(g).rest)
  BY <1>5, <1>6, <1>9, <1>12, <1>14, RestReplaced, SMTT(30)
<1> QED BY <1>13, <1>15 DEF t, p, f, g, r, m, v

(* The frames when a loop is put on the stack, its marker in front.        *)
LEMMA MarkedFrames ==
  ASSUME NEW q \in Seq(Entry), NEW stack \in Seq(LoopState), NEW pos, Nested(q, stack, pos),
         NEW e \in Entry, NEW l \in LoopState,
         Nested(<<e>> \o q, Append(stack, l),
                [i \in 1..Len(stack) + 1 |-> IF i = Len(stack) + 1 THEN 1 ELSE pos[i] + 1])
  PROVE  FramesOf(<<e>> \o q, Append(stack, l),
                  [i \in 1..Len(stack) + 1 |-> IF i = Len(stack) + 1 THEN 1 ELSE pos[i] + 1])
           = Append(FramesOf(q, stack, pos),
                    [loop |-> l.id, rest |-> <<>>, runs |-> l.runs, limit |-> l.limit])
<1> DEFINE t == <<e>> \o q
           s == Append(stack, l)
           n == Len(stack)
           p == [i \in 1..n + 1 |-> IF i = n + 1 THEN 1 ELSE pos[i] + 1]
           f == FramesOf(q, stack, pos)
           g == FramesOf(t, s, p)
           new == [loop |-> l.id, rest |-> <<>>, runs |-> l.runs, limit |-> l.limit]
<1>0. n \in Nat /\ Len(q) \in Nat /\ n + 1 \in 1..n + 1
  BY LenProperties
<1>1. t \in Seq(Entry) /\ Len(t) = 1 + Len(q) /\ \A r \in 1..Len(q) : t[r + 1] = q[r]
  <2> DEFINE w == <<e>>
  <2>1. w \in Seq(Entry) /\ Len(w) = 1
    OBVIOUS
  <2> HIDE DEF w
  <2>2. /\ w \o q \in Seq(Entry) /\ Len(w \o q) = Len(w) + Len(q)
        /\ \A r \in 1..Len(w) + Len(q) : (w \o q)[r] = IF r <= Len(w) THEN w[r] ELSE q[r - Len(w)]
    BY <2>1, ConcatProperties
  <2>3. ASSUME NEW r \in 1..Len(q) PROVE (w \o q)[r + 1] = q[r]
    <3>1. r + 1 \in 1..Len(w) + Len(q) /\ ~ (r + 1 <= Len(w)) /\ (r + 1) - Len(w) = r
      BY <1>0, <2>1
    <3> QED BY <2>2, <3>1
  <2> QED BY <2>1, <2>2, <2>3 DEF w
<1>2. s \in Seq(LoopState) /\ Len(s) = n + 1 /\ s[n + 1] = l /\ \A i \in 1..n : s[i] = stack[i]
  BY AppendProperties
<1>3. /\ pos \in [1..n -> 1..Len(q)] /\ p[n + 1] = 1
      /\ \A i \in 1..n : p[i] = pos[i] + 1
  <2>1. \A i \in 1..n : i \in 1..n + 1 /\ i # n + 1
    BY <1>0
  <2> QED BY <1>0, <2>1 DEF Nested, Ordered
<1>4. Nested(t, s, p)
  OBVIOUS
<1> HIDE DEF t, s, p
<1>5. /\ f \in Seq(FrameType) /\ Len(f) = n + 1 /\ f # <<>>
      /\ \A j \in 0..n : f[j + 1] = FrameAt(q, stack, pos, j)
  BY FramesParts
<1>6. /\ g \in Seq(FrameType) /\ Len(g) = (n + 1) + 1
      /\ \A j \in 0..n + 1 : g[j + 1] = FrameAt(t, s, p, j)
  <2>1. /\ g \in Seq(FrameType) /\ Len(g) = Len(s) + 1
        /\ \A j \in 0..Len(s) : g[j + 1] = FrameAt(t, s, p, j)
    BY <1>1, <1>2, <1>4, FramesParts
  <2> HIDE DEF g, n
  <2> QED BY <1>2, <2>1
<1> HIDE DEF f, g, n
<1>7. ASSUME NEW j \in 0..n PROVE g[j + 1] = f[j + 1]
  <2> DEFINE a == From(stack, pos, j)
             b == To(q, pos, j)
             a2 == From(s, p, j)
             b2 == To(t, p, j)
  <2>1. a \in 0..Len(q) /\ b \in 1..Len(q) + 1 /\ a < b
    BY BoundsTyped DEF n
  <2>2. b2 = b + 1
    <3>1. CASE j = 0
      BY <1>0, <1>1, <3>1 DEF To
    <3>2. CASE j # 0
      <4>1. j \in 1..n
        BY <1>0, <3>2
      <4> QED BY <1>3, <3>2, <4>1 DEF To
    <3> QED BY <3>1, <3>2
  <2>3. a2 = a + 1
    <3>1. CASE j = n
      <4>1. j # Len(s) /\ j = Len(stack)
        BY <1>0, <1>2, <3>1 DEF n
      <4> QED BY <1>3, <3>1, <4>1 DEF From
    <3>2. CASE j # n
      <4>1. j + 1 \in 1..n /\ j # Len(s) /\ j # Len(stack)
        BY <1>0, <1>2, <3>2 DEF n
      <4> QED BY <1>3, <4>1 DEF From
    <3> QED BY <3>1, <3>2
  <2> HIDE DEF a, b, a2, b2
  <2>4. \A i \in 1..b - a - 1 : t[a2 + i] = q[a + i]
    <3> SUFFICES ASSUME NEW i \in 1..b - a - 1 PROVE t[a2 + i] = q[a + i]
      OBVIOUS
    <3>1. a + i \in 1..Len(q) /\ a2 + i = (a + i) + 1
      BY <1>0, <2>1, <2>3
    <3> QED BY <1>1, <3>1
  <2>5. Between(t, a2, b2) = Between(q, a, b)
    <3>1. b - a - 1 = b2 - a2 - 1
      BY <1>0, <2>1, <2>2, <2>3
    <3> QED BY <2>4, <3>1 DEF Between
  <2>6. j # 0 => s[j] = stack[j]
    <3>1. j # 0 => j \in 1..n
      BY <1>0
    <3> QED BY <1>2, <3>1
  <2>7. FrameAt(t, s, p, j) = FrameAt(q, stack, pos, j)
    BY <2>5, <2>6 DEF FrameAt, a, b, a2, b2
  <2>8. j \in 0..n + 1
    BY <1>0
  <2> QED BY <1>5, <1>6, <2>7, <2>8
<1>8. g[(n + 1) + 1] = new
  <2>1. n + 1 \in 0..n + 1 /\ n + 1 # 0 /\ n + 1 = Len(s)
    BY <1>0, <1>2
  <2>2. From(s, p, n + 1) = 0 /\ To(t, p, n + 1) = 1
    BY <1>3, <2>1 DEF From, To
  <2>3. Between(t, 0, 1) = <<>>
    <3>1. 0 \in 0..Len(t) /\ 1 \in 0 + 1..Len(t) + 1 /\ 1 - 0 - 1 = 0
      BY <1>0, <1>1
    <3>2. Between(t, 0, 1) \in Seq(Step) /\ Len(Between(t, 0, 1)) = 0
      BY <1>1, <3>1, BetweenTyped
    <3> QED BY <3>2, EmptySeq
  <2>4. FrameAt(t, s, p, n + 1) = new
    BY <1>2, <2>1, <2>2, <2>3 DEF FrameAt
  <2> QED BY <1>6, <2>1, <2>4
<1>9. new \in FrameType
  BY EmptySeq DEF FrameType, LoopState
<1> HIDE DEF new
<1>10. /\ Append(f, new) \in Seq(FrameType) /\ Len(Append(f, new)) = (n + 1) + 1
       /\ \A j \in 1..n + 1 : Append(f, new)[j] = f[j]
       /\ Append(f, new)[(n + 1) + 1] = new
  BY <1>5, <1>9, AppendProperties
<1>11. ASSUME NEW j \in 1..(n + 1) + 1 PROVE g[j] = Append(f, new)[j]
  <2>1. CASE j = (n + 1) + 1
    BY <1>8, <1>10, <2>1
  <2>2. CASE j # (n + 1) + 1
    <3>1. j \in 1..n + 1 /\ j - 1 \in 0..n /\ (j - 1) + 1 = j
      BY <1>0, <2>2
    <3>2. g[j] = f[j]
      BY <1>7, <3>1
    <3> QED BY <1>10, <3>1, <3>2
  <2> QED BY <2>1, <2>2
<1>12. g = Append(f, new)
  BY <1>6, <1>10, <1>11, SeqEqual
<1> QED BY <1>12 DEF t, s, p, f, g, new, n

-----------------------------------------------------------------------------
(* A queue and a stack that are nested, and the frames they stand for.     *)
Reaches(q, stack, f) ==
  \E pos : Nested(q, stack, pos) /\ FramesOf(q, stack, pos) = f

(* The frames are typed, one per loop and one for the workflow.            *)
LEMMA ReachesTyped ==
  ASSUME NEW q \in Seq(Entry), NEW stack \in Seq(LoopState), NEW f, Reaches(q, stack, f)
  PROVE  f \in Seq(FrameType) /\ f # <<>> /\ Len(f) = Len(stack) + 1
BY FramesParts DEF Reaches

(* A queued body, entry by entry.                                          *)
LEMMA QueuedSteps ==
  ASSUME NEW steps \in Seq(Step), NEW loop, NEW resolved
  PROVE  /\ StepsOf(Queued(steps, loop, resolved)) = steps
         /\ Len(Queued(steps, loop, resolved)) = Len(steps)
         /\ \A i \in 1..Len(steps) :
              /\ Queued(steps, loop, resolved)[i] =
                   [step |-> steps[i], cont |-> FALSE, loop |-> loop, resolved |-> resolved]
<1> DEFINE w == Queued(steps, loop, resolved)
<1>0. Len(steps) \in Nat
  BY LenProperties
<1>1. /\ Len(w) = Len(steps)
      /\ \A i \in 1..Len(steps) :
           w[i] = [step |-> steps[i], cont |-> FALSE, loop |-> loop, resolved |-> resolved]
  BY <1>0 DEF Queued
<1> HIDE DEF w
<1>2. StepsOf(w) = [i \in 1..Len(steps) |-> steps[i]]
  <2>1. ASSUME NEW i \in 1..Len(steps) PROVE w[i].step = steps[i]
    <3>1. w[i] = [step |-> steps[i], cont |-> FALSE, loop |-> loop, resolved |-> resolved]
      BY <1>1
    <3> QED BY <3>1
  <2> QED BY <1>1, <2>1 DEF StepsOf
<1>3. steps = [i \in 1..Len(steps) |-> steps[i]]
  BY <1>0
<1> QED BY <1>1, <1>2, <1>3 DEF w

(* The tail of a sequence, element by element.                             *)
LEMMA TailSuffix ==
  ASSUME NEW S, NEW s \in Seq(S), s # <<>>
  PROVE  /\ Tail(s) = SubSeq(s, 2, Len(s)) /\ Head(s) = s[1]
         /\ Tail(s) \in Seq(S) /\ Len(Tail(s)) = Len(s) - 1
         /\ \A i \in 1..Len(s) - 1 : Tail(s)[i] = s[i + 1]
<1>0. Len(s) \in Nat \ {0} /\ 1 \in 0..Len(s) /\ 1 + 1 = 2
  BY LenProperties, EmptySeq
<1>1. /\ Tail(s) \in Seq(S) /\ Len(Tail(s)) = Len(s) - 1 /\ Head(s) = s[1]
      /\ \A i \in 1..Len(s) - 1 : Tail(s)[i] = s[i + 1]
  BY <1>0, HeadTailProperties
<1>2. /\ SubSeq(s, 1 + 1, Len(s)) \in Seq(S) /\ Len(SubSeq(s, 1 + 1, Len(s))) = Len(s) - 1
      /\ \A i \in 1..Len(s) - 1 : SubSeq(s, 1 + 1, Len(s))[i] = s[i + 1]
  BY <1>0, SuffixParts
<1> DEFINE t == Tail(s)
           u == SubSeq(s, 1 + 1, Len(s))
<1>3. /\ t \in Seq(S) /\ u \in Seq(S) /\ Len(t) = Len(u)
      /\ \A i \in 1..Len(t) : t[i] = u[i]
  BY <1>1, <1>2
<1> HIDE DEF t, u
<1>4. t = u
  BY <1>3, SeqEqual
<1> QED BY <1>0, <1>1, <1>4 DEF t, u

(* The first entry is taken.                                               *)
LEMMA TakenReaches ==
  ASSUME NEW q \in Seq(Entry), q # <<>>, NEW stack \in Seq(LoopState), NEW pos,
         Nested(q, stack, pos), \A i \in 1..Len(stack) : 1 < pos[i]
  PROVE  LET f == FramesOf(q, stack, pos)
             r == TopOf(f).rest
         IN  /\ r \in Seq(Step) /\ r # <<>> /\ Head(r) = q[1].step
             /\ Reaches(Tail(q), stack, SetRest(f, Tail(r)))
<1> DEFINE f == FramesOf(q, stack, pos)
           r == TopOf(f).rest
<1>0. Len(q) \in Nat \ {0} /\ 1 \in 0..Len(q) /\ 1 + 1 = 2
  BY LenProperties, EmptySeq
<1>1. Nested(SubSeq(q, 2, Len(q)), stack, Moved(pos, -1))
  BY <1>0, DroppedNested
<1>2. /\ r \in Seq(Step) /\ 1 \in 0..Len(r) /\ \A i \in 1..1 : r[i] = q[i].step
      /\ FramesOf(SubSeq(q, 2, Len(q)), stack, Moved(pos, -1))
           = SetRest(f, SubSeq(r, 2, Len(r)))
  BY <1>0, DroppedFrames
<1>3. Tail(q) = SubSeq(q, 2, Len(q))
  BY TailSuffix
<1> HIDE DEF r
<1>4. r # <<>> /\ Head(r) = r[1] /\ Tail(r) = SubSeq(r, 2, Len(r))
  <2>1. r # <<>>
    BY <1>2, EmptySeq
  <2> QED BY <1>2, <2>1, TailSuffix
<1> HIDE DEF f
<1>5. r[1] = q[1].step
  BY <1>2
<1> QED BY <1>1, <1>2, <1>3, <1>4, <1>5 DEF Reaches, f, r

(* The innermost loop is over.                                             *)
LEMMA PoppedReaches ==
  ASSUME NEW q \in Seq(Entry), NEW stack \in Seq(LoopState), NEW pos,
         Nested(q, stack, pos), stack # <<>>, pos[Len(stack)] = 1
  PROVE  Reaches(Tail(q), ExitedLoop(stack), OuterOf(FramesOf(q, stack, pos)))
<1>1. Nested(Tail(q), ExitedLoop(stack), [i \in 1..Len(stack) - 1 |-> pos[i] - 1])
  BY PoppedNested
<1>2. FramesOf(Tail(q), ExitedLoop(stack), [i \in 1..Len(stack) - 1 |-> pos[i] - 1])
        = OuterOf(FramesOf(q, stack, pos))
  BY PoppedFrames
<1> QED BY <1>1, <1>2 DEF Reaches

(* Entries are put in front.                                               *)
LEMMA PrependedReaches ==
  ASSUME NEW q \in Seq(Entry), NEW stack \in Seq(LoopState), NEW f, Reaches(q, stack, f),
         NEW w \in Seq(Entry),
         \A r \in 1..Len(w) :
           /\ ~w[r].cont
           /\ \A field \in w[r].resolved : w[r].step \in Replaced(field)
           /\ \A i \in 1..Len(stack) : w[r].step \in Inside(stack[i].id)
           /\ stack # <<>> => w[r].step \in Direct(stack[Len(stack)].id)
  PROVE  Reaches(w \o q, stack, SetRest(f, StepsOf(w) \o TopOf(f).rest))
<1>1. PICK pos : Nested(q, stack, pos) /\ FramesOf(q, stack, pos) = f
  BY DEF Reaches
<1>2. Nested(w \o q, stack, Moved(pos, Len(w)))
  BY <1>1, PrependedNested
<1>3. FramesOf(w \o q, stack, Moved(pos, Len(w))) = SetRest(f, StepsOf(w) \o TopOf(f).rest)
  BY <1>1, <1>2, PrependedFrames
<1> QED BY <1>2, <1>3 DEF Reaches

(* A loop is put on the stack, its marker in front.                        *)
LEMMA MarkedReaches ==
  ASSUME NEW q \in Seq(Entry), NEW stack \in Seq(LoopState), NEW f, Reaches(q, stack, f),
         NEW g \in Entry, NEW l \in LoopState,
         g.step = l.id, Def[l.id].kind \in LoopKinds, l.signal # "break",
         g.cont => Def[l.id].kind = "while_loop",
         \A field \in g.resolved : g.step \in Replaced(field),
         \A i \in 1..Len(stack) : g.step \in Inside(stack[i].id)
  PROVE  Reaches(<<g>> \o q, Append(stack, l),
                 Append(f, [loop |-> l.id, rest |-> <<>>, runs |-> l.runs, limit |-> l.limit]))
<1>1. PICK pos : Nested(q, stack, pos) /\ FramesOf(q, stack, pos) = f
  BY DEF Reaches
<1> DEFINE p == [i \in 1..Len(stack) + 1 |-> IF i = Len(stack) + 1 THEN 1 ELSE pos[i] + 1]
<1>2. Nested(<<g>> \o q, Append(stack, l), p)
  BY <1>1, MarkedNested
<1>3. FramesOf(<<g>> \o q, Append(stack, l), p)
        = Append(f, [loop |-> l.id, rest |-> <<>>, runs |-> l.runs, limit |-> l.limit])
  BY <1>1, <1>2, MarkedFrames
<1> HIDE DEF p
<1> QED BY <1>2, <1>3 DEF Reaches

(* A loop is put on the stack, an iteration of its body in front.          *)
LEMMA LoopReaches ==
  ASSUME NEW q \in Seq(Entry), NEW stack \in Seq(LoopState), NEW f, Reaches(q, stack, f),
         NEW g \in Entry, NEW l \in LoopState,
         g.step = l.id, Def[l.id].kind \in LoopKinds, l.signal # "break",
         g.cont => Def[l.id].kind = "while_loop",
         \A field \in g.resolved : g.step \in Replaced(field),
         \A i \in 1..Len(stack) : g.step \in Inside(stack[i].id),
         NEW loop \in Step \cup {NoStep}, NEW resolved \in SUBSET Fields,
         \A field \in resolved : g.step \in Replaced(field)
  PROVE  Reaches(Queued(Def[l.id].body, loop, resolved) \o <<g>> \o q, Append(stack, l),
                 Append(f, [loop |-> l.id, rest |-> Def[l.id].body,
                            runs |-> l.runs, limit |-> l.limit]))
<1> DEFINE body == Def[l.id].body
           w == Queued(body, loop, resolved)
           t == <<g>> \o q
           s == Append(stack, l)
           new == [loop |-> l.id, rest |-> <<>>, runs |-> l.runs, limit |-> l.limit]
           h == Append(f, new)
           n == Len(stack)
<1>0. n \in Nat /\ l.id \in Step
  BY LenProperties DEF LoopState
<1>1. body \in Seq(Step) /\ \A i \in 1..Len(body) : body[i] \in Parts(l.id)
  <2>1. body \in Seq(Step)
    BY <1>0, DefAssumption DEF Definition
  <2> QED BY <2>1 DEF Parts
<1>2. Reaches(t, s, h)
  BY MarkedReaches
<1>3. t \in Seq(Entry) /\ s \in Seq(LoopState)
  <2>1. <<g>> \in Seq(Entry)
    OBVIOUS
  <2> QED BY <2>1, ConcatProperties, AppendProperties
<1>4. Len(s) = n + 1 /\ s[n + 1] = l /\ \A i \in 1..n : s[i] = stack[i]
  BY AppendProperties
<1>5. /\ w \in Seq(Entry) /\ StepsOf(w) = body /\ Len(w) = Len(body)
      /\ \A i \in 1..Len(body) :
           w[i] = [step |-> body[i], cont |-> FALSE, loop |-> loop, resolved |-> resolved]
  BY <1>1, QueuedTyped, QueuedSteps
<1>6. /\ Parts(l.id) \subseteq Direct(l.id) /\ Parts(l.id) \subseteq Inside(l.id)
      /\ \A i \in 1..n : Parts(l.id) \subseteq Inside(stack[i].id)
  <2>1. ASSUME NEW i \in 1..n PROVE Parts(l.id) \subseteq Inside(stack[i].id)
    <3>1. stack[i] \in LoopState
      BY ElementOfSeq
    <3>2. stack[i].id \in Step
      BY <3>1 DEF LoopState
    <3> QED BY <3>2, InsideLoops
  <2> QED BY <1>0, <2>1, InsideLoops
<1>7. \A field \in resolved : Parts(l.id) \subseteq Replaced(field)
  BY <1>0, ReplacedParts
<1> HIDE DEF w, body, n
<1>8. ASSUME NEW r \in 1..Len(w)
      PROVE  /\ ~w[r].cont
             /\ \A field \in w[r].resolved : w[r].step \in Replaced(field)
             /\ \A i \in 1..Len(s) : w[r].step \in Inside(s[i].id)
             /\ s # <<>> => w[r].step \in Direct(s[Len(s)].id)
  <2>1. /\ w[r].step \in Parts(l.id) /\ ~w[r].cont /\ w[r].resolved = resolved
    <3>1. /\ r \in 1..Len(body)
          /\ w[r] = [step |-> body[r], cont |-> FALSE, loop |-> loop, resolved |-> resolved]
      BY <1>5
    <3>2. body[r] \in Parts(l.id)
      BY <1>1, <3>1
    <3> QED BY <3>1, <3>2
  <2>2. \A i \in 1..Len(s) : i = n + 1 \/ i \in 1..n
    BY <1>0, <1>4
  <2>3. s[Len(s)] = l
    BY <1>4
  <2> HIDE DEF s
  <2> QED BY <1>4, <1>6, <1>7, <2>1, <2>2, <2>3
<1> HIDE DEF t, s, h, new
<1>9. Reaches(w \o t, s, SetRest(h, StepsOf(w) \o TopOf(h).rest))
  BY <1>2, <1>3, <1>5, <1>8, PrependedReaches
<1>10. w \o t = w \o <<g>> \o q
  <2>1. <<g>> \in Seq(Entry)
    OBVIOUS
  <2> QED BY <1>5, <2>1, ConcatAssociative DEF t
<1>11. SetRest(h, body \o TopOf(h).rest)
        = Append(f, [loop |-> l.id, rest |-> body, runs |-> l.runs, limit |-> l.limit])
  <2>1. f \in Seq(FrameType)
    BY ReachesTyped
  <2>2. new \in FrameType
    BY EmptySeq DEF FrameType, LoopState, new
  <2>3. Len(h) = Len(f) + 1 /\ h[Len(f) + 1] = new /\ \A i \in 1..Len(f) : h[i] = f[i]
    BY <2>1, <2>2, AppendProperties DEF h
  <2>4. TopOf(h) = new
    BY <2>3 DEF TopOf
  <2>5. OuterOf(h) = f
    <3>1. SubSeq(Append(f, new), 1, Len(f)) = f
      BY <2>1, <2>2, AppendProperties, SubSeqProperties, LenProperties, SeqEqual
    <3>2. Len(h) - 1 = Len(f)
      BY <2>1, <2>3, LenProperties
    <3> QED BY <3>1, <3>2 DEF OuterOf, h
  <2>6. body \o TopOf(h).rest = body
    <3>1. TopOf(h).rest = <<>>
      BY <2>4 DEF new
    <3> QED BY <1>1, <3>1, ConcatEmptySeq
  <2> QED BY <2>4, <2>5, <2>6 DEF SetRest, new
<1> QED BY <1>5, <1>9, <1>10, <1>11 DEF w, body, s

-----------------------------------------------------------------------------
(* The loop stack, as the loops below the innermost one and that one.      *)

(* A stack whose innermost loop is replaced.                               *)
LEMMA ReplacedTop ==
  ASSUME NEW stack \in Seq(LoopState), stack # <<>>, NEW l \in LoopState
  PROVE  [stack EXCEPT ![Len(stack)] = l] = Append(ExitedLoop(stack), l)
<1> DEFINE n == Len(stack)
           u == [stack EXCEPT ![n] = l]
           e == ExitedLoop(stack)
           v == Append(e, l)
<1>0. n \in Nat \ {0} /\ n \in 1..n
  BY LenProperties, EmptySeq
<1>1. /\ u \in Seq(LoopState) /\ Len(u) = n
      /\ \A i \in 1..n : u[i] = IF i = n THEN l ELSE stack[i]
  BY <1>0, ExceptSeq
<1>2. e \in Seq(LoopState) /\ Len(e) = n - 1 /\ \A i \in 1..n - 1 : e[i] = stack[i]
  BY ExitedLoopParts
<1> HIDE DEF u, e
<1>3. /\ v \in Seq(LoopState) /\ Len(v) = Len(e) + 1
      /\ \A i \in 1..Len(e) : v[i] = e[i]
      /\ v[Len(e) + 1] = l
  BY <1>2, AppendProperties
<1> HIDE DEF v, n
<1>4. ASSUME NEW i \in 1..n PROVE u[i] = v[i]
  <2>1. CASE i = n
    <3>1. Len(e) + 1 = n
      BY <1>0, <1>2
    <3> QED BY <1>1, <1>3, <2>1, <3>1
  <2>2. CASE i # n
    <3>1. i \in 1..n - 1 /\ i \in 1..Len(e)
      BY <1>0, <1>2, <2>2
    <3> QED BY <1>1, <1>2, <1>3, <2>2, <3>1
  <2> QED BY <2>1, <2>2
<1>5. Len(v) = n
  BY <1>0, <1>2, <1>3
<1>6. u = v
  BY <1>1, <1>3, <1>4, <1>5, SeqEqual
<1> QED BY <1>6 DEF u, v, e, n

(* A stack with one loop more, and that loop's body queued.                *)
LEMMA PushedStack ==
  ASSUME NEW stack \in Seq(LoopState), NEW l \in LoopState
  PROVE  /\ Append(stack, l) \in Seq(LoopState) /\ Append(stack, l) # <<>>
         /\ Append(stack, l)[Len(Append(stack, l))] = l
         /\ ExitedLoop(Append(stack, l)) = stack
         /\ BodyQueued(Append(stack, l)) = Append(stack, [l EXCEPT !.runs = @ + 1])
<1> DEFINE s == Append(stack, l)
           n == Len(stack)
           e == ExitedLoop(s)
           new == [l EXCEPT !.runs = @ + 1]
<1>0. n \in Nat
  BY LenProperties
<1>1. /\ s \in Seq(LoopState) /\ Len(s) = n + 1 /\ s[n + 1] = l /\ s # <<>>
      /\ \A i \in 1..n : s[i] = stack[i]
  BY AppendProperties
<1>2. new \in LoopState
  BY DEF LoopState
<1> HIDE DEF s, new
<1>3. e \in Seq(LoopState) /\ Len(e) = Len(s) - 1 /\ \A i \in 1..Len(s) - 1 : e[i] = s[i]
  BY <1>1, ExitedLoopParts
<1> HIDE DEF e
<1>4. e = stack
  <2>1. Len(s) - 1 = n
    BY <1>0, <1>1
  <2>2. Len(e) = Len(stack) /\ \A i \in 1..n : e[i] = stack[i]
    BY <1>1, <1>3, <2>1
  <2> QED BY <1>3, <2>2, SeqEqual
<1>5. BodyQueued(s) = [s EXCEPT ![Len(s)] = new]
  <2>1. s[Len(s)] = l
    BY <1>1
  <2> QED BY <1>1, <2>1 DEF BodyQueued, LoopState, new
<1>6. BodyQueued(s) = Append(stack, new)
  BY <1>1, <1>2, <1>4, <1>5, ReplacedTop DEF e
<1> QED BY <1>1, <1>4, <1>6 DEF s, e, new

Resumed(l) == [l EXCEPT !.iter = @ + 1, !.signal = "none"]

(* What resuming or signalling the innermost loop does to the stack.       *)
LEMMA ResumedStack ==
  ASSUME loop_stack \in Seq(LoopState), loop_stack # <<>>
  PROVE  /\ CurrentLoop \in LoopState /\ ExitedLoop(loop_stack) \in Seq(LoopState)
         /\ Resumed(CurrentLoop) \in LoopState
         /\ Advanced = Append(ExitedLoop(loop_stack), Resumed(CurrentLoop))
         /\ \A sig \in Signals :
              /\ [CurrentLoop EXCEPT !.signal = sig] \in LoopState
              /\ Signalled(sig) = Append(ExitedLoop(loop_stack), [CurrentLoop EXCEPT !.signal = sig])
<1>1. CurrentLoop \in LoopState /\ ExitedLoop(loop_stack) \in Seq(LoopState)
  BY TopTyped, ExitedLoopParts
<1>2. Resumed(CurrentLoop) \in LoopState
  <2> DEFINE n == CurrentLoop.iter + 1
  <2>1. n \in Nat /\ "none" \in Signals
    BY <1>1 DEF LoopState, Signals
  <2>2. Resumed(CurrentLoop) = [CurrentLoop EXCEPT !.iter = n, !.signal = "none"]
    BY DEF Resumed
  <2> HIDE DEF n
  <2> QED BY <1>1, <2>1, <2>2 DEF LoopState
<1>3. Len(loop_stack) \in DOMAIN loop_stack
  BY EmptySeq, LenProperties
<1>4. Advanced = [loop_stack EXCEPT ![Len(loop_stack)] = Resumed(CurrentLoop)]
  BY <1>3, <1>1 DEF Advanced, CurrentLoop, LoopState, Resumed
<1>5. ASSUME NEW sig \in Signals
      PROVE  /\ [CurrentLoop EXCEPT !.signal = sig] \in LoopState
             /\ Signalled(sig)
                  = [loop_stack EXCEPT ![Len(loop_stack)] = [CurrentLoop EXCEPT !.signal = sig]]
  BY <1>1 DEF Signalled, CurrentLoop, LoopState
<1> QED BY <1>1, <1>2, <1>4, <1>5, ReplacedTop

-----------------------------------------------------------------------------
(* What may be in front of the queue, for the frames f: the marker of the  *)
(* innermost loop, which has finished an iteration, or the next step of    *)
(* the innermost frame.                                                    *)

Left(f) == SetRest(f, Tail(TopOf(f).rest))
Again(f) ==
  Append(OuterOf(f), [TopOf(f) EXCEPT !.rest = Def[TopOf(f).loop].body, !.runs = @ + 1])
Opened(f, s, n) ==
  Append(Left(f), [loop |-> s, rest |-> Def[s].body, runs |-> 1, limit |-> n])

Returned(f) ==
  /\ InLoop(Front.step)
  /\ Def[Front.step].kind \in LoopKinds
  /\ CurrentLoop.signal # "break"
  /\ TopOf(f) = [loop |-> CurrentLoop.id, rest |-> <<>>,
                 runs |-> CurrentLoop.runs, limit |-> CurrentLoop.limit]
  /\ \A i \in 1..Len(loop_stack) - 1 : Front.step \in Inside(loop_stack[i].id)
  /\ Reaches(Rest, ExitedLoop(loop_stack), OuterOf(f))

Reached(f) ==
  /\ ~Front.cont
  /\ ~InLoop(Front.step)
  /\ TopOf(f).rest \in Seq(Step) /\ TopOf(f).rest # <<>> /\ Head(TopOf(f).rest) = Front.step
  /\ \A i \in 1..Len(loop_stack) : Front.step \in Inside(loop_stack[i].id)
  /\ loop_stack # <<>> => Front.step \in Direct(CurrentLoop.id)
  /\ Reaches(Rest, loop_stack, Left(f))

(* The front of the queue is a marker or the next step, nothing else.      *)
LEMMA FrontFrames ==
  ASSUME TypeOK, LoopsHold, main_queue # <<>>, NEW f, Reaches(main_queue, loop_stack, f)
  PROVE  /\ Returned(f) \/ Reached(f)
         /\ \A field \in Front.resolved : Front.step \in Replaced(field)
<1>1. PICK pos : Nested(main_queue, loop_stack, pos) /\ FramesOf(main_queue, loop_stack, pos) = f
  BY DEF Reaches
<1>2. main_queue \in Seq(Entry) /\ loop_stack \in Seq(LoopState)
  BY DEF TypeOK
<1>3. Front = main_queue[1] /\ 1 \in 1..Len(main_queue)
  BY <1>2, TailSuffix, LenProperties, EmptySeq DEF Front
<1>4. \A field \in Front.resolved : Front.step \in Replaced(field)
  BY <1>1, <1>3 DEF Nested, FieldsReplaced
<1>5. CASE /\ loop_stack # <<>> /\ pos[Len(loop_stack)] = 1
           /\ main_queue[1].step = loop_stack[Len(loop_stack)].id
           /\ Def[main_queue[1].step].kind \in LoopKinds
           /\ \A i \in 1..Len(loop_stack) - 1 : main_queue[1].step \in Inside(loop_stack[i].id)
  <2>1. InLoop(Front.step) /\ CurrentLoop = loop_stack[Len(loop_stack)]
    BY <1>3, <1>5 DEF InLoop, CurrentLoop
  <2>2. CurrentLoop.signal # "break"
    <3>1. Len(loop_stack) \in 1..Len(loop_stack)
      BY <1>2, <1>5, LenProperties, EmptySeq
    <3> QED BY <1>1, <2>1, <3>1 DEF Nested, MarkersAt
  <2>3. Reaches(Rest, ExitedLoop(loop_stack), OuterOf(f))
    BY <1>1, <1>2, <1>5, PoppedReaches DEF Rest
  <2>4. /\ TopOf(f).rest = <<>> /\ TopOf(f).loop = CurrentLoop.id
        /\ TopOf(f).runs = CurrentLoop.runs /\ TopOf(f).limit = CurrentLoop.limit
        /\ f \in Seq(FrameType) /\ Len(f) = Len(loop_stack) + 1
    BY <1>1, <1>2, <1>5, <2>1, PoppedFrames
  <2>5. TopOf(f) \in FrameType
    <3>1. Len(f) \in 1..Len(f)
      BY <1>2, <2>4, LenProperties
    <3> QED BY <2>4, <3>1, ElementOfSeq DEF TopOf
  <2>6. TopOf(f) = [loop |-> CurrentLoop.id, rest |-> <<>>,
                    runs |-> CurrentLoop.runs, limit |-> CurrentLoop.limit]
    BY <2>4, <2>5 DEF FrameType
  <2> QED BY <1>3, <1>4, <1>5, <2>1, <2>2, <2>3, <2>6 DEF Returned
<1>6. CASE /\ ~main_queue[1].cont
           /\ \A i \in 1..Len(loop_stack) :
                1 < pos[i] /\ main_queue[1].step \in Inside(loop_stack[i].id)
           /\ loop_stack # <<>> =>
                /\ main_queue[1].step \in Direct(loop_stack[Len(loop_stack)].id)
                /\ main_queue[1].step # loop_stack[Len(loop_stack)].id
  <2>1. /\ TopOf(f).rest \in Seq(Step) /\ TopOf(f).rest # <<>>
        /\ Head(TopOf(f).rest) = main_queue[1].step
        /\ Reaches(Tail(main_queue), loop_stack, SetRest(f, Tail(TopOf(f).rest)))
    BY <1>1, <1>2, <1>6, TakenReaches
  <2> QED BY <1>3, <1>4, <1>6, <2>1 DEF Reached, Left, InLoop, CurrentLoop, Rest
<1> QED BY <1>1, <1>2, <1>5, <1>6, FrontPlace

(* The innermost loop runs its body once more.                             *)
LEMMA AgainReaches ==
  ASSUME TypeOK, main_queue # <<>>, NEW f, Returned(f),
         \A field \in Front.resolved : Front.step \in Replaced(field),
         NEW g \in Entry, g.step = Front.step, g.resolved = Front.resolved,
         g.cont => Def[Front.step].kind = "while_loop",
         NEW loop \in Step \cup {NoStep}
  PROVE  Reaches(Queued(Def[Front.step].body, loop, Front.resolved) \o <<g>> \o Rest,
                 BodyQueued(Advanced), Again(f))
<1> DEFINE stack == ExitedLoop(loop_stack)
           l == Resumed(CurrentLoop)
           new == [l EXCEPT !.runs = @ + 1]
<1>1. /\ loop_stack \in Seq(LoopState) /\ loop_stack # <<>> /\ CurrentLoop.id = Front.step
      /\ Rest \in Seq(Entry) /\ Front.resolved \in SUBSET Fields /\ Front.step \in Step
  BY FrontTyped DEF TypeOK, Returned, InLoop, Entry
<1>2. CurrentLoop \in LoopState /\ stack \in Seq(LoopState) /\ l \in LoopState
      /\ Advanced = Append(stack, l)
  BY <1>1, ResumedStack
<1>3. /\ l.id = CurrentLoop.id /\ l.limit = CurrentLoop.limit /\ l.runs = CurrentLoop.runs
      /\ l.signal = "none"
  BY <1>2 DEF Resumed, LoopState
<1>4. \A i \in 1..Len(stack) : Front.step \in Inside(stack[i].id)
  BY <1>1, ExitedLoopParts DEF Returned
<1> HIDE DEF stack, l
<1>5. /\ new \in LoopState /\ new.id = Front.step /\ new.limit = CurrentLoop.limit
      /\ new.runs = CurrentLoop.runs + 1 /\ new.signal = "none"
  <2>1. /\ new \in LoopState /\ new.id = l.id /\ new.limit = l.limit
        /\ new.runs = l.runs + 1 /\ new.signal = l.signal
    <3> DEFINE m == l.runs + 1
    <3>1. m \in Nat /\ new = [l EXCEPT !.runs = m]
      BY <1>2 DEF LoopState
    <3> HIDE DEF m, new
    <3>2. /\ new \in LoopState /\ new.id = l.id /\ new.limit = l.limit
          /\ new.runs = m /\ new.signal = l.signal
      BY <1>2, <3>1 DEF LoopState
    <3> QED BY <3>2 DEF m
  <2> QED BY <1>1, <1>3, <2>1
<1>6. BodyQueued(Advanced) = Append(stack, new)
  BY <1>2, PushedStack
<1>7. Reaches(Rest, stack, OuterOf(f))
  BY DEF Returned, stack
<1> HIDE DEF new
<1>8. Reaches(Queued(Def[new.id].body, loop, Front.resolved) \o <<g>> \o Rest, Append(stack, new),
              Append(OuterOf(f), [loop |-> new.id, rest |-> Def[new.id].body,
                                  runs |-> new.runs, limit |-> new.limit]))
  <2>1. Def[new.id].kind \in LoopKinds /\ g.step = new.id /\ new.signal # "break"
    BY <1>5 DEF Returned
  <2>2. g.cont => Def[new.id].kind = "while_loop"
    BY <1>5
  <2> QED BY <1>1, <1>2, <1>4, <1>5, <1>7, <2>1, <2>2, LoopReaches
<1>9. Again(f) = Append(OuterOf(f), [loop |-> new.id, rest |-> Def[new.id].body,
                                     runs |-> new.runs, limit |-> new.limit])
  <2> DEFINE top == TopOf(f)
             body == Def[Front.step].body
  <2>1. top = [loop |-> CurrentLoop.id, rest |-> <<>>,
               runs |-> CurrentLoop.runs, limit |-> CurrentLoop.limit]
    BY DEF Returned
  <2> HIDE DEF top, body
  <2>2. top.loop = Front.step
    BY <1>1, <2>1
  <2>3. [top EXCEPT !.rest = body, !.runs = @ + 1]
          = [loop |-> CurrentLoop.id, rest |-> body,
             runs |-> CurrentLoop.runs + 1, limit |-> CurrentLoop.limit]
    <3> DEFINE m == top.runs + 1
    <3>1. m = CurrentLoop.runs + 1
      BY <2>1
    <3>2. [top EXCEPT !.rest = body, !.runs = @ + 1] = [top EXCEPT !.rest = body, !.runs = m]
      OBVIOUS
    <3> HIDE DEF m
    <3>3. [top EXCEPT !.rest = body, !.runs = m]
            = [loop |-> CurrentLoop.id, rest |-> body, runs |-> m, limit |-> CurrentLoop.limit]
      <4> DEFINE u == [top EXCEPT !.rest = body, !.runs = m]
      <4>1. /\ top \in FrameType /\ m \in Nat /\ body \in Seq(Step)
            /\ top.loop = CurrentLoop.id /\ top.limit = CurrentLoop.limit
        <5>1. CurrentLoop.id \in Step /\ CurrentLoop.runs \in Nat /\ CurrentLoop.limit \in Nat
          BY <1>2 DEF LoopState
        <5>2. m \in Nat
          BY <3>1, <5>1 DEF m
        <5>3. body \in Seq(Step)
          BY <1>1, DefAssumption DEF Definition, body
        <5> QED BY <2>1, <5>1, <5>2, <5>3, EmptySeq DEF FrameType
      <4>2. /\ u \in FrameType /\ u.loop = CurrentLoop.id /\ u.rest = body /\ u.runs = m
            /\ u.limit = CurrentLoop.limit
        BY <4>1 DEF FrameType
      <4> HIDE DEF u
      <4>3. u = [loop |-> CurrentLoop.id, rest |-> body, runs |-> m, limit |-> CurrentLoop.limit]
        BY <4>2 DEF FrameType
      <4> QED BY <4>3 DEF u
    <3> QED BY <3>1, <3>2, <3>3
  <2> QED BY <1>1, <1>5, <2>2, <2>3 DEF Again, top, body
<1> QED BY <1>5, <1>6, <1>8, <1>9

(* A loop is entered.                                                      *)
LEMMA OpenedReaches ==
  ASSUME TypeOK, main_queue # <<>>, NEW f, Reached(f), Def[Front.step].kind \in LoopKinds,
         \A field \in Front.resolved : Front.step \in Replaced(field),
         NEW g \in Entry, g.step = Front.step, g.resolved = Front.resolved,
         g.cont => Def[Front.step].kind = "while_loop",
         NEW loop \in Step \cup {NoStep}, NEW n \in Nat
  PROVE  Reaches(Queued(Def[Front.step].body, loop, Front.resolved) \o <<g>> \o Rest,
                 BodyQueued(Append(loop_stack, NewLoop(Front.step, n))),
                 Opened(f, Front.step, n))
<1> DEFINE l == NewLoop(Front.step, n)
           new == [l EXCEPT !.runs = @ + 1]
<1>1. /\ loop_stack \in Seq(LoopState)
      /\ Rest \in Seq(Entry) /\ Front.resolved \in SUBSET Fields /\ Front.step \in Step
  BY FrontTyped DEF TypeOK, Entry
<1>2. l \in LoopState /\ l.id = Front.step /\ l.limit = n /\ l.runs = 0 /\ l.signal = "none"
  BY <1>1 DEF NewLoop, LoopState, Signals
<1> HIDE DEF l
<1>3. /\ new \in LoopState /\ new.id = Front.step /\ new.limit = n
      /\ new.runs = 1 /\ new.signal = "none"
  BY <1>2 DEF LoopState
<1>4. BodyQueued(Append(loop_stack, l)) = Append(loop_stack, new)
  BY <1>1, <1>2, PushedStack
<1>5. Reaches(Rest, loop_stack, Left(f)) /\ \A i \in 1..Len(loop_stack) : Front.step \in Inside(loop_stack[i].id)
  BY DEF Reached
<1> HIDE DEF new
<1>6. Reaches(Queued(Def[new.id].body, loop, Front.resolved) \o <<g>> \o Rest,
              Append(loop_stack, new),
              Append(Left(f), [loop |-> new.id, rest |-> Def[new.id].body,
                               runs |-> new.runs, limit |-> new.limit]))
  <2>1. Def[new.id].kind \in LoopKinds /\ g.step = new.id /\ new.signal # "break"
    BY <1>3
  <2>2. g.cont => Def[new.id].kind = "while_loop"
    BY <1>3
  <2> QED BY <1>1, <1>3, <1>5, <2>1, <2>2, LoopReaches
<1> QED BY <1>3, <1>4, <1>6 DEF Opened, l

-----------------------------------------------------------------------------
(* The actions, one after the other.                                       *)

(* A step that is no loop is taken from the queue.                         *)
LEMMA TakenStep ==
  ASSUME TypeOK, LoopsHold, NEW f, Reaches(main_queue, loop_stack, f),
         main_queue # <<>>, Def[Front.step].kind \notin LoopKinds,
         main_queue' = Rest, loop_stack' = loop_stack
  PROVE  Reached(f) /\ Reaches(main_queue', loop_stack', Left(f))
<1>1. Reached(f)
  BY FrontFrames DEF Returned
<1> QED BY <1>1 DEF Reached

(* The frames with another rest for the innermost one.                     *)
LEMMA LeftTop ==
  ASSUME NEW f \in Seq(FrameType), f # <<>>, NEW r \in Seq(Step), NEW s \in Seq(Step)
  PROVE  /\ SetRest(f, r) \in Seq(FrameType) /\ SetRest(f, r) # <<>>
         /\ TopOf(SetRest(f, r)) = [TopOf(f) EXCEPT !.rest = r]
         /\ TopOf(SetRest(f, r)).rest = r
         /\ SetRest(SetRest(f, r), s) = SetRest(f, s)
<1> DEFINE n == Len(f)
           o == OuterOf(f)
           top == [TopOf(f) EXCEPT !.rest = r]
           g == Append(o, top)
<1>0. n \in Nat \ {0} /\ n \in 1..n
  BY LenProperties, EmptySeq
<1>1. TopOf(f) \in FrameType
  BY <1>0, ElementOfSeq DEF TopOf
<1>2. top \in FrameType /\ top.rest = r /\ [top EXCEPT !.rest = s] = [TopOf(f) EXCEPT !.rest = s]
  BY <1>1 DEF FrameType
<1>3. o \in Seq(FrameType) /\ Len(o) = n - 1
  <2> DEFINE m == n - 1
  <2>1. m \in Nat /\ m - 1 + 1 = m /\ \A i \in 1..m : f[i] \in FrameType
    BY <1>0, ElementOfSeq
  <2>2. SubSeq(f, 1, m) \in Seq(FrameType) /\ Len(SubSeq(f, 1, m)) = m
    <3> HIDE DEF m
    <3> QED BY <2>1, SubSeqProperties
  <2> QED BY <2>2 DEF OuterOf
<1> HIDE DEF top, o
<1>4. /\ g \in Seq(FrameType) /\ Len(g) = Len(o) + 1 /\ g[Len(o) + 1] = top /\ g # <<>>
      /\ \A i \in 1..Len(o) : g[i] = o[i]
  BY <1>2, <1>3, AppendProperties
<1>5. TopOf(g) = top
  BY <1>4 DEF TopOf
<1>6. OuterOf(g) = o
  <2>1. SubSeq(Append(o, top), 1, Len(o)) = o
    BY <1>2, <1>3, AppendProperties, SubSeqProperties, LenProperties, SeqEqual
  <2>2. Len(g) - 1 = Len(o)
    BY <1>3, <1>4, LenProperties
  <2> QED BY <2>1, <2>2 DEF OuterOf
<1> HIDE DEF g
<1>7. g = SetRest(f, r)
  BY DEF SetRest, g, o, top
<1>8. SetRest(g, s) = SetRest(f, s)
  BY <1>2, <1>5, <1>6 DEF SetRest, o
<1> QED BY <1>2, <1>4, <1>5, <1>7, <1>8 DEF top

(* A conditional is replaced by one of its branches.                       *)
LEMMA BranchStep ==
  ASSUME TypeOK, LoopsHold, NEW f, Reaches(main_queue, loop_stack, f),
         Scanning({"conditional"}),
         NEW branch \in {Def[Front.step].body, Def[Front.step].orelse},
         GoOn(Queued(branch, NoStep, Front.resolved \cup {"items"}) \o Rest, loop_stack)
  PROVE  /\ Reached(f)
         /\ Reaches(main_queue', loop_stack', SetRest(f, branch \o Tail(TopOf(f).rest)))
<1> DEFINE resolved == Front.resolved \cup {"items"}
           w == Queued(branch, NoStep, resolved)
           r == TopOf(f).rest
<1>1. /\ main_queue # <<>> /\ Def[Front.step].kind = "conditional"
      /\ loop_stack \in Seq(LoopState) /\ main_queue \in Seq(Entry)
      /\ Front \in Entry /\ Front.step \in Step /\ Rest \in Seq(Entry)
      /\ Front.resolved \in SUBSET Fields
  BY FrontTyped DEF Scanning, TypeOK, Entry
<1>2. Reached(f) /\ \A field \in Front.resolved : Front.step \in Replaced(field)
  BY <1>1, FrontFrames DEF Returned, LoopKinds
<1>3. branch \in Seq(Step) /\ \A i \in 1..Len(branch) : branch[i] \in Parts(Front.step)
  <2>1. Def[Front.step].body \in Seq(Step) /\ Def[Front.step].orelse \in Seq(Step)
    BY <1>1, DefAssumption DEF Definition
  <2> QED BY <2>1 DEF Parts
<1>4. resolved \in SUBSET Fields /\ \A field \in resolved : Parts(Front.step) \subseteq Replaced(field)
  <2>1. \A field \in Front.resolved : Parts(Front.step) \subseteq Replaced(field)
    BY <1>1, <1>2, ReplacedParts
  <2>2. Parts(Front.step) \subseteq Replaced("items")
    BY <1>1, ReplacedParts DEF Fields, Replaces
  <2> QED BY <1>1, <2>1, <2>2 DEF Fields
<1>5. /\ \A i \in 1..Len(loop_stack) : Parts(Front.step) \subseteq Inside(loop_stack[i].id)
      /\ loop_stack # <<>> => Parts(Front.step) \subseteq Direct(CurrentLoop.id)
  <2>1. ASSUME NEW i \in 1..Len(loop_stack) PROVE loop_stack[i].id \in Step
    <3>1. loop_stack[i] \in LoopState
      BY <1>1, ElementOfSeq
    <3> QED BY <3>1 DEF LoopState
  <2>2. loop_stack # <<>> => CurrentLoop.id \in Step
    BY <1>1, TopTyped DEF LoopState
  <2> QED BY <1>1, <1>2, <2>1, <2>2, InsideLoops DEF Reached
<1> HIDE DEF resolved
<1>6. /\ w \in Seq(Entry) /\ StepsOf(w) = branch /\ Len(w) = Len(branch)
      /\ \A i \in 1..Len(branch) :
           w[i] = [step |-> branch[i], cont |-> FALSE, loop |-> NoStep, resolved |-> resolved]
  BY <1>3, <1>4, QueuedTyped, QueuedSteps
<1> HIDE DEF w
<1>7. ASSUME NEW i \in 1..Len(w)
      PROVE  /\ ~w[i].cont
             /\ \A field \in w[i].resolved : w[i].step \in Replaced(field)
             /\ \A j \in 1..Len(loop_stack) : w[i].step \in Inside(loop_stack[j].id)
             /\ loop_stack # <<>> => w[i].step \in Direct(loop_stack[Len(loop_stack)].id)
  <2>1. w[i] = [step |-> branch[i], cont |-> FALSE, loop |-> NoStep, resolved |-> resolved]
        /\ branch[i] \in Parts(Front.step)
    BY <1>3, <1>6
  <2>2. w[i].step \in Parts(Front.step) /\ ~w[i].cont /\ w[i].resolved = resolved
    BY <2>1
  <2> QED BY <1>4, <1>5, <2>2 DEF CurrentLoop
<1>8. Reaches(Rest, loop_stack, Left(f))
  BY <1>2 DEF Reached
<1>9. Reaches(w \o Rest, loop_stack, SetRest(Left(f), branch \o TopOf(Left(f)).rest))
  BY <1>1, <1>6, <1>7, <1>8, PrependedReaches
<1>10. r \in Seq(Step) /\ Tail(r) \in Seq(Step)
  BY <1>2, TailSuffix DEF Reached
<1>11. f \in Seq(FrameType) /\ f # <<>>
  BY <1>1, ReachesTyped
<1>12. SetRest(Left(f), branch \o TopOf(Left(f)).rest) = SetRest(f, branch \o Tail(r))
  <2> DEFINE t == Tail(r)
             v == branch \o t
  <2>1. v \in Seq(Step) /\ t \in Seq(Step)
    BY <1>3, <1>10, ConcatProperties
  <2>2. Left(f) = SetRest(f, t)
    BY DEF Left
  <2> HIDE DEF t
  <2>3. TopOf(SetRest(f, t)).rest = t
    BY <1>11, <2>1, LeftTop
  <2> HIDE DEF v
  <2>4. SetRest(SetRest(f, t), v) = SetRest(f, v)
    BY <1>11, <2>1, LeftTop
  <2> QED BY <2>2, <2>3, <2>4 DEF t, v
<1> QED BY <1>2, <1>9, <1>12 DEF GoOn, w, resolved

(* A while loop ends.                                                      *)
LEMMA WhileEnds ==
  ASSUME TypeOK, LoopsHold, NEW f, Reaches(main_queue, loop_stack, f),
         Scanning({"while_loop"}), main_queue' = Rest, loop_stack' = ExitedLoop(WhileStack)
  PROVE  \/ Returned(f) /\ Reaches(main_queue', loop_stack', OuterOf(f))
         \/ Reached(f) /\ Reaches(main_queue', loop_stack', Left(f))
<1>1. /\ main_queue # <<>> /\ loop_stack \in Seq(LoopState)
      /\ Front.step \in Step /\ Def[Front.step].limit \in Nat
  BY FrontTyped DEF Scanning, TypeOK, Entry, Definition
<1>2. CASE Returned(f)
  <2>1. loop_stack # <<>> /\ WhileStack = Advanced
    BY <1>2 DEF Returned, InLoop, WhileStack
  <2>2. ExitedLoop(Advanced) = ExitedLoop(loop_stack)
    BY <1>1, <2>1, ResumedStack, PushedStack
  <2> QED BY <1>2, <2>1, <2>2 DEF Returned
<1>3. CASE Reached(f)
  <2>1. WhileStack = Append(loop_stack, NewLoop(Front.step, Def[Front.step].limit))
    BY <1>3 DEF Reached, WhileStack
  <2>2. NewLoop(Front.step, Def[Front.step].limit) \in LoopState
    BY <1>1 DEF NewLoop, LoopState, Signals
  <2>3. ExitedLoop(WhileStack) = loop_stack
    BY <1>1, <2>1, <2>2, PushedStack
  <2> QED BY <1>3, <2>3 DEF Reached
<1> QED BY <1>1, <1>2, <1>3, FrontFrames

(* An iteration of a while loop.                                           *)
LEMMA WhileIterates ==
  ASSUME TypeOK, LoopsHold, StackOK(loop_stack), NEW f, Reaches(main_queue, loop_stack, f),
         WhileIterate
  PROVE  \/ /\ Returned(f) /\ TopOf(f).runs < TopOf(f).limit
            /\ Reaches(main_queue', loop_stack', Again(f))
         \/ /\ Reached(f) /\ Def[Front.step].limit > 0
            /\ Reaches(main_queue', loop_stack', Opened(f, Front.step, Def[Front.step].limit))
<1> DEFINE g == [Front EXCEPT !.cont = TRUE, !.loop = NoStep]
<1>1. /\ main_queue # <<>> /\ loop_stack \in Seq(LoopState) /\ Front \in Entry
      /\ Front.step \in Step /\ Def[Front.step].limit \in Nat
      /\ Def[Front.step].kind = "while_loop" /\ Scanning({"while_loop"})
  BY FrontTyped DEF WhileIterate, Scanning, TypeOK, Entry, Definition
<1>2. g \in Entry /\ g.step = Front.step /\ g.resolved = Front.resolved
  BY <1>1 DEF Entry
<1> HIDE DEF g
<1>3. /\ main_queue' = Queued(Def[Front.step].body, NoStep, Front.resolved) \o <<g>> \o Rest
      /\ loop_stack' = BodyQueued(WhileStack)
  BY DEF WhileIterate, GoOn, g
<1>4. \A field \in Front.resolved : Front.step \in Replaced(field)
  BY <1>1, FrontFrames
<1>5. /\ WhileStack \in Seq(LoopState) /\ WhileStack # <<>>
      /\ WhileStack[Len(WhileStack)].iter < Def[Front.step].limit
  <2>1. WhileStack \in Seq(LoopState) /\ WhileStack # <<>>
    BY <1>1, WhileStackOK
  <2>2. WhileStack[Len(WhileStack)] \in LoopState
    BY <2>1, EmptySeq, ElementOfSeq
  <2> QED BY <1>1, <2>1, <2>2 DEF WhileIterate, WhileExhausted, LoopState
<1>6. CASE Returned(f)
  <2>1. loop_stack # <<>> /\ WhileStack = Advanced /\ CurrentLoop.id = Front.step
    BY <1>6 DEF Returned, InLoop, WhileStack
  <2>2. Reaches(main_queue', loop_stack', Again(f))
    BY <1>1, <1>2, <1>3, <1>4, <1>6, <2>1, AgainReaches
  <2>3. CurrentLoop.runs < CurrentLoop.limit
    <3>1. CurrentLoop \in LoopState /\ LoopOK(CurrentLoop)
      BY <1>1, <2>1, TopTyped
    <3>2. Resumed(CurrentLoop).iter = CurrentLoop.iter + 1
      BY <3>1 DEF Resumed, LoopState
    <3>3. CurrentLoop.iter + 1 < Def[Front.step].limit
      BY <1>1, <1>5, <2>1, <3>2, ResumedStack, PushedStack
    <3> QED BY <1>1, <2>1, <3>1, <3>3 DEF LoopOK, LoopState
  <2>4. TopOf(f).runs < TopOf(f).limit
    BY <1>6, <2>3 DEF Returned
  <2> QED BY <1>6, <2>2, <2>4
<1>7. CASE Reached(f)
  <2>1. WhileStack = Append(loop_stack, NewLoop(Front.step, Def[Front.step].limit))
    BY <1>7 DEF Reached, WhileStack
  <2>2. Reaches(main_queue', loop_stack', Opened(f, Front.step, Def[Front.step].limit))
    BY <1>1, <1>2, <1>3, <1>4, <1>7, <2>1, OpenedReaches DEF LoopKinds
  <2>3. Def[Front.step].limit > 0
    <3>1. NewLoop(Front.step, Def[Front.step].limit) \in LoopState
      BY <1>1 DEF NewLoop, LoopState, Signals
    <3>2. WhileStack[Len(WhileStack)] = NewLoop(Front.step, Def[Front.step].limit)
      BY <1>1, <2>1, <3>1, PushedStack
    <3> QED BY <1>1, <1>5, <3>2 DEF NewLoop
  <2> QED BY <1>7, <2>2, <2>3
<1> QED BY <1>1, <1>6, <1>7, FrontFrames

(* Only the ids and counters of the loops on the stack matter.             *)
LEMMA RelabelledReaches ==
  ASSUME NEW q \in Seq(Entry), NEW stack \in Seq(LoopState), NEW f, Reaches(q, stack, f),
         NEW other \in Seq(LoopState), Len(other) = Len(stack),
         \A i \in 1..Len(stack) :
           /\ other[i].id = stack[i].id /\ other[i].signal # "break"
           /\ other[i].runs = stack[i].runs /\ other[i].limit = stack[i].limit
  PROVE  Reaches(q, other, f)
<1>1. PICK pos : Nested(q, stack, pos) /\ FramesOf(q, stack, pos) = f
  BY DEF Reaches
<1>2. Nested(q, other, pos)
  BY <1>1, RelabelledNested
<1>3. ASSUME NEW k \in 0..Len(stack) PROVE FrameAt(q, other, pos, k) = FrameAt(q, stack, pos, k)
  <2>1. From(other, pos, k) = From(stack, pos, k)
    BY DEF From
  <2>2. k # 0 => k \in 1..Len(stack)
    BY LenProperties
  <2> QED BY <2>1, <2>2 DEF FrameAt
<1>4. FramesOf(q, other, pos) = FramesOf(q, stack, pos)
  <2>1. \A k \in 1..Len(stack) + 1 : k - 1 \in 0..Len(stack)
    BY LenProperties
  <2> QED BY <1>3, <2>1 DEF FramesOf
<1> QED BY <1>1, <1>2, <1>4 DEF Reaches

(* A continuation puts its while loop back, and the frames stay.           *)
LEMMA ContinuationStep ==
  ASSUME TypeOK, LoopsHold, NEW f, Reaches(main_queue, loop_stack, f), ProcessContinuation
  PROVE  Reaches(main_queue', loop_stack', f)
<1> DEFINE e == [step |-> Front.step, cont |-> FALSE, loop |-> NoStep, resolved |-> Fields]
           stack == ExitedLoop(loop_stack)
           l == [CurrentLoop EXCEPT !.signal = "none"]
<1>1. /\ main_queue # <<>> /\ Front.cont /\ loop_stack \in Seq(LoopState)
      /\ Front.step \in Step /\ Rest \in Seq(Entry) /\ main_queue \in Seq(Entry)
  BY FrontTyped DEF ProcessContinuation, TypeOK, Entry
<1>2. Returned(f) /\ \A field \in Front.resolved : Front.step \in Replaced(field)
  BY <1>1, FrontFrames DEF Reached
<1>3. loop_stack # <<>> /\ CurrentLoop.id = Front.step /\ CurrentLoop.signal # "break"
  BY <1>2 DEF Returned, InLoop
<1>4. /\ main_queue' = Queued(<<Front.step>>, NoStep, Fields) \o Rest
      /\ loop_stack' = Signalled("none")
  BY <1>3 DEF ProcessContinuation, GoOn
<1>5. e \in Entry /\ e.step = Front.step /\ ~e.cont /\ e.resolved = Fields
  BY <1>1 DEF Entry
<1>6. Queued(<<Front.step>>, NoStep, Fields) = <<e>>
  <2> DEFINE steps == <<Front.step>>
             w == Queued(steps, NoStep, Fields)
             v == <<e>>
  <2>1. steps \in Seq(Step) /\ Len(steps) = 1 /\ steps[1] = Front.step
    BY <1>1
  <2> HIDE DEF steps
  <2>2. /\ w \in Seq(Entry) /\ Len(w) = 1
        /\ w[1] = [step |-> steps[1], cont |-> FALSE, loop |-> NoStep, resolved |-> Fields]
    BY <2>1, QueuedTyped, QueuedSteps
  <2> HIDE DEF w, e
  <2>3. v \in Seq(Entry) /\ Len(v) = 1 /\ v[1] = e
    BY <1>5
  <2> HIDE DEF v
  <2>4. w[1] = e
    BY <2>1, <2>2 DEF e
  <2>5. w = v
    BY <2>2, <2>3, <2>4, SeqEqual
  <2> QED BY <2>5 DEF w, v, steps
<1>7. /\ stack \in Seq(LoopState) /\ l \in LoopState /\ Signalled("none") = Append(stack, l)
      /\ CurrentLoop \in LoopState
  BY <1>1, <1>3, ResumedStack DEF Signals
<1>8. /\ l.id = Front.step /\ l.runs = CurrentLoop.runs /\ l.limit = CurrentLoop.limit
      /\ l.signal = "none"
  BY <1>3, <1>7 DEF LoopState
<1>9. Def[Front.step].kind = "while_loop"
  <2>1. PICK pos : Nested(main_queue, loop_stack, pos)
    BY DEF Reaches
  <2>2. Front = main_queue[1] /\ 1 \in 1..Len(main_queue)
    BY <1>1, TailSuffix, LenProperties, EmptySeq DEF Front
  <2> QED BY <1>1, <2>1, <2>2 DEF Nested, MarkersAt
<1>10. \A field \in Fields : Front.step \in Replaced(field)
  BY <1>1, <1>9, ReplacedParts
<1>11. Reaches(Rest, stack, OuterOf(f)) /\ \A i \in 1..Len(stack) : Front.step \in Inside(stack[i].id)
  BY <1>1, <1>2, <1>3, ExitedLoopParts DEF Returned
<1> HIDE DEF e, stack, l
<1>12. Reaches(<<e>> \o Rest, Append(stack, l),
               Append(OuterOf(f), [loop |-> l.id, rest |-> <<>>, runs |-> l.runs, limit |-> l.limit]))
  <2>1. Def[l.id].kind \in LoopKinds
    BY <1>8, <1>9 DEF LoopKinds
  <2>2. \A field \in e.resolved : e.step \in Replaced(field)
    BY <1>5, <1>10
  <2>3. e.step = l.id /\ l.signal # "break" /\ ~e.cont
    BY <1>5, <1>8
  <2>4. \A i \in 1..Len(stack) : e.step \in Inside(stack[i].id)
    BY <1>5, <1>11
  <2> QED BY <1>1, <1>5, <1>7, <1>11, <2>1, <2>2, <2>3, <2>4, MarkedReaches
<1>13. Append(OuterOf(f), [loop |-> l.id, rest |-> <<>>, runs |-> l.runs, limit |-> l.limit]) = f
  <2>1. f \in Seq(FrameType) /\ f # <<>>
    BY <1>1, ReachesTyped
  <2>2. TopOf(f) = [loop |-> l.id, rest |-> <<>>, runs |-> l.runs, limit |-> l.limit]
    BY <1>2, <1>3, <1>8 DEF Returned
  <2>3. TopOf(f) \in FrameType
    <3>1. Len(f) \in 1..Len(f)
      BY <2>1, LenProperties, EmptySeq
    <3> QED BY <2>1, <3>1, ElementOfSeq DEF TopOf
  <2>4. TopOf(f) = [TopOf(f) EXCEPT !.rest = TopOf(f).rest] /\ TopOf(f).rest \in Seq(Step)
    BY <2>3 DEF FrameType
  <2>5. f = SetRest(f, TopOf(f).rest)
    BY <2>1, <2>4, RestReplaced
  <2> QED BY <2>2, <2>4, <2>5 DEF SetRest
<1> QED BY <1>4, <1>6, <1>7, <1>12, <1>13 DEF e, stack, l

-----------------------------------------------------------------------------
(* foreach                                                                 *)

(* A foreach reached in such a workflow can evaluate its list.             *)
LEMMA ForeachSucceeds ==
  ASSUME TypeOK, LoopsHold, NEW f, Reaches(main_queue, loop_stack, f), Scanning({"foreach"})
  PROVE  ~EvaluationFails("items")
<1>1. main_queue # <<>> /\ Def[Front.step].kind = "foreach" /\ Front.step \in Step
  BY FrontTyped DEF Scanning, TypeOK, Entry
<1>2. \A field \in Front.resolved : Front.step \in Replaced(field)
  BY <1>1, FrontFrames
<1> QED BY <1>1, <1>2 DEF LoopsHold, LoopHolds, EvaluationFails, Spoiled

(* A foreach is entered by opening a frame.                                *)
LEMMA ForeachEnters ==
  ASSUME TypeOK, LoopsHold, NEW f, Reaches(main_queue, loop_stack, f), ForeachEnter
  PROVE  /\ Reached(f)
         /\ \E n \in Def[Front.step].items :
              n > 0 /\ Reaches(main_queue', loop_stack', Opened(f, Front.step, n))
<1>1. /\ main_queue # <<>> /\ Def[Front.step].kind = "foreach" /\ Front.step \in Step
      /\ Front \in Entry /\ ~Front.cont /\ ~InLoop(Front.step)
      /\ Def[Front.step].items \in SUBSET Nat
  BY FrontTyped DEF ForeachEnter, Scanning, TypeOK, Entry, Definition
<1>2. Reached(f) /\ \A field \in Front.resolved : Front.step \in Replaced(field)
  BY <1>1, FrontFrames DEF Returned
<1>3. PICK n \in Def[Front.step].items :
        LET entered == Append(loop_stack, NewLoop(Front.step, n))
        IN  IF n = 0 THEN GoOn(Rest, entered) ELSE GoOn(ForeachBody, BodyQueued(entered))
  BY DEF ForeachEnter
<1>4. n \in Nat /\ n # 0
  BY <1>1 DEF LoopsHold, LoopHolds
<1>5. /\ main_queue' = Queued(Def[Front.step].body, Front.step, Front.resolved) \o <<Front>> \o Rest
      /\ loop_stack' = BodyQueued(Append(loop_stack, NewLoop(Front.step, n)))
  BY <1>3, <1>4 DEF GoOn, ForeachBody
<1>6. Reaches(main_queue', loop_stack', Opened(f, Front.step, n))
  BY <1>1, <1>2, <1>4, <1>5, OpenedReaches DEF LoopKinds
<1> QED BY <1>2, <1>4, <1>6

(* The body of a foreach has been queued for every item so far.            *)
Counted(stack) ==
  \A i \in 1..Len(stack) : Def[stack[i].id].kind = "foreach" => stack[i].runs = stack[i].iter + 1

(* A foreach that comes back is left after its last run, and only then.    *)
LEMMA ForeachResumes ==
  ASSUME TypeOK, LoopsHold, StackOK(loop_stack), Counted(loop_stack),
         NEW f, Reaches(main_queue, loop_stack, f), ForeachResume
  PROVE  /\ Returned(f)
         /\ \/ TopOf(f).runs = TopOf(f).limit /\ Reaches(main_queue', loop_stack', OuterOf(f))
            \/ TopOf(f).runs < TopOf(f).limit /\ Reaches(main_queue', loop_stack', Again(f))
<1>1. /\ main_queue # <<>> /\ Def[Front.step].kind = "foreach" /\ Front.step \in Step
      /\ Front \in Entry /\ ~Front.cont /\ InLoop(Front.step) /\ loop_stack \in Seq(LoopState)
  BY FrontTyped DEF ForeachResume, Scanning, TypeOK, Entry
<1>2. Returned(f) /\ \A field \in Front.resolved : Front.step \in Replaced(field)
  BY <1>1, FrontFrames DEF Reached
<1>3. loop_stack # <<>> /\ CurrentLoop.id = Front.step /\ CurrentLoop.signal # "break"
  BY <1>2 DEF Returned, InLoop
<1>4. /\ CurrentLoop \in LoopState /\ CurrentLoop.runs <= CurrentLoop.limit
      /\ CurrentLoop.runs = CurrentLoop.iter + 1
  <2>1. Len(loop_stack) \in 1..Len(loop_stack)
    BY <1>1, <1>3, EmptySeq
  <2> QED BY <1>1, <1>3, <2>1, TopTyped DEF LoopOK, Counted, CurrentLoop
<1>5. TopOf(f).runs = CurrentLoop.runs /\ TopOf(f).limit = CurrentLoop.limit
  BY <1>2 DEF Returned
<1>6. CASE CurrentLoop.iter + 1 >= CurrentLoop.limit
  <2>1. main_queue' = Rest /\ loop_stack' = ExitedLoop(loop_stack)
    BY <1>6 DEF ForeachResume, GoOn
  <2>2. CurrentLoop.runs = CurrentLoop.limit
    BY <1>4, <1>6 DEF LoopState
  <2> QED BY <1>2, <1>5, <2>1, <2>2 DEF Returned
<1>7. CASE ~ (CurrentLoop.iter + 1 >= CurrentLoop.limit)
  <2>1. /\ main_queue' = Queued(Def[Front.step].body, Front.step, Front.resolved) \o <<Front>> \o Rest
        /\ loop_stack' = BodyQueued(Advanced)
    BY <1>3, <1>7 DEF ForeachResume, GoOn, ForeachBody
  <2>2. Reaches(main_queue', loop_stack', Again(f))
    BY <1>1, <1>2, <2>1, AgainReaches
  <2>3. CurrentLoop.runs < CurrentLoop.limit
    BY <1>4, <1>7 DEF LoopState
  <2> QED BY <1>2, <1>5, <2>2, <2>3
<1> QED BY <1>6, <1>7

-----------------------------------------------------------------------------
(* break and continue                                                      *)

(* A break is reached outside of all loops, and only taken.                *)
LEMMA BreakOutside ==
  ASSUME TypeOK, LoopsHold, NEW f, Reaches(main_queue, loop_stack, f), ProcessBreak
  PROVE  loop_stack = <<>> /\ main_queue' = Rest /\ loop_stack' = loop_stack
<1>1. main_queue # <<>> /\ Def[Front.step].kind = "break" /\ Front.step \in Step
      /\ loop_stack \in Seq(LoopState) /\ main_queue \in Seq(Entry)
  BY FrontTyped DEF ProcessBreak, Scanning, TypeOK, Entry
<1>2. Reached(f)
  BY <1>1, FrontFrames DEF Returned, LoopKinds
<1>3. loop_stack = <<>>
  <2> SUFFICES ASSUME loop_stack # <<>> PROVE FALSE
    OBVIOUS
  <2>1. PICK pos : Nested(main_queue, loop_stack, pos)
    BY DEF Reaches
  <2>2. Len(loop_stack) \in 1..Len(loop_stack)
    BY <1>1, EmptySeq
  <2>3. CurrentLoop.id \in Step /\ Def[CurrentLoop.id].kind \in LoopKinds
    BY <1>1, <2>1, <2>2, TopTyped DEF Nested, MarkersAt, CurrentLoop, LoopState
  <2> QED BY <1>1, <1>2, <2>3 DEF Reached, LoopsHold, LoopHolds
<1> QED BY <1>3 DEF ProcessBreak, Fail

(* continue removes nothing behind the marker of a foreach.                *)
LEMMA MarkerStops ==
  ASSUME NEW q \in Seq(Entry), q # <<>>, NEW stack \in Seq(LoopState), NEW pos,
         Nested(q, stack, pos), stack # <<>>, 1 < pos[Len(stack)],
         Def[stack[Len(stack)].id].kind = "foreach",
         NEW n \in 0..Len(Tail(q)), BodyPrefix(Tail(q), stack[Len(stack)].id, n)
  PROVE  pos[Len(stack)] \in 1..Len(q) /\ n + 1 < pos[Len(stack)]
<1> DEFINE k == Len(stack)
           m == pos[k]
           id == stack[k].id
           t == Tail(q)
<1>0. k \in Nat \ {0} /\ k \in 1..k /\ Len(q) \in Nat \ {0}
  BY LenProperties, EmptySeq
<1>1. /\ t \in Seq(Entry) /\ Len(t) = Len(q) - 1 /\ \A i \in 1..Len(q) - 1 : t[i] = q[i + 1]
  BY TailSuffix
<1>2. /\ m \in 1..Len(q) /\ \A i \in 1..k : i # k => m < pos[i]
      /\ pos \in [1..k -> 1..Len(q)]
  BY <1>0 DEF Nested, Ordered
<1>3. q[m].step = id /\ ~q[m].cont
  <2>1. q[m].step = id /\ (q[m].cont => Def[q[m].step].kind = "while_loop")
    BY <1>0, <1>2 DEF Nested, MarkersAt
  <2> QED BY <2>1
<1> HIDE DEF t
<1>4. n + 1 < m
  <2> SUFFICES ASSUME m - 1 <= n PROVE FALSE
    BY <1>0, <1>1, <1>2 DEF t
  <2>1. m - 1 \in 1..n /\ m - 1 \in 1..Len(q) - 1 /\ (m - 1) + 1 = m
    BY <1>0, <1>1, <1>2 DEF t
  <2>2. t[m - 1] = q[m]
    BY <1>1, <2>1
  <2>3. Belongs(t[m - 1], id)
    BY <2>1 DEF BodyPrefix, t
  <2> QED BY <1>3, <2>2, <2>3 DEF Belongs, IsLoopStep
<1> QED BY <1>2, <1>4

(* continue removes what is in front of the marker, as far as it is found  *)
(* to belong to the loop by its id.                                        *)
LEMMA ContinueStops ==
  ASSUME LoopsHold, NEW q \in Seq(Entry), q # <<>>, NEW stack \in Seq(LoopState), NEW pos,
         Nested(q, stack, pos), stack # <<>>, 1 < pos[Len(stack)],
         Def[stack[Len(stack)].id].kind = "foreach",
         NEW n \in 0..Len(Tail(q)), BodyPrefix(Tail(q), stack[Len(stack)].id, n)
  PROVE  LET m == pos[Len(stack)]
             id == stack[Len(stack)].id
         IN  /\ m \in 1..Len(q) /\ n + 1 < m
             /\ (\A s \in Direct(id) : StartsWith(s, id)) => n + 1 = m - 1
<1> DEFINE k == Len(stack)
           m == pos[k]
           id == stack[k].id
           t == Tail(q)
<1>0. k \in Nat \ {0} /\ k \in 1..k /\ Len(q) \in Nat \ {0}
  BY LenProperties, EmptySeq
<1>1. /\ t \in Seq(Entry) /\ Len(t) = Len(q) - 1 /\ \A i \in 1..Len(q) - 1 : t[i] = q[i + 1]
  BY TailSuffix
<1>2. /\ m \in 1..Len(q) /\ \A i \in 1..k : i # k => m < pos[i]
      /\ pos \in [1..k -> 1..Len(q)]
  BY <1>0 DEF Nested, Ordered
<1>3. q[m].step = id /\ ~q[m].cont
  <2>1. q[m].step = id /\ (q[m].cont => Def[q[m].step].kind = "while_loop")
    BY <1>0, <1>2 DEF Nested, MarkersAt
  <2> QED BY <2>1
<1> HIDE DEF t
<1>4. n + 1 < m
  BY MarkerStops DEF t
<1>5. ASSUME \A s \in Direct(id) : StartsWith(s, id), n + 1 # m - 1
      PROVE  FALSE
  <2>1. /\ n + 1 \in 1..Len(q) - 1 /\ n < Len(t) /\ n + 2 \in 1..Len(q) /\ n + 2 < m
        /\ (n + 1) + 1 = n + 2
    BY <1>0, <1>1, <1>2, <1>4, <1>5 DEF t
  <2>2. t[n + 1] = q[n + 2] /\ ~Belongs(t[n + 1], id)
    BY <1>1, <2>1 DEF BodyPrefix, t
  <2>3. q[n + 2].step \in Inside(id) /\ q[n + 2].step \in Direct(id)
    <3>1. \A j \in 1..k : ~ (k < j)
      BY <1>0
    <3> QED BY <1>0, <2>1, <3>1 DEF Nested, StepsInside
  <2>4. ~q[n + 2].cont
    <3>1. q[n + 2].cont => \E i \in 1..k : pos[i] = n + 2
      BY <2>1 DEF Nested, MarkersAt
    <3>2. ASSUME NEW i \in 1..k PROVE pos[i] # n + 2
      <4>1. pos[i] >= m
        BY <1>0, <1>2
      <4> QED BY <1>2, <2>1, <4>1
    <3> QED BY <3>1, <3>2
  <2>5. id \notin Inside(id)
    <3>1. stack[k] \in LoopState
      BY <1>0, ElementOfSeq
    <3> QED BY <3>1 DEF LoopsHold, LoopHolds, LoopState, LoopKinds
  <2>6. Belongs(q[n + 2], id)
    BY <1>5, <2>3, <2>4, <2>5 DEF Belongs, IsLoopStep, Id
  <2> QED BY <2>2, <2>6
<1> QED BY <1>2, <1>4, <1>5

(* A continue ends what is left of its iteration.                          *)
LEMMA ContinueStep ==
  ASSUME TypeOK, LoopsHold, NEW f, Reaches(main_queue, loop_stack, f), ProcessContinue,
         loop_stack # <<>>
  PROVE  /\ Reached(f) /\ CurrentLoop.id \in Step /\ Def[CurrentLoop.id].kind = "foreach"
         /\ \E g : Reaches(main_queue', loop_stack', g)
         /\ (\A s \in Direct(CurrentLoop.id) : StartsWith(s, CurrentLoop.id))
              => Reaches(main_queue', loop_stack', SetRest(f, <<>>))
<1> DEFINE k == Len(loop_stack)
           id == CurrentLoop.id
           other == Signalled("continue")
<1>1. /\ main_queue # <<>> /\ Def[Front.step].kind = "continue" /\ Front.step \in Step
      /\ loop_stack \in Seq(LoopState) /\ main_queue \in Seq(Entry) /\ k \in 1..k
  BY FrontTyped, EmptySeq DEF ProcessContinue, Scanning, TypeOK, Entry
<1>2. Reached(f)
  BY <1>1, FrontFrames DEF Returned, LoopKinds
<1>3. PICK pos : Nested(main_queue, loop_stack, pos) /\ FramesOf(main_queue, loop_stack, pos) = f
  BY DEF Reaches
<1>4. /\ CurrentLoop \in LoopState /\ id \in Step /\ Def[id].kind \in LoopKinds
      /\ loop_stack[k] = CurrentLoop
  BY <1>1, <1>3, TopTyped DEF Nested, MarkersAt, CurrentLoop, LoopState
<1>5. Def[id].kind = "foreach"
  BY <1>1, <1>2, <1>4 DEF Reached, LoopsHold, LoopHolds, LoopKinds
<1>6. Front = main_queue[1] /\ \A i \in 1..k : 1 < pos[i]
  <2>1. Front = main_queue[1]
    BY <1>1, TailSuffix DEF Front
  <2>2. ~ (Def[main_queue[1].step].kind \in LoopKinds)
    BY <1>1, <2>1 DEF LoopKinds
  <2> QED BY <1>1, <1>3, <2>1, <2>2, FrontPlace
<1>7. PICK n \in 0..Len(Rest) :
        /\ BodyPrefix(Rest, id, n)
        /\ GoOn(SubSeq(Rest, n + 1, Len(Rest)), other)
  BY DEF ProcessContinue
<1>8. /\ pos[k] \in 1..Len(main_queue) /\ n + 1 < pos[k]
      /\ (\A s \in Direct(id) : StartsWith(s, id)) => n + 1 = pos[k] - 1
  BY <1>1, <1>3, <1>4, <1>5, <1>6, <1>7, ContinueStops DEF Rest
<1> DEFINE d == n + 1
           q == SubSeq(main_queue, d + 1, Len(main_queue))
           r == TopOf(f).rest
<1>9. /\ Len(main_queue) \in Nat \ {0} /\ Rest \in Seq(Entry) /\ Len(Rest) = Len(main_queue) - 1
      /\ \A i \in 1..Len(main_queue) - 1 : Rest[i] = main_queue[i + 1]
  BY <1>1, TailSuffix, LenProperties, EmptySeq DEF Rest
<1>10. d \in 0..Len(main_queue) /\ \A i \in 1..k : d < pos[i]
  <2>1. d \in 0..Len(main_queue)
    BY <1>7, <1>9
  <2>2. ASSUME NEW i \in 1..k PROVE d < pos[i]
    <3>1. i = k \/ (i < k /\ pos[k] < pos[i] /\ pos[i] \in 1..Len(main_queue))
      BY <1>1, <1>3, LenProperties DEF Nested, Ordered
    <3> QED BY <1>7, <1>8, <3>1
  <2> QED BY <2>1, <2>2
<1>11. SubSeq(Rest, n + 1, Len(Rest)) = q
  <2> DEFINE u == SubSeq(Rest, n + 1, Len(Rest))
  <2>1. /\ u \in Seq(Entry) /\ Len(u) = Len(Rest) - n
        /\ \A i \in 1..Len(Rest) - n : u[i] = Rest[i + n]
    BY <1>7, <1>9, SuffixParts
  <2>2. /\ q \in Seq(Entry) /\ Len(q) = Len(main_queue) - d
        /\ \A i \in 1..Len(main_queue) - d : q[i] = main_queue[i + d]
    BY <1>1, <1>10, SuffixParts
  <2>3. Len(u) = Len(q)
    BY <1>7, <1>9, <2>1, <2>2
  <2> HIDE DEF u, q
  <2>4. ASSUME NEW i \in 1..Len(u) PROVE u[i] = q[i]
    <3>1. /\ i \in 1..Len(Rest) - n /\ i \in 1..Len(main_queue) - d
          /\ i + n \in 1..Len(main_queue) - 1 /\ (i + n) + 1 = i + d
      BY <1>7, <1>9, <2>1, <2>2, <2>3
    <3>2. Rest[i + n] = main_queue[i + d]
      BY <1>9, <3>1
    <3> QED BY <2>1, <2>2, <3>1, <3>2
  <2>5. u = q
    BY <2>1, <2>2, <2>3, <2>4, SeqEqual
  <2> QED BY <2>5 DEF u
<1>12. /\ Reaches(q, loop_stack, SetRest(f, SubSeq(r, d + 1, Len(r))))
       /\ q \in Seq(Entry)
  <2>1. Nested(q, loop_stack, Moved(pos, -d))
    BY <1>1, <1>3, <1>10, DroppedNested
  <2>2. FramesOf(q, loop_stack, Moved(pos, -d)) = SetRest(f, SubSeq(r, d + 1, Len(r)))
    BY <1>1, <1>3, <1>10, DroppedFrames
  <2>3. q \in Seq(Entry)
    BY <1>1, <1>10, SuffixParts
  <2> HIDE DEF d, q, r
  <2> QED BY <2>1, <2>2, <2>3 DEF Reaches
<1>13. /\ other \in Seq(LoopState) /\ Len(other) = k
       /\ \A i \in 1..k :
            /\ other[i].id = loop_stack[i].id /\ other[i].signal # "break"
            /\ other[i].runs = loop_stack[i].runs /\ other[i].limit = loop_stack[i].limit
  <2> DEFINE l == [CurrentLoop EXCEPT !.signal = "continue"]
  <2>1. /\ l \in LoopState /\ l.id = CurrentLoop.id /\ l.runs = CurrentLoop.runs
        /\ l.limit = CurrentLoop.limit /\ l.signal = "continue"
    BY <1>4 DEF LoopState, Signals
  <2>2. other = [loop_stack EXCEPT ![k] = l]
    BY <1>1, <1>4 DEF Signalled, LoopState
  <2> HIDE DEF l, other
  <2>3. /\ other \in Seq(LoopState) /\ Len(other) = k
        /\ \A i \in 1..k : other[i] = IF i = k THEN l ELSE loop_stack[i]
    BY <1>1, <2>1, <2>2, ExceptSeq
  <2>4. ASSUME NEW i \in 1..k PROVE loop_stack[i].signal # "break"
    BY <1>3 DEF Nested, MarkersAt
  <2> QED BY <1>4, <2>1, <2>3, <2>4
<1>14. main_queue' = q /\ loop_stack' = other
  BY <1>7, <1>11 DEF GoOn
<1> HIDE DEF q, other
<1>15. Reaches(main_queue', loop_stack', SetRest(f, SubSeq(r, d + 1, Len(r))))
  BY <1>1, <1>12, <1>13, <1>14, RelabelledReaches
<1>16. ASSUME \A s \in Direct(id) : StartsWith(s, id) PROVE SubSeq(r, d + 1, Len(r)) = <<>>
  <2>1. d = pos[k] - 1
    BY <1>8, <1>16
  <2>2. r \in Seq(Step) /\ Len(r) = pos[k] - 1
    <3>1. TopOf(f) = FrameAt(main_queue, loop_stack, pos, k)
      BY <1>1, <1>3, FramesParts
    <3>2. r = Between(main_queue, 0, pos[k])
      BY <1>1, <3>1 DEF FrameAt, From, To
    <3>3. 0 \in 0..Len(main_queue) /\ pos[k] \in 0 + 1..Len(main_queue) + 1 /\ pos[k] - 0 - 1 = pos[k] - 1
      BY <1>8, <1>9
    <3> QED BY <1>1, <3>2, <3>3, BetweenTyped
  <2>3. d \in 0..Len(r) /\ Len(r) - d = 0
    BY <1>8, <2>1, <2>2
  <2>4. SubSeq(r, d + 1, Len(r)) \in Seq(Step) /\ Len(SubSeq(r, d + 1, Len(r))) = 0
    BY <2>2, <2>3, SuffixParts
  <2> QED BY <2>4, EmptySeq
<1> QED BY <1>2, <1>4, <1>5, <1>15, <1>16

-----------------------------------------------------------------------------
(* How often the body of a foreach has been queued.                        *)

(* The count of iterations, for a shorter and for a longer stack.          *)
LEMMA CountedParts ==
  ASSUME NEW stack \in Seq(LoopState), Counted(stack)
  PROVE  /\ stack # <<>> => Counted(ExitedLoop(stack))
         /\ \A l \in LoopState :
              (Def[l.id].kind = "foreach" => l.runs = l.iter + 1) => Counted(Append(stack, l))
<1>0. Len(stack) \in Nat
  BY LenProperties
<1>1. ASSUME stack # <<>> PROVE Counted(ExitedLoop(stack))
  <2>1. /\ Len(ExitedLoop(stack)) = Len(stack) - 1
        /\ \A i \in 1..Len(stack) - 1 : ExitedLoop(stack)[i] = stack[i] /\ i \in 1..Len(stack)
    BY <1>0, <1>1, ExitedLoopParts
  <2> QED BY <2>1 DEF Counted
<1>2. ASSUME NEW l \in LoopState, Def[l.id].kind = "foreach" => l.runs = l.iter + 1
      PROVE  Counted(Append(stack, l))
  <2>1. /\ Len(Append(stack, l)) = Len(stack) + 1 /\ Append(stack, l)[Len(stack) + 1] = l
        /\ \A i \in 1..Len(stack) : Append(stack, l)[i] = stack[i]
    BY AppendProperties
  <2>2. \A i \in 1..Len(stack) + 1 : i = Len(stack) + 1 \/ i \in 1..Len(stack)
    BY <1>0
  <2> QED BY <1>2, <2>1, <2>2 DEF Counted
<1> QED BY <1>1, <1>2

(* The body of a foreach is queued once per iteration.                     *)
LEMMA CountedInductive ==
  ASSUME TypeOK, LoopsHold, Counted(loop_stack), [Next]_vars
  PROVE  Counted(loop_stack)'
<1> DEFINE s == loop_stack'
<1>0. /\ loop_stack \in Seq(LoopState)
      /\ main_queue # <<>> => Front.step \in Step /\ Def[Front.step] \in Definition
  BY FrontTyped DEF TypeOK, Entry
<1>1. Counted(s) => Counted(loop_stack)'
  BY DEF Counted
<1>2. CASE s = loop_stack
  BY <1>1, <1>2
<1>3. CASE s = <<>>
  BY <1>1, <1>3, EmptySeq DEF Counted
<1>4. loop_stack # <<>> => \A sig \in Signals : Counted(Signalled(sig)) /\ Counted(ExitedLoop(loop_stack))
  <2> SUFFICES ASSUME loop_stack # <<>>, NEW sig \in Signals
               PROVE  Counted(Signalled(sig)) /\ Counted(ExitedLoop(loop_stack))
    OBVIOUS
  <2> DEFINE l == [CurrentLoop EXCEPT !.signal = sig]
  <2>1. /\ CurrentLoop \in LoopState /\ l \in LoopState /\ ExitedLoop(loop_stack) \in Seq(LoopState)
        /\ Signalled(sig) = Append(ExitedLoop(loop_stack), l)
    BY <1>0, ResumedStack
  <2>2. l.id = CurrentLoop.id /\ l.runs = CurrentLoop.runs /\ l.iter = CurrentLoop.iter
    BY <2>1 DEF LoopState
  <2>3. Def[CurrentLoop.id].kind = "foreach" => CurrentLoop.runs = CurrentLoop.iter + 1
    <3>1. Len(loop_stack) \in 1..Len(loop_stack)
      BY <1>0, EmptySeq
    <3> QED BY <3>1 DEF Counted, CurrentLoop
  <2> HIDE DEF l
  <2> QED BY <1>0, <2>1, <2>2, <2>3, CountedParts
<1>5. ASSUME loop_stack # <<>>, Def[CurrentLoop.id].kind # "foreach" \/ CurrentLoop.runs = CurrentLoop.iter + 1
      PROVE  Counted(BodyQueued(Advanced)) /\ ExitedLoop(Advanced) = ExitedLoop(loop_stack)
  <2> DEFINE l == Resumed(CurrentLoop)
             new == [l EXCEPT !.runs = @ + 1]
  <2>1. /\ CurrentLoop \in LoopState /\ l \in LoopState /\ ExitedLoop(loop_stack) \in Seq(LoopState)
        /\ Advanced = Append(ExitedLoop(loop_stack), l)
    BY <1>0, <1>5, ResumedStack
  <2>2. /\ BodyQueued(Advanced) = Append(ExitedLoop(loop_stack), new)
        /\ ExitedLoop(Advanced) = ExitedLoop(loop_stack)
    BY <2>1, PushedStack
  <2>3. l.id = CurrentLoop.id /\ l.runs = CurrentLoop.runs /\ l.iter = CurrentLoop.iter + 1
    BY <2>1 DEF Resumed, LoopState
  <2> HIDE DEF l
  <2>4. new \in LoopState /\ new.id = l.id /\ new.runs = l.runs + 1 /\ new.iter = l.iter
    <3> DEFINE m == l.runs + 1
    <3>1. m \in Nat /\ new = [l EXCEPT !.runs = m]
      BY <2>1 DEF LoopState
    <3> HIDE DEF m, new
    <3>2. new \in LoopState /\ new.id = l.id /\ new.runs = m /\ new.iter = l.iter
      BY <2>1, <3>1 DEF LoopState
    <3> QED BY <3>2 DEF m
  <2>5. Def[new.id].kind = "foreach" => new.runs = new.iter + 1
    BY <1>5, <2>3, <2>4
  <2> HIDE DEF new
  <2>6. Counted(ExitedLoop(loop_stack))
    BY <1>0, <1>5, CountedParts
  <2> QED BY <2>1, <2>2, <2>4, <2>5, <2>6, CountedParts
<1>6. ASSUME NEW id \in Step, NEW n \in Nat
      PROVE  /\ Counted(BodyQueued(Append(loop_stack, NewLoop(id, n))))
             /\ ExitedLoop(Append(loop_stack, NewLoop(id, n))) = loop_stack
  <2> DEFINE l == NewLoop(id, n)
             new == [l EXCEPT !.runs = @ + 1]
  <2>1. l \in LoopState /\ new \in LoopState /\ new.runs = 1 /\ new.iter = 0
    BY DEF NewLoop, LoopState, Signals
  <2> HIDE DEF l
  <2>2. /\ BodyQueued(Append(loop_stack, l)) = Append(loop_stack, new)
        /\ ExitedLoop(Append(loop_stack, l)) = loop_stack
    BY <1>0, <2>1, PushedStack
  <2> HIDE DEF new
  <2> QED BY <1>0, <2>1, <2>2, CountedParts DEF l
<1>7. CASE WhileExit \/ WhileFails \/ WhileIterate
  <2>1. /\ Front.step \in Step /\ Def[Front.step].limit \in Nat
        /\ Def[Front.step].kind = "while_loop"
        /\ s = ExitedLoop(WhileStack) \/ s = BodyQueued(WhileStack)
    BY <1>0, <1>7 DEF WhileExit, WhileFails, WhileIterate, Scanning, GoOn, Fail, Definition
  <2>2. CASE InLoop(Front.step)
    <3>1. /\ loop_stack # <<>> /\ CurrentLoop.id = Front.step /\ WhileStack = Advanced
      BY <2>2 DEF InLoop, WhileStack
    <3>2. "none" \in Signals
      BY DEF Signals
    <3> QED BY <1>1, <1>4, <1>5, <2>1, <3>1, <3>2
  <2>3. CASE ~InLoop(Front.step)
    <3>1. WhileStack = Append(loop_stack, NewLoop(Front.step, Def[Front.step].limit))
      BY <2>3 DEF WhileStack
    <3> QED BY <1>1, <1>6, <2>1, <3>1
  <2> QED BY <2>2, <2>3
<1>8. CASE ProcessContinuation \/ ProcessBreak \/ ProcessContinue
  <2>1. \/ s = loop_stack
        \/ loop_stack # <<>> /\ \E sig \in Signals : s = Signalled(sig)
        \/ loop_stack # <<>> /\ s = ExitedLoop(loop_stack)
    BY <1>8 DEF ProcessContinuation, ProcessBreak, ProcessContinue, GoOn, Fail, Signals
  <2>2. "none" \in Signals
    BY DEF Signals
  <2> QED BY <1>1, <1>4, <2>1, <2>2
<1>9. CASE ForeachEnter
  <2>1. /\ Front.step \in Step /\ Def[Front.step].items \in SUBSET Nat
        /\ Def[Front.step].kind = "foreach"
    BY <1>0, <1>9 DEF ForeachEnter, Scanning, Definition
  <2>2. PICK n \in Def[Front.step].items :
          LET entered == Append(loop_stack, NewLoop(Front.step, n))
          IN  IF n = 0 THEN GoOn(Rest, entered) ELSE GoOn(ForeachBody, BodyQueued(entered))
    BY <1>9 DEF ForeachEnter
  <2>3. n \in Nat /\ n # 0
    BY <2>1 DEF LoopsHold, LoopHolds
  <2>4. s = BodyQueued(Append(loop_stack, NewLoop(Front.step, n)))
    BY <2>2, <2>3 DEF GoOn
  <2> QED BY <1>1, <1>6, <2>1, <2>3, <2>4
<1>10. CASE ForeachResume
  <2>1. loop_stack # <<>> /\ (s = ExitedLoop(loop_stack) \/ s = BodyQueued(Advanced))
    BY <1>10 DEF ForeachResume, InLoop, GoOn
  <2>2. Def[CurrentLoop.id].kind # "foreach" \/ CurrentLoop.runs = CurrentLoop.iter + 1
    <3>1. Len(loop_stack) \in 1..Len(loop_stack)
      BY <1>0, <2>1, EmptySeq
    <3> QED BY <3>1 DEF Counted, CurrentLoop
  <2>3. "none" \in Signals
    BY DEF Signals
  <2> QED BY <1>1, <1>4, <1>5, <2>1, <2>2, <2>3
<1> QED
  BY <1>2, <1>3, <1>7, <1>8, <1>9, <1>10
     DEF Next, ProcessStep, vars, BeginCall, ClientStep, PrepareFails, ServerStep,
         ProcessConditional, WhileWithoutCondition, ForeachFails, Respond, Finish, GoOn, Fail

-----------------------------------------------------------------------------
(* The queue and the loop stack stay nested.                               *)

(* Loops with frames have their markers, in the order of the stack.        *)
LEMMA NestedMeans ==
  ASSUME NEW f, Reaches(main_queue, loop_stack, f), TypeOK
  PROVE  LoopsNested
<1>1. PICK pos : Nested(main_queue, loop_stack, pos)
  BY DEF Reaches
<1>2. /\ DOMAIN loop_stack = 1..Len(loop_stack) /\ DOMAIN main_queue = 1..Len(main_queue)
      /\ Len(loop_stack) \in Nat /\ Len(main_queue) \in Nat
  BY LenProperties DEF TypeOK
<1>3. /\ pos \in [1..Len(loop_stack) -> 1..Len(main_queue)]
      /\ \A i, j \in 1..Len(loop_stack) : i < j => pos[j] < pos[i]
      /\ \A i \in 1..Len(loop_stack) : main_queue[pos[i]].step = loop_stack[i].id
  BY <1>1 DEF Nested, Ordered, MarkersAt
<1> SUFFICES ASSUME NEW i \in 1..Len(loop_stack)
             PROVE  /\ pos[i] \in 1..Len(main_queue)
                    /\ main_queue[pos[i]].step = loop_stack[i].id
                    /\ \A j \in i + 1 .. Len(loop_stack) :
                         \E r \in 1 .. pos[i] - 1 : main_queue[r].step = loop_stack[j].id
  BY <1>2 DEF LoopsNested
<1>4. ASSUME NEW j \in i + 1 .. Len(loop_stack)
      PROVE  \E r \in 1 .. pos[i] - 1 : main_queue[r].step = loop_stack[j].id
  <2>1. j \in 1..Len(loop_stack) /\ i < j
    BY <1>2
  <2>2. pos[j] \in 1 .. pos[i] - 1
    <3>1. pos[j] < pos[i] /\ pos[j] \in 1..Len(main_queue) /\ pos[i] \in 1..Len(main_queue)
      BY <1>3, <2>1
    <3> QED BY <1>2, <3>1
  <2> QED BY <1>3, <2>1, <2>2
<1> QED BY <1>3, <1>4

(* Initially there is one frame, that of the workflow.                     *)
LEMMA InitNested ==
  ASSUME Init
  PROVE  Reaches(main_queue, loop_stack, << [loop |-> NoStep, rest |-> Main, runs |-> 0, limit |-> 0] >>)
<1> DEFINE pos == [i \in 1..0 |-> 1]
           q == Queued(Main, NoStep, {})
           f == FramesOf(q, <<>>, pos)
           g == << [loop |-> NoStep, rest |-> Main, runs |-> 0, limit |-> 0] >>
<1>0. Main \in Seq(Step) /\ Len(Main) \in Nat
  BY DefAssumption, LenProperties
<1>1. /\ q \in Seq(Entry) /\ Len(q) = Len(Main)
      /\ \A i \in 1..Len(Main) :
           q[i] = [step |-> Main[i], cont |-> FALSE, loop |-> NoStep, resolved |-> {}]
  <2> DEFINE resolved == {}
  <2>1. NoStep \in Step \cup {NoStep} /\ resolved \in SUBSET Fields
    OBVIOUS
  <2> HIDE DEF resolved
  <2>2. Queued(Main, NoStep, resolved) \in Seq(Entry)
    BY <1>0, <2>1, QueuedTyped
  <2>3. /\ Len(Queued(Main, NoStep, resolved)) = Len(Main)
        /\ \A i \in 1..Len(Main) :
             Queued(Main, NoStep, resolved)[i] =
               [step |-> Main[i], cont |-> FALSE, loop |-> NoStep, resolved |-> resolved]
    BY <1>0, QueuedSteps
  <2> QED BY <2>2, <2>3 DEF resolved
<1>2. \A i \in 1..Len(q) : q[i].step = Main[i] /\ ~q[i].cont /\ q[i].resolved = {}
  <2> SUFFICES ASSUME NEW i \in 1..Len(q) PROVE q[i].step = Main[i] /\ ~q[i].cont /\ q[i].resolved = {}
    OBVIOUS
  <2>1. q[i] = [step |-> Main[i], cont |-> FALSE, loop |-> NoStep, resolved |-> {}]
    BY <1>1
  <2> QED BY <2>1
<1>3. main_queue = q /\ loop_stack = <<>> /\ <<>> \in Seq(LoopState) /\ Len(<<>>) = 0
  BY EmptySeq DEF Init
<1> HIDE DEF q
<1>4. pos \in [1..0 -> 1..Len(q)] /\ ~ \E i \in 1..0 : TRUE
  OBVIOUS
<1>5. Nested(q, <<>>, pos)
  <2> HIDE DEF pos
  <2>1. Ordered(q, <<>>, pos)
    BY <1>3, <1>4 DEF Ordered
  <2>2. MarkersAt(q, <<>>, pos)
    BY <1>2, <1>3, <1>4 DEF MarkersAt
  <2>3. StepsInside(q, <<>>, pos)
    BY <1>3, <1>4 DEF StepsInside
  <2>4. FieldsReplaced(q)
    BY <1>2 DEF FieldsReplaced
  <2> QED BY <2>1, <2>2, <2>3, <2>4 DEF Nested
<1>6. f = g
  <2>1. Between(q, 0, Len(q) + 1) = Main
    <3>1. \A i \in 1..Len(q) : 0 + i = i
      BY <1>0, <1>1
    <3>2. Len(q) + 1 - 0 - 1 = Len(Main)
      BY <1>0, <1>1
    <3>3. Between(q, 0, Len(q) + 1) = [i \in 1..Len(Main) |-> Main[i]]
      <4>1. \A i \in 1..Len(Main) : q[0 + i].step = Main[i]
        BY <1>1, <1>2, <3>1
      <4> QED BY <3>2, <4>1 DEF Between
    <3> QED BY <1>0, <3>3
  <2>2. FrameAt(q, <<>>, pos, 0) = [loop |-> NoStep, rest |-> Main, runs |-> 0, limit |-> 0]
    BY <1>3, <2>1 DEF FrameAt, From, To
  <2>3. /\ f \in Seq(FrameType) /\ Len(f) = 1 /\ f[1] = FrameAt(q, <<>>, pos, 0)
    <3> DEFINE e == <<>>
    <3>0. e \in Seq(LoopState) /\ Len(e) = 0 /\ Nested(q, e, pos)
      BY <1>3, <1>5
    <3> HIDE DEF pos, e
    <3>1. /\ FramesOf(q, e, pos) \in Seq(FrameType) /\ Len(FramesOf(q, e, pos)) = Len(e) + 1
          /\ \A k \in 0..Len(e) : FramesOf(q, e, pos)[k + 1] = FrameAt(q, e, pos, k)
      BY <1>1, <3>0, FramesParts
    <3>2. FramesOf(q, e, pos)[1] = FrameAt(q, e, pos, 0)
      <4>1. 0 \in 0..Len(e) /\ 0 + 1 = 1
        BY <3>0
      <4> QED BY <3>1, <4>1
    <3> QED BY <3>0, <3>1, <3>2 DEF e, pos
  <2>4. f[1] \in FrameType
    BY <2>3, ElementOfSeq
  <2> DEFINE t == FrameAt(q, <<>>, pos, 0)
  <2>5. t \in FrameType /\ f[1] = t /\ g = <<t>>
    BY <2>2, <2>3, <2>4
  <2> HIDE DEF t, f, g
  <2>6. g \in Seq(FrameType) /\ Len(g) = 1 /\ g[1] = t
    BY <2>5
  <2>7. Len(f) = Len(g) /\ \A i \in 1..Len(f) : f[i] = g[i]
    BY <2>3, <2>5, <2>6
  <2> QED BY <2>3, <2>6, <2>7, SeqEqual DEF f
<1> HIDE DEF f, g, pos
<1>7. Reaches(q, <<>>, g)
  BY <1>5, <1>6 DEF Reaches, f
<1> QED BY <1>3, <1>7 DEF g

(* There are frames that the queue and the loop stack stand for.           *)
Framed == \E f : Reaches(main_queue, loop_stack, f)

(* Without entries there is no loop.                                       *)
LEMMA EmptyQueue ==
  ASSUME TypeOK, Framed, main_queue = <<>>
  PROVE  loop_stack = <<>>
<1>1. PICK pos : Nested(main_queue, loop_stack, pos)
  BY DEF Framed, Reaches
<1>2. SUFFICES ASSUME loop_stack # <<>> PROVE FALSE
  OBVIOUS
<1>3. Len(loop_stack) \in 1..Len(loop_stack) /\ Len(main_queue) = 0
  BY <1>2, EmptySeq DEF TypeOK
<1>4. pos[Len(loop_stack)] \in 1..0
  BY <1>1, <1>3 DEF Nested, Ordered
<1> QED BY <1>4

(* Every action keeps the queue and the stack in step.                     *)
LEMMA FramedInductive ==
  ASSUME TypeOK, LoopsHold, StackOK(loop_stack), Counted(loop_stack), Framed, [Next]_vars
  PROVE  Framed'
<1>0. PICK f : Reaches(main_queue, loop_stack, f)
  BY DEF Framed
<1>1. (\E g : Reaches(main_queue', loop_stack', g)) => Framed'
  BY DEF Framed
<1>2. CASE main_queue' = main_queue /\ loop_stack' = loop_stack
  BY <1>0, <1>1, <1>2
<1>3. CASE ClientStep \/ PrepareFails \/ ServerStep \/ (ProcessConditional /\ Fail(loop_stack))
  <2>1. main_queue # <<>> /\ Def[Front.step].kind \notin LoopKinds
    BY <1>3 DEF ClientStep, PrepareFails, ServerStep, ProcessConditional, Scanning, LoopKinds, BlockingKinds
  <2>2. main_queue' = Rest /\ loop_stack' = loop_stack
    BY <1>3 DEF ClientStep, PrepareFails, ServerStep, ProcessConditional, GoOn, Fail
  <2> QED BY <1>0, <1>1, <2>1, <2>2, TakenStep
<1>4. CASE ProcessConditional /\ ~Fail(loop_stack)
  <2>1. PICK branch \in {Def[Front.step].body, Def[Front.step].orelse} :
          GoOn(Queued(branch, NoStep, Front.resolved \cup {"items"}) \o Rest, loop_stack)
    BY <1>4 DEF ProcessConditional
  <2>2. Scanning({"conditional"})
    BY <1>4 DEF ProcessConditional
  <2> QED BY <1>0, <1>1, <2>1, <2>2, BranchStep
<1>5. CASE WhileWithoutCondition
  <2>1. Front.step \in Step /\ Def[Front.step].kind = "while_loop" /\ Def[Front.step].templated
    BY <1>5, FrontTyped DEF WhileWithoutCondition, Scanning, Spoiled, TypeOK, Entry
  <2> QED BY <2>1 DEF LoopsHold, LoopHolds
<1>6. CASE WhileExit \/ WhileFails
  <2>1. Scanning({"while_loop"}) /\ main_queue' = Rest /\ loop_stack' = ExitedLoop(WhileStack)
    BY <1>6 DEF WhileExit, WhileFails, GoOn, Fail
  <2> QED BY <1>0, <1>1, <2>1, WhileEnds
<1>7. CASE WhileIterate
  BY <1>0, <1>1, <1>7, WhileIterates
<1>8. CASE ProcessContinuation
  BY <1>0, <1>1, <1>8, ContinuationStep
<1>9. CASE ForeachFails
  BY <1>0, <1>9, ForeachSucceeds DEF ForeachFails
<1>10. CASE ForeachEnter
  BY <1>0, <1>1, <1>10, ForeachEnters
<1>11. CASE ForeachResume
  BY <1>0, <1>1, <1>11, ForeachResumes
<1>12. CASE ProcessBreak \/ (ProcessContinue /\ loop_stack = <<>>)
  <2>1. main_queue # <<>> /\ Def[Front.step].kind \notin LoopKinds
    BY <1>12 DEF ProcessBreak, ProcessContinue, Scanning, LoopKinds
  <2>2. main_queue' = Rest /\ loop_stack' = loop_stack
    <3>1. CASE ProcessBreak
      BY <1>0, <3>1, BreakOutside
    <3>2. CASE ProcessContinue /\ loop_stack = <<>>
      BY <3>2 DEF ProcessContinue, Fail
    <3> QED BY <1>12, <3>1, <3>2
  <2> QED BY <1>0, <1>1, <2>1, <2>2, TakenStep
<1>13. CASE ProcessContinue /\ loop_stack # <<>>
  BY <1>0, <1>1, <1>13, ContinueStep
<1>14. CASE Finish
  <2>1. loop_stack = <<>>
    BY <1>14, EmptyQueue DEF Finish
  <2> QED BY <1>2, <1>14, <2>1 DEF Finish
<1> QED
  BY <1>2, <1>3, <1>4, <1>5, <1>6, <1>7, <1>8, <1>9, <1>10, <1>11, <1>12, <1>13, <1>14
     DEF Next, ProcessStep, vars, BeginCall, Respond

(* In every workflow that has the structure LoopsHold asks for, each loop  *)
(* on the stack has its loop step or its continuation in the queue, inner  *)
(* loops before outer ones.                                                *)
THEOREM LoopsAreNested == ASSUME LoopsHold PROVE Spec => []LoopsNested
<1>1. Init => StackOK(loop_stack) /\ Counted(loop_stack) /\ Framed
  BY InitNested, EmptySeq DEF Init, StackOK, Counted, Framed
<1>2. /\ TypeOK /\ TypeOK' /\ StackOK(loop_stack) /\ Counted(loop_stack) /\ Framed /\ [Next]_vars
      => StackOK(loop_stack)' /\ Counted(loop_stack)' /\ Framed'
  BY IterationInductive, CountedInductive, FramedInductive
<1>3. TypeOK /\ Framed => LoopsNested
  BY NestedMeans DEF Framed
<1> QED BY <1>1, <1>2, <1>3, TypeCorrect, PTL DEF Spec

(* A foreach is popped from the stack only after its last run.             *)
LEMMA ForeachLeaves ==
  ASSUME TypeOK, LoopsHold, StackOK(loop_stack), Counted(loop_stack), Framed, [Next]_vars,
         NEW i \in 1..Len(loop_stack), i > Len(loop_stack'),
         Def[loop_stack[i].id].kind = "foreach"
  PROVE  loop_stack[i].runs = loop_stack[i].limit
<1>0. PICK f : Reaches(main_queue, loop_stack, f)
  BY DEF Framed
<1> DEFINE n == Len(loop_stack)
<1>1. loop_stack \in Seq(LoopState) /\ n \in Nat /\ loop_stack # <<>> /\ n \in 1..n
  <2>1. loop_stack \in Seq(LoopState) /\ n \in Nat
    BY LenProperties DEF TypeOK
  <2> QED BY <2>1, EmptySeq
<1>2. loop_stack' # loop_stack
  BY <1>1
<1>3. CASE WhileExit \/ WhileFails \/ WhileIterate
  <2>1. /\ Scanning({"while_loop"}) /\ main_queue # <<>>
        /\ Front.step \in Step /\ Def[Front.step].kind = "while_loop"
        /\ Def[Front.step].limit \in Nat
        /\ loop_stack' = ExitedLoop(WhileStack) \/ loop_stack' = BodyQueued(WhileStack)
    BY <1>3, FrontTyped DEF WhileExit, WhileFails, WhileIterate, Scanning, GoOn, Fail, TypeOK,
       Entry, Definition
  <2>2. CASE InLoop(Front.step)
    <3>1. CurrentLoop.id = Front.step /\ WhileStack = Advanced
      BY <2>2 DEF InLoop, WhileStack
    <3>2. i # n
      BY <2>1, <3>1 DEF CurrentLoop
    <3>3. /\ Advanced = Append(ExitedLoop(loop_stack), Resumed(CurrentLoop))
          /\ ExitedLoop(loop_stack) \in Seq(LoopState) /\ Resumed(CurrentLoop) \in LoopState
      BY <1>1, ResumedStack
    <3>4. Len(ExitedLoop(loop_stack)) = n - 1
      BY <1>1, ExitedLoopParts
    <3>5. Len(ExitedLoop(Advanced)) = n - 1
      BY <3>3, <3>4, PushedStack
    <3>6. Len(BodyQueued(Advanced)) = n
      <4>1. [Resumed(CurrentLoop) EXCEPT !.runs = @ + 1] \in LoopState
        BY <3>3 DEF LoopState
      <4>2. BodyQueued(Advanced)
              = Append(ExitedLoop(loop_stack), [Resumed(CurrentLoop) EXCEPT !.runs = @ + 1])
        BY <3>3, PushedStack
      <4> QED BY <1>1, <3>3, <3>4, <4>1, <4>2, AppendProperties
    <3>7. Len(loop_stack') = n - 1 \/ Len(loop_stack') = n
      BY <2>1, <3>1, <3>5, <3>6
    <3> QED BY <1>1, <3>2, <3>7
  <2>3. CASE ~InLoop(Front.step)
    <3> DEFINE l == NewLoop(Front.step, Def[Front.step].limit)
    <3>1. WhileStack = Append(loop_stack, l)
      BY <2>3 DEF WhileStack
    <3>2. l \in LoopState /\ [l EXCEPT !.runs = @ + 1] \in LoopState
      BY <2>1 DEF NewLoop, LoopState, Signals
    <3>3. /\ ExitedLoop(WhileStack) = loop_stack
          /\ BodyQueued(WhileStack) = Append(loop_stack, [l EXCEPT !.runs = @ + 1])
      BY <1>1, <3>1, <3>2, PushedStack
    <3>4. Len(BodyQueued(WhileStack)) = n + 1
      BY <1>1, <3>2, <3>3, AppendProperties
    <3>5. Len(loop_stack') = n + 1
      BY <1>2, <2>1, <3>3, <3>4
    <3> QED BY <1>1, <3>5
  <2> QED BY <2>2, <2>3
<1>4. CASE ForeachEnter
  <2>1. /\ main_queue # <<>> /\ Front.step \in Step /\ Def[Front.step].items \in SUBSET Nat
        /\ Def[Front.step].kind = "foreach"
    BY <1>4, FrontTyped DEF ForeachEnter, Scanning, Definition, TypeOK, Entry
  <2>2. PICK m \in Def[Front.step].items :
          LET entered == Append(loop_stack, NewLoop(Front.step, m))
          IN  IF m = 0 THEN GoOn(Rest, entered) ELSE GoOn(ForeachBody, BodyQueued(entered))
    BY <1>4 DEF ForeachEnter
  <2> DEFINE l == NewLoop(Front.step, m)
  <2>3. m \in Nat /\ m # 0 /\ loop_stack' = BodyQueued(Append(loop_stack, l))
    BY <2>1, <2>2 DEF LoopsHold, LoopHolds, GoOn
  <2>4. l \in LoopState /\ [l EXCEPT !.runs = @ + 1] \in LoopState
    BY <2>1, <2>3 DEF NewLoop, LoopState, Signals
  <2>5. loop_stack' = Append(loop_stack, [l EXCEPT !.runs = @ + 1])
    BY <1>1, <2>3, <2>4, PushedStack
  <2>6. Len(loop_stack') = n + 1
    BY <1>1, <2>4, <2>5, AppendProperties
  <2> QED BY <1>1, <2>6
<1>5. CASE ForeachResume
  <2>1. InLoop(Front.step) /\ CurrentLoop = loop_stack[n]
    BY <1>5 DEF ForeachResume, CurrentLoop
  <2>2. CurrentLoop \in LoopState
    BY <1>1, TopTyped
  <2>3. CASE CurrentLoop.iter + 1 >= CurrentLoop.limit
    <3>1. CurrentLoop.signal # "break"
      <4>1. PICK pos : Nested(main_queue, loop_stack, pos)
        BY <1>0 DEF Reaches
      <4> QED BY <1>1, <2>1, <4>1 DEF Nested, MarkersAt
    <3>2. loop_stack' = ExitedLoop(loop_stack)
      BY <1>5, <2>3 DEF ForeachResume, GoOn
    <3>3. Len(loop_stack') = n - 1
      BY <1>1, <3>2, ExitedLoopParts
    <3>4. i = n
      BY <1>1, <3>3
    <3>5. LoopOK(CurrentLoop) /\ CurrentLoop.runs = CurrentLoop.iter + 1
      BY <1>1, <2>1, <3>4, TopTyped DEF Counted
    <3> QED BY <2>1, <2>2, <2>3, <3>4, <3>5 DEF LoopOK, LoopState
  <2>4. CASE ~ (CurrentLoop.iter + 1 >= CurrentLoop.limit)
    <3>1. CurrentLoop.signal # "break"
      <4>1. PICK pos : Nested(main_queue, loop_stack, pos)
        BY <1>0 DEF Reaches
      <4> QED BY <1>1, <2>1, <4>1 DEF Nested, MarkersAt
    <3>2. loop_stack' = BodyQueued(Advanced)
      BY <1>5, <2>4, <3>1 DEF ForeachResume, GoOn
    <3>3. /\ Advanced = Append(ExitedLoop(loop_stack), Resumed(CurrentLoop))
          /\ ExitedLoop(loop_stack) \in Seq(LoopState) /\ Resumed(CurrentLoop) \in LoopState
      BY <1>1, ResumedStack
    <3>4. Len(ExitedLoop(loop_stack)) = n - 1
      BY <1>1, ExitedLoopParts
    <3>5. [Resumed(CurrentLoop) EXCEPT !.runs = @ + 1] \in LoopState
      BY <3>3 DEF LoopState
    <3>6. loop_stack' = Append(ExitedLoop(loop_stack), [Resumed(CurrentLoop) EXCEPT !.runs = @ + 1])
      BY <3>2, <3>3, PushedStack
    <3>7. Len(loop_stack') = n
      BY <1>1, <3>3, <3>4, <3>5, <3>6, AppendProperties
    <3> QED BY <1>1, <3>7
  <2> QED BY <2>3, <2>4
<1>6. CASE ProcessContinuation \/ ProcessBreak \/ ProcessContinue
  <2>1. \/ \E sig \in Signals : loop_stack' = Signalled(sig)
        \/ ProcessContinuation /\ CurrentLoop.signal = "break"
    BY <1>1, <1>6 DEF ProcessContinuation, ProcessBreak, ProcessContinue, GoOn, Fail, Signals
  <2>2. CurrentLoop.signal # "break"
    <3>1. PICK pos : Nested(main_queue, loop_stack, pos)
      BY <1>0 DEF Reaches
    <3> QED BY <1>1, <3>1 DEF Nested, MarkersAt, CurrentLoop
  <2>3. PICK sig \in Signals : loop_stack' = Signalled(sig)
    BY <2>1, <2>2
  <2>4. Len(loop_stack') = n
    BY <1>1, <2>3 DEF Signalled
  <2> QED BY <1>1, <2>4
<1>7. CASE Finish
  <2>1. loop_stack = <<>>
    BY <1>7, EmptyQueue DEF Finish
  <2> QED BY <1>1, <2>1
<1> QED
  BY <1>2, <1>3, <1>4, <1>5, <1>6, <1>7
     DEF Next, ProcessStep, vars, BeginCall, ClientStep, PrepareFails, ServerStep,
         ProcessConditional, WhileWithoutCondition, ForeachFails, Respond, GoOn, Fail

(* In such a workflow a foreach leaves the stack only after its body was   *)
(* queued once for each of its items.                                      *)
THEOREM ForeachesComplete == ASSUME LoopsHold PROVE Spec => ForeachComplete
<1>1. Init => StackOK(loop_stack) /\ Counted(loop_stack) /\ Framed
  BY InitNested, EmptySeq DEF Init, StackOK, Counted, Framed
<1>2. /\ TypeOK /\ TypeOK' /\ StackOK(loop_stack) /\ Counted(loop_stack) /\ Framed /\ [Next]_vars
      => StackOK(loop_stack)' /\ Counted(loop_stack)' /\ Framed'
  BY IterationInductive, CountedInductive, FramedInductive
<1>3. /\ TypeOK /\ StackOK(loop_stack) /\ Counted(loop_stack) /\ Framed /\ [Next]_vars
      => [\A i \in DOMAIN loop_stack :
            /\ i > Len(loop_stack')
            /\ Def[loop_stack[i].id].kind = "foreach"
            /\ loop_stack[i].signal # "break"
            => loop_stack[i].runs = loop_stack[i].limit]_vars
  BY ForeachLeaves, LenProperties DEF TypeOK
<1> QED BY <1>1, <1>2, <1>3, TypeCorrect, PTL DEF Spec, ForeachComplete

-----------------------------------------------------------------------------
(* The frames of the refinement are the ones above.                        *)
LEMMA FramesAre ==
  ASSUME LoopsHold
  PROVE  TypeOK => \A f : Reaches(main_queue, loop_stack, f) => Frames = f
<1> SUFFICES ASSUME TypeOK, NEW f, Reaches(main_queue, loop_stack, f) PROVE Frames = f
  OBVIOUS
<1> DEFINE n == Len(loop_stack)
<1>1. PICK pos : Nested(main_queue, loop_stack, pos) /\ FramesOf(main_queue, loop_stack, pos) = f
  BY DEF Reaches
<1>2. /\ loop_stack \in Seq(LoopState) /\ main_queue \in Seq(Entry)
      /\ n \in Nat /\ Len(main_queue) \in Nat
      /\ DOMAIN loop_stack = 1..n /\ DOMAIN main_queue = 1..Len(main_queue)
  BY LenProperties DEF TypeOK
<1>3. pos \in [1..n -> 1..Len(main_queue)]
  BY <1>1 DEF Nested, Ordered
<1>4. \A i \in 1..n : main_queue[pos[i]].step = loop_stack[i].id
  BY <1>1 DEF Nested, MarkersAt
<1>5. LiveLoops = 1..n
  BY <1>2, <1>3, <1>4 DEF LiveLoops, HasMarker
<1>6. \A i \in 0..n : Cardinality(1..i) = i
  <2> SUFFICES ASSUME NEW i \in 0..n PROVE Cardinality(1..i) = i
    OBVIOUS
  <2>1. i \in Nat
    BY <1>2
  <2> QED BY <2>1, FS_Interval
<1>7. Depth = n
  <2>1. n \in 0..n
    BY <1>2
  <2> QED BY <1>5, <1>6, <2>1 DEF Depth
<1> HIDE DEF n
<1>8. ASSUME NEW k \in 1..n PROVE Live(k) = loop_stack[k]
  <2>1. ASSUME NEW i \in 1..n PROVE Cardinality({j \in 1..n : j <= i}) = i
    <3>1. {j \in 1..n : j <= i} = 1..i /\ i \in 0..n
      BY <1>2
    <3> QED BY <1>6, <3>1
  <2>2. (CHOOSE i \in 1..n : Cardinality({j \in 1..n : j <= i}) = k) = k
    BY <2>1
  <2> QED BY <1>5, <2>2 DEF Live
<1>9. ASSUME NEW k \in 1..n PROVE MarkerOf(loop_stack[k]) = pos[k]
  <2> DEFINE id == loop_stack[k].id
  <2>1. pos[k] \in 1..Len(main_queue) /\ main_queue[pos[k]].step = id
    BY <1>3, <1>4
  <2>2. id \notin Inside(id)
    <3>1. loop_stack[k] \in LoopState
      BY <1>2, ElementOfSeq DEF n
    <3>2. Def[id].kind \in LoopKinds
      BY <1>1 DEF Nested, MarkersAt, n
    <3> QED BY <3>1, <3>2 DEF LoopsHold, LoopHolds, LoopState
  <2>3. \A r \in 1 .. pos[k] - 1 : main_queue[r].step # id
    <3> SUFFICES ASSUME NEW r \in 1 .. pos[k] - 1 PROVE main_queue[r].step # id
      OBVIOUS
    <3>1. r \in 1..Len(main_queue) /\ r < pos[k]
      BY <1>2, <2>1
    <3>2. main_queue[r].step \in Inside(id)
      BY <1>1, <3>1 DEF Nested, StepsInside, n
    <3> QED BY <2>2, <3>2
  <2>4. ASSUME NEW p \in 1..Len(main_queue), main_queue[p].step = id,
               \A r \in 1 .. p - 1 : main_queue[r].step # id
        PROVE  p = pos[k]
    <3>1. ~ (p < pos[k])
      <4>1. p < pos[k] => p \in 1 .. pos[k] - 1
        BY <1>2, <2>1
      <4> QED BY <2>3, <2>4, <4>1
    <3>2. ~ (pos[k] < p)
      <4>1. pos[k] < p => pos[k] \in 1 .. p - 1
        BY <1>2, <2>1
      <4> QED BY <2>1, <2>4, <4>1
    <3> QED BY <2>1, <3>1, <3>2
  <2> QED BY <1>2, <2>1, <2>3, <2>4 DEF MarkerOf
<1>10. ASSUME NEW k \in 0..n PROVE Frame(k) = FrameAt(main_queue, loop_stack, pos, k)
  <2> DEFINE a == From(loop_stack, pos, k)
             b == To(main_queue, pos, k)
             from == IF k = n THEN 1 ELSE MarkerOf(Live(k + 1)) + 1
             to == IF k = 0 THEN Len(main_queue) ELSE MarkerOf(Live(k)) - 1
  <2>1. a \in 0..Len(main_queue) /\ b \in 1..Len(main_queue) + 1
    BY <1>1, <1>2, BoundsTyped DEF n
  <2>2. from = a + 1
    <3>1. CASE k = n
      BY <3>1 DEF From, n
    <3>2. CASE k # n
      <4>1. k + 1 \in 1..n
        BY <1>2, <3>2
      <4>2. MarkerOf(Live(k + 1)) = pos[k + 1]
        BY <1>8, <1>9, <4>1
      <4> QED BY <3>2, <4>2 DEF From, n
    <3> QED BY <3>1, <3>2
  <2>3. to = b - 1
    <3>1. CASE k = 0
      BY <1>2, <3>1 DEF To
    <3>2. CASE k # 0
      <4>1. k \in 1..n
        BY <1>2, <3>2
      <4>2. MarkerOf(Live(k)) = pos[k]
        BY <1>8, <1>9, <4>1
      <4> QED BY <3>2, <4>2 DEF To
    <3> QED BY <3>1, <3>2
  <2>4. FrameRest(k) = [i \in 1 .. (to - from + 1) |-> main_queue[from + i - 1].step]
    BY <1>7 DEF FrameRest
  <2> HIDE DEF from, to, a, b
  <2>5. to - from + 1 = b - a - 1 /\ \A i \in 1 .. b - a - 1 : from + i - 1 = a + i
    BY <1>2, <2>1, <2>2, <2>3
  <2>6. FrameRest(k) = Between(main_queue, a, b)
    BY <2>4, <2>5 DEF Between
  <2>7. k # 0 => Live(k) = loop_stack[k]
    <3>1. k # 0 => k \in 1..n
      BY <1>2
    <3> QED BY <1>8, <3>1
  <2> QED BY <2>6, <2>7 DEF Frame, FrameAt, a, b
<1>11. Frames = FramesOf(main_queue, loop_stack, pos)
  <2>1. \A k \in 1..n + 1 : k - 1 \in 0..n
    BY <1>2
  <2> QED BY <1>7, <1>10, <2>1 DEF Frames, FramesOf, n
<1> QED BY <1>1, <1>11

-----------------------------------------------------------------------------
(* The steps of the structured program.                                    *)

(* What a step of the queue is for the structured program, for the frames  *)
(* f before and g after it.                                                *)
LEMMA ProgramParts ==
  /\ Program!Top = TopOf(Frames) /\ Program!Outer = OuterOf(Frames)
  /\ \A r : Program!WithRest(r) = SetRest(Frames, r)
BY DEF Program!Top, Program!Outer, Program!WithRest, SetRest, TopOf, OuterOf

(* The program can take a step whenever the queue is being scanned.        *)
LEMMA ProgramOpen ==
  ASSUME TypeOK, ClientQueueOK, phase # "respond"
  PROVE  Program!Open
BY LenProperties DEF TypeOK, ClientQueueOK, Messages, Program!Open

(* A step that is reached is at the front of the program.                  *)
LEMMA ReachedFront ==
  ASSUME Reached(Frames)
  PROVE  Program!AtFront(Front.step)
BY ProgramParts DEF Reached, Program!AtFront

(* A step that has no effect on the program's frames but to be taken.      *)
LEMMA SkipRefines ==
  ASSUME TypeOK, Program!Open, Reached(Frames), Frames' = Left(Frames),
         client_queue' = client_queue, status' = status,
         \/ Def[Front.step].kind \in {"shell_command", "while_loop"}
         \/ Def[Front.step].kind \in {"break", "continue"} /\ ~Program!InLoop
         \/ Def[Front.step].kind \notin {"break", "continue"} /\ Def[Front.step].fails
  PROVE  Program!Skip(Front.step)
BY ProgramParts, ReachedFront DEF Program!Skip, Program!Running, Left

(* A step that is handed to the client.                                    *)
LEMMA IssueRefines ==
  ASSUME TypeOK, Program!Open, Reached(Frames), Frames' = Left(Frames),
         client_queue' = Append(client_queue, Front.step), status' = status,
         Def[Front.step].kind \in BlockingKinds \cup {"user_message", "parallel_foreach"}
  PROVE  Program!Issue(Front.step)
BY ProgramParts, ReachedFront DEF Program!Issue, Program!ClientKinds, BlockingKinds, Left

(* A conditional, which puts a branch in its place.                        *)
LEMMA BranchRefines ==
  ASSUME TypeOK, Program!Open, Reached(Frames), Def[Front.step].kind = "conditional",
         NEW branch \in {Def[Front.step].body, Def[Front.step].orelse},
         Frames' = SetRest(Frames, branch \o Tail(TopOf(Frames).rest)),
         client_queue' = client_queue, status' = status
  PROVE  Program!Branch(Front.step)
BY ProgramParts, ReachedFront DEF Program!Branch, Program!Running

(* A loop that is entered.                                                 *)
LEMMA EnterRefines ==
  ASSUME TypeOK, Program!Open, Reached(Frames), NEW n, n > 0,
         \/ Def[Front.step].kind = "while_loop" /\ n = Def[Front.step].limit
         \/ Def[Front.step].kind = "foreach" /\ n \in Def[Front.step].items,
         Frames' = Opened(Frames, Front.step, n),
         client_queue' = client_queue, status' = status
  PROVE  Program!EnterLoop(Front.step)
<1>1. Frames' = Append(Program!WithRest(Tail(Program!Top.rest)),
                       [loop |-> Front.step, rest |-> Def[Front.step].body, runs |-> 1, limit |-> n])
  BY ProgramParts DEF Opened, Left
<1>2. n \in CASE Def[Front.step].kind = "while_loop" -> {Def[Front.step].limit}
              [] Def[Front.step].kind = "foreach"    -> Def[Front.step].items
              [] OTHER -> {}
  OBVIOUS
<1> QED BY <1>1, <1>2, ReachedFront DEF Program!EnterLoop, Program!Running

(* When a marker comes back, the innermost frame has nothing left.         *)
LEMMA ReturnedTop ==
  ASSUME TypeOK, Returned(Frames), Len(Frames) = Len(loop_stack) + 1
  PROVE  /\ Program!InLoop /\ Program!Top.rest = <<>>
         /\ Program!Top.loop = Front.step
<1>1. loop_stack # <<>> /\ CurrentLoop.id = Front.step
  BY DEF Returned, InLoop
<1>2. Len(loop_stack) \in Nat \ {0}
  BY <1>1, EmptySeq, LenProperties DEF TypeOK
<1>3. Program!InLoop
  BY <1>2 DEF Program!InLoop
<1> QED BY <1>1, <1>3, ProgramParts DEF Returned

(* A loop that runs once more.                                             *)
LEMMA NextRefines ==
  ASSUME TypeOK, Program!Open, Returned(Frames), Len(Frames) = Len(loop_stack) + 1,
         TopOf(Frames).runs < TopOf(Frames).limit, Frames' = Again(Frames),
         client_queue' = client_queue, status' = status
  PROVE  Program!NextIteration
BY ReturnedTop, ProgramParts DEF Program!NextIteration, Program!Running, Again

(* A loop that is left.                                                    *)
LEMMA ExitRefines ==
  ASSUME TypeOK, Program!Open, Returned(Frames), Len(Frames) = Len(loop_stack) + 1,
         Def[Front.step].kind = "foreach" => TopOf(Frames).runs = TopOf(Frames).limit,
         Frames' = OuterOf(Frames),
         client_queue' = client_queue, status' = status
  PROVE  Program!ExitLoop
BY ReturnedTop, ProgramParts DEF Program!ExitLoop, Program!Running

(* A continue, which drops the rest of the innermost frame.                *)
LEMMA ContinueRefines ==
  ASSUME TypeOK, Program!Open, Reached(Frames), Def[Front.step].kind = "continue",
         Program!InLoop, Frames' = SetRest(Frames, <<>>),
         client_queue' = client_queue, status' = status
  PROVE  Program!Continue(Front.step)
BY ProgramParts, ReachedFront DEF Program!Continue, Program!Running

(* Every step of the queue is a step of the structured program, or none.   *)
LEMMA StepRefines ==
  ASSUME Structured, TypeOK, StackOK(loop_stack), Counted(loop_stack), Framed, ClientQueueOK,
         \A f : Reaches(main_queue, loop_stack, f) => Frames = f,
         \A f : Reaches(main_queue', loop_stack', f) => Frames' = f,
         [Next]_vars
  PROVE  [Program!Next]_(Program!vars)
<1> DEFINE f == Frames
           n == Len(loop_stack)
<1>0. LoopsHold
  BY DEF Structured
<1>1. /\ Reaches(main_queue, loop_stack, f) /\ Len(f) = n + 1 /\ n \in Nat
      /\ loop_stack \in Seq(LoopState) /\ main_queue \in Seq(Entry)
  BY ReachesTyped, LenProperties DEF TypeOK, Framed
<1>2. \A s \in Step : Program!Issue(s) \/ Program!Skip(s) \/ Program!Branch(s)
                      \/ Program!EnterLoop(s) \/ Program!Break(s) \/ Program!Continue(s)
        => Program!Next
  BY DEF Program!Next, Step
<1>3. Program!NextIteration \/ Program!ExitLoop \/ Program!Respond \/ Program!Finish => Program!Next
  BY DEF Program!Next
<1>4. n = 0 <=> ~Program!InLoop
  BY <1>1 DEF Program!InLoop
<1>5. main_queue # <<>> =>
        /\ Front.step \in Step
        /\ \A field \in Front.resolved : Front.step \in Replaced(field)
  BY <1>0, <1>1, FrontTyped, FrontFrames DEF TypeOK, Entry
<1> HIDE DEF f
<1>6. ASSUME main_queue' = main_queue, loop_stack' = loop_stack PROVE Frames' = Frames
  BY <1>1, <1>6 DEF f
<1>7. CASE BeginCall \/ UNCHANGED vars
  <2>1. Frames' = Frames /\ client_queue' = client_queue /\ status' = status
    BY <1>6, <1>7 DEF BeginCall, vars
  <2> QED BY <2>1 DEF Program!vars
<1>8. ASSUME phase = "scan" PROVE Program!Open
  BY <1>8, ProgramOpen
<1>9. CASE ClientStep
  <2>1. /\ main_queue # <<>> /\ Def[Front.step].kind \notin LoopKinds /\ phase = "scan"
        /\ Def[Front.step].kind \in BlockingKinds \cup {"user_message", "parallel_foreach"}
    BY <1>9 DEF ClientStep, Scanning, LoopKinds, BlockingKinds
  <2>2. /\ main_queue' = Rest /\ loop_stack' = loop_stack /\ status' = status
        /\ client_queue' = Append(client_queue, Front.step)
    BY <1>9 DEF ClientStep
  <2>3. Reached(f) /\ Frames' = Left(f)
    BY <1>0, <1>1, <2>1, <2>2, TakenStep
  <2>4. Program!Issue(Front.step)
    BY <1>8, <2>1, <2>2, <2>3, IssueRefines DEF f
  <2> QED BY <1>2, <1>5, <2>1, <2>4
<1>10. CASE PrepareFails \/ ServerStep \/ (ProcessConditional /\ Fail(loop_stack))
  <2>1. main_queue # <<>> /\ Def[Front.step].kind \notin LoopKinds /\ phase = "scan"
    BY <1>10 DEF PrepareFails, ServerStep, ProcessConditional, Scanning, LoopKinds
  <2>2. /\ main_queue' = Rest /\ loop_stack' = loop_stack /\ status' = status
        /\ client_queue' = client_queue
    BY <1>10 DEF PrepareFails, ServerStep, ProcessConditional, GoOn, Fail
  <2>3. Reached(f) /\ Frames' = Left(f)
    BY <1>0, <1>1, <2>1, <2>2, TakenStep
  <2>4. \/ Def[Front.step].kind = "shell_command"
        \/ Def[Front.step].kind \notin {"break", "continue"} /\ Def[Front.step].fails
    <3>1. CASE PrepareFails \/ ServerStep
      BY <3>1 DEF PrepareFails, ServerStep, Scanning
    <3>2. CASE ProcessConditional /\ Fail(loop_stack)
      <4>1. Def[Front.step].kind = "conditional"
        BY <3>2 DEF ProcessConditional, Scanning
      <4>2. ~Spoiled("condition")
        BY <1>5, <2>1, <4>1 DEF Spoiled, Structured
      <4>3. Reached(f) => TopOf(f).rest # <<>>
        BY DEF Reached
      <4>4. phase' = "idle"
        BY <3>2 DEF Fail
      <4>5. Def[Front.step].fails
        BY <2>1, <3>2, <4>2, <4>4 DEF ProcessConditional, EvaluationFails, GoOn
      <4> QED BY <4>1, <4>5
    <3> QED BY <1>10, <3>1, <3>2
  <2>5. Program!Skip(Front.step)
    BY <1>8, <2>1, <2>2, <2>3, <2>4, SkipRefines DEF f
  <2> QED BY <1>2, <1>5, <2>1, <2>5
<1>11. CASE ProcessConditional /\ ~Fail(loop_stack)
  <2>1. PICK branch \in {Def[Front.step].body, Def[Front.step].orelse} :
          GoOn(Queued(branch, NoStep, Front.resolved \cup {"items"}) \o Rest, loop_stack)
    BY <1>11 DEF ProcessConditional
  <2>2. /\ Scanning({"conditional"}) /\ main_queue # <<>> /\ Def[Front.step].kind = "conditional"
        /\ phase = "scan"
    BY <1>11 DEF ProcessConditional, Scanning
  <2>3. Reached(f) /\ Frames' = SetRest(f, branch \o Tail(TopOf(f).rest))
    BY <1>0, <1>1, <2>1, <2>2, BranchStep
  <2>4. status' = status /\ client_queue' = client_queue
    BY <2>1 DEF GoOn
  <2>5. Program!Branch(Front.step)
    BY <1>8, <2>2, <2>3, <2>4, BranchRefines DEF f
  <2> QED BY <1>2, <1>5, <2>2, <2>5
<1>12. CASE WhileWithoutCondition
  <2>1. Front.step \in Step /\ Def[Front.step].kind = "while_loop" /\ Def[Front.step].templated
    BY <1>5, <1>12 DEF WhileWithoutCondition, Scanning, Spoiled
  <2> QED BY <1>0, <2>1 DEF LoopsHold, LoopHolds
<1>13. CASE WhileExit \/ WhileFails
  <2>1. /\ Scanning({"while_loop"}) /\ main_queue' = Rest /\ loop_stack' = ExitedLoop(WhileStack)
        /\ status' = status /\ client_queue' = client_queue
    BY <1>13 DEF WhileExit, WhileFails, GoOn, Fail
  <2>2. main_queue # <<>> /\ Def[Front.step].kind = "while_loop" /\ phase = "scan"
    BY <2>1 DEF Scanning
  <2>3. \/ Returned(f) /\ Frames' = OuterOf(f)
        \/ Reached(f) /\ Frames' = Left(f)
    BY <1>0, <1>1, <2>1, WhileEnds
  <2>4. Program!ExitLoop \/ Program!Skip(Front.step)
    BY <1>1, <1>8, <2>1, <2>2, <2>3, SkipRefines, ExitRefines DEF f
  <2> QED BY <1>2, <1>3, <1>5, <2>2, <2>4
<1>14. CASE WhileIterate
  <2>1. /\ main_queue # <<>> /\ Def[Front.step].kind = "while_loop" /\ phase = "scan"
        /\ status' = status /\ client_queue' = client_queue
    BY <1>14 DEF WhileIterate, Scanning, GoOn
  <2>2. \/ Returned(f) /\ TopOf(f).runs < TopOf(f).limit /\ Frames' = Again(f)
        \/ /\ Reached(f) /\ Def[Front.step].limit > 0
           /\ Frames' = Opened(f, Front.step, Def[Front.step].limit)
    BY <1>0, <1>1, <1>14, WhileIterates
  <2>3. Program!NextIteration \/ Program!EnterLoop(Front.step)
    BY <1>1, <1>8, <2>1, <2>2, NextRefines, EnterRefines DEF f
  <2> QED BY <1>2, <1>3, <1>5, <2>1, <2>3
<1>15. CASE ProcessContinuation
  <2>1. Frames' = f
    BY <1>0, <1>1, <1>15, ContinuationStep
  <2>2. status' = status /\ client_queue' = client_queue
    BY <1>15 DEF ProcessContinuation, GoOn, Fail
  <2> QED BY <2>1, <2>2 DEF Program!vars, f
<1>16. CASE ForeachFails
  BY <1>0, <1>1, <1>16, ForeachSucceeds DEF ForeachFails
<1>17. CASE ForeachEnter
  <2>1. /\ main_queue # <<>> /\ Def[Front.step].kind = "foreach" /\ phase = "scan"
        /\ status' = status /\ client_queue' = client_queue
    BY <1>17 DEF ForeachEnter, Scanning, GoOn
  <2>2. PICK m \in Def[Front.step].items :
          m > 0 /\ Reaches(main_queue', loop_stack', Opened(f, Front.step, m))
    BY <1>0, <1>1, <1>17, ForeachEnters
  <2>3. Reached(f)
    BY <1>0, <1>1, <1>17, ForeachEnters
  <2>4. Frames' = Opened(f, Front.step, m)
    BY <2>2
  <2>5. Program!EnterLoop(Front.step)
    BY <1>8, <2>1, <2>2, <2>3, <2>4, EnterRefines DEF f
  <2> QED BY <1>2, <1>5, <2>1, <2>5
<1>18. CASE ForeachResume
  <2>1. /\ main_queue # <<>> /\ Def[Front.step].kind = "foreach" /\ phase = "scan"
        /\ status' = status /\ client_queue' = client_queue
    BY <1>18 DEF ForeachResume, Scanning, GoOn
  <2>2. /\ Returned(f)
        /\ \/ TopOf(f).runs = TopOf(f).limit /\ Frames' = OuterOf(f)
           \/ TopOf(f).runs < TopOf(f).limit /\ Frames' = Again(f)
    BY <1>0, <1>1, <1>18, ForeachResumes
  <2>3. Program!NextIteration \/ Program!ExitLoop
    BY <1>1, <1>8, <2>1, <2>2, NextRefines, ExitRefines DEF f
  <2> QED BY <1>3, <2>3
<1>19. CASE ProcessBreak \/ (ProcessContinue /\ loop_stack = <<>>)
  <2>1. /\ main_queue # <<>> /\ Def[Front.step].kind \notin LoopKinds /\ phase = "scan"
        /\ Def[Front.step].kind \in {"break", "continue"}
    BY <1>19 DEF ProcessBreak, ProcessContinue, Scanning, LoopKinds
  <2>2. main_queue' = Rest /\ loop_stack' = loop_stack /\ loop_stack = <<>>
    <3>1. CASE ProcessBreak
      BY <1>0, <1>1, <3>1, BreakOutside
    <3>2. CASE ProcessContinue /\ loop_stack = <<>>
      BY <3>2 DEF ProcessContinue, Fail
    <3> QED BY <1>19, <3>1, <3>2
  <2>3. status' = status /\ client_queue' = client_queue
    BY <1>19 DEF ProcessBreak, ProcessContinue, GoOn, Fail
  <2>4. Reached(f) /\ Frames' = Left(f)
    BY <1>0, <1>1, <2>1, <2>2, TakenStep
  <2>5. ~Program!InLoop
    BY <1>4, <2>2, EmptySeq
  <2>6. Program!Skip(Front.step)
    BY <1>8, <2>1, <2>3, <2>4, <2>5, SkipRefines DEF f
  <2> QED BY <1>2, <1>5, <2>1, <2>6
<1>20. CASE ProcessContinue /\ loop_stack # <<>>
  <2>1. /\ main_queue # <<>> /\ Def[Front.step].kind = "continue" /\ phase = "scan"
        /\ status' = status /\ client_queue' = client_queue
    BY <1>20 DEF ProcessContinue, Scanning, GoOn, Fail
  <2>2. /\ Reached(f) /\ CurrentLoop.id \in Step /\ Def[CurrentLoop.id].kind = "foreach"
        /\ (\A s \in Direct(CurrentLoop.id) : StartsWith(s, CurrentLoop.id))
              => Frames' = SetRest(f, <<>>)
    BY <1>0, <1>1, <1>20, ContinueStep
  <2>3. \A s \in Direct(CurrentLoop.id) : StartsWith(s, CurrentLoop.id)
    <3>1. Front.step \in Direct(CurrentLoop.id)
      BY <1>20, <2>2 DEF Reached
    <3> QED BY <2>1, <2>2, <3>1 DEF Structured
  <2>4. Program!InLoop
    BY <1>1, <1>4, <1>20, EmptySeq
  <2>5. Program!Continue(Front.step)
    BY <1>8, <2>1, <2>2, <2>3, <2>4, ContinueRefines DEF f
  <2> QED BY <1>2, <1>5, <2>1, <2>5
<1>21. CASE Respond
  <2>1. Frames' = Frames
    BY <1>6, <1>21 DEF Respond
  <2>2. Program!Respond
    BY <1>21, <2>1 DEF Respond, Program!Respond
  <2> QED BY <1>3, <2>2
<1>22. CASE Finish
  <2>1. loop_stack = <<>> /\ main_queue = <<>> /\ loop_stack' = <<>> /\ main_queue' = <<>>
    BY <1>22, EmptyQueue DEF Finish
  <2>2. Frames' = Frames
    BY <1>6, <2>1
  <2>3. ~Program!InLoop
    BY <1>4, <2>1, EmptySeq
  <2>4. Program!Top.rest = <<>>
    <3>1. PICK pos : Nested(main_queue, loop_stack, pos) /\ FramesOf(main_queue, loop_stack, pos) = f
      BY <1>1 DEF Reaches
    <3>2. TopOf(f) = FrameAt(main_queue, loop_stack, pos, Len(loop_stack))
      BY <1>1, <3>1, FramesParts
    <3>3. Len(main_queue) = 0 /\ Len(loop_stack) = 0
      BY <2>1, EmptySeq
    <3>4. TopOf(f).rest = Between(main_queue, 0, 1)
      BY <3>2, <3>3 DEF FrameAt, From, To
    <3>5. 0 \in 0..Len(main_queue) /\ 1 \in 0 + 1..Len(main_queue) + 1 /\ 1 - 0 - 1 = 0
      BY <3>3
    <3>6. Between(main_queue, 0, 1) \in Seq(Step) /\ Len(Between(main_queue, 0, 1)) = 0
      BY <1>1, <3>5, BetweenTyped
    <3> QED BY <3>4, <3>6, EmptySeq, ProgramParts DEF f
  <2>5. Program!Finish
    BY <1>22, <2>2, <2>3, <2>4 DEF Finish, Program!Finish
  <2> QED BY <1>3, <2>5
<1> QED
  BY <1>7, <1>9, <1>10, <1>11, <1>12, <1>13, <1>14, <1>15, <1>16, <1>17, <1>18, <1>19, <1>20,
     <1>21, <1>22
     DEF Next, ProcessStep

(* A workflow that is structured is executed as the structured program it  *)
(* is: the flat queue and the stack of loop states never disagree with it, *)
(* at any depth of nesting and whatever its conditions and lists are.      *)
THEOREM ProgramImplemented == ASSUME Structured PROVE Spec => ImplementsProgram
<1>0. LoopsHold
  BY DEF Structured
<1>1. Init => StackOK(loop_stack) /\ Counted(loop_stack) /\ Framed /\ ClientQueueOK
  BY InitNested, EmptySeq DEF Init, StackOK, Counted, Framed, ClientQueueOK, AllButLast, Messages
<1>2. /\ TypeOK /\ TypeOK' /\ StackOK(loop_stack) /\ Counted(loop_stack) /\ Framed /\ ClientQueueOK
      /\ [Next]_vars
      => StackOK(loop_stack)' /\ Counted(loop_stack)' /\ Framed' /\ ClientQueueOK'
  BY <1>0, IterationInductive, CountedInductive, FramedInductive, ClientQueueInductive
<1>3. TypeOK => \A f : Reaches(main_queue, loop_stack, f) => Frames = f
  BY <1>0, FramesAre
<1>4. (TypeOK => \A f : Reaches(main_queue, loop_stack, f) => Frames = f)'
  BY <1>3, PTL
<1>5. Init /\ TypeOK => Program!Init
  <2> SUFFICES ASSUME Init, TypeOK PROVE Program!Init
    OBVIOUS
  <2>1. Frames = << [loop |-> NoStep, rest |-> Main, runs |-> 0, limit |-> 0] >>
    BY <1>3, InitNested
  <2> QED BY <2>1 DEF Init, Program!Init
<1>6. /\ TypeOK /\ TypeOK' /\ StackOK(loop_stack) /\ Counted(loop_stack) /\ Framed /\ ClientQueueOK
      /\ [Next]_vars
      => [Program!Next]_(Program!vars)
  BY <1>3, <1>4, StepRefines
<1> QED BY <1>1, <1>2, <1>5, <1>6, TypeCorrect, PTL DEF Spec, ImplementsProgram, Program!Spec

-----------------------------------------------------------------------------
(* break.  Where a loop that is in no other one, and what is inside it,    *)
(* are in the workflow and in the queue.                                   *)

(* What is inside of something inside is inside.                           *)
LEMMA InsideTyped ==
  ASSUME NEW l \in Step
  PROVE  /\ Inside(l) \in SUBSET Step /\ Direct(l) \in SUBSET Step
         /\ \A s \in Inside(l) : Inside(s) \subseteq Inside(l)
<1>1. Inside(l) \in SUBSET Step /\ Direct(l) \in SUBSET Step /\ Closed(Inside(l), Kinds)
  BY PartsTyped, UnderClosed DEF Inside, Direct
<1>2. ASSUME NEW s \in Inside(l) PROVE Inside(s) \subseteq Inside(l)
  <2>1. s \in Step /\ Parts(s) \subseteq Inside(l)
    BY <1>1, InsideLoops
  <2>2. Under(Parts(s), Kinds) \subseteq Inside(l)
    BY <1>1, <2>1, PartsTyped, UnderLeast
  <2> QED BY <2>2 DEF Inside
<1> QED BY <1>1, <1>2

LEMMA OutermostParts ==
  ASSUME NEW x \in Outermost
  PROVE  /\ x \in Step /\ Def[x].kind \in LoopKinds /\ x \notin Inside(x) /\ x \in Around(x)
         /\ Inside(x) \in SUBSET Step /\ Parts(x) \subseteq Inside(x)
         /\ \A s \in Inside(x) : Parts(s) \subseteq Inside(x) /\ s \notin Around(x)
         /\ \A s \in Step : s \notin Around(x) => Parts(s) \cap Around(x) = {}
         /\ \A s \in Around(x) : s # x => Def[s].kind \notin LoopKinds
<1>1. /\ x \in Step /\ Def[x].kind \in LoopKinds
      /\ \A l \in Step : Def[l].kind \in LoopKinds => x \notin Inside(l)
  BY DEF Outermost
<1>2. /\ Inside(x) \in SUBSET Step /\ Parts(x) \subseteq Inside(x)
      /\ \A s \in Inside(x) : Parts(s) \subseteq Inside(x) /\ Inside(s) \subseteq Inside(x)
  BY <1>1, InsideTyped, InsideLoops
<1>3. ASSUME NEW s \in Inside(x) PROVE s \notin Around(x)
  BY <1>1, <1>2 DEF Around
<1>4. ASSUME NEW s \in Step, s \notin Around(x), NEW p \in Parts(s) PROVE p \notin Around(x)
  <2>1. p \in Inside(s) /\ Inside(p) \subseteq Inside(s)
    BY InsideLoops, InsideTyped
  <2>2. x \notin Inside(s)
    BY <1>4 DEF Around
  <2> QED BY <2>1, <2>2 DEF Around
<1>5. \A s \in Around(x) : s # x => Def[s].kind \notin LoopKinds
  BY <1>1 DEF Around
<1> QED BY <1>1, <1>2, <1>3, <1>4, <1>5 DEF Around

(* Nothing of the loop is in the queue.                                    *)
Absent(x, q) == \A i \in 1..Len(q) : q[i].step \notin Inside(x) /\ q[i].step \notin Around(x)

(* What is inside it comes first; it, or what it is in, is in the queue at *)
(* most once, as itself and next when one of the loops was started, and    *)
(* not at all when one of them was broken out of.                          *)
Placed(x, q, ids, broken) ==
  /\ \A i, j \in 1..Len(q) : i < j /\ q[j].step \in Inside(x) => q[i].step \in Inside(x)
  /\ \A i, j \in 1..Len(q) : q[i].step \in Around(x) /\ q[j].step \in Around(x) => i = j
  /\ ids \cap Family(x) # {} \/ (q # <<>> /\ q[1].step \in Inside(x)) =>
       \A i \in 1..Len(q) : q[i].step \in Around(x) =>
         q[i].step = x /\ \A j \in 1..i - 1 : q[j].step \in Inside(x)
  /\ broken \cap Family(x) # {} => Absent(x, q)

(* The first n entries are removed, and in the place of the first one come *)
(* parts of it, followed by the step itself if it is a loop.               *)
Replacing(q, n, w, m) ==
  /\ \A i \in 1..m : w[i].step \in Parts(q[1].step)
  /\ Len(w) = m \/ (Len(w) = m + 1 /\ w[m + 1].step = q[1].step /\ Def[q[1].step].kind \in LoopKinds)

LEMMA PlacedStep ==
  ASSUME NEW x \in Outermost, InOnePlace(x, Inside(x), Around(x)),
         NEW q \in Seq(Entry), NEW n \in 1..Len(q), NEW w \in Seq(Entry), NEW m \in Nat,
         Replacing(q, n, w, m),
         Def[q[1].step].kind \notin LoopKinds =>
           \A i, j \in 1..m : w[i].step \in Around(x) /\ w[j].step \in Around(x) => i = j,
         NEW ids, NEW broken, NEW ids2, NEW broken2, Placed(x, q, ids, broken),
         \A id \in ids2 : id \in ids \/ (id = q[1].step /\ Def[id].kind \in LoopKinds),
         NEW t, t = w \o SubSeq(q, n + 1, Len(q)),
         broken2 \cap Family(x) # {} => broken \cap Family(x) # {} \/ Absent(x, t)
  PROVE  Placed(x, t, ids2, broken2)
<1> DEFINE f == q[1].step
           k == Len(w)
           L == Len(q)
<1>0. /\ k \in Nat /\ L \in Nat \ {0} /\ f \in Step /\ 1 \in 1..L /\ n \in Nat
  <2>1. L \in Nat /\ 1 \in 1..L /\ k \in Nat /\ L # 0
    BY LenProperties
  <2>2. q[1] \in Entry
    BY <2>1, ElementOfSeq
  <2> QED BY <2>1, <2>2 DEF Entry
<1>1. /\ t \in Seq(Entry) /\ Len(t) = k + (L - n)
      /\ \A i \in 1..Len(t) : i <= k => i \in 1..k /\ t[i] = w[i]
      /\ \A i \in 1..Len(t) : ~ (i <= k) => (i - k) + n \in n + 1..L /\ t[i] = q[(i - k) + n]
  <2> DEFINE r == SubSeq(q, n + 1, L)
  <2>1. n \in 0..L
    BY <1>0
  <2>2. r \in Seq(Entry) /\ Len(r) = L - n /\ \A i \in 1..L - n : r[i] = q[i + n]
    BY <2>1, SuffixParts
  <2> HIDE DEF r
  <2>3. /\ w \o r \in Seq(Entry) /\ Len(w \o r) = k + Len(r)
        /\ \A i \in 1..k + Len(r) : (w \o r)[i] = IF i <= k THEN w[i] ELSE r[i - k]
    BY <2>2, ConcatProperties
  <2>4. t = w \o r
    BY DEF r
  <2>5. ASSUME NEW i \in 1..Len(t), ~ (i <= k)
        PROVE  (i - k) + n \in n + 1..L /\ t[i] = q[(i - k) + n]
    <3>1. i - k \in 1..L - n /\ (i - k) + n \in n + 1..L
      BY <1>0, <2>2, <2>3, <2>4, <2>5
    <3> QED BY <2>2, <2>3, <2>4, <2>5, <3>1
  <2>6. ASSUME NEW i \in 1..Len(t), i <= k PROVE i \in 1..k /\ t[i] = w[i]
    BY <1>0, <2>2, <2>3, <2>4, <2>6
  <2> QED BY <2>2, <2>3, <2>4, <2>5, <2>6
<1>2. /\ x \in Step /\ Def[x].kind \in LoopKinds /\ x \notin Inside(x) /\ x \in Around(x)
      /\ Parts(x) \subseteq Inside(x)
      /\ \A s \in Inside(x) : Parts(s) \subseteq Inside(x) /\ s \notin Around(x)
      /\ \A s \in Step : s \notin Around(x) => Parts(s) \cap Around(x) = {}
      /\ \A s \in Around(x) : s # x => Def[s].kind \notin LoopKinds
      /\ \A s \in Step : s # x /\ s \notin Inside(x) => Parts(s) \cap Inside(x) = {}
  BY OutermostParts DEF InOnePlace
<1>3. /\ \A i \in 1..m : w[i].step \in Parts(f)
      /\ k = m \/ (k = m + 1 /\ w[m + 1].step = f /\ Def[f].kind \in LoopKinds)
      /\ \A i \in 1..k : w[i].step \in Parts(f) \/ (i = m + 1 /\ w[i].step = f /\ Def[f].kind \in LoopKinds)
  BY <1>0 DEF Replacing
<1>4. /\ \A i, j \in 1..L : i < j /\ q[j].step \in Inside(x) => q[i].step \in Inside(x)
      /\ \A i, j \in 1..L : q[i].step \in Around(x) /\ q[j].step \in Around(x) => i = j
      /\ ids \cap Family(x) # {} \/ f \in Inside(x) =>
           \A i \in 1..L : q[i].step \in Around(x) =>
             q[i].step = x /\ \A j \in 1..i - 1 : q[j].step \in Inside(x)
      /\ broken \cap Family(x) # {} => Absent(x, q)
  <2>1. q # <<>>
    BY <1>0, EmptySeq
  <2> QED BY <2>1 DEF Placed
<1> HIDE DEF f, k, L
(* The entries that stay.                                                  *)
<1>5. ASSUME NEW i \in 1..Len(t), ~ (i <= k)
      PROVE  (i - k) + n \in 1..L /\ t[i] = q[(i - k) + n] /\ 1 < (i - k) + n
  BY <1>0, <1>1, <1>5, SMTT(30)
<1>6. ASSUME NEW i \in 1..Len(t), i <= k
      PROVE  t[i] = w[i] /\ (w[i].step \in Parts(f) \/ (i = m + 1 /\ w[i].step = f /\ Def[f].kind \in LoopKinds))
  BY <1>1, <1>3, <1>6
<1>7. ASSUME broken \cap Family(x) # {} PROVE f \notin Inside(x) /\ f \notin Around(x)
  BY <1>0, <1>4, <1>7 DEF Absent, f, L
<1>8. CASE f \in Inside(x)
  <2>1. \A i \in 1..Len(t) : i <= k => t[i].step \in Inside(x) /\ t[i].step \notin Around(x)
    BY <1>2, <1>6, <1>8
  <2>2. ASSUME NEW i \in 1..Len(t), NEW j \in 1..Len(t), i < j, t[j].step \in Inside(x)
        PROVE  t[i].step \in Inside(x)
    <3>1. CASE i <= k
      BY <2>1, <3>1
    <3>2. CASE ~ (i <= k)
      <4>1. ~ (j <= k) /\ (i - k) + n < (j - k) + n
        BY <1>0, <2>2, <3>2
      <4> QED BY <1>4, <1>5, <2>2, <3>2, <4>1
    <3> QED BY <3>1, <3>2
  <2>3. ASSUME NEW i \in 1..Len(t), NEW j \in 1..Len(t), t[i].step \in Around(x), t[j].step \in Around(x)
        PROVE  i = j
    <3>1. ~ (i <= k) /\ ~ (j <= k)
      BY <2>1, <2>3
    <3>2. (i - k) + n = (j - k) + n
      BY <1>4, <1>5, <2>3, <3>1
    <3> QED BY <1>0, <1>1, <3>2
  <2>4. ASSUME NEW i \in 1..Len(t), t[i].step \in Around(x)
        PROVE  t[i].step = x /\ \A j \in 1..i - 1 : t[j].step \in Inside(x)
    <3>1. ~ (i <= k)
      BY <2>1, <2>4
    <3> DEFINE a == (i - k) + n
    <3>2. a \in 1..L /\ t[i] = q[a] /\ q[a].step \in Around(x)
      BY <1>5, <2>4, <3>1
    <3> HIDE DEF a
    <3>3. q[a].step = x /\ \A j \in 1..a - 1 : q[j].step \in Inside(x)
      BY <1>4, <1>8, <3>2
    <3>4. ASSUME NEW j \in 1..i - 1 PROVE t[j].step \in Inside(x)
      <4>1. j \in 1..Len(t)
        BY <1>1, <1>0
      <4>2. CASE j <= k
        BY <2>1, <4>1, <4>2
      <4>3. CASE ~ (j <= k)
        <5>1. (j - k) + n \in 1..a - 1
          BY <1>0, <3>1, <4>3 DEF a
        <5> QED BY <1>5, <3>3, <4>1, <4>3, <5>1
      <4> QED BY <4>2, <4>3
    <3> QED BY <3>2, <3>3, <3>4
  <2>5. broken2 \cap Family(x) # {} => Absent(x, t)
    BY <1>7, <1>8
  <2> QED BY <2>2, <2>3, <2>4, <2>5 DEF Placed
(* Otherwise nothing inside of the loop is in the queue.                   *)
<1>9. ASSUME f \notin Inside(x), NEW i \in 1..L PROVE q[i].step \notin Inside(x)
  <2>1. i = 1 \/ 1 < i
    BY <1>0
  <2>2. CASE i = 1
    BY <1>9, <2>2 DEF f
  <2>3. CASE 1 < i
    <3>1. q[i].step \in Inside(x) => q[1].step \in Inside(x)
      BY <1>0, <1>4, <2>3
    <3> QED BY <1>9, <3>1 DEF f
  <2> QED BY <2>1, <2>2, <2>3
<1>10. CASE f = x
  <2>1. \A i \in 1..L : 1 < i => q[i].step \notin Around(x)
    BY <1>0, <1>2, <1>4, <1>10 DEF f
  <2>2. \A i \in 1..Len(t) : ~ (i <= k) => t[i].step \notin Around(x) /\ t[i].step \notin Inside(x)
    BY <1>2, <1>5, <1>9, <1>10, <2>1
  <2>3. \A i \in 1..Len(t) : i <= k =>
          \/ t[i].step \in Inside(x) /\ t[i].step \notin Around(x)
          \/ i = m + 1 /\ t[i].step = x
    BY <1>2, <1>6, <1>10
  <2>4. \A i \in 1..m : i <= k
    BY <1>3
  <2>5. ASSUME NEW i \in 1..Len(t), NEW j \in 1..Len(t), i < j,
               t[j].step \in Inside(x) \/ t[j].step \in Around(x)
        PROVE  t[i].step \in Inside(x)
    <3>0. j <= k
      BY <2>2, <2>5
    <3>1. j <= k /\ i <= k
      BY <1>0, <2>5, <3>0
    <3>2. i # m + 1
      BY <1>0, <1>3, <2>5, <3>1
    <3> QED BY <2>3, <3>1, <3>2
  <2>6. ASSUME NEW i \in 1..Len(t), t[i].step \in Around(x)
        PROVE  i = m + 1 /\ t[i].step = x /\ \A j \in 1..i - 1 : t[j].step \in Inside(x)
    <3>1. i = m + 1 /\ t[i].step = x
      BY <2>2, <2>3, <2>6
    <3>2. \A j \in 1..i - 1 : j \in 1..Len(t) /\ j < i
      BY <1>0, <1>1
    <3> QED BY <2>5, <2>6, <3>1, <3>2
  <2>7. broken2 \cap Family(x) # {} => Absent(x, t)
    BY <1>2, <1>7, <1>10
  <2>8. \A i, j \in 1..Len(t) : t[i].step \in Around(x) /\ t[j].step \in Around(x) => i = j
    BY <2>6
  <2>9. \A i, j \in 1..Len(t) : i < j /\ t[j].step \in Inside(x) => t[i].step \in Inside(x)
    BY <2>5
  <2>10. \A i \in 1..Len(t) : t[i].step \in Around(x) =>
           t[i].step = x /\ \A j \in 1..i - 1 : t[j].step \in Inside(x)
    BY <2>6
  <2> QED BY <2>7, <2>8, <2>9, <2>10, Zenon DEF Placed
<1>11. CASE f \notin Inside(x) /\ f # x
  <2>1. \A i \in 1..Len(t) : t[i].step \notin Inside(x)
    <3> SUFFICES ASSUME NEW i \in 1..Len(t) PROVE t[i].step \notin Inside(x)
      OBVIOUS
    <3>1. CASE i <= k
      BY <1>0, <1>2, <1>6, <1>11, <3>1, SMTT(30)
    <3>2. CASE ~ (i <= k)
      BY <1>5, <1>9, <1>11, <3>2
    <3> QED BY <3>1, <3>2
  <2>2. t # <<>> => t[1].step \notin Inside(x)
    <3>1. t # <<>> => 1 \in 1..Len(t)
      BY <1>1, LenProperties, EmptySeq
    <3> QED BY <2>1, <3>1
  <2>3. ASSUME ids \cap Family(x) # {} PROVE \A i \in 1..L : q[i].step \notin Around(x)
    <3> SUFFICES ASSUME NEW i \in 1..L, q[i].step \in Around(x) PROVE FALSE
      OBVIOUS
    <3>1. q[i].step = x /\ \A j \in 1..i - 1 : q[j].step \in Inside(x)
      BY <1>4, <2>3
    <3>2. i # 1
      BY <1>11, <3>1 DEF f
    <3>3. 1 \in 1..i - 1
      BY <1>0, <3>2
    <3> QED BY <1>11, <3>1, <3>3 DEF f
  <2>4. ids2 \cap Family(x) # {} => ids \cap Family(x) # {}
    <3>1. f \notin Family(x)
      BY <1>11 DEF Family
    <3> QED BY <3>1 DEF f
  <2>5. CASE f \in Around(x)
    <3>1. Def[f].kind \notin LoopKinds /\ k = m
      BY <1>2, <1>3, <1>11, <2>5
    <3>2. \A i \in 1..L : 1 < i => q[i].step \notin Around(x)
      BY <1>0, <1>4, <2>5 DEF f
    <3>3. \A i \in 1..Len(t) : t[i].step \in Around(x) => i \in 1..m /\ t[i] = w[i]
      BY <1>1, <1>5, <3>1, <3>2
    <3>4. \A i, j \in 1..Len(t) : t[i].step \in Around(x) /\ t[j].step \in Around(x) => i = j
      BY <3>1, <3>3 DEF f
    <3>5. ~ (ids \cap Family(x) # {})
      BY <1>0, <2>3, <2>5 DEF f
    <3>6. broken2 \cap Family(x) # {} => Absent(x, t)
      BY <1>7, <2>5
    <3> QED BY <2>1, <2>2, <2>4, <3>4, <3>5, <3>6 DEF Placed
  <2>6. CASE f \notin Around(x)
    <3>1. \A i \in 1..Len(t) : i <= k => t[i].step \notin Around(x)
      BY <1>0, <1>2, <1>6, <2>6
    <3>2. ASSUME NEW i \in 1..Len(t), NEW j \in 1..Len(t), t[i].step \in Around(x), t[j].step \in Around(x)
          PROVE  i = j
      <4>1. ~ (i <= k) /\ ~ (j <= k)
        BY <3>1, <3>2
      <4>2. (i - k) + n = (j - k) + n
        BY <1>4, <1>5, <3>2, <4>1
      <4> QED BY <1>0, <1>1, <4>2
    <3>3. ASSUME \A i \in 1..L : q[i].step \notin Around(x)
          PROVE  \A i \in 1..Len(t) : t[i].step \notin Around(x)
      BY <1>5, <3>1, <3>3
    <3>4. broken \cap Family(x) # {} => Absent(x, t)
      <4>1. ASSUME broken \cap Family(x) # {} PROVE \A i \in 1..L : q[i].step \notin Around(x)
        BY <1>4, <4>1 DEF Absent, L
      <4> QED BY <2>1, <3>3, <4>1 DEF Absent
    <3>5. ids2 \cap Family(x) # {} => \A i \in 1..Len(t) : t[i].step \notin Around(x)
      BY <2>3, <2>4, <3>3
    <3> QED BY <2>1, <2>2, <3>2, <3>4, <3>5 DEF Placed
  <2> QED BY <2>5, <2>6
<1> QED BY <1>8, <1>10, <1>11

-----------------------------------------------------------------------------
(* An iteration of the loop x: the entries of the queue up to its marker,  *)
(* with x and the loops that were started inside it.  From the k-th entry  *)
(* on, what x executes itself is recognized by break.                      *)
Iterates(x, u, s, pos, k) ==
  /\ Nested(u, s, pos)
  /\ s # <<>> /\ s[1].id = x /\ pos[1] = Len(u)
  /\ \A r \in k..Len(u) - 1 : (\A j \in 2..Len(s) : pos[j] < r) => Belongs(u[r], x)

(* Entries that are in front of all markers are removed.                   *)
LEMMA DroppedIterates ==
  ASSUME NEW x, NEW u \in Seq(Entry), NEW s \in Seq(LoopState), NEW pos, Iterates(x, u, s, pos, 2),
         NEW n \in 1..Len(u), \A i \in 1..Len(s) : n < pos[i]
  PROVE  Iterates(x, SubSeq(u, n + 1, Len(u)), s, Moved(pos, -n), 1)
<1> DEFINE t == SubSeq(u, n + 1, Len(u))
           p == Moved(pos, -n)
<1>0. /\ Len(u) \in Nat /\ Len(s) \in Nat \ {0} /\ 1 \in 1..Len(s)
      /\ n \in Nat /\ n \in 0..Len(u)
  BY LenProperties, EmptySeq DEF Iterates
<1>1. /\ t \in Seq(Entry) /\ Len(t) = Len(u) - n
      /\ \A i \in 1..Len(u) - n : t[i] = u[i + n]
  BY <1>0, SuffixParts
<1>2. Nested(t, s, p)
  BY <1>0, DroppedNested DEF Iterates
<1>3. \A i \in 1..Len(s) : pos[i] \in 1..Len(u) /\ p[i] = pos[i] - n
  <2>1. pos \in [1..Len(s) -> 1..Len(u)]
    BY DEF Iterates, Nested, Ordered
  <2>2. \A i \in 1..Len(s) : pos[i] \in 1..Len(u) /\ p[i] = pos[i] + (-n)
    BY <2>1 DEF Moved
  <2> HIDE DEF p
  <2> QED BY <1>0, <2>2
<1> HIDE DEF t, p
<1>4. p[1] = Len(t)
  BY <1>0, <1>1, <1>3 DEF Iterates
<1>5. ASSUME NEW r \in 1..Len(t) - 1, \A j \in 2..Len(s) : p[j] < r PROVE Belongs(t[r], x)
  <2>1. r + n \in 2..Len(u) - 1 /\ r \in 1..Len(u) - n
    BY <1>0, <1>1
  <2>2. ASSUME NEW j \in 2..Len(s) PROVE pos[j] < r + n
    <3>1. j \in 1..Len(s) /\ p[j] < r
      BY <1>0, <1>5
    <3> QED BY <1>0, <1>3, <3>1
  <2>3. Belongs(u[r + n], x)
    BY <2>1, <2>2 DEF Iterates
  <2> QED BY <1>1, <2>1, <2>3
<1> QED BY <1>2, <1>4, <1>5 DEF Iterates, t, p

(* A loop inside is over.                                                  *)
LEMMA PoppedIterates ==
  ASSUME NEW x, NEW u \in Seq(Entry), NEW s \in Seq(LoopState), NEW pos, Iterates(x, u, s, pos, 2),
         Len(s) > 1, pos[Len(s)] = 1
  PROVE  Iterates(x, Tail(u), ExitedLoop(s), [i \in 1..Len(s) - 1 |-> pos[i] - 1], 1)
<1> DEFINE t == Tail(u)
           e == ExitedLoop(s)
           n == Len(s)
           p == [i \in 1..n - 1 |-> pos[i] - 1]
<1>0. Len(u) \in Nat /\ n \in Nat \ {0, 1} /\ 1 \in 1..n - 1 /\ s # <<>>
  <2>1. Len(u) \in Nat /\ Len(s) \in Nat /\ s # <<>>
    BY LenProperties DEF Iterates
  <2>2. n > 1 /\ n \in Nat
    BY <2>1
  <2> HIDE DEF n
  <2> QED BY <2>1, <2>2
<1>1. Nested(t, e, p)
  BY PoppedNested DEF Iterates
<1>2. e \in Seq(LoopState) /\ Len(e) = n - 1 /\ \A i \in 1..n - 1 : e[i] = s[i]
  BY <1>0, ExitedLoopParts
<1>3. \A i \in 1..n : pos[i] \in 1..Len(u)
  BY DEF Iterates, Nested, Ordered
<1>4. Len(u) # 0
  BY <1>0, <1>3
<1>5. t \in Seq(Entry) /\ Len(t) = Len(u) - 1 /\ \A i \in 1..Len(u) - 1 : t[i] = u[i + 1]
  BY <1>4, TailSuffix, EmptySeq
<1>6. \A i \in 1..n - 1 : i \in 1..n /\ p[i] = pos[i] - 1
  BY <1>0
<1> HIDE DEF t, e, p
<1>7. e # <<>> /\ e[1].id = x /\ p[1] = Len(t)
  BY <1>0, <1>2, <1>5, <1>6, EmptySeq DEF Iterates
<1>8. ASSUME NEW r \in 1..Len(t) - 1, \A j \in 2..Len(e) : p[j] < r PROVE Belongs(t[r], x)
  <2>1. r + 1 \in 2..Len(u) - 1 /\ r \in 1..Len(u) - 1
    BY <1>0, <1>5
  <2>2. ASSUME NEW j \in 2..n PROVE pos[j] < r + 1
    <3>1. CASE j = n
      BY <2>1, <3>1
    <3>2. CASE j # n
      <4>1. j \in 2..n - 1 /\ j \in 1..n - 1 /\ j \in 1..n
        BY <1>0, <3>2
      <4>2. p[j] < r
        BY <1>2, <1>8, <4>1
      <4> QED BY <1>3, <1>6, <4>1, <4>2
    <3> QED BY <3>1, <3>2
  <2>3. Belongs(u[r + 1], x)
    BY <2>1, <2>2 DEF Iterates
  <2> QED BY <1>5, <2>1, <2>3
<1> QED BY <1>1, <1>7, <1>8 DEF Iterates, t, e, p, n

(* Entries of the innermost loop are put in front, which break recognizes  *)
(* if that is x, except for the first.                                     *)
LEMMA PrependedIterates ==
  ASSUME NEW x, NEW u \in Seq(Entry), NEW s \in Seq(LoopState), NEW pos, Iterates(x, u, s, pos, 1),
         NEW w \in Seq(Entry),
         \A r \in 1..Len(w) :
           /\ ~w[r].cont
           /\ \A field \in w[r].resolved : w[r].step \in Replaced(field)
           /\ \A i \in 1..Len(s) : w[r].step \in Inside(s[i].id)
           /\ w[r].step \in Direct(s[Len(s)].id),
         Len(s) = 1 => \A r \in 2..Len(w) : Belongs(w[r], x)
  PROVE  Iterates(x, w \o u, s, Moved(pos, Len(w)), 2)
<1> DEFINE t == w \o u
           m == Len(w)
           p == Moved(pos, m)
           n == Len(s)
<1>0. Len(u) \in Nat /\ m \in Nat /\ n \in Nat \ {0} /\ 1 \in 1..n /\ n \in 1..n
  BY LenProperties, EmptySeq DEF Iterates
<1>1. /\ t \in Seq(Entry) /\ Len(t) = m + Len(u)
      /\ \A r \in 1..m + Len(u) : t[r] = IF r <= m THEN w[r] ELSE u[r - m]
  BY ConcatProperties
<1>2. Nested(t, s, p)
  BY PrependedNested DEF Iterates
<1>3. \A i \in 1..n : pos[i] \in 1..Len(u) /\ p[i] = pos[i] + m
  BY DEF Iterates, Nested, Ordered, Moved
<1> HIDE DEF t, m, p, n
<1>4. p[1] = Len(t)
  BY <1>0, <1>1, <1>3 DEF Iterates
<1>5. ASSUME NEW r \in 2..Len(t) - 1, \A j \in 2..n : p[j] < r PROVE Belongs(t[r], x)
  <2>1. CASE r <= m
    <3>1. r \in 2..m /\ t[r] = w[r]
      BY <1>0, <1>1, <2>1
    <3>2. n = 1
      <4> SUFFICES ASSUME n # 1 PROVE FALSE
        OBVIOUS
      <4>1. n \in 2..n
        BY <1>0
      <4>2. p[n] < r /\ p[n] = pos[n] + m /\ pos[n] \in 1..Len(u)
        BY <1>0, <1>3, <1>5, <4>1
      <4> QED BY <1>0, <2>1, <3>1, <4>2
    <3> QED BY <3>1, <3>2 DEF n, m
  <2>2. CASE ~ (r <= m)
    <3>1. r - m \in 1..Len(u) - 1 /\ t[r] = u[r - m]
      BY <1>0, <1>1, <2>2
    <3>2. ASSUME NEW j \in 2..n PROVE pos[j] < r - m
      <4>1. j \in 1..n /\ p[j] < r
        BY <1>0, <1>5
      <4> QED BY <1>0, <1>3, <4>1
    <3>3. Belongs(u[r - m], x)
      BY <3>1, <3>2 DEF Iterates, n
    <3> QED BY <3>1, <3>3
  <2> QED BY <2>1, <2>2
<1> QED BY <1>2, <1>4, <1>5 DEF Iterates, t, p, n, m

(* A loop inside is put on the stack, and its marker in front.             *)
LEMMA MarkedIterates ==
  ASSUME NEW x, NEW u \in Seq(Entry), NEW s \in Seq(LoopState), NEW pos, Iterates(x, u, s, pos, 1),
         NEW g \in Entry, NEW l \in LoopState,
         g.step = l.id, Def[l.id].kind \in LoopKinds, l.signal # "break",
         g.cont => Def[l.id].kind = "while_loop",
         \A field \in g.resolved : g.step \in Replaced(field),
         \A i \in 1..Len(s) : g.step \in Inside(s[i].id)
  PROVE  Iterates(x, <<g>> \o u, Append(s, l),
                  [i \in 1..Len(s) + 1 |-> IF i = Len(s) + 1 THEN 1 ELSE pos[i] + 1], 1)
<1> DEFINE t == <<g>> \o u
           e == Append(s, l)
           n == Len(s)
           p == [i \in 1..n + 1 |-> IF i = n + 1 THEN 1 ELSE pos[i] + 1]
<1>0. Len(u) \in Nat /\ n \in Nat \ {0} /\ 1 \in 1..n
  BY LenProperties, EmptySeq DEF Iterates
<1>1. /\ t \in Seq(Entry) /\ Len(t) = 1 + Len(u)
      /\ \A r \in 1..Len(u) : t[r + 1] = u[r]
  <2> DEFINE w == <<g>>
  <2>1. w \in Seq(Entry) /\ Len(w) = 1
    OBVIOUS
  <2> HIDE DEF w
  <2>2. /\ w \o u \in Seq(Entry) /\ Len(w \o u) = Len(w) + Len(u)
        /\ \A r \in 1..Len(w) + Len(u) : (w \o u)[r] = IF r <= Len(w) THEN w[r] ELSE u[r - Len(w)]
    BY <2>1, ConcatProperties
  <2>3. ASSUME NEW r \in 1..Len(u) PROVE (w \o u)[r + 1] = u[r]
    <3>1. r + 1 \in 1..Len(w) + Len(u) /\ ~ (r + 1 <= Len(w)) /\ (r + 1) - Len(w) = r
      BY <1>0, <2>1
    <3> QED BY <2>2, <3>1
  <2> QED BY <2>1, <2>2, <2>3 DEF w
<1>2. Nested(t, e, p)
  BY MarkedNested DEF Iterates
<1>3. /\ e \in Seq(LoopState) /\ Len(e) = n + 1 /\ e # <<>>
      /\ \A i \in 1..n : e[i] = s[i]
  BY AppendProperties
<1>4. /\ \A i \in 1..n : pos[i] \in 1..Len(u) /\ p[i] = pos[i] + 1
      /\ p[n + 1] = 1 /\ n + 1 \in 2..n + 1
  <2>1. \A i \in 1..n : pos[i] \in 1..Len(u)
    BY DEF Iterates, Nested, Ordered
  <2> QED BY <1>0, <2>1
<1> HIDE DEF t, e, p, n
<1>5. p[1] = Len(t) /\ e[1].id = x
  BY <1>0, <1>1, <1>3, <1>4 DEF Iterates
<1>6. ASSUME NEW r \in 1..Len(t) - 1, \A j \in 2..Len(e) : p[j] < r PROVE Belongs(t[r], x)
  <2>1. 1 < r
    BY <1>3, <1>4, <1>6
  <2>2. r - 1 \in 1..Len(u) - 1 /\ t[r] = u[r - 1]
    <3>1. r - 1 \in 1..Len(u) - 1 /\ r - 1 \in 1..Len(u) /\ (r - 1) + 1 = r
      BY <1>0, <1>1, <2>1
    <3> QED BY <1>1, <3>1
  <2>3. ASSUME NEW j \in 2..n PROVE pos[j] < r - 1
    <3>1. j \in 1..n /\ j \in 2..Len(e) /\ p[j] < r
      BY <1>0, <1>3, <1>6
    <3> QED BY <1>0, <1>4, <3>1
  <2>4. Belongs(u[r - 1], x)
    BY <2>2, <2>3 DEF Iterates, n
  <2> QED BY <2>2, <2>4
<1> QED BY <1>2, <1>3, <1>5, <1>6 DEF Iterates, t, e, p, n

(* Nothing is queued, and nothing is on the stack.                         *)
LEMMA EmptyNested == Nested(<<>>, <<>>, <<>>)
<1>1. /\ <<>> \in Seq(Entry) /\ <<>> \in Seq(LoopState) /\ Len(<<>>) = 0
      /\ <<>> \in [1..0 -> 1..0]
  BY EmptySeq
<1> DEFINE none == <<>>
<1>2. Len(none) = 0 /\ none \in [1..0 -> 1..0]
  BY <1>1
<1> HIDE DEF none
<1>3. Nested(none, none, none)
  <2>1. Ordered(none, none, none)
    BY <1>2 DEF Ordered
  <2>2. MarkersAt(none, none, none)
    BY <1>2 DEF MarkersAt
  <2>3. StepsInside(none, none, none)
    BY <1>2 DEF StepsInside
  <2>4. FieldsReplaced(none)
    BY <1>2 DEF FieldsReplaced
  <2> QED BY <2>1, <2>2, <2>3, <2>4 DEF Nested
<1> QED BY <1>3 DEF none

(* An iteration that is just its marker.                                   *)
LEMMA MarkerIterates ==
  ASSUME NEW g \in Entry, NEW l \in LoopState,
         g.step = l.id, Def[l.id].kind \in LoopKinds, l.signal # "break",
         g.cont => Def[l.id].kind = "while_loop",
         \A field \in g.resolved : g.step \in Replaced(field)
  PROVE  \E pos : Iterates(l.id, <<g>>, <<l>>, pos, 1)
<1> DEFINE u == <<>>
           s == <<>>
           t == <<g>> \o u
           e == Append(s, l)
           p == [i \in 1..Len(s) + 1 |-> IF i = Len(s) + 1 THEN 1 ELSE s[i] + 1]
<1>1. u \in Seq(Entry) /\ s \in Seq(LoopState) /\ Len(s) = 0 /\ Nested(u, s, s)
  BY EmptyNested, EmptySeq
<1>2. t = <<g>> /\ e = <<l>>
  OBVIOUS
<1> HIDE DEF u, s
<1>3. Nested(t, e, p)
  <2>1. \A i \in 1..Len(s) : g.step \in Inside(s[i].id)
    BY <1>1
  <2> QED BY <1>1, <2>1, MarkedNested
<1>4. p[1] = 1
  BY <1>1
<1> HIDE DEF t, e, p
<1>5. Len(<<g>>) = 1 /\ Len(<<l>>) = 1 /\ <<l>>[1] = l /\ <<l>> # <<>>
  OBVIOUS
<1>6. Iterates(l.id, <<g>>, <<l>>, p, 1)
  BY <1>2, <1>3, <1>4, <1>5 DEF Iterates
<1> QED BY <1>6

(* A stack in two parts.                                                   *)
LEMMA JoinedStack ==
  ASSUME NEW below \in Seq(LoopState), NEW s \in Seq(LoopState), s # <<>>
  PROVE  /\ below \o s \in Seq(LoopState) /\ below \o s # <<>>
         /\ (below \o s)[Len(below \o s)] = s[Len(s)]
         /\ ExitedLoop(below \o s) = below \o ExitedLoop(s)
<1> DEFINE b == Len(below)
           n == Len(s)
           t == below \o s
           e == ExitedLoop(s)
<1>0. b \in Nat /\ n \in Nat \ {0} /\ n \in 1..n
  BY LenProperties, EmptySeq
<1>1. /\ t \in Seq(LoopState) /\ Len(t) = b + n
      /\ \A i \in 1..b + n : t[i] = IF i <= b THEN below[i] ELSE s[i - b]
  BY ConcatProperties
<1> HIDE DEF t
<1>2. t # <<>> /\ Len(t) # 0
  BY <1>0, <1>1, EmptySeq
<1>3. t[Len(t)] = s[n]
  <2>1. b + n \in 1..b + n /\ ~ (b + n <= b) /\ (b + n) - b = n
    BY <1>0
  <2> QED BY <1>1, <2>1
<1>4. e \in Seq(LoopState) /\ Len(e) = n - 1 /\ \A i \in 1..n - 1 : e[i] = s[i]
  BY ExitedLoopParts
<1>5. ExitedLoop(t) \in Seq(LoopState) /\ Len(ExitedLoop(t)) = Len(t) - 1
      /\ \A i \in 1..Len(t) - 1 : ExitedLoop(t)[i] = t[i]
  BY <1>1, <1>2, ExitedLoopParts
<1> DEFINE v == below \o e
           w == ExitedLoop(t)
<1> HIDE DEF e, w, b, n
<1>6. /\ v \in Seq(LoopState) /\ Len(v) = b + Len(e)
      /\ \A i \in 1..b + Len(e) : v[i] = IF i <= b THEN below[i] ELSE e[i - b]
  BY <1>4, ConcatProperties DEF b
<1> HIDE DEF v
<1>7. w \in Seq(LoopState) /\ Len(w) = Len(v) /\ \A i \in 1..Len(v) : w[i] = t[i]
  BY <1>0, <1>1, <1>4, <1>5, <1>6 DEF w
<1>8. ASSUME NEW i \in 1..Len(v) PROVE w[i] = v[i]
  <2>1. i \in 1..b + n /\ i \in 1..b + Len(e) /\ (~ (i <= b) => i - b \in 1..n - 1)
    BY <1>0, <1>4, <1>6
  <2> QED BY <1>1, <1>4, <1>6, <1>7, <2>1
<1>9. w = v
  BY <1>6, <1>7, <1>8, SeqEqual
<1> QED BY <1>1, <1>2, <1>3, <1>9 DEF t, w, v, e, n

LEMMA JoinedPushed ==
  ASSUME NEW below \in Seq(LoopState), NEW s \in Seq(LoopState), NEW l \in LoopState
  PROVE  Append(below \o s, l) = below \o Append(s, l)
<1> DEFINE one == <<l>>
<1>1. one \in Seq(LoopState)
  OBVIOUS
<1>2. \A t \in Seq(LoopState) : Append(t, l) = t \o one
  OBVIOUS
<1> HIDE DEF one
<1>3. below \o s \in Seq(LoopState) /\ (below \o s) \o one = below \o (s \o one)
  BY <1>1, ConcatProperties, ConcatAssociative
<1> QED BY <1>2, <1>3

(* A queue in two parts.                                                   *)
LEMMA JoinedQueue ==
  ASSUME NEW u \in Seq(Entry), NEW v \in Seq(Entry), NEW n \in 0..Len(u)
  PROVE  /\ u \o v \in Seq(Entry) /\ Len(u \o v) = Len(u) + Len(v)
         /\ \A i \in 1..Len(u) : (u \o v)[i] = u[i]
         /\ SubSeq(u \o v, n + 1, Len(u \o v)) = SubSeq(u, n + 1, Len(u)) \o v
<1> DEFINE a == Len(u)
           b == Len(v)
           t == u \o v
           p == SubSeq(u, n + 1, Len(u))
           q == SubSeq(t, n + 1, Len(t))
           r == p \o v
<1>0. a \in Nat /\ b \in Nat /\ n \in 0..a /\ n \in Nat
  BY LenProperties
<1>1. /\ t \in Seq(Entry) /\ Len(t) = a + b
      /\ \A i \in 1..a + b : t[i] = IF i <= a THEN u[i] ELSE v[i - a]
  BY ConcatProperties
<1>2. p \in Seq(Entry) /\ Len(p) = a - n /\ \A i \in 1..a - n : p[i] = u[i + n]
  BY <1>0, SuffixParts
<1> HIDE DEF t, p, a, b
<1>3. n \in 0..Len(t)
  BY <1>0, <1>1
<1>4. q \in Seq(Entry) /\ Len(q) = Len(t) - n /\ \A i \in 1..Len(t) - n : q[i] = t[i + n]
  BY <1>1, <1>3, SuffixParts
<1>5. /\ r \in Seq(Entry) /\ Len(r) = Len(p) + b
      /\ \A i \in 1..Len(p) + b : r[i] = IF i <= Len(p) THEN p[i] ELSE v[i - Len(p)]
  BY <1>2, ConcatProperties DEF b
<1> HIDE DEF q, r
<1>6. Len(q) = Len(r)
  BY <1>0, <1>1, <1>2, <1>4, <1>5
<1>7. ASSUME NEW i \in 1..Len(q) PROVE q[i] = r[i]
  <2>1. i \in 1..Len(t) - n /\ i + n \in 1..a + b /\ i \in 1..Len(p) + b
    BY <1>0, <1>1, <1>2, <1>4
  <2>2. CASE i <= Len(p)
    <3>1. i + n <= a /\ i \in 1..a - n
      BY <1>0, <1>2, <2>2
    <3> QED BY <1>1, <1>2, <1>4, <1>5, <2>1, <2>2, <3>1
  <2>3. CASE ~ (i <= Len(p))
    <3>1. ~ (i + n <= a) /\ (i + n) - a = i - Len(p)
      BY <1>0, <1>2, <2>3
    <3> QED BY <1>1, <1>4, <1>5, <2>1, <2>3, <3>1
  <2> QED BY <2>2, <2>3
<1>8. q = r
  BY <1>4, <1>5, <1>6, <1>7, SeqEqual
<1>9. \A i \in 1..a : t[i] = u[i]
  BY <1>0, <1>1
<1> QED BY <1>1, <1>8, <1>9 DEF t, p, q, r, a, b

(* The front of the queue is an iteration of x.                            *)
InBody(x, q, stack, k) ==
  \E u, v \in Seq(Entry), below, s \in Seq(LoopState) :
    q = u \o v /\ stack = below \o s /\ \E pos : Iterates(x, u, s, pos, k)

(* And f is inside x and the loops that were started in it.                *)
Within(x, f, q, stack) ==
  \E u, v \in Seq(Entry), below, s \in Seq(LoopState) :
    /\ q = u \o v /\ stack = below \o s /\ \E pos : Iterates(x, u, s, pos, 1)
    /\ \A i \in 1..Len(s) : f \in Inside(s[i].id)

LEMMA WithinBody ==
  ASSUME NEW x, NEW q, NEW stack
  PROVE  /\ InBody(x, q, stack, 1) => InBody(x, q, stack, 2)
         /\ \A f : Within(x, f, q, stack) => InBody(x, q, stack, 1)
<1>1. ASSUME NEW u \in Seq(Entry), NEW s, NEW pos, Iterates(x, u, s, pos, 1)
      PROVE  Iterates(x, u, s, pos, 2)
  <2>1. \A r \in 2..Len(u) - 1 : r \in 1..Len(u) - 1
    BY LenProperties
  <2> QED BY <1>1, <2>1 DEF Iterates
<1>2. InBody(x, q, stack, 1) => InBody(x, q, stack, 2)
  <2> SUFFICES ASSUME InBody(x, q, stack, 1) PROVE InBody(x, q, stack, 2)
    OBVIOUS
  <2>1. PICK u \in Seq(Entry), v \in Seq(Entry), below \in Seq(LoopState), s \in Seq(LoopState) :
           q = u \o v /\ stack = below \o s /\ \E pos : Iterates(x, u, s, pos, 1)
    BY DEF InBody
  <2>2. \E pos : Iterates(x, u, s, pos, 2)
    BY <1>1, <2>1
  <2> QED BY <2>1, <2>2 DEF InBody
<1>3. ASSUME NEW f, Within(x, f, q, stack) PROVE InBody(x, q, stack, 1)
  <2>1. PICK u \in Seq(Entry), v \in Seq(Entry), below \in Seq(LoopState), s \in Seq(LoopState) :
           q = u \o v /\ stack = below \o s /\ \E pos : Iterates(x, u, s, pos, 1)
    BY <1>3 DEF Within
  <2> QED BY <2>1 DEF InBody
<1> QED BY <1>2, <1>3

(* The loops of an iteration are x and loops inside it.                    *)
LEMMA IterationLoops ==
  ASSUME NEW x, NEW u \in Seq(Entry), NEW s \in Seq(LoopState), NEW pos, NEW k, Iterates(x, u, s, pos, k)
  PROVE  /\ Len(s) \in Nat \ {0} /\ u # <<>> /\ pos \in [1..Len(s) -> 1..Len(u)]
         /\ \A i \in 1..Len(s) : /\ Def[s[i].id].kind \in LoopKinds /\ s[i].signal # "break"
                                 /\ i # 1 => s[i].id \in Inside(x)
<1>1. Len(s) \in Nat \ {0} /\ 1 \in 1..Len(s) /\ Len(u) \in Nat
  BY LenProperties, EmptySeq DEF Iterates
<1>2. /\ pos \in [1..Len(s) -> 1..Len(u)]
      /\ \A i, j \in 1..Len(s) : i < j => pos[j] < pos[i]
  BY DEF Iterates, Nested, Ordered
<1>3. u # <<>>
  <2>1. pos[1] \in 1..Len(u)
    BY <1>1, <1>2
  <2> QED BY <1>1, <2>1, EmptySeq
<1>4. ASSUME NEW i \in 1..Len(s)
      PROVE  /\ Def[s[i].id].kind \in LoopKinds /\ s[i].signal # "break"
             /\ i # 1 => s[i].id \in Inside(x)
  <2>1. Def[s[i].id].kind \in LoopKinds /\ s[i].signal # "break" /\ u[pos[i]].step = s[i].id
    BY DEF Iterates, Nested, MarkersAt
  <2>2. i # 1 => pos[i] < pos[1] /\ pos[i] \in 1..Len(u)
    BY <1>1, <1>2
  <2>3. i # 1 => u[pos[i]].step \in Inside(s[1].id)
    BY <1>1, <2>2 DEF Iterates, Nested, StepsInside
  <2> QED BY <2>1, <2>3 DEF Iterates
<1> QED BY <1>1, <1>2, <1>3, <1>4

(* A step inside the loop comes to the front: the marker of the innermost  *)
(* loop, or a step that this one executes itself.                          *)
Comes(x, q, stack) ==
  LET top == stack[Len(stack)]
  IN  \/ /\ q[1].step = top.id /\ Def[top.id].kind \in LoopKinds /\ top.signal # "break"
         /\ Within(x, q[1].step, Tail(q), ExitedLoop(stack))
      \/ /\ ~q[1].cont /\ q[1].step # top.id /\ q[1].step \in Direct(top.id)
         /\ Within(x, q[1].step, Tail(q), stack)

LEMMA BodyFront ==
  ASSUME NEW x \in Outermost, \A l \in Inside(x) : Def[l].kind \in LoopKinds => l \notin Inside(l),
         NEW q \in Seq(Entry), q # <<>>, NEW stack \in Seq(LoopState), InBody(x, q, stack, 2),
         q[1].step \in Inside(x)
  PROVE  stack # <<>> /\ Comes(x, q, stack)
<1>0. PICK u \in Seq(Entry), v \in Seq(Entry), below \in Seq(LoopState), s \in Seq(LoopState) :
         q = u \o v /\ stack = below \o s /\ \E pos : Iterates(x, u, s, pos, 2)
  BY DEF InBody
<1>1. PICK pos : q = u \o v /\ stack = below \o s /\ Iterates(x, u, s, pos, 2)
  BY <1>0
<1> DEFINE n == Len(s)
           top == s[n]
<1>2. /\ n \in Nat \ {0} /\ n \in 1..n /\ u # <<>> /\ pos \in [1..n -> 1..Len(u)] /\ s # <<>>
      /\ \A i \in 1..n : /\ Def[s[i].id].kind \in LoopKinds /\ s[i].signal # "break"
                         /\ i # 1 => s[i].id \in Inside(x)
      /\ s[1].id = x /\ Nested(u, s, pos)
  <2>1. s # <<>> /\ s[1].id = x /\ Nested(u, s, pos)
    BY <1>1 DEF Iterates
  <2> QED BY <1>1, <2>1, IterationLoops
<1>3. Len(u) \in Nat \ {0} /\ 1 \in 1..Len(u) /\ 1 \in 0..Len(u) /\ 1 + 1 = 2
  BY <1>2, LenProperties, EmptySeq
<1>4. /\ q[1] = u[1] /\ Tail(q) = Tail(u) \o v /\ Tail(u) \in Seq(Entry)
      /\ Tail(u) = SubSeq(u, 2, Len(u))
  <2>1. /\ (u \o v)[1] = u[1]
        /\ SubSeq(u \o v, 1 + 1, Len(u \o v)) = SubSeq(u, 1 + 1, Len(u)) \o v
    BY <1>3, JoinedQueue
  <2>2. Tail(u) = SubSeq(u, 2, Len(u)) /\ Tail(q) = SubSeq(q, 2, Len(q)) /\ Tail(u) \in Seq(Entry)
    BY <1>2, TailSuffix
  <2> QED BY <1>1, <1>3, <2>1, <2>2
<1>5. /\ stack # <<>> /\ stack[Len(stack)] = top
      /\ ExitedLoop(stack) = below \o ExitedLoop(s)
  BY <1>1, <1>2, JoinedStack
<1>6. x \notin Inside(x) /\ u[1].step \in Inside(x)
  <2>1. q[1] = u[1]
    BY <1>4
  <2> QED BY <2>1, OutermostParts
<1>7. top.id \notin Inside(top.id)
  <2>1. n = 1 => top.id = x
    BY <1>2
  <2>2. n # 1 => top.id \in Inside(x) /\ Def[top.id].kind \in LoopKinds
    BY <1>2
  <2> QED BY <1>6, <2>1, <2>2
<1>8. \/ /\ pos[n] = 1 /\ u[1].step = top.id /\ Def[u[1].step].kind \in LoopKinds
         /\ \A i \in 1..n - 1 : u[1].step \in Inside(s[i].id)
      \/ /\ ~u[1].cont /\ u[1].step \in Direct(top.id) /\ u[1].step # top.id
         /\ \A i \in 1..n : 1 < pos[i] /\ u[1].step \in Inside(s[i].id)
  BY <1>2, <1>7, FrontIs
<1>9. CASE pos[n] = 1 /\ u[1].step = top.id /\ \A i \in 1..n - 1 : u[1].step \in Inside(s[i].id)
  <2>1. n > 1
    <3>1. n # 1
      <4>1. n = 1 => u[1].step = x
        BY <1>2, <1>9
      <4> QED BY <1>6, <4>1
    <3>2. n \in Nat \ {0}
      BY <1>2
    <3> HIDE DEF n
    <3> QED BY <3>1, <3>2
  <2>2. PICK p : Iterates(x, Tail(u), ExitedLoop(s), p, 1)
    BY <1>1, <1>9, <2>1, PoppedIterates
  <2>3. /\ ExitedLoop(s) \in Seq(LoopState) /\ Len(ExitedLoop(s)) = n - 1
        /\ \A i \in 1..n - 1 : ExitedLoop(s)[i] = s[i]
    BY <1>2, ExitedLoopParts
  <2>4. \A i \in 1..Len(ExitedLoop(s)) : q[1].step \in Inside(ExitedLoop(s)[i].id)
    BY <1>4, <1>9, <2>3
  <2>5. Within(x, q[1].step, Tail(q), ExitedLoop(stack))
    <3> DEFINE t == Tail(u)
               e == ExitedLoop(s)
    <3>1. /\ t \in Seq(Entry) /\ e \in Seq(LoopState) /\ Iterates(x, t, e, p, 1)
          /\ Tail(q) = t \o v /\ ExitedLoop(stack) = below \o e
          /\ \A i \in 1..Len(e) : q[1].step \in Inside(e[i].id)
      BY <1>4, <1>5, <2>2, <2>3, <2>4
    <3> HIDE DEF t, e
    <3> QED BY <3>1 DEF Within
  <2>6. Def[top.id].kind \in LoopKinds /\ top.signal # "break"
    BY <1>2
  <2> QED BY <1>4, <1>5, <1>9, <2>5, <2>6 DEF Comes
<1>10. CASE /\ ~u[1].cont /\ u[1].step \in Direct(top.id) /\ u[1].step # top.id
            /\ \A i \in 1..n : 1 < pos[i] /\ u[1].step \in Inside(s[i].id)
  <2>1. Iterates(x, SubSeq(u, 1 + 1, Len(u)), s, Moved(pos, -1), 1)
    BY <1>1, <1>3, <1>10, DroppedIterates
  <2>2. Iterates(x, Tail(u), s, Moved(pos, -1), 1)
    BY <1>3, <1>4, <2>1
  <2>3. Within(x, q[1].step, Tail(q), stack)
    BY <1>1, <1>4, <1>10, <2>2 DEF Within
  <2> QED BY <1>4, <1>5, <1>10, <2>3 DEF Comes
<1> QED BY <1>5, <1>8, <1>9, <1>10

(* The parts of a step.                                                    *)
LEMMA PartSteps ==
  ASSUME NEW s \in Step
  PROVE  /\ Def[s].body \in Seq(Step) /\ Def[s].orelse \in Seq(Step)
         /\ \A i \in 1..Len(Def[s].body) : Def[s].body[i] \in Parts(s)
         /\ \A i \in 1..Len(Def[s].orelse) : Def[s].orelse[i] \in Parts(s)
<1>1. Def[s].body \in Seq(Step) /\ Def[s].orelse \in Seq(Step)
  BY DefAssumption DEF Definition
<1> QED BY <1>1, LenProperties DEF Parts

(* g is the marker of the loop l; w consists of parts of s.                *)
Marks(g, l) ==
  /\ g.step = l.id /\ Def[l.id].kind \in LoopKinds /\ l.signal # "break"
  /\ g.cont => Def[l.id].kind = "while_loop"
  /\ \A field \in g.resolved : g.step \in Replaced(field)

PartsOf(w, s) ==
  \A i \in 1..Len(w) : /\ w[i].step \in Parts(s) /\ ~w[i].cont
                       /\ \A field \in w[i].resolved : w[i].step \in Replaced(field)

(* A loop inside is put on the stack, its marker in front.                 *)
LEMMA WithinMarked ==
  ASSUME NEW x, NEW q, NEW stack, NEW g \in Entry, NEW l \in LoopState, Within(x, g.step, q, stack),
         Marks(g, l)
  PROVE  InBody(x, <<g>> \o q, Append(stack, l), 1)
<1>0. PICK u \in Seq(Entry), v \in Seq(Entry), below \in Seq(LoopState), s \in Seq(LoopState) :
         /\ q = u \o v /\ stack = below \o s /\ \E pos : Iterates(x, u, s, pos, 1)
         /\ \A i \in 1..Len(s) : g.step \in Inside(s[i].id)
  BY DEF Within
<1>1. PICK pos : Iterates(x, u, s, pos, 1)
  BY <1>0
<1> DEFINE t == <<g>> \o u
           e == Append(s, l)
           w == <<g>>
<1>2. \E p : Iterates(x, t, e, p, 1)
  BY <1>0, <1>1, MarkedIterates DEF Marks
<1>3. e \in Seq(LoopState) /\ Append(stack, l) = below \o e
  BY <1>0, JoinedPushed, AppendProperties
<1>4. t \in Seq(Entry) /\ <<g>> \o q = t \o v
  <2>1. w \in Seq(Entry) /\ t = w \o u
    OBVIOUS
  <2> HIDE DEF w, t
  <2>2. w \o u \in Seq(Entry) /\ w \o (u \o v) = (w \o u) \o v
    BY <2>1, ConcatProperties, ConcatAssociative, SMTT(30)
  <2> QED BY <1>0, <2>1, <2>2 DEF w
<1> DEFINE qq == <<g>> \o q
           ss == Append(stack, l)
<1>5. qq = t \o v /\ ss = below \o e
  BY <1>3, <1>4
<1> HIDE DEF t, e, qq, ss
<1>6. InBody(x, qq, ss, 1)
  BY <1>2, <1>3, <1>4, <1>5 DEF InBody
<1> QED BY <1>6 DEF qq, ss

LEMMA FourJoined ==
  ASSUME NEW a \in Seq(Entry), NEW b \in Seq(Entry), NEW c \in Seq(Entry), NEW d \in Seq(Entry)
  PROVE  a \o b \o (c \o d) = (a \o (b \o c)) \o d
<1>1. a \o b \in Seq(Entry)
  BY ConcatProperties
<1>2. a \o (b \o c) = (a \o b) \o c
  BY ConcatAssociative, SMTT(30)
<1>3. ((a \o b) \o c) \o d = (a \o b) \o (c \o d)
  BY <1>1, ConcatAssociative, SMTT(30)
<1> QED BY <1>2, <1>3

(* An iteration of a loop inside starts.                                   *)
LEMMA WithinLoop ==
  ASSUME NEW x, NEW q, NEW stack, NEW g \in Entry, NEW l \in LoopState, Within(x, g.step, q, stack),
         Marks(g, l), NEW w \in Seq(Entry), PartsOf(w, l.id)
  PROVE  InBody(x, w \o <<g>> \o q, Append(stack, l), 2)
<1>0. PICK u \in Seq(Entry), v \in Seq(Entry), below \in Seq(LoopState), s \in Seq(LoopState) :
         /\ q = u \o v /\ stack = below \o s /\ \E pos : Iterates(x, u, s, pos, 1)
         /\ \A i \in 1..Len(s) : g.step \in Inside(s[i].id)
  BY DEF Within
<1>1. PICK pos : Iterates(x, u, s, pos, 1)
  BY <1>0
<1> DEFINE one == <<g>>
           t == <<g>> \o u
           e == Append(s, l)
           n == Len(s)
<1>2. PICK p : Iterates(x, t, e, p, 1)
  BY <1>0, <1>1, MarkedIterates DEF Marks
<1>3. /\ e \in Seq(LoopState) /\ Append(stack, l) = below \o e
      /\ Len(e) = n + 1 /\ e[n + 1] = l /\ \A i \in 1..n : e[i] = s[i]
  <2>1. Append(stack, l) = below \o e
    BY <1>0, JoinedPushed
  <2>2. /\ e \in Seq(LoopState) /\ Len(e) = n + 1 /\ e[n + 1] = l
        /\ \A i \in 1..n : e[i] = s[i]
    BY AppendProperties
  <2> QED BY <2>1, <2>2
<1>4. /\ one \in Seq(Entry) /\ t = one \o u
  OBVIOUS
<1>5. n \in Nat \ {0} /\ l.id \in Step
  BY <1>1, IterationLoops DEF LoopState
<1>7. /\ Parts(l.id) \subseteq Direct(l.id) /\ Parts(l.id) \subseteq Inside(l.id)
      /\ \A i \in 1..n : Parts(l.id) \subseteq Inside(s[i].id)
  <2>1. ASSUME NEW i \in 1..n PROVE Parts(l.id) \subseteq Inside(s[i].id)
    <3>1. s[i] \in LoopState
      BY ElementOfSeq
    <3>2. s[i].id \in Step /\ l.id \in Inside(s[i].id)
      BY <1>0, <3>1 DEF LoopState, Marks
    <3> QED BY <3>2, InsideLoops
  <2> QED BY <1>5, <2>1, InsideLoops
<1> HIDE DEF one, t, e, n
<1>8. ASSUME NEW r \in 1..Len(w)
      PROVE  /\ ~w[r].cont
             /\ \A field \in w[r].resolved : w[r].step \in Replaced(field)
             /\ \A i \in 1..Len(e) : w[r].step \in Inside(e[i].id)
             /\ w[r].step \in Direct(e[Len(e)].id)
  <2>1. \A i \in 1..Len(e) : i = n + 1 \/ i \in 1..n
    BY <1>3, <1>5
  <2>2. /\ w[r].step \in Parts(l.id) /\ ~w[r].cont
        /\ \A field \in w[r].resolved : w[r].step \in Replaced(field)
    BY DEF PartsOf
  <2> QED BY <1>3, <1>7, <2>1, <2>2
<1>9. t \in Seq(Entry)
  BY <1>4, ConcatProperties
<1>10. Len(e) # 1
  BY <1>3, <1>5
<1>11. \E pp : Iterates(x, w \o t, e, pp, 2)
  BY <1>2, <1>3, <1>8, <1>9, <1>10, PrependedIterates
<1>12. w \o t \in Seq(Entry) /\ w \o one \o q = (w \o t) \o v
  <2>1. w \in Seq(Entry) /\ one \in Seq(Entry) /\ u \in Seq(Entry) /\ v \in Seq(Entry)
    BY <1>4
  <2>2. w \o t \in Seq(Entry)
    BY <1>9, ConcatProperties
  <2>3. t = one \o u /\ q = u \o v
    BY <1>0, <1>4
  <2>4. w \o one \o (u \o v) = (w \o (one \o u)) \o v
    BY <2>1, FourJoined, SMTT(30)
  <2> QED BY <2>2, <2>3, <2>4
<1> DEFINE qq == w \o one \o q
           ss == Append(stack, l)
           ww == w \o t
<1>13. qq = ww \o v /\ ss = below \o e /\ ww \in Seq(Entry) /\ \E pp : Iterates(x, ww, e, pp, 2)
  BY <1>3, <1>11, <1>12
<1> HIDE DEF qq, ss, ww
<1>14. InBody(x, qq, ss, 2)
  BY <1>3, <1>13 DEF InBody
<1> QED BY <1>14 DEF qq, ss, one

(* An iteration of x itself starts.                                        *)
LEMMA BodyStarts ==
  ASSUME NEW x \in Outermost, NEW q \in Seq(Entry), NEW stack \in Seq(LoopState),
         NEW g \in Entry, NEW l \in LoopState,
         l.id = x, Marks(g, l),
         NEW w \in Seq(Entry), PartsOf(w, x), \A r \in 2..Len(w) : Belongs(w[r], x)
  PROVE  InBody(x, w \o <<g>> \o q, Append(stack, l), 2)
<1> DEFINE u == <<g>>
           s == <<l>>
<1>0. x \in Step /\ Def[x].kind \in LoopKinds /\ x \notin Inside(x) /\ Parts(x) \subseteq Inside(x)
  BY OutermostParts
<1>1. PICK pos : Iterates(x, u, s, pos, 1)
  BY <1>0, MarkerIterates DEF Marks
<1>2. u \in Seq(Entry) /\ s \in Seq(LoopState) /\ Len(s) = 1 /\ s[1] = l /\ Append(stack, l) = stack \o s
  OBVIOUS
<1>4. Parts(x) \subseteq Direct(x)
  BY <1>0, InsideLoops
<1> HIDE DEF u, s
<1>5. ASSUME NEW r \in 1..Len(w)
      PROVE  /\ ~w[r].cont
             /\ \A field \in w[r].resolved : w[r].step \in Replaced(field)
             /\ \A i \in 1..Len(s) : w[r].step \in Inside(s[i].id)
             /\ w[r].step \in Direct(s[Len(s)].id)
  <2>1. \A i \in 1..Len(s) : s[i].id = x
    BY <1>2
  <2>2. s[Len(s)].id = x
    BY <1>2
  <2>3. /\ w[r].step \in Parts(x) /\ ~w[r].cont
        /\ \A field \in w[r].resolved : w[r].step \in Replaced(field)
    BY DEF PartsOf
  <2> QED BY <1>0, <1>4, <2>1, <2>2, <2>3
<1>7. \E p : Iterates(x, w \o u, s, p, 2)
  BY <1>1, <1>2, <1>5, PrependedIterates
<1> DEFINE qq == w \o u \o q
           ss == Append(stack, l)
           ww == w \o u
<1>8. qq = ww \o q /\ ss = stack \o s /\ ww \in Seq(Entry) /\ \E p : Iterates(x, ww, s, p, 2)
  BY <1>2, <1>7, ConcatProperties
<1> HIDE DEF qq, ss, ww
<1>9. InBody(x, qq, ss, 2)
  BY <1>2, <1>8 DEF InBody
<1> QED BY <1>9 DEF qq, ss, u

(* A conditional is replaced by one of its branches.                       *)
LEMMA WithinBranch ==
  ASSUME NEW x \in Outermost, Recognized(x), NEW q, NEW stack, NEW c \in Step, Within(x, c, q, stack),
         Def[c].kind = "conditional", c \in Direct(stack[Len(stack)].id),
         NEW steps \in {Def[c].body, Def[c].orelse}, NEW w \in Seq(Entry), Len(w) = Len(steps),
         \A i \in 1..Len(w) : w[i].step = steps[i], PartsOf(w, c)
  PROVE  InBody(x, w \o q, stack, 2)
<1>0. PICK u \in Seq(Entry), v \in Seq(Entry), below \in Seq(LoopState), s \in Seq(LoopState) :
         /\ q = u \o v /\ stack = below \o s /\ \E pos : Iterates(x, u, s, pos, 1)
         /\ \A i \in 1..Len(s) : c \in Inside(s[i].id)
  BY DEF Within
<1>1. PICK pos : Iterates(x, u, s, pos, 1)
  BY <1>0
<1> DEFINE n == Len(s)
<1>2. n \in Nat \ {0} /\ n \in 1..n /\ s # <<>> /\ s[1].id = x
  <2>1. s # <<>> /\ s[1].id = x /\ Len(s) \in Nat \ {0}
    BY <1>1, IterationLoops DEF Iterates
  <2> QED BY <2>1
<1>3. c \in Direct(s[n].id)
  BY <1>0, <1>2, JoinedStack
<1>4. \A i \in 1..n : s[i].id \in Step
  <2>1. \A i \in 1..n : s[i] \in LoopState
    BY ElementOfSeq
  <2> QED BY <2>1 DEF LoopState
<1>6. /\ Parts(c) \subseteq Direct(s[n].id)
      /\ \A i \in 1..n : Parts(c) \subseteq Inside(s[i].id)
  BY <1>0, <1>2, <1>3, <1>4, InsideLoops
<1>7. x \in Step /\ x \notin Inside(x)
  BY OutermostParts
<1> HIDE DEF n
<1>8. ASSUME NEW r \in 1..Len(w)
      PROVE  /\ ~w[r].cont
             /\ \A field \in w[r].resolved : w[r].step \in Replaced(field)
             /\ \A i \in 1..Len(s) : w[r].step \in Inside(s[i].id)
             /\ w[r].step \in Direct(s[Len(s)].id)
  BY <1>6 DEF n, PartsOf
<1>9. ASSUME n = 1, NEW r \in 2..Len(w) PROVE Belongs(w[r], x)
  <2>1. r \in 1..Len(w) /\ r \in 2..Len(steps)
    OBVIOUS
  <2>2. w[r].step \in Parts(c) /\ ~w[r].cont /\ w[r].step = steps[r]
    BY <2>1 DEF PartsOf
  <2>3. w[r].step # x
    BY <1>2, <1>6, <1>7, <1>9, <2>2
  <2>4. c \in Direct(x)
    BY <1>2, <1>3, <1>9
  <2>5. StartsWith(steps[r], x)
    BY <2>1, <2>4 DEF Recognized
  <2> QED BY <2>2, <2>3, <2>5 DEF Belongs, IsLoopStep, Id
<1>10. \E p : Iterates(x, w \o u, s, p, 2)
  BY <1>1, <1>8, <1>9, PrependedIterates DEF n
<1> DEFINE qq == w \o q
           ww == w \o u
<1>11. qq = ww \o v /\ ww \in Seq(Entry) /\ \E p : Iterates(x, ww, s, p, 2)
  <2>1. w \o u \in Seq(Entry)
    BY ConcatProperties
  <2>2. (w \o u) \o v = w \o (u \o v)
    BY ConcatAssociative
  <2> QED BY <1>0, <1>10, <2>1, <2>2
<1> HIDE DEF qq, ww
<1>12. InBody(x, qq, stack, 2)
  BY <1>0, <1>11 DEF InBody
<1> QED BY <1>12 DEF qq

(* w consists of the entries for the parts of c, in the order of steps.    *)
IsParts(w, c, steps, loop) ==
  /\ w \in Seq(Entry) /\ Len(w) = Len(steps) /\ Len(w) \in Nat /\ PartsOf(w, c)
  /\ \A i \in 1..Len(w) : w[i].step = steps[i] /\ ~w[i].cont /\ w[i].loop = loop

LEMMA PartsQueued ==
  ASSUME NEW c \in Step, NEW steps, steps = Def[c].body \/ steps = Def[c].orelse,
         NEW loop \in Step \cup {NoStep},
         NEW resolved \in SUBSET Fields, \A field \in resolved : Parts(c) \subseteq Replaced(field)
  PROVE  IsParts(Queued(steps, loop, resolved), c, steps, loop)
<1> DEFINE w == Queued(steps, loop, resolved)
<1>1. steps \in Seq(Step) /\ \A i \in 1..Len(steps) : steps[i] \in Parts(c)
  BY PartSteps
<1>2. w \in Seq(Entry)
  BY <1>1, QueuedTyped
<1>3. Len(w) = Len(steps) /\ Len(w) \in Nat
  BY <1>1, <1>2, QueuedSteps, LenProperties
<1>4. ASSUME NEW i \in 1..Len(w)
      PROVE  /\ w[i].step = steps[i] /\ ~w[i].cont /\ w[i].loop = loop
             /\ w[i].resolved = resolved
  <2>1. i \in 1..Len(steps)
    BY <1>3
  <2>2. w[i] = [step |-> steps[i], cont |-> FALSE, loop |-> loop, resolved |-> resolved]
    BY <2>1 DEF Queued
  <2> HIDE DEF w
  <2> QED BY <2>2
<1> HIDE DEF w
<1>5. ASSUME NEW i \in 1..Len(w)
      PROVE  /\ w[i].step \in Parts(c) /\ ~w[i].cont
             /\ \A field \in w[i].resolved : w[i].step \in Replaced(field)
  <2>1. w[i].step \in Parts(c) /\ ~w[i].cont /\ w[i].resolved = resolved
    BY <1>1, <1>3, <1>4
  <2> QED BY <2>1
<1>6. PartsOf(w, c)
  BY <1>5 DEF PartsOf
<1>7. IsParts(w, c, steps, loop)
  BY <1>2, <1>3, <1>4, <1>6 DEF IsParts
<1> QED BY <1>7 DEF w

(* What the front is outside of x leaves nothing inside it in front.       *)
LEMMA OutsideStays ==
  ASSUME NEW x \in Outermost, InOnePlace(x, Inside(x), Around(x)),
         NEW q \in Seq(Entry), NEW n \in 1..Len(q), NEW w \in Seq(Entry), NEW m \in Nat,
         Replacing(q, n, w, m), NEW ids, NEW broken, Placed(x, q, ids, broken),
         q[1].step \notin Inside(x), q[1].step = x => m = 0,
         NEW t, t = w \o SubSeq(q, n + 1, Len(q)), t # <<>>
  PROVE  t[1].step \notin Inside(x)
<1> DEFINE f == q[1].step
           k == Len(w)
           L == Len(q)
           r == SubSeq(q, n + 1, L)
<1>0. /\ k \in Nat /\ L \in Nat \ {0} /\ f \in Step /\ 1 \in 1..L /\ n \in 0..L /\ n \in Nat
  <2>1. L \in Nat /\ 1 \in 1..L /\ k \in Nat /\ L # 0 /\ n \in 0..L /\ n \in Nat
    BY LenProperties
  <2>2. q[1] \in Entry
    BY <2>1, ElementOfSeq
  <2> QED BY <2>1, <2>2 DEF Entry
<1>1. r \in Seq(Entry) /\ Len(r) = L - n /\ \A i \in 1..L - n : r[i] = q[i + n]
  BY <1>0, SuffixParts
<1> HIDE DEF r
<1>2. /\ w \o r \in Seq(Entry) /\ Len(w \o r) = k + Len(r)
      /\ \A i \in 1..k + Len(r) : (w \o r)[i] = IF i <= k THEN w[i] ELSE r[i - k]
  BY <1>1, ConcatProperties
<1>3. t = w \o r
  BY DEF r
<1>4. k + Len(r) \in Nat \ {0}
  <2>1. Len(t) # 0
    BY <1>2, <1>3, EmptySeq
  <2> QED BY <1>0, <1>1, <1>2, <1>3, <2>1
<1>5. \A i \in 1..m : w[i].step \in Parts(f)
  BY DEF Replacing
<1>6. k = m \/ (k = m + 1 /\ w[m + 1].step = f /\ Def[f].kind \in LoopKinds)
  BY DEF Replacing
<1>7. f # x => Parts(f) \cap Inside(x) = {}
  BY <1>0 DEF InOnePlace
<1>8. \A j \in 2..L : q[j].step \notin Inside(x)
  <2>1. \A i, j \in 1..L : i < j /\ q[j].step \in Inside(x) => q[i].step \in Inside(x)
    BY DEF Placed
  <2>2. \A j \in 2..L : j \in 1..L /\ 1 < j
    BY <1>0
  <2> QED BY <1>0, <2>1, <2>2
<1>9. CASE k = 0
  <2>1. t[1] = r[1] /\ 1 \in 1..L - n /\ 1 + n \in 2..L
    BY <1>0, <1>1, <1>2, <1>3, <1>4, <1>9
  <2>2. t[1] = q[1 + n]
    BY <1>1, <2>1
  <2> QED BY <1>8, <2>1, <2>2
<1>10. CASE k # 0
  <2>1. t[1] = w[1] /\ (1 \in 1..m \/ (m = 0 /\ 1 = m + 1))
    BY <1>0, <1>1, <1>2, <1>3, <1>4, <1>6, <1>10
  <2>2. CASE m = 0
    BY <1>6, <1>10, <2>1, <2>2
  <2>3. CASE m # 0
    BY <1>5, <1>7, <2>1, <2>3
  <2> QED BY <2>2, <2>3
<1> QED BY <1>9, <1>10

(* Behind the marker of x there is nothing of it.                          *)
LEMMA BehindMarker ==
  ASSUME NEW x \in Outermost, NEW q \in Seq(Entry), NEW ids, NEW broken, Placed(x, q, ids, broken),
         NEW m \in 1..Len(q), q[m].step = x
  PROVE  \A i \in m + 1..Len(q) : q[i].step \notin Inside(x) /\ q[i].step \notin Around(x)
<1>1. x \notin Inside(x) /\ x \in Around(x)
  BY OutermostParts
<1>2. ASSUME NEW i \in m + 1..Len(q)
      PROVE  q[i].step \notin Inside(x) /\ q[i].step \notin Around(x)
  <2>1. i \in 1..Len(q) /\ m < i /\ m # i
    BY LenProperties
  <2> QED BY <1>1, <2>1 DEF Placed
<1> QED BY <1>2

(* The innermost loop is x or one inside it.                               *)
LEMMA TopInside ==
  ASSUME NEW x, NEW q, NEW stack, InBody(x, q, stack, 2)
  PROVE  LET top == stack[Len(stack)]
         IN  top.id = x \/ (top.id \in Inside(x) /\ Def[top.id].kind \in LoopKinds)
<1>1. PICK u \in Seq(Entry), v \in Seq(Entry), below \in Seq(LoopState), s \in Seq(LoopState) :
        /\ q = u \o v /\ stack = below \o s /\ \E pos : Iterates(x, u, s, pos, 2)
  BY DEF InBody
<1>2. PICK pos : Iterates(x, u, s, pos, 2)
  BY <1>1
<1>3. s # <<>> /\ s[1].id = x
  BY <1>2 DEF Iterates
<1>4. /\ Len(s) \in Nat \ {0}
      /\ \A i \in 1..Len(s) : Def[s[i].id].kind \in LoopKinds /\ (i # 1 => s[i].id \in Inside(x))
  BY <1>2, IterationLoops
<1>5. stack[Len(stack)] = s[Len(s)]
  BY <1>1, <1>3, JoinedStack
<1>6. Len(s) \in 1..Len(s)
  BY <1>4
<1> QED BY <1>3, <1>4, <1>5, <1>6

(* The id of a continuation starts with that of its loop.                  *)
LEMMA StartsAppended ==
  ASSUME NEW x \in Seq(STRING)
  PROVE  StartsWith(Append(x, "continuation"), x)
<1> DEFINE S == STRING \cup {"continuation"}
           e == "continuation"
           a == Append(x, e)
           n == Len(x)
<1>0. n \in Nat /\ x \in Seq(S) /\ e \in S
  BY LenProperties, SeqMonotonic
<1> HIDE DEF S, e
<1>1. a \in Seq(S) /\ Len(a) = n + 1 /\ SubSeq(a, 1, n) = x
  BY <1>0, AppendProperties
<1> QED BY <1>0, <1>1 DEF StartsWith, e

(* A prefix of the body of x is dropped up to its marker at least.         *)
LEMMA BodyDropped ==
  ASSUME NEW x \in Outermost, x \in Seq(STRING), NEW q \in Seq(Entry), q # <<>>, NEW stack,
         InBody(x, q, stack, 2), q[1].step \in Inside(x), stack[Len(stack)].id = x,
         NEW n \in 0..Len(Tail(q)), BodyPrefix(Tail(q), x, n)
  PROVE  \E m \in 1..Len(q) :
           /\ q[m].step = x /\ m <= n + 2
           /\ m = n + 2 => n < Len(Tail(q)) /\ IsLoopStep(Tail(q)[n + 1], x)
<1>1. PICK u \in Seq(Entry), v \in Seq(Entry), below \in Seq(LoopState), s \in Seq(LoopState) :
        /\ q = u \o v /\ stack = below \o s /\ \E pos : Iterates(x, u, s, pos, 2)
  BY DEF InBody
<1>2. PICK pos : Iterates(x, u, s, pos, 2)
  BY <1>1
<1> DEFINE m == Len(u)
           t == Tail(q)
           L == Len(q)
<1>3. s # <<>> /\ s[1].id = x /\ pos[1] = m /\ Nested(u, s, pos)
  BY <1>2 DEF Iterates
<1>4. /\ Len(s) \in Nat \ {0} /\ u # <<>> /\ pos \in [1..Len(s) -> 1..m]
      /\ \A i \in 1..Len(s) : i # 1 => s[i].id \in Inside(x)
  BY <1>2, IterationLoops
<1>5. Len(s) = 1
  <2>1. stack[Len(stack)] = s[Len(s)]
    BY <1>1, <1>3, JoinedStack
  <2>2. x \notin Inside(x) /\ Len(s) \in 1..Len(s)
    BY <1>4, OutermostParts
  <2> QED BY <1>4, <2>1, <2>2
<1>6. /\ m \in Nat \ {0} /\ L \in Nat \ {0} /\ m \in 1..L /\ \A i \in 1..m : q[i] = u[i]
  <2>1. m \in Nat \ {0} /\ Len(v) \in Nat /\ L \in Nat /\ 0 \in 0..m
    BY <1>4, LenProperties, EmptySeq
  <2>2. L = m + Len(v) /\ \A i \in 1..m : q[i] = u[i]
    BY <1>1, <2>1, JoinedQueue
  <2> QED BY <2>1, <2>2
<1>7. q[m].step = x
  <2>1. u[pos[1]].step = s[1].id
    BY <1>3, <1>5 DEF Nested, MarkersAt
  <2> QED BY <1>3, <1>6, <2>1
<1>8. t \in Seq(Entry) /\ Len(t) = L - 1 /\ \A i \in 1..L - 1 : t[i] = q[i + 1]
  BY TailSuffix
<1>9. m # 1
  <2>1. x \notin Inside(x)
    BY OutermostParts
  <2> QED BY <1>7, <2>1
<1>10. \A r \in 2..m - 1 : Belongs(q[r], x)
  <2>1. \A r \in 2..m - 1 : Belongs(u[r], x)
    BY <1>2, <1>5 DEF Iterates
  <2> QED BY <1>6, <2>1
<1>11. n \in Nat /\ n <= L - 1
  BY <1>6, <1>8
<1>12. n < L - 1 => ~Belongs(t[n + 1], x) /\ t[n + 1] = q[n + 2]
  <2>1. n < Len(t) => ~Belongs(t[n + 1], x)
    BY DEF BodyPrefix
  <2>2. n < L - 1 => n + 1 \in 1..L - 1 /\ (n + 1) + 1 = n + 2
    BY <1>6, <1>11
  <2> QED BY <1>8, <2>1, <2>2
<1> HIDE DEF m, t, L
<1>13. m <= n + 2
  <2> SUFFICES ASSUME ~ (m <= n + 2) PROVE FALSE
    OBVIOUS
  <2>1. n + 2 \in 2..m - 1 /\ n < L - 1
    BY <1>6, <1>11
  <2> QED BY <1>10, <1>12, <2>1
<1>14. ASSUME m = n + 2 PROVE n < Len(t) /\ IsLoopStep(t[n + 1], x)
  <2>1. n < L - 1
    BY <1>6, <1>11, <1>14
  <2>2. t[n + 1] = q[m] /\ ~Belongs(q[m], x)
    BY <1>12, <1>14, <2>1
  <2>3. ~q[m].cont
    <3> SUFFICES ASSUME q[m].cont PROVE FALSE
      OBVIOUS
    <3>1. Id(q[m]) = Append(x, "continuation") /\ ~IsLoopStep(q[m], x)
      BY <1>7 DEF Id, IsLoopStep
    <3>2. StartsWith(Append(x, "continuation"), x)
      BY StartsAppended
    <3> QED BY <2>2, <3>1, <3>2 DEF Belongs
  <2> QED BY <1>7, <1>8, <2>1, <2>2, <2>3 DEF IsLoopStep
<1> QED BY <1>6, <1>7, <1>13, <1>14 DEF m, t, L

(* Only the ids of the loops matter, and the signal break.                 *)
LEMMA RelabelledIterates ==
  ASSUME NEW x, NEW u, NEW s \in Seq(LoopState), NEW pos, NEW k, Iterates(x, u, s, pos, k),
         NEW l \in LoopState, l.id = s[Len(s)].id, l.signal # "break"
  PROVE  Append(ExitedLoop(s), l) \in Seq(LoopState) /\ Iterates(x, u, Append(ExitedLoop(s), l), pos, k)
<1> DEFINE e == ExitedLoop(s)
           o == Append(e, l)
           n == Len(s)
<1>0. s # <<>> /\ n \in Nat \ {0} /\ 1 \in 1..n
  BY LenProperties, EmptySeq DEF Iterates
<1>1. e \in Seq(LoopState) /\ Len(e) = n - 1 /\ \A i \in 1..n - 1 : e[i] = s[i]
  BY <1>0, ExitedLoopParts
<1> HIDE DEF e
<1>2. /\ o \in Seq(LoopState) /\ Len(o) = Len(e) + 1
      /\ \A i \in 1..Len(e) : o[i] = e[i]
      /\ o[Len(e) + 1] = l
  BY <1>1, AppendProperties
<1>3. Len(o) = n /\ o # <<>>
  BY <1>0, <1>1, <1>2
<1> HIDE DEF o, n
<1>4. ASSUME NEW i \in 1..n PROVE o[i].id = s[i].id /\ o[i].signal # "break"
  <2>1. CASE i = n
    <3>1. o[i] = l
      BY <1>0, <1>1, <1>2, <2>1
    <3> QED BY <2>1, <3>1 DEF n
  <2>2. CASE i # n
    <3>1. i \in 1..n - 1 /\ i \in 1..Len(e)
      BY <1>0, <1>1, <2>2
    <3>2. o[i] = s[i]
      BY <1>1, <1>2, <3>1
    <3>3. s[i].signal # "break"
      BY DEF Iterates, Nested, MarkersAt, n
    <3> QED BY <3>2, <3>3
  <2> QED BY <2>1, <2>2
<1>5. Nested(u, o, pos)
  BY <1>2, <1>3, <1>4, RelabelledNested DEF Iterates, n
<1>6. Iterates(x, u, o, pos, k)
  BY <1>0, <1>3, <1>4, <1>5 DEF Iterates, n
<1> QED BY <1>2, <1>6 DEF o, e

(* A continue of a foreach inside x leaves an iteration of x.              *)
LEMMA ContinueInside ==
  ASSUME NEW x, NEW q \in Seq(Entry), q # <<>>, NEW stack \in Seq(LoopState), InBody(x, q, stack, 2),
         NEW top, top = stack[Len(stack)], Def[top.id].kind = "foreach", top.id \notin Inside(top.id),
         Def[q[1].step].kind \notin LoopKinds,
         NEW n \in 0..Len(Tail(q)), BodyPrefix(Tail(q), top.id, n),
         NEW l \in LoopState, l.id = top.id, l.signal # "break"
  PROVE  /\ n + 1 \in 1..Len(q)
         /\ InBody(x, SubSeq(q, (n + 1) + 1, Len(q)), Append(ExitedLoop(stack), l), 1)
<1>1. PICK u \in Seq(Entry), v \in Seq(Entry), below \in Seq(LoopState), s \in Seq(LoopState) :
        /\ q = u \o v /\ stack = below \o s /\ \E pos : Iterates(x, u, s, pos, 2)
  BY DEF InBody
<1>2. PICK pos : Iterates(x, u, s, pos, 2)
  BY <1>1
<1> DEFINE m == Len(u)
           k == Len(s)
           tu == Tail(u)
           tq == Tail(q)
           L == Len(q)
           id == top.id
<1>3. s # <<>> /\ Nested(u, s, pos) /\ u # <<>> /\ k \in Nat \ {0} /\ pos \in [1..k -> 1..m]
  BY <1>2, IterationLoops DEF Iterates
<1>4. s[k] = top /\ ExitedLoop(stack) = below \o ExitedLoop(s)
  BY <1>1, <1>3, JoinedStack
<1>5. /\ m \in Nat \ {0} /\ Len(v) \in Nat /\ L = m + Len(v) /\ \A i \in 1..m : q[i] = u[i]
  <2>1. m \in Nat \ {0} /\ Len(v) \in Nat /\ 0 \in 0..m
    BY <1>3, LenProperties, EmptySeq
  <2>2. L = m + Len(v) /\ \A i \in 1..m : q[i] = u[i]
    BY <1>1, <2>1, JoinedQueue
  <2> QED BY <2>1, <2>2
<1>6. tu \in Seq(Entry) /\ Len(tu) = m - 1 /\ \A i \in 1..m - 1 : tu[i] = u[i + 1]
  BY <1>3, TailSuffix
<1>7. tq \in Seq(Entry) /\ Len(tq) = L - 1 /\ \A i \in 1..L - 1 : tq[i] = q[i + 1]
  BY TailSuffix
<1>8. \A i \in 1..k : 1 < pos[i]
  <2>1. u[1] = q[1]
    BY <1>5
  <2>2. ~ (Def[u[1].step].kind \in LoopKinds)
    BY <2>1
  <2> QED BY <1>3, <1>4, <2>2, FrontIs
<1> HIDE DEF m, L, tu, tq
<1>9. \A i \in 1..m - 1 : tu[i] = tq[i]
  <2>1. \A i \in 1..m - 1 : i \in 1..L - 1 /\ i + 1 \in 1..m
    BY <1>5
  <2> QED BY <1>5, <1>6, <1>7, <2>1
<1>10. ASSUME NEW d \in 0..Len(tu), BodyPrefix(tu, id, d) PROVE d + 1 < pos[k]
  <2>1. k \in 1..k
    BY <1>3
  <2>2. 1 < pos[k]
    BY <1>8, <2>1
  <2> HIDE DEF k
  <2> QED BY <1>3, <1>4, <1>10, <2>2, MarkerStops DEF tu, k
<1>11. BodyPrefix(tq, id, n) /\ n \in 0..L - 1
  BY <1>7 DEF tq
<1> HIDE DEF k
<1>12. pos[k] \in 1..m /\ k \in 1..k
  <2>1. k \in 1..k /\ pos \in [1..k -> 1..m]
    BY <1>3
  <2> QED BY <2>1
<1>13. n <= m - 1
  <2> SUFFICES ASSUME ~ (n <= m - 1) PROVE FALSE
    OBVIOUS
  <2>1. m - 1 \in 0..Len(tu) /\ ~ (m - 1 < Len(tu)) /\ \A i \in 1..m - 1 : i \in 1..n
    BY <1>5, <1>6, <1>11
  <2>2. BodyPrefix(tu, id, m - 1)
    BY <1>9, <1>11, <2>1 DEF BodyPrefix
  <2>3. (m - 1) + 1 < pos[k]
    BY <1>10, <2>1, <2>2
  <2> QED BY <1>5, <1>12, <2>3
<1>14. n + 1 < pos[k]
  <2>1. n \in 0..Len(tu) /\ (n < Len(tu) => n + 1 \in 1..m - 1 /\ n < Len(tq))
        /\ \A i \in 1..n : i \in 1..m - 1
    BY <1>5, <1>6, <1>7, <1>11, <1>13
  <2>2. BodyPrefix(tu, id, n)
    BY <1>9, <1>11, <2>1 DEF BodyPrefix
  <2> QED BY <1>10, <2>1, <2>2
<1>15. n + 1 \in 1..m /\ n + 1 \in 0..m /\ n + 1 \in 1..L
  BY <1>5, <1>11, <1>12, <1>14
<1>16. \A i \in 1..Len(s) : n + 1 < pos[i]
  <2>1. ASSUME NEW i \in 1..k PROVE n + 1 < pos[i]
    <3>1. i = k \/ (i < k /\ pos[k] < pos[i] /\ pos[i] \in 1..m)
      <4>1. \A a, b \in 1..k : a < b => pos[b] < pos[a]
        BY <1>3 DEF Nested, Ordered, k
      <4> QED BY <1>3, <1>12, <4>1
    <3> QED BY <1>11, <1>12, <1>14, <3>1
  <2> QED BY <2>1 DEF k
<1> DEFINE d == n + 1
           t == SubSeq(u, d + 1, Len(u))
           o == Append(ExitedLoop(s), l)
<1>17. Iterates(x, t, s, Moved(pos, -d), 1)
  BY <1>2, <1>15, <1>16, DroppedIterates DEF m
<1>18. o \in Seq(LoopState) /\ Iterates(x, t, o, Moved(pos, -d), 1)
  <2> HIDE DEF t, d
  <2> QED BY <1>4, <1>17, RelabelledIterates DEF k
<1>19. /\ t \in Seq(Entry) /\ SubSeq(q, d + 1, Len(q)) = t \o v
  <2>1. d \in 0..Len(u)
    BY <1>15 DEF m
  <2> HIDE DEF d
  <2> QED BY <1>1, <2>1, JoinedQueue, SuffixParts
<1>20. Append(ExitedLoop(stack), l) = below \o o
  <2>1. ExitedLoop(s) \in Seq(LoopState)
    BY <1>3, ExitedLoopParts
  <2>2. Append(below \o ExitedLoop(s), l) = below \o Append(ExitedLoop(s), l)
    BY <2>1, JoinedPushed
  <2> QED BY <1>4, <2>2
<1> DEFINE qq == SubSeq(q, d + 1, Len(q))
           ss == Append(ExitedLoop(stack), l)
<1>21. qq = t \o v /\ ss = below \o o /\ t \in Seq(Entry) /\ o \in Seq(LoopState)
       /\ \E p : Iterates(x, t, o, p, 1)
  BY <1>18, <1>19, <1>20
<1> HIDE DEF qq, ss, t, o
<1>22. InBody(x, qq, ss, 1)
  BY <1>21 DEF InBody
<1> QED BY <1>15, <1>22 DEF qq, ss, L

-----------------------------------------------------------------------------
(* The loops on the stack, and those that were broken out of.              *)

Ids(stack) == {stack[i].id : i \in 1..Len(stack)}
Broken(stack) == {stack[i].id : i \in {j \in 1..Len(stack) : stack[j].signal = "break"}}

LEMMA ExitedIds ==
  ASSUME NEW stack \in Seq(LoopState), stack # <<>>
  PROVE  /\ ExitedLoop(stack) \in Seq(LoopState)
         /\ Ids(ExitedLoop(stack)) \subseteq Ids(stack)
         /\ Broken(ExitedLoop(stack)) \subseteq Broken(stack)
         /\ stack[Len(stack)].id \in Ids(stack)
<1> DEFINE e == ExitedLoop(stack)
           n == Len(stack)
<1>1. e \in Seq(LoopState) /\ Len(e) = n - 1 /\ \A i \in 1..n - 1 : e[i] = stack[i]
  BY ExitedLoopParts
<1>2. n \in 1..n /\ \A i \in 1..n - 1 : i \in 1..n
  BY LenProperties, EmptySeq
<1> HIDE DEF e, n
<1>3. Ids(e) \subseteq Ids(stack) /\ Broken(e) \subseteq Broken(stack) /\ stack[n].id \in Ids(stack)
  BY <1>1, <1>2 DEF Ids, Broken, n
<1> QED BY <1>1, <1>3 DEF e, n

LEMMA PushedIds ==
  ASSUME NEW stack \in Seq(LoopState), NEW l \in LoopState
  PROVE  /\ Append(stack, l) \in Seq(LoopState)
         /\ Ids(Append(stack, l)) \subseteq Ids(stack) \cup {l.id}
         /\ Broken(Append(stack, l)) \subseteq Broken(stack) \cup {l.id}
         /\ l.signal # "break" => Broken(Append(stack, l)) \subseteq Broken(stack)
<1> DEFINE s == Append(stack, l)
           n == Len(stack)
<1>1. s \in Seq(LoopState) /\ Len(s) = n + 1 /\ s[n + 1] = l /\ \A i \in 1..n : s[i] = stack[i]
  BY AppendProperties
<1>2. \A i \in 1..n + 1 : i = n + 1 \/ i \in 1..n
  BY LenProperties
<1> HIDE DEF s, n
<1>3. Ids(s) \subseteq Ids(stack) \cup {l.id}
  BY <1>1, <1>2 DEF Ids, n
<1>4. Broken(s) \subseteq Broken(stack) \cup {l.id}
  BY <1>1, <1>2 DEF Broken, n
<1>5. l.signal # "break" => Broken(s) \subseteq Broken(stack)
  BY <1>1, <1>2 DEF Broken, n
<1> QED BY <1>1, <1>3, <1>4, <1>5 DEF s

-----------------------------------------------------------------------------
(* The invariant of the queue and the loop stack.                          *)

Iterating(x, q, stack) ==
  HasBreak(x) /\ q # <<>> /\ q[1].step \in Inside(x) => InBody(x, q, stack, 2)

(* Only loops are on the stack and have continuations; an outermost loop   *)
(* with what is inside it is at one place, and a loop with a break is in   *)
(* an iteration when something inside it comes to the front.               *)
InPlace(q, stack) ==
  /\ FieldsReplaced(q)
  /\ \A r \in 1..Len(q) : q[r].cont => Def[q[r].step].kind = "while_loop"
  /\ \A id \in Ids(stack) : Def[id].kind \in LoopKinds
  /\ \A x \in Outermost : Placed(x, q, Ids(stack), Broken(stack)) /\ Iterating(x, q, stack)

(* How a step changes the queue: w takes the place of the first n entries. *)
Changes(q, n, w, m, t) ==
  /\ Replacing(q, n, w, m) /\ t = w \o SubSeq(q, n + 1, Len(q))
  /\ \A i \in 1..Len(w) : /\ \A field \in w[i].resolved : w[i].step \in Replaced(field)
                          /\ w[i].cont => Def[w[i].step].kind = "while_loop"
  /\ Def[q[1].step].kind \notin LoopKinds =>
       \A x \in Outermost : \A i, j \in 1..m :
         w[i].step \in Around(x) /\ w[j].step \in Around(x) => i = j

LEMMA StepKeeps ==
  ASSUME BreaksHold, NEW q \in Seq(Entry), NEW stack \in Seq(LoopState), InPlace(q, stack),
         NEW n \in 1..Len(q), NEW w \in Seq(Entry), NEW m \in Nat, NEW t, Changes(q, n, w, m, t),
         NEW other \in Seq(LoopState),
         \A id \in Ids(other) : id \in Ids(stack) \/ (id = q[1].step /\ Def[id].kind \in LoopKinds),
         \A x \in Outermost : Broken(other) \cap Family(x) # {} =>
           Broken(stack) \cap Family(x) # {} \/ Absent(x, t),
         \A x \in Outermost : /\ HasBreak(x) /\ t # <<>> /\ t[1].step \in Inside(x)
                              /\ q[1].step \in Inside(x) \/ (q[1].step = x /\ m # 0)
                              => InBody(x, t, other, 2)
  PROVE  t \in Seq(Entry) /\ InPlace(t, other)
<1> DEFINE r == SubSeq(q, n + 1, Len(q))
           k == Len(w)
           L == Len(q)
<1>0. k \in Nat /\ L \in Nat /\ n \in 0..L /\ n \in Nat
  BY LenProperties
<1>1. r \in Seq(Entry) /\ Len(r) = L - n /\ \A i \in 1..L - n : r[i] = q[i + n]
  BY <1>0, SuffixParts
<1>2. t = w \o r
  BY DEF Changes
<1> HIDE DEF r
<1>3. /\ w \o r \in Seq(Entry) /\ Len(w \o r) = k + Len(r)
      /\ \A i \in 1..k + Len(r) : (w \o r)[i] = IF i <= k THEN w[i] ELSE r[i - k]
  BY <1>1, ConcatProperties
<1>4. ASSUME NEW i \in 1..Len(t) PROVE (\E j \in 1..k : t[i] = w[j]) \/ (\E j \in 1..L : t[i] = q[j])
  <2>1. CASE i <= k
    <3>1. i \in 1..k /\ t[i] = w[i]
      BY <1>0, <1>1, <1>2, <1>3, <2>1
    <3> QED BY <3>1
  <2>2. CASE ~ (i <= k)
    <3>1. i - k \in 1..L - n /\ (i - k) + n \in 1..L /\ t[i] = r[i - k]
      BY <1>0, <1>1, <1>2, <1>3, <2>2
    <3>2. t[i] = q[(i - k) + n]
      BY <1>1, <3>1
    <3> QED BY <3>1, <3>2
  <2> QED BY <2>1, <2>2
<1>5. FieldsReplaced(t) /\ \A i \in 1..Len(t) : t[i].cont => Def[t[i].step].kind = "while_loop"
  <2>1. ASSUME NEW i \in 1..Len(t)
        PROVE  /\ \A field \in t[i].resolved : t[i].step \in Replaced(field)
               /\ t[i].cont => Def[t[i].step].kind = "while_loop"
    <3>1. CASE \E j \in 1..k : t[i] = w[j]
      BY <3>1 DEF Changes
    <3>2. CASE \E j \in 1..L : t[i] = q[j]
      BY <3>2 DEF InPlace, FieldsReplaced
    <3> QED BY <1>4, <3>1, <3>2
  <2> QED BY <2>1 DEF FieldsReplaced
<1>6. \A id \in Ids(other) : Def[id].kind \in LoopKinds
  BY DEF InPlace
<1>7. ASSUME NEW x \in Outermost PROVE Placed(x, t, Ids(other), Broken(other))
  <2>1. InOnePlace(x, Inside(x), Around(x)) /\ Placed(x, q, Ids(stack), Broken(stack))
    BY DEF BreaksHold, InPlace
  <2>2. /\ Replacing(q, n, w, m) /\ t = w \o SubSeq(q, n + 1, Len(q))
        /\ Def[q[1].step].kind \notin LoopKinds =>
             \A i, j \in 1..m : w[i].step \in Around(x) /\ w[j].step \in Around(x) => i = j
    BY DEF Changes
  <2>3. Broken(other) \cap Family(x) # {} => Broken(stack) \cap Family(x) # {} \/ Absent(x, t)
    OBVIOUS
  <2> QED BY <2>1, <2>2, <2>3, PlacedStep
<1>8. ASSUME NEW x \in Outermost, HasBreak(x), t # <<>>, t[1].step \in Inside(x)
      PROVE  InBody(x, t, other, 2)
  <2>1. InOnePlace(x, Inside(x), Around(x)) /\ Placed(x, q, Ids(stack), Broken(stack))
    BY DEF BreaksHold, InPlace
  <2>2. Replacing(q, n, w, m) /\ t = w \o SubSeq(q, n + 1, Len(q))
    BY DEF Changes
  <2>3. q[1].step \in Inside(x) \/ (q[1].step = x /\ m # 0)
    BY <1>8, <2>1, <2>2, OutsideStays
  <2> QED BY <1>8, <2>3
<1>9. t \in Seq(Entry)
  BY <1>2, <1>3
<1> QED BY <1>5, <1>6, <1>7, <1>8, <1>9 DEF InPlace, Iterating

(* The first n entries are taken.                                          *)
LEMMA DroppedChange ==
  ASSUME NEW q \in Seq(Entry), NEW n \in 1..Len(q)
  PROVE  Changes(q, n, <<>>, 0, SubSeq(q, n + 1, Len(q)))
<1> DEFINE r == SubSeq(q, n + 1, Len(q))
           w == <<>>
<1>1. Len(w) = 0 /\ w \in Seq(Entry) /\ 0 \in Nat /\ n \in 0..Len(q)
  BY EmptySeq, LenProperties
<1>2. r \in Seq(Entry)
  BY <1>1, SuffixParts
<1>3. w \o r = r
  BY <1>2, ConcatEmptySeq
<1>4. (\A i \in 1..0 : FALSE) /\ Len(w) = 0
  BY <1>1
<1> HIDE DEF w, r
<1> QED BY <1>3, <1>4 DEF Changes, Replacing, w, r

(* Something inside a loop with a break comes to the front.                *)
LEMMA FrontInside ==
  ASSUME BreaksHold, NEW q \in Seq(Entry), q # <<>>, NEW stack \in Seq(LoopState), InPlace(q, stack),
         NEW x \in Outermost, HasBreak(x), q[1].step \in Inside(x)
  PROVE  /\ stack # <<>> /\ InBody(x, q, stack, 2) /\ Comes(x, q, stack) /\ Recognized(x)
         /\ \A l \in Inside(x) : Def[l].kind \in LoopKinds => LoopHolds(l) /\ l \notin Inside(l)
<1>1. Recognized(x) /\ \A l \in Inside(x) : Def[l].kind \in LoopKinds => LoopHolds(l)
  BY DEF BreaksHold
<1>2. \A l \in Inside(x) : Def[l].kind \in LoopKinds => l \notin Inside(l)
  BY <1>1 DEF LoopHolds
<1>3. InBody(x, q, stack, 2)
  BY DEF InPlace, Iterating
<1>4. stack # <<>> /\ Comes(x, q, stack)
  BY <1>2, <1>3, BodyFront
<1> QED BY <1>1, <1>2, <1>3, <1>4

(* A step that is no loop is taken.                                        *)
LEMMA TakenInPlace ==
  ASSUME BreaksHold, NEW q \in Seq(Entry), q # <<>>, NEW stack \in Seq(LoopState), InPlace(q, stack),
         \A x \in Outermost : HasBreak(x) /\ q[1].step \in Inside(x) => Def[q[1].step].kind \notin LoopKinds
  PROVE  InPlace(Tail(q), stack)
<1> DEFINE t == SubSeq(q, 1 + 1, Len(q))
           w == <<>>
<1>1. 1 \in 1..Len(q) /\ 0 \in Nat /\ w \in Seq(Entry)
  BY LenProperties, EmptySeq
<1>2. Changes(q, 1, w, 0, t)
  BY <1>1, DroppedChange
<1>3. Tail(q) = t
  <2>1. Tail(q) = SubSeq(q, 2, Len(q))
    BY TailSuffix
  <2> QED BY <2>1
<1>4. ASSUME NEW x \in Outermost, HasBreak(x), t # <<>>, t[1].step \in Inside(x),
             q[1].step \in Inside(x)
      PROVE  InBody(x, t, stack, 2)
  <2>1. Comes(x, q, stack) /\ Def[q[1].step].kind \notin LoopKinds
    BY <1>4, FrontInside
  <2>2. Within(x, q[1].step, Tail(q), stack)
    BY <2>1 DEF Comes
  <2> HIDE DEF t
  <2> QED BY <1>3, <2>2, WithinBody
<1> HIDE DEF t, w
<1>5. /\ \A id \in Ids(stack) : id \in Ids(stack)
      /\ \A x \in Outermost : Broken(stack) \cap Family(x) # {} => Broken(stack) \cap Family(x) # {}
  OBVIOUS
<1>6. \A x \in Outermost : /\ HasBreak(x) /\ t # <<>> /\ t[1].step \in Inside(x)
                           /\ q[1].step \in Inside(x) \/ (q[1].step = x /\ 0 # 0)
                           => InBody(x, t, stack, 2)
  BY <1>4
<1>7. InPlace(t, stack)
  BY <1>1, <1>2, <1>5, <1>6, StepKeeps
<1> QED BY <1>3, <1>7

(* The stack without the loop that comes to the front, if it is on it.     *)
Below(q, stack) ==
  IF stack # <<>> /\ stack[Len(stack)].id = q[1].step THEN ExitedLoop(stack) ELSE stack

LEMMA BelowParts ==
  ASSUME BreaksHold, NEW q \in Seq(Entry), q # <<>>, NEW stack \in Seq(LoopState), InPlace(q, stack)
  PROVE  /\ Below(q, stack) \in Seq(LoopState) /\ Ids(Below(q, stack)) \subseteq Ids(stack)
         /\ Broken(Below(q, stack)) \subseteq Broken(stack)
         /\ \A x \in Outermost : HasBreak(x) /\ q[1].step \in Inside(x) =>
              Within(x, q[1].step, Tail(q), Below(q, stack))
<1>1. /\ Below(q, stack) \in Seq(LoopState) /\ Ids(Below(q, stack)) \subseteq Ids(stack)
      /\ Broken(Below(q, stack)) \subseteq Broken(stack)
  BY ExitedIds DEF Below
<1>2. ASSUME NEW x \in Outermost, HasBreak(x), q[1].step \in Inside(x)
      PROVE  Within(x, q[1].step, Tail(q), Below(q, stack))
  <2>1. stack # <<>> /\ Comes(x, q, stack)
    BY <1>2, FrontInside
  <2> QED BY <2>1 DEF Comes, Below
<1> QED BY <1>1, <1>2

(* A loop is over.                                                         *)
LEMMA LeftInPlace ==
  ASSUME BreaksHold, NEW q \in Seq(Entry), q # <<>>, NEW stack \in Seq(LoopState), InPlace(q, stack)
  PROVE  InPlace(Tail(q), Below(q, stack))
<1> DEFINE t == SubSeq(q, 1 + 1, Len(q))
           w == <<>>
           s == Below(q, stack)
<1>1. 1 \in 1..Len(q) /\ 0 \in Nat /\ w \in Seq(Entry)
  BY LenProperties, EmptySeq
<1>2. Changes(q, 1, w, 0, t)
  BY <1>1, DroppedChange
<1>3. Tail(q) = t
  <2>1. Tail(q) = SubSeq(q, 2, Len(q))
    BY TailSuffix
  <2> QED BY <2>1
<1> HIDE DEF t, w, s
<1>4. /\ s \in Seq(LoopState) /\ Ids(s) \subseteq Ids(stack) /\ Broken(s) \subseteq Broken(stack)
      /\ \A x \in Outermost : HasBreak(x) /\ q[1].step \in Inside(x) => InBody(x, t, s, 2)
  BY <1>3, BelowParts, WithinBody DEF s
<1>5. /\ \A id \in Ids(s) : id \in Ids(stack)
      /\ \A x \in Outermost : Broken(s) \cap Family(x) # {} => Broken(stack) \cap Family(x) # {}
  BY <1>4
<1>6. \A x \in Outermost : /\ HasBreak(x) /\ t # <<>> /\ t[1].step \in Inside(x)
                           /\ q[1].step \in Inside(x) \/ (q[1].step = x /\ 0 # 0)
                           => InBody(x, t, s, 2)
  BY <1>4
<1>7. InPlace(t, s)
  BY <1>1, <1>2, <1>4, <1>5, <1>6, StepKeeps
<1> QED BY <1>3, <1>7 DEF s

(* The entries for an iteration of f, and something behind them.           *)
LEMMA BodyIs ==
  ASSUME NEW f \in Step, NEW loop \in Step \cup {NoStep}, NEW resolved \in SUBSET Fields,
         \A field \in resolved : f \in Replaced(field)
  PROVE  IsParts(Queued(Def[f].body, loop, resolved), f, Def[f].body, loop)
<1>1. \A field \in resolved : Parts(f) \subseteq Replaced(field)
  BY ReplacedParts
<1> QED BY <1>1, PartsQueued

LEMMA Closing ==
  ASSUME NEW b \in Seq(Entry), NEW g \in Entry
  PROVE  /\ b \o <<g>> \in Seq(Entry) /\ Len(b \o <<g>>) = Len(b) + 1
         /\ (b \o <<g>>)[Len(b) + 1] = g
         /\ \A i \in 1..Len(b) : (b \o <<g>>)[i] = b[i]
         /\ \A i \in 1..Len(b) + 1 : i = Len(b) + 1 \/ i \in 1..Len(b)
<1> DEFINE w == Append(b, g)
<1>1. /\ w \in Seq(Entry) /\ Len(w) = Len(b) + 1 /\ w[Len(b) + 1] = g
      /\ \A i \in 1..Len(b) : w[i] = b[i]
  BY AppendProperties
<1>2. b \o <<g>> = w
  BY AppendIsConcat
<1>3. \A i \in 1..Len(b) + 1 : i = Len(b) + 1 \/ i \in 1..Len(b)
  BY LenProperties
<1> HIDE DEF w
<1> QED BY <1>1, <1>2, <1>3

(* An iteration of a loop starts.                                          *)
LEMMA BodyInPlace ==
  ASSUME BreaksHold, NEW q \in Seq(Entry), q # <<>>, NEW stack \in Seq(LoopState), InPlace(q, stack),
         NEW f, f = q[1].step, Def[f].kind \in LoopKinds,
         NEW g \in Entry, NEW l \in LoopState, l.id = f, Marks(g, l),
         NEW loop, loop = f \/ Def[f].kind = "while_loop",
         NEW b \in Seq(Entry), IsParts(b, f, Def[f].body, loop)
  PROVE  InPlace(b \o <<g>> \o Tail(q), Append(Below(q, stack), l))
<1> DEFINE w == b \o <<g>>
           m == Len(b)
           t == w \o SubSeq(q, 1 + 1, Len(q))
           base == Below(q, stack)
           s == Append(base, l)
<1>1. 1 \in 1..Len(q) /\ m \in Nat
  BY LenProperties, EmptySeq
<1>2. /\ w \in Seq(Entry) /\ Len(w) = m + 1 /\ w[m + 1] = g /\ \A i \in 1..m : w[i] = b[i]
      /\ \A i \in 1..m + 1 : i = m + 1 \/ i \in 1..m
  BY Closing
<1>3. w \o Tail(q) = t
  <2>1. Tail(q) = SubSeq(q, 2, Len(q)) /\ 1 + 1 = 2
    BY TailSuffix
  <2> HIDE DEF w
  <2> QED BY <2>1
<1> HIDE DEF w, m, t, base, s
<1>4. g.step = f /\ (g.cont => Def[f].kind = "while_loop") /\ \A field \in g.resolved : f \in Replaced(field)
  BY DEF Marks
<1>5. \A i \in 1..m : /\ b[i].step \in Parts(f) /\ ~b[i].cont
                      /\ \A field \in b[i].resolved : b[i].step \in Replaced(field)
  BY DEF IsParts, PartsOf, m
<1>6. Changes(q, 1, w, m, t)
  <2>1. Replacing(q, 1, w, m)
    BY <1>2, <1>4, <1>5 DEF Replacing
  <2>2. \A i \in 1..Len(w) : /\ \A field \in w[i].resolved : w[i].step \in Replaced(field)
                             /\ w[i].cont => Def[w[i].step].kind = "while_loop"
    BY <1>2, <1>4, <1>5
  <2> QED BY <2>1, <2>2 DEF Changes, t
<1>7. /\ base \in Seq(LoopState) /\ Ids(base) \subseteq Ids(stack) /\ Broken(base) \subseteq Broken(stack)
      /\ \A x \in Outermost : HasBreak(x) /\ f \in Inside(x) => Within(x, f, Tail(q), base)
  BY BelowParts DEF base
<1>8. /\ s \in Seq(LoopState) /\ Ids(s) \subseteq Ids(stack) \cup {f} /\ Broken(s) \subseteq Broken(stack)
  BY <1>7, PushedIds DEF Marks, s
<1>9. ASSUME NEW x \in Outermost, HasBreak(x), f \in Inside(x) PROVE InBody(x, t, s, 2)
  <2>1. Within(x, g.step, Tail(q), base) /\ PartsOf(b, l.id)
    BY <1>4, <1>7, <1>9 DEF IsParts
  <2>2. InBody(x, b \o <<g>> \o Tail(q), Append(base, l), 2)
    BY <2>1, WithinLoop
  <2> QED BY <1>3, <2>2 DEF s, w
<1>10. ASSUME HasBreak(f), f \in Outermost PROVE InBody(f, t, s, 2)
  <2>1. Recognized(f) /\ f \notin Inside(f) /\ Parts(f) \subseteq Inside(f)
    BY <1>10, OutermostParts DEF BreaksHold
  <2>2. ASSUME NEW r \in 2..Len(b) PROVE Belongs(b[r], f)
    <3>1. r \in 1..m /\ r \in 2..Len(Def[f].body)
      BY <1>1 DEF m, IsParts
    <3>2. b[r].step # f /\ ~b[r].cont /\ b[r].loop = loop /\ b[r].step = Def[f].body[r]
      BY <1>5, <2>1, <3>1 DEF IsParts, m
    <3>3. loop = f \/ StartsWith(b[r].step, f)
      BY <2>1, <3>1, <3>2 DEF Recognized
    <3> QED BY <3>2, <3>3 DEF Belongs, IsLoopStep, Id
  <2>3. Tail(q) \in Seq(Entry) /\ PartsOf(b, f)
    BY TailSuffix DEF IsParts
  <2>4. InBody(f, b \o <<g>> \o Tail(q), Append(base, l), 2)
    BY <1>7, <1>10, <2>2, <2>3, BodyStarts
  <2> QED BY <1>3, <2>4 DEF s, w
<1>11. \A x \in Outermost : /\ HasBreak(x) /\ t # <<>> /\ t[1].step \in Inside(x)
                            /\ q[1].step \in Inside(x) \/ (q[1].step = x /\ m # 0)
                            => InBody(x, t, s, 2)
  BY <1>9, <1>10
<1>12. /\ \A id \in Ids(s) : id \in Ids(stack) \/ (id = q[1].step /\ Def[id].kind \in LoopKinds)
       /\ \A x \in Outermost : Broken(s) \cap Family(x) # {} => Broken(stack) \cap Family(x) # {}
  BY <1>8
<1>13. InPlace(t, s)
  BY <1>1, <1>2, <1>6, <1>8, <1>11, <1>12, StepKeeps
<1> QED BY <1>3, <1>13 DEF s, w, base

(* A conditional is replaced by one of its branches.                       *)
LEMMA BranchInPlace ==
  ASSUME BreaksHold, NEW q \in Seq(Entry), q # <<>>, NEW stack \in Seq(LoopState), InPlace(q, stack),
         NEW f, f = q[1].step, Def[f].kind = "conditional",
         NEW steps \in {Def[f].body, Def[f].orelse},
         NEW b \in Seq(Entry), IsParts(b, f, steps, NoStep)
  PROVE  InPlace(b \o Tail(q), stack)
<1> DEFINE m == Len(b)
           t == b \o SubSeq(q, 1 + 1, Len(q))
<1>1. 1 \in 1..Len(q) /\ m \in Nat
  BY LenProperties, EmptySeq
<1>2. f \in Step
  <2>1. q[1] \in Entry
    BY <1>1, ElementOfSeq
  <2> QED BY <2>1 DEF Entry
<1>3. b \o Tail(q) = t
  <2>1. Tail(q) = SubSeq(q, 2, Len(q)) /\ 1 + 1 = 2
    BY TailSuffix
  <2> QED BY <2>1
<1> HIDE DEF m, t
<1>4. \A i \in 1..m : /\ b[i].step \in Parts(f) /\ ~b[i].cont /\ b[i].step = steps[i]
                      /\ \A field \in b[i].resolved : b[i].step \in Replaced(field)
  BY DEF IsParts, PartsOf, m
<1>5. ASSUME NEW x \in Outermost
      PROVE  \A i, j \in 1..m : b[i].step \in Around(x) /\ b[j].step \in Around(x) => i = j
  <2>1. Once(steps, Around(x))
    BY <1>2 DEF BreaksHold, InOnePlace, LoopKinds
  <2>2. DOMAIN steps = 1..m
    <3>1. steps \in Seq(Step) /\ m = Len(steps)
      BY <1>2, PartSteps DEF IsParts, m
    <3> QED BY <3>1, LenProperties
  <2> QED BY <1>4, <2>1, <2>2 DEF Once
<1>6. Changes(q, 1, b, m, t)
  <2>1. Replacing(q, 1, b, m)
    BY <1>4 DEF Replacing, m
  <2>2. \A i \in 1..Len(b) : /\ \A field \in b[i].resolved : b[i].step \in Replaced(field)
                             /\ b[i].cont => Def[b[i].step].kind = "while_loop"
    BY <1>4 DEF m
  <2> QED BY <1>5, <2>1, <2>2 DEF Changes, t
<1>7. ASSUME NEW x \in Outermost, HasBreak(x), f \in Inside(x) PROVE InBody(x, t, stack, 2)
  <2>1. Recognized(x) /\ Comes(x, q, stack)
    BY <1>7, FrontInside
  <2>2. f \in Direct(stack[Len(stack)].id) /\ Within(x, f, Tail(q), stack)
    BY <2>1 DEF Comes, LoopKinds
  <2>3. Len(b) = Len(steps) /\ (\A i \in 1..Len(b) : b[i].step = steps[i]) /\ PartsOf(b, f)
    BY DEF IsParts
  <2>4. InBody(x, b \o Tail(q), stack, 2)
    BY <1>2, <2>1, <2>2, <2>3, WithinBranch
  <2> QED BY <1>3, <2>4
<1>8. \A x \in Outermost : /\ HasBreak(x) /\ t # <<>> /\ t[1].step \in Inside(x)
                           /\ q[1].step \in Inside(x) \/ (q[1].step = x /\ m # 0)
                           => InBody(x, t, stack, 2)
  <2>1. \A x \in Outermost : f # x
    BY DEF Outermost, LoopKinds
  <2> QED BY <1>7, <2>1
<1>9. /\ \A id \in Ids(stack) : id \in Ids(stack)
      /\ \A x \in Outermost : Broken(stack) \cap Family(x) # {} => Broken(stack) \cap Family(x) # {}
  OBVIOUS
<1>10. InPlace(t, stack)
  BY <1>1, <1>6, <1>8, <1>9, StepKeeps
<1> QED BY <1>3, <1>10

(* A continuation puts its loop back.                                      *)
LEMMA PutBackInPlace ==
  ASSUME BreaksHold, NEW q \in Seq(Entry), q # <<>>, NEW stack \in Seq(LoopState), InPlace(q, stack),
         q[1].cont, stack # <<>>,
         NEW g \in Entry, g.step = q[1].step, ~g.cont,
         NEW l \in LoopState, l.id = stack[Len(stack)].id, l.signal # "break"
  PROVE  InPlace(<<g>> \o Tail(q), Append(ExitedLoop(stack), l))
<1> DEFINE w == <<g>>
           t == w \o SubSeq(q, 1 + 1, Len(q))
           base == ExitedLoop(stack)
           s == Append(base, l)
           f == q[1].step
<1>1. 1 \in 1..Len(q) /\ 0 \in Nat
  BY LenProperties, EmptySeq
<1>2. f \in Step /\ g.resolved \in SUBSET Fields /\ Def[f].kind = "while_loop"
  <2>1. q[1] \in Entry /\ g \in Entry
    BY <1>1, ElementOfSeq
  <2> QED BY <1>1, <2>1 DEF Entry, InPlace
<1>3. w \in Seq(Entry) /\ Len(w) = 1 /\ w[1] = g
  OBVIOUS
<1>4. w \o Tail(q) = t
  <2>1. Tail(q) = SubSeq(q, 2, Len(q)) /\ 1 + 1 = 2
    BY TailSuffix
  <2> HIDE DEF w
  <2> QED BY <2>1
<1> HIDE DEF w, t, base, s
<1>5. \A field \in g.resolved : f \in Replaced(field)
  BY <1>2, ReplacedParts
<1>6. Changes(q, 1, w, 0, t)
  <2>1. Replacing(q, 1, w, 0)
    <3>1. (\A i \in 1..0 : FALSE) /\ Len(w) = 0 + 1 /\ w[0 + 1] = g
      BY <1>3
    <3> QED BY <1>2, <3>1 DEF Replacing, LoopKinds
  <2>2. \A i \in 1..Len(w) : /\ \A field \in w[i].resolved : w[i].step \in Replaced(field)
                             /\ w[i].cont => Def[w[i].step].kind = "while_loop"
    BY <1>3, <1>5
  <2>3. Def[f].kind \in LoopKinds
    BY <1>2 DEF LoopKinds
  <2> QED BY <2>1, <2>2, <2>3 DEF Changes, t
<1>7. /\ base \in Seq(LoopState) /\ Ids(base) \subseteq Ids(stack)
      /\ Broken(base) \subseteq Broken(stack) /\ l.id \in Ids(stack)
  BY ExitedIds DEF base
<1>8. s \in Seq(LoopState) /\ Ids(s) \subseteq Ids(stack) /\ Broken(s) \subseteq Broken(stack)
  BY <1>7, PushedIds DEF s
<1>9. ASSUME NEW x \in Outermost, HasBreak(x), f \in Inside(x) PROVE InBody(x, t, s, 2)
  <2>1. Comes(x, q, stack)
    BY <1>9, FrontInside
  <2>2. f = l.id /\ Within(x, f, Tail(q), base)
    BY <2>1 DEF Comes, base
  <2>3. Marks(g, l)
    BY <1>2, <1>5, <2>2 DEF Marks, LoopKinds
  <2>4. InBody(x, <<g>> \o Tail(q), Append(base, l), 1)
    BY <2>2, <2>3, WithinMarked
  <2> QED BY <1>4, <2>4, WithinBody DEF s, w
<1>10. \A x \in Outermost : /\ HasBreak(x) /\ t # <<>> /\ t[1].step \in Inside(x)
                            /\ q[1].step \in Inside(x) \/ (q[1].step = x /\ 0 # 0)
                            => InBody(x, t, s, 2)
  BY <1>9
<1>11. /\ \A id \in Ids(s) : id \in Ids(stack)
       /\ \A x \in Outermost : Broken(s) \cap Family(x) # {} => Broken(stack) \cap Family(x) # {}
  BY <1>8
<1>12. InPlace(t, s)
  BY <1>1, <1>3, <1>6, <1>8, <1>10, <1>11, StepKeeps
<1> QED BY <1>4, <1>12 DEF s, w, base

-----------------------------------------------------------------------------
(* break and continue                                                      *)

LEMMA TailDropped ==
  ASSUME NEW q \in Seq(Entry), q # <<>>, NEW n \in 0..Len(Tail(q))
  PROVE  /\ n + 1 \in 1..Len(q)
         /\ SubSeq(Tail(q), n + 1, Len(Tail(q))) = SubSeq(q, (n + 1) + 1, Len(q))
<1> DEFINE t == Tail(q)
           L == Len(q)
           d == n + 1
           u == SubSeq(t, n + 1, Len(t))
           v == SubSeq(q, d + 1, L)
<1>0. L \in Nat \ {0}
  BY LenProperties, EmptySeq
<1>1. t \in Seq(Entry) /\ Len(t) = L - 1 /\ \A i \in 1..L - 1 : t[i] = q[i + 1]
  BY TailSuffix
<1>2. n \in 0..Len(t) /\ n \in Nat
  OBVIOUS
<1> HIDE DEF t
<1>3. u \in Seq(Entry) /\ Len(u) = Len(t) - n /\ \A i \in 1..Len(t) - n : u[i] = t[i + n]
  BY <1>1, <1>2, SuffixParts
<1>4. d \in 1..L /\ d \in 0..L /\ \A i \in 1..L - d : i \in 1..Len(t) - n /\ i + n \in 1..L - 1 /\ (i + n) + 1 = i + d
  BY <1>0, <1>1, <1>2
<1> HIDE DEF d, L
<1>5. v \in Seq(Entry) /\ Len(v) = L - d /\ \A i \in 1..L - d : v[i] = q[i + d]
  BY <1>4, SuffixParts DEF L
<1> HIDE DEF u, v
<1>6. Len(u) = Len(v)
  BY <1>0, <1>1, <1>2, <1>3, <1>5 DEF d
<1>7. ASSUME NEW i \in 1..Len(u) PROVE u[i] = v[i]
  <2>1. i \in 1..L - d
    BY <1>5, <1>6
  <2>2. i \in 1..Len(t) - n /\ i + n \in 1..L - 1 /\ (i + n) + 1 = i + d
    BY <1>4, <2>1
  <2>3. u[i] = t[i + n] /\ t[i + n] = q[(i + n) + 1] /\ v[i] = q[i + d]
    BY <1>1, <1>3, <1>5, <2>1, <2>2
  <2> QED BY <2>2, <2>3
<1>8. u = v
  BY <1>3, <1>5, <1>6, <1>7, SeqEqual
<1> QED BY <1>4, <1>8 DEF u, v, d, t, L

LEMMA AbsentBehind ==
  ASSUME NEW x, NEW q \in Seq(Entry), NEW d \in 0..Len(q),
         \A i \in d + 1..Len(q) : q[i].step \notin Inside(x) /\ q[i].step \notin Around(x)
  PROVE  Absent(x, SubSeq(q, d + 1, Len(q)))
<1> DEFINE t == SubSeq(q, d + 1, Len(q))
<1>1. Len(t) = Len(q) - d /\ \A i \in 1..Len(q) - d : t[i] = q[i + d]
  BY SuffixParts
<1>2. \A i \in 1..Len(q) - d : i + d \in d + 1..Len(q)
  BY LenProperties
<1> HIDE DEF t
<1>3. Absent(x, t)
  BY <1>1, <1>2 DEF Absent
<1> QED BY <1>3 DEF t

(* continue leaves the loop, and an iteration of an outer one.             *)
LEMMA ContinueInPlace ==
  ASSUME BreaksHold, NEW q \in Seq(Entry), q # <<>>, NEW stack \in Seq(LoopState), InPlace(q, stack),
         stack # <<>>, Def[q[1].step].kind = "continue",
         NEW top, top = stack[Len(stack)], NEW n \in 0..Len(Tail(q)), BodyPrefix(Tail(q), top.id, n),
         NEW l \in LoopState, l.id = top.id, l.signal # "break"
  PROVE  InPlace(SubSeq(Tail(q), n + 1, Len(Tail(q))), Append(ExitedLoop(stack), l))
<1> DEFINE d == n + 1
           t == SubSeq(q, d + 1, Len(q))
           base == ExitedLoop(stack)
           s == Append(base, l)
           w == <<>>
           f == q[1].step
<1>1. d \in 1..Len(q) /\ d \in 0..Len(q) /\ SubSeq(Tail(q), n + 1, Len(Tail(q))) = t
  <2>1. d \in 1..Len(q) /\ SubSeq(Tail(q), n + 1, Len(Tail(q))) = t
    BY TailDropped
  <2>2. \A i \in 1..Len(q) : i \in 0..Len(q)
    BY LenProperties
  <2> HIDE DEF d, t
  <2> QED BY <2>1, <2>2
<1>2. 0 \in Nat /\ w \in Seq(Entry) /\ n + 2 = d + 1 /\ d \in Nat
  BY <1>1, EmptySeq
<1> HIDE DEF d
<1>3. Changes(q, d, w, 0, t)
  BY <1>1, DroppedChange
<1>4. Len(t) = Len(q) - d /\ \A i \in 1..Len(q) - d : t[i] = q[i + d]
  BY <1>1, SuffixParts
<1> HIDE DEF t, w, base, s
<1>5. /\ base \in Seq(LoopState) /\ Ids(base) \subseteq Ids(stack)
      /\ Broken(base) \subseteq Broken(stack) /\ l.id \in Ids(stack)
  BY ExitedIds DEF base
<1>6. s \in Seq(LoopState) /\ Ids(s) \subseteq Ids(stack) /\ Broken(s) \subseteq Broken(stack)
  BY <1>5, PushedIds DEF s
<1>7. ASSUME NEW x \in Outermost, HasBreak(x), f \in Inside(x), t # <<>>, t[1].step \in Inside(x)
      PROVE  InBody(x, t, s, 2)
  <2>1. /\ Comes(x, q, stack) /\ InBody(x, q, stack, 2) /\ x \in Seq(STRING)
        /\ \A id \in Inside(x) : Def[id].kind \in LoopKinds => LoopHolds(id) /\ id \notin Inside(id)
    BY <1>7, FrontInside DEF Recognized
  <2>2. f \in Direct(top.id)
    BY <2>1 DEF Comes, LoopKinds
  <2>3. CASE top.id = x
    <3>1. Placed(x, q, Ids(stack), Broken(stack))
      BY DEF InPlace
    <3>2. PICK m \in 1..Len(q) : q[m].step = x /\ m <= n + 2
      BY <1>7, <2>1, <2>3, BodyDropped
    <3>3. \A i \in m + 1..Len(q) : q[i].step \notin Inside(x)
      BY <3>1, <3>2, BehindMarker
    <3>4. d + 1 \in 1..Len(q) /\ t[1] = q[d + 1]
      <4>1. Len(t) # 0 /\ Len(t) \in Nat
        <5>1. t \in Seq(Entry)
          BY <1>1, SuffixParts DEF t
        <5> QED BY <1>7, <5>1, EmptySeq, LenProperties
      <4>2. Len(q) \in Nat
        BY LenProperties
      <4>3. 1 \in 1..Len(q) - d /\ d + 1 \in 1..Len(q) /\ 1 + d = d + 1
        BY <1>1, <1>2, <1>4, <4>1, <4>2
      <4> QED BY <1>4, <4>3
    <3>5. m = d + 1 \/ d + 1 \in m + 1..Len(q)
      BY <1>2, <3>2, <3>4
    <3>6. x \notin Inside(x)
      BY OutermostParts
    <3> QED BY <1>7, <3>2, <3>3, <3>4, <3>5, <3>6
  <2>4. CASE top.id # x
    <3>1. top.id \in Inside(x) /\ Def[top.id].kind \in LoopKinds
      BY <2>1, <2>4, TopInside
    <3>2. LoopHolds(top.id) /\ top.id \notin Inside(top.id)
      BY <2>1, <3>1
    <3>3. Def[top.id].kind = "foreach"
      BY <2>2, <3>1, <3>2 DEF LoopHolds, LoopKinds
    <3>4. Def[q[1].step].kind \notin LoopKinds
      BY DEF LoopKinds
    <3>5. InBody(x, SubSeq(q, (n + 1) + 1, Len(q)), Append(ExitedLoop(stack), l), 1)
      BY <2>1, <3>2, <3>3, <3>4, ContinueInside
    <3> QED BY <3>5, WithinBody DEF t, s, base, d
  <2> QED BY <2>3, <2>4
<1>8. \A x \in Outermost : /\ HasBreak(x) /\ t # <<>> /\ t[1].step \in Inside(x)
                           /\ q[1].step \in Inside(x) \/ (q[1].step = x /\ 0 # 0)
                           => InBody(x, t, s, 2)
  BY <1>7
<1>9. /\ \A id \in Ids(s) : id \in Ids(stack)
      /\ \A x \in Outermost : Broken(s) \cap Family(x) # {} => Broken(stack) \cap Family(x) # {}
  BY <1>6
<1>10. InPlace(t, s)
  BY <1>1, <1>2, <1>3, <1>6, <1>8, <1>9, StepKeeps
<1> QED BY <1>1, <1>10 DEF s, base

(* The loop that break ends, and what is inside it, is no longer queued.   *)
LEMMA BreakDrops ==
  ASSUME BreaksHold, NEW q \in Seq(Entry), q # <<>>, NEW stack \in Seq(LoopState), InPlace(q, stack),
         stack # <<>>, Def[q[1].step].kind = "break",
         NEW top, top = stack[Len(stack)], NEW n \in 0..Len(Tail(q)), BodyPrefix(Tail(q), top.id, n),
         NEW d \in 1..Len(q),
         d = IF n < Len(Tail(q)) /\ IsLoopStep(Tail(q)[n + 1], top.id) THEN n + 2 ELSE n + 1,
         NEW x \in Outermost
  PROVE  /\ q[1].step \in Inside(x) /\ HasBreak(x) => top.id = x
         /\ top.id \in Family(x) => Absent(x, SubSeq(q, d + 1, Len(q)))
<1> DEFINE f == q[1].step
<1>0. /\ Placed(x, q, Ids(stack), Broken(stack)) /\ f \in Step /\ 1 \in 1..Len(q)
      /\ Len(q) \in Nat /\ n \in Nat /\ d \in Nat /\ d \in 0..Len(q)
  <2>1. 1 \in 1..Len(q) /\ Len(q) \in Nat /\ n \in Nat /\ d \in Nat /\ d \in 0..Len(q)
    BY LenProperties, EmptySeq
  <2>2. q[1] \in Entry
    BY <2>1, ElementOfSeq
  <2> QED BY <2>1, <2>2 DEF Entry, InPlace
<1>1. x \in Step /\ x \notin Inside(x) /\ f # x
  BY OutermostParts DEF LoopKinds
<1>2. f \in Inside(x) => HasBreak(x)
  BY DEF HasBreak
<1>3. ASSUME f \in Inside(x) PROVE top.id = x
  <2>1. /\ Comes(x, q, stack) /\ InBody(x, q, stack, 2)
        /\ \A id \in Inside(x) : Def[id].kind \in LoopKinds => LoopHolds(id)
    BY <1>2, <1>3, FrontInside
  <2>2. f \in Direct(top.id)
    BY <2>1 DEF Comes, LoopKinds
  <2>3. ~ (top.id \in Inside(x) /\ Def[top.id].kind \in LoopKinds)
    BY <2>1, <2>2 DEF LoopHolds
  <2> QED BY <2>1, <2>3, TopInside
<1>4. ASSUME f \in Inside(x)
      PROVE  \A i \in d + 1..Len(q) : q[i].step \notin Inside(x) /\ q[i].step \notin Around(x)
  <2>1. InBody(x, q, stack, 2) /\ x \in Seq(STRING) /\ top.id = x
    BY <1>2, <1>3, <1>4, FrontInside DEF Recognized
  <2>2. PICK m \in 1..Len(q) :
          /\ q[m].step = x /\ m <= n + 2
          /\ m = n + 2 => n < Len(Tail(q)) /\ IsLoopStep(Tail(q)[n + 1], x)
    BY <1>4, <2>1, BodyDropped
  <2>3. \A i \in m + 1..Len(q) : q[i].step \notin Inside(x) /\ q[i].step \notin Around(x)
    BY <1>0, <2>2, BehindMarker
  <2>4. m <= d
    <3>1. CASE m = n + 2
      <4>1. d = n + 2
        BY <2>1, <2>2, <3>1
      <4> QED BY <1>0, <3>1, <4>1
    <3>2. CASE m # n + 2
      <4>1. d = n + 1 \/ d = n + 2
        OBVIOUS
      <4> QED BY <1>0, <2>2, <3>2, <4>1
    <3> QED BY <3>1, <3>2
  <2>5. \A i \in d + 1..Len(q) : i \in m + 1..Len(q)
    BY <1>0, <2>2, <2>4
  <2> QED BY <2>3, <2>5
<1>5. ASSUME f \notin Inside(x), top.id \in Family(x)
      PROVE  \A i \in 1..Len(q) : q[i].step \notin Inside(x) /\ q[i].step \notin Around(x)
  <2>1. Ids(stack) \cap Family(x) # {}
    BY <1>5, ExitedIds
  <2>2. ASSUME NEW i \in 1..Len(q) PROVE q[i].step \notin Inside(x)
    <3>1. CASE i = 1
      BY <1>5, <3>1
    <3>2. CASE i # 1
      <4>1. 1 < i
        BY <3>2
      <4> QED BY <1>0, <1>5, <4>1 DEF Placed
    <3> QED BY <3>1, <3>2
  <2>3. ASSUME NEW i \in 1..Len(q), q[i].step \in Around(x) PROVE FALSE
    <3>1. q[i].step = x /\ \A j \in 1..i - 1 : q[j].step \in Inside(x)
      BY <1>0, <2>1, <2>3 DEF Placed
    <3>2. i # 1
      BY <1>1, <3>1
    <3>3. 1 \in 1..i - 1
      BY <3>2
    <3> QED BY <1>5, <3>1, <3>3
  <2> QED BY <2>2, <2>3
<1>6. ASSUME top.id \in Family(x) PROVE Absent(x, SubSeq(q, d + 1, Len(q)))
  <2>1. \A i \in d + 1..Len(q) : q[i].step \notin Inside(x) /\ q[i].step \notin Around(x)
    <3>1. \A i \in d + 1..Len(q) : i \in 1..Len(q)
      BY <1>0
    <3> QED BY <1>4, <1>5, <1>6, <3>1
  <2> QED BY <1>0, <2>1, AbsentBehind
<1> QED BY <1>3, <1>6

LEMMA BreakInPlace ==
  ASSUME BreaksHold, NEW q \in Seq(Entry), q # <<>>, NEW stack \in Seq(LoopState), InPlace(q, stack),
         stack # <<>>, Def[q[1].step].kind = "break",
         NEW top, top = stack[Len(stack)], NEW n \in 0..Len(Tail(q)), BodyPrefix(Tail(q), top.id, n),
         NEW first,
         first = IF n < Len(Tail(q)) /\ IsLoopStep(Tail(q)[n + 1], top.id) THEN n + 2 ELSE n + 1,
         NEW l \in LoopState, l.id = top.id
  PROVE  InPlace(SubSeq(Tail(q), first, Len(Tail(q))), Append(ExitedLoop(stack), l))
<1> DEFINE t == SubSeq(q, first + 1, Len(q))
           base == ExitedLoop(stack)
           s == Append(base, l)
           w == <<>>
<1>1. first \in 1..Len(q) /\ SubSeq(Tail(q), first, Len(Tail(q))) = t
  <2>1. Len(Tail(q)) \in Nat
    BY TailSuffix, LenProperties
  <2>2. PICK k \in 0..Len(Tail(q)) : first = k + 1
    <3>1. CASE first = n + 1
      BY <3>1
    <3>2. CASE first = n + 2 /\ n < Len(Tail(q))
      <4>1. n + 1 \in 0..Len(Tail(q)) /\ first = (n + 1) + 1
        BY <2>1, <3>2
      <4> QED BY <4>1
    <3> QED BY <3>1, <3>2
  <2> QED BY <2>2, TailDropped
<1>2. 0 \in Nat /\ w \in Seq(Entry)
  BY EmptySeq
<1>3. Changes(q, first, w, 0, t)
  BY <1>1, DroppedChange
<1>4. \A x \in Outermost : /\ q[1].step \in Inside(x) /\ HasBreak(x) => top.id = x
                           /\ top.id \in Family(x) => Absent(x, t)
  BY <1>1, BreakDrops
<1>5. t \in Seq(Entry)
  <2>1. first \in 0..Len(q)
    BY <1>1, LenProperties
  <2> QED BY <2>1, SuffixParts
<1> HIDE DEF t, w, base, s
<1>6. /\ base \in Seq(LoopState) /\ Ids(base) \subseteq Ids(stack)
      /\ Broken(base) \subseteq Broken(stack) /\ l.id \in Ids(stack)
  BY ExitedIds DEF base
<1>7. s \in Seq(LoopState) /\ Ids(s) \subseteq Ids(stack) /\ Broken(s) \subseteq Broken(stack) \cup {top.id}
  BY <1>6, PushedIds DEF s
<1>8. ASSUME NEW x \in Outermost, HasBreak(x), q[1].step \in Inside(x), t # <<>>, t[1].step \in Inside(x)
      PROVE  FALSE
  <2>1. Absent(x, t)
    BY <1>4, <1>8 DEF Family
  <2>2. 1 \in 1..Len(t)
    BY <1>5, <1>8, LenProperties, EmptySeq
  <2> QED BY <1>8, <2>1, <2>2 DEF Absent
<1>9. \A x \in Outermost : /\ HasBreak(x) /\ t # <<>> /\ t[1].step \in Inside(x)
                           /\ q[1].step \in Inside(x) \/ (q[1].step = x /\ 0 # 0)
                           => InBody(x, t, s, 2)
  BY <1>8
<1>10. \A id \in Ids(s) : id \in Ids(stack) \/ (id = q[1].step /\ Def[id].kind \in LoopKinds)
  BY <1>7
<1>11. \A x \in Outermost : Broken(s) \cap Family(x) # {} =>
         Broken(stack) \cap Family(x) # {} \/ Absent(x, t)
  BY <1>4, <1>7
<1>12. first \in 1..Len(q)
  BY <1>1
<1>13. s \in Seq(LoopState)
  BY <1>7
<1>14. InPlace(t, s)
  BY <1>2, <1>3, <1>9, <1>10, <1>11, <1>12, <1>13, StepKeeps
<1> QED BY <1>1, <1>14 DEF s, base

-----------------------------------------------------------------------------
(* The actions, for the invariant of the queue and the loop stack.         *)

(* The first entry is taken, and nothing inside a loop with a break is     *)
(* taken in this way.                                                      *)
LEMMA OutsideTaken ==
  ASSUME BreaksHold, NEW q \in Seq(Entry), q # <<>>, NEW stack \in Seq(LoopState), InPlace(q, stack),
         \A x \in Outermost : HasBreak(x) => q[1].step \notin Inside(x),
         NEW other \in Seq(LoopState), Broken(other) \subseteq Broken(stack),
         \A id \in Ids(other) : id \in Ids(stack) \/ (id = q[1].step /\ Def[id].kind \in LoopKinds)
  PROVE  InPlace(Tail(q), other)
<1> DEFINE t == SubSeq(q, 1 + 1, Len(q))
           w == <<>>
<1>1. 1 \in 1..Len(q) /\ 0 \in Nat /\ w \in Seq(Entry)
  BY LenProperties, EmptySeq
<1>2. Changes(q, 1, w, 0, t)
  BY <1>1, DroppedChange
<1>3. Tail(q) = t
  <2>1. Tail(q) = SubSeq(q, 2, Len(q))
    BY TailSuffix
  <2> QED BY <2>1
<1> HIDE DEF t, w
<1>4. /\ \A x \in Outermost : Broken(other) \cap Family(x) # {} => Broken(stack) \cap Family(x) # {}
      /\ \A x \in Outermost : /\ HasBreak(x) /\ t # <<>> /\ t[1].step \in Inside(x)
                              /\ q[1].step \in Inside(x) \/ (q[1].step = x /\ 0 # 0)
                              => InBody(x, t, other, 2)
  OBVIOUS
<1>5. InPlace(t, other)
  BY <1>1, <1>2, <1>4, StepKeeps
<1> QED BY <1>3, <1>5

(* The continuation of a loop that was broken out of is taken.             *)
LEMMA BrokenInPlace ==
  ASSUME BreaksHold, NEW q \in Seq(Entry), q # <<>>, NEW stack \in Seq(LoopState), InPlace(q, stack),
         q[1].cont, stack # <<>>, stack[Len(stack)].signal = "break"
  PROVE  InPlace(Tail(q), ExitedLoop(stack))
<1>1. \A x \in Outermost : HasBreak(x) => q[1].step \notin Inside(x)
  <2> SUFFICES ASSUME NEW x \in Outermost, HasBreak(x), q[1].step \in Inside(x) PROVE FALSE
    OBVIOUS
  <2>1. Comes(x, q, stack)
    BY FrontInside
  <2> QED BY <2>1 DEF Comes
<1>2. /\ ExitedLoop(stack) \in Seq(LoopState) /\ Ids(ExitedLoop(stack)) \subseteq Ids(stack)
      /\ Broken(ExitedLoop(stack)) \subseteq Broken(stack)
  BY ExitedIds
<1>3. \A id \in Ids(ExitedLoop(stack)) :
        id \in Ids(stack) \/ (id = q[1].step /\ Def[id].kind \in LoopKinds)
  BY <1>2
<1> QED BY <1>1, <1>2, <1>3, OutsideTaken

(* The front of the queue.                                                 *)
LEMMA FrontOf ==
  ASSUME TypeOK, main_queue # <<>>
  PROVE  /\ Front = main_queue[1] /\ Rest = Tail(main_queue)
         /\ main_queue \in Seq(Entry) /\ loop_stack \in Seq(LoopState)
         /\ Front \in Entry /\ Front.step \in Step /\ Front.resolved \in SUBSET Fields
         /\ Def[Front.step] \in Definition /\ Def[Front.step].limit \in Nat
         /\ Def[Front.step].items \in SUBSET Nat
<1>1. main_queue \in Seq(Entry) /\ loop_stack \in Seq(LoopState)
  BY DEF TypeOK
<1>2. Front = main_queue[1] /\ Rest = Tail(main_queue)
  BY <1>1, TailSuffix DEF Front, Rest
<1> QED BY <1>1, <1>2, FrontTyped DEF Entry, Definition

(* A field that is replaced in the front may be.                           *)
LEMMA FrontReplaced ==
  ASSUME TypeOK, main_queue # <<>>, InPlace(main_queue, loop_stack)
  PROVE  \A field \in Front.resolved : Front.step \in Replaced(field)
<1>1. main_queue \in Seq(Entry) /\ Front = main_queue[1]
  BY FrontOf
<1>2. 1 \in 1..Len(main_queue)
  BY <1>1, LenProperties, EmptySeq
<1> QED BY <1>1, <1>2 DEF InPlace, FieldsReplaced

(* A loop inside one with a break has a condition that is no template, or  *)
(* a list that can be evaluated and is not empty.                          *)
LEMMA InsideEvaluates ==
  ASSUME BreaksHold, TypeOK, main_queue # <<>>, InPlace(main_queue, loop_stack),
         NEW x \in Outermost, HasBreak(x), Front.step \in Inside(x)
  PROVE  /\ Def[Front.step].kind = "while_loop" => ~Spoiled("condition")
         /\ Def[Front.step].kind = "foreach" =>
              ~EvaluationFails("items") /\ 0 \notin Def[Front.step].items
         /\ loop_stack # <<>>
<1>1. /\ main_queue \in Seq(Entry) /\ loop_stack \in Seq(LoopState) /\ Front = main_queue[1]
  BY FrontOf
<1>2. /\ loop_stack # <<>>
      /\ Def[Front.step].kind \in LoopKinds => LoopHolds(Front.step)
  BY <1>1, FrontInside
<1>3. \A field \in Front.resolved : Front.step \in Replaced(field)
  BY FrontReplaced
<1> QED BY <1>2, <1>3 DEF LoopHolds, LoopKinds, EvaluationFails, Spoiled

(* A step is taken, and the stack stays.                                   *)
LEMMA TakenKeeps ==
  ASSUME BreaksHold, TypeOK, main_queue # <<>>, InPlace(main_queue, loop_stack),
         \A x \in Outermost : HasBreak(x) /\ Front.step \in Inside(x) => Def[Front.step].kind \notin LoopKinds,
         main_queue' = Rest, loop_stack' = loop_stack
  PROVE  InPlace(main_queue', loop_stack')
<1>1. /\ main_queue \in Seq(Entry) /\ loop_stack \in Seq(LoopState)
      /\ Front = main_queue[1] /\ Rest = Tail(main_queue)
  BY FrontOf
<1>2. InPlace(Tail(main_queue), loop_stack)
  BY <1>1, TakenInPlace
<1> QED BY <1>1, <1>2

(* A conditional is processed.                                             *)
LEMMA BranchKeeps ==
  ASSUME BreaksHold, TypeOK, InPlace(main_queue, loop_stack), Scanning({"conditional"}),
         NEW branch \in {Def[Front.step].body, Def[Front.step].orelse},
         GoOn(Queued(branch, NoStep, Front.resolved \cup {"items"}) \o Rest, loop_stack)
  PROVE  InPlace(main_queue', loop_stack')
<1> DEFINE resolved == Front.resolved \cup {"items"}
           f == Front.step
           b == Queued(branch, NoStep, resolved)
<1>1. /\ main_queue \in Seq(Entry) /\ loop_stack \in Seq(LoopState) /\ main_queue # <<>>
      /\ Front = main_queue[1] /\ Rest = Tail(main_queue) /\ f \in Step
      /\ Front.resolved \in SUBSET Fields /\ Def[f].kind = "conditional"
  BY FrontOf DEF Scanning
<1>2. resolved \in SUBSET Fields /\ \A field \in resolved : Parts(f) \subseteq Replaced(field)
  <2>1. \A field \in Front.resolved : Parts(f) \subseteq Replaced(field)
    BY <1>1, FrontReplaced, ReplacedParts
  <2>2. Parts(f) \subseteq Replaced("items")
    BY <1>1, ReplacedParts DEF Fields, Replaces
  <2> QED BY <1>1, <2>1, <2>2 DEF Fields
<1>3. main_queue' = b \o Rest /\ loop_stack' = loop_stack
  BY DEF GoOn
<1> HIDE DEF resolved, b
<1>4. IsParts(b, f, branch, NoStep)
  BY <1>1, <1>2, PartsQueued DEF b
<1>5. b \in Seq(Entry)
  BY <1>4 DEF IsParts
<1>6. InPlace(b \o Tail(main_queue), loop_stack)
  BY <1>1, <1>4, <1>5, BranchInPlace
<1> QED BY <1>1, <1>3, <1>6

(* The stack of a while loop: resumed or new, it is the one below with the *)
(* loop on top of it.                                                      *)
LEMMA WhileTop ==
  ASSUME TypeOK, Scanning({"while_loop"})
  PROVE  /\ ExitedLoop(WhileStack) = Below(main_queue, loop_stack)
         /\ \E l \in LoopState : /\ l.id = Front.step /\ l.signal = "none"
                                 /\ BodyQueued(WhileStack) = Append(Below(main_queue, loop_stack), l)
<1> DEFINE base == Below(main_queue, loop_stack)
<1>1. /\ main_queue \in Seq(Entry) /\ loop_stack \in Seq(LoopState) /\ main_queue # <<>>
      /\ Front = main_queue[1] /\ Front.step \in Step /\ Def[Front.step].limit \in Nat
  BY FrontOf DEF Scanning
<1>2. /\ base = (IF InLoop(Front.step) THEN ExitedLoop(loop_stack) ELSE loop_stack)
      /\ base \in Seq(LoopState)
  BY <1>1, ExitedLoopParts DEF Below, InLoop, CurrentLoop
<1> DEFINE k == IF InLoop(Front.step) THEN Resumed(CurrentLoop)
                                      ELSE NewLoop(Front.step, Def[Front.step].limit)
           l == [k EXCEPT !.runs = @ + 1]
<1>3. k \in LoopState /\ k.id = Front.step /\ k.signal = "none" /\ WhileStack = Append(base, k)
  <2>1. CASE InLoop(Front.step)
    <3>1. /\ CurrentLoop \in LoopState /\ Resumed(CurrentLoop) \in LoopState /\ CurrentLoop.id = Front.step
          /\ Advanced = Append(ExitedLoop(loop_stack), Resumed(CurrentLoop))
      BY <1>1, <2>1, ResumedStack DEF InLoop
    <3>2. Resumed(CurrentLoop).id = Front.step /\ Resumed(CurrentLoop).signal = "none"
      BY <3>1 DEF Resumed, LoopState
    <3>3. WhileStack = Advanced /\ k = Resumed(CurrentLoop) /\ base = ExitedLoop(loop_stack)
      BY <1>2, <2>1 DEF WhileStack
    <3> HIDE DEF k, base
    <3> QED BY <3>1, <3>2, <3>3
  <2>2. CASE ~InLoop(Front.step)
    <3>1. /\ k = NewLoop(Front.step, Def[Front.step].limit) /\ base = loop_stack
          /\ WhileStack = Append(loop_stack, NewLoop(Front.step, Def[Front.step].limit))
      BY <1>2, <2>2 DEF WhileStack
    <3> HIDE DEF k, base
    <3>2. k \in LoopState /\ k.id = Front.step /\ k.signal = "none"
      BY <1>1, <3>1 DEF NewLoop, LoopState, Signals
    <3> QED BY <3>1, <3>2
  <2> QED BY <2>1, <2>2
<1> HIDE DEF k, base
<1>4. l \in LoopState /\ l.id = Front.step /\ l.signal = "none"
  <2> DEFINE m == k.runs + 1
  <2>1. m \in Nat /\ l = [k EXCEPT !.runs = m]
    BY <1>3 DEF LoopState
  <2> HIDE DEF m, l
  <2> QED BY <1>3, <2>1 DEF LoopState
<1>5. ExitedLoop(WhileStack) = base /\ BodyQueued(WhileStack) = Append(base, l)
  BY <1>2, <1>3, PushedStack
<1> HIDE DEF l
<1> QED BY <1>4, <1>5 DEF base

(* A while loop ends.                                                      *)
LEMMA WhileEndKeeps ==
  ASSUME BreaksHold, TypeOK, InPlace(main_queue, loop_stack), Scanning({"while_loop"}),
         main_queue' = Rest, loop_stack' = ExitedLoop(WhileStack)
  PROVE  InPlace(main_queue', loop_stack')
<1>1. /\ main_queue \in Seq(Entry) /\ loop_stack \in Seq(LoopState) /\ main_queue # <<>>
      /\ Rest = Tail(main_queue)
  BY FrontOf DEF Scanning
<1>2. InPlace(Tail(main_queue), Below(main_queue, loop_stack))
  BY <1>1, LeftInPlace
<1>3. ExitedLoop(WhileStack) = Below(main_queue, loop_stack)
  BY WhileTop
<1> QED BY <1>1, <1>2, <1>3

(* An iteration of a loop starts, with g behind its body.                  *)
LEMMA BodyKeeps ==
  ASSUME BreaksHold, TypeOK, InPlace(main_queue, loop_stack), main_queue # <<>>,
         Def[Front.step].kind \in LoopKinds,
         NEW g \in Entry, g.step = Front.step, g.resolved = Front.resolved,
         g.cont => Def[Front.step].kind = "while_loop",
         NEW l \in LoopState, l.id = Front.step, l.signal # "break",
         NEW loop \in Step \cup {NoStep}, loop = Front.step \/ Def[Front.step].kind = "while_loop",
         main_queue' = Queued(Def[Front.step].body, loop, Front.resolved) \o <<g>> \o Rest,
         loop_stack' = Append(Below(main_queue, loop_stack), l)
  PROVE  InPlace(main_queue', loop_stack')
<1> DEFINE f == Front.step
           b == Queued(Def[f].body, loop, Front.resolved)
<1>1. /\ main_queue \in Seq(Entry) /\ loop_stack \in Seq(LoopState)
      /\ Front = main_queue[1] /\ Rest = Tail(main_queue) /\ f \in Step
      /\ Front.resolved \in SUBSET Fields
  BY FrontOf
<1>2. \A field \in Front.resolved : f \in Replaced(field)
  BY FrontReplaced
<1>3. IsParts(b, f, Def[f].body, loop)
  BY <1>1, <1>2, BodyIs
<1>4. b \in Seq(Entry)
  BY <1>3 DEF IsParts
<1>5. Marks(g, l)
  BY <1>2 DEF Marks
<1>6. main_queue' = b \o <<g>> \o Tail(main_queue) /\ f = main_queue[1].step
  BY <1>1
<1> HIDE DEF b, f
<1>7. InPlace(b \o <<g>> \o Tail(main_queue), Append(Below(main_queue, loop_stack), l))
  <2>1. Def[f].kind \in LoopKinds /\ l.id = f /\ (loop = f \/ Def[f].kind = "while_loop")
    BY DEF f
  <2> QED BY <1>1, <1>3, <1>4, <1>5, <1>6, <2>1, BodyInPlace
<1> QED BY <1>6, <1>7

(* An iteration of a while loop starts.                                    *)
LEMMA WhileKeeps ==
  ASSUME BreaksHold, TypeOK, InPlace(main_queue, loop_stack), WhileIterate
  PROVE  InPlace(main_queue', loop_stack')
<1> DEFINE g == [Front EXCEPT !.cont = TRUE, !.loop = NoStep]
<1>1. /\ main_queue # <<>> /\ Front \in Entry /\ Scanning({"while_loop"})
      /\ Def[Front.step].kind = "while_loop" /\ Def[Front.step].kind \in LoopKinds
  BY FrontOf DEF WhileIterate, Scanning, LoopKinds
<1>2. g \in Entry /\ g.step = Front.step /\ g.resolved = Front.resolved
  BY <1>1 DEF Entry
<1> HIDE DEF g
<1>3. /\ main_queue' = Queued(Def[Front.step].body, NoStep, Front.resolved) \o <<g>> \o Rest
      /\ loop_stack' = BodyQueued(WhileStack)
  BY DEF WhileIterate, GoOn, g
<1>4. PICK l \in LoopState :
        /\ l.id = Front.step /\ l.signal = "none"
        /\ BodyQueued(WhileStack) = Append(Below(main_queue, loop_stack), l)
  BY <1>1, WhileTop
<1>5. l.signal # "break" /\ NoStep \in Step \cup {NoStep}
      /\ loop_stack' = Append(Below(main_queue, loop_stack), l)
  BY <1>3, <1>4
<1> QED BY <1>1, <1>2, <1>3, <1>4, <1>5, BodyKeeps

(* The entry that a continuation puts back.                                *)
LEMMA QueuedOne ==
  ASSUME NEW s \in Step
  PROVE  Queued(<<s>>, NoStep, Fields)
           = << [step |-> s, cont |-> FALSE, loop |-> NoStep, resolved |-> Fields] >>
<1> DEFINE e == [step |-> s, cont |-> FALSE, loop |-> NoStep, resolved |-> Fields]
           steps == <<s>>
           w == Queued(steps, NoStep, Fields)
           v == <<e>>
<1>1. steps \in Seq(Step) /\ Len(steps) = 1 /\ steps[1] = s
  OBVIOUS
<1>2. e \in Entry
  BY DEF Entry
<1> HIDE DEF steps
<1>3. /\ w \in Seq(Entry) /\ Len(w) = 1
      /\ w[1] = [step |-> steps[1], cont |-> FALSE, loop |-> NoStep, resolved |-> Fields]
  BY <1>1, QueuedTyped, QueuedSteps
<1> HIDE DEF w, e
<1>4. v \in Seq(Entry) /\ Len(v) = 1 /\ v[1] = e
  BY <1>2
<1> HIDE DEF v
<1>5. w[1] = e
  BY <1>1, <1>3 DEF e
<1>6. w = v
  BY <1>3, <1>4, <1>5, SeqEqual
<1> QED BY <1>6 DEF w, v, steps, e

(* A continuation.                                                         *)
LEMMA ContinuationKeeps ==
  ASSUME BreaksHold, TypeOK, InPlace(main_queue, loop_stack), ProcessContinuation
  PROVE  InPlace(main_queue', loop_stack')
<1>1. /\ main_queue # <<>> /\ Front.cont
      /\ main_queue \in Seq(Entry) /\ loop_stack \in Seq(LoopState)
      /\ Front = main_queue[1] /\ Rest = Tail(main_queue) /\ Front.step \in Step
  BY FrontOf DEF ProcessContinuation
<1>2. CASE loop_stack = <<>>
  <2>1. main_queue' = Rest /\ loop_stack' = loop_stack
    BY <1>2 DEF ProcessContinuation, Fail
  <2>2. \A x \in Outermost : HasBreak(x) => Front.step \notin Inside(x)
    BY <1>1, <1>2, InsideEvaluates
  <2> QED BY <1>1, <2>1, <2>2, TakenKeeps
<1>3. CASE loop_stack # <<>> /\ CurrentLoop.signal = "break"
  <2>1. main_queue' = Rest /\ loop_stack' = ExitedLoop(loop_stack)
    BY <1>3 DEF ProcessContinuation, GoOn
  <2>2. InPlace(Tail(main_queue), ExitedLoop(loop_stack))
    BY <1>1, <1>3, BrokenInPlace DEF CurrentLoop
  <2> QED BY <1>1, <2>1, <2>2
<1>4. CASE loop_stack # <<>> /\ CurrentLoop.signal # "break"
  <2> DEFINE g == [step |-> Front.step, cont |-> FALSE, loop |-> NoStep, resolved |-> Fields]
             l == [CurrentLoop EXCEPT !.signal = "none"]
  <2>1. /\ main_queue' = Queued(<<Front.step>>, NoStep, Fields) \o Rest
        /\ loop_stack' = Signalled("none")
    BY <1>4 DEF ProcessContinuation, GoOn
  <2>2. g \in Entry /\ g.step = Front.step /\ ~g.cont
    BY <1>1 DEF Entry
  <2>3. Queued(<<Front.step>>, NoStep, Fields) = <<g>>
    BY <1>1, QueuedOne
  <2>4. /\ l \in LoopState /\ CurrentLoop \in LoopState
        /\ Signalled("none") = Append(ExitedLoop(loop_stack), l)
    BY <1>1, <1>4, ResumedStack DEF Signals
  <2>5. l.id = loop_stack[Len(loop_stack)].id /\ l.signal # "break"
    BY <2>4 DEF LoopState, CurrentLoop
  <2> HIDE DEF g, l
  <2>6. InPlace(<<g>> \o Tail(main_queue), Append(ExitedLoop(loop_stack), l))
    BY <1>1, <1>4, <2>2, <2>4, <2>5, PutBackInPlace
  <2> QED BY <1>1, <2>1, <2>3, <2>4, <2>6
<1> QED BY <1>2, <1>3, <1>4

(* A foreach is entered.                                                   *)
LEMMA EnterKeeps ==
  ASSUME BreaksHold, TypeOK, InPlace(main_queue, loop_stack), ForeachEnter
  PROVE  InPlace(main_queue', loop_stack')
<1>1. /\ main_queue # <<>> /\ Front \in Entry /\ ~Front.cont /\ ~InLoop(Front.step)
      /\ Def[Front.step].kind = "foreach" /\ Def[Front.step].kind \in LoopKinds
      /\ main_queue \in Seq(Entry) /\ loop_stack \in Seq(LoopState) /\ Front.step \in Step
      /\ Front = main_queue[1] /\ Rest = Tail(main_queue) /\ Def[Front.step].items \in SUBSET Nat
  BY FrontOf DEF ForeachEnter, Scanning, LoopKinds
<1>2. PICK n \in Def[Front.step].items :
        LET entered == Append(loop_stack, NewLoop(Front.step, n))
        IN  IF n = 0 THEN GoOn(Rest, entered) ELSE GoOn(ForeachBody, BodyQueued(entered))
  BY DEF ForeachEnter
<1> DEFINE k == NewLoop(Front.step, n)
           l == [k EXCEPT !.runs = @ + 1]
<1>3. k \in LoopState /\ k.id = Front.step /\ k.signal = "none" /\ k.runs = 0
  <2>1. n \in Nat
    BY <1>1
  <2> QED BY <1>1, <2>1 DEF NewLoop, LoopState, Signals
<1>4. IF n = 0 THEN GoOn(Rest, Append(loop_stack, k))
               ELSE GoOn(ForeachBody, BodyQueued(Append(loop_stack, k)))
  BY <1>2
<1> HIDE DEF k
<1>5. CASE n = 0
  <2>1. main_queue' = Rest /\ loop_stack' = Append(loop_stack, k)
    BY <1>4, <1>5 DEF GoOn
  <2>2. \A x \in Outermost : HasBreak(x) => main_queue[1].step \notin Inside(x)
    BY <1>1, <1>5, InsideEvaluates
  <2>3. /\ Append(loop_stack, k) \in Seq(LoopState)
        /\ Broken(Append(loop_stack, k)) \subseteq Broken(loop_stack)
        /\ Ids(Append(loop_stack, k)) \subseteq Ids(loop_stack) \cup {k.id}
    BY <1>1, <1>3, PushedIds
  <2>4. \A id \in Ids(Append(loop_stack, k)) :
          id \in Ids(loop_stack) \/ (id = main_queue[1].step /\ Def[id].kind \in LoopKinds)
    BY <1>1, <1>3, <2>3
  <2>5. InPlace(Tail(main_queue), Append(loop_stack, k))
    BY <1>1, <2>2, <2>3, <2>4, OutsideTaken
  <2> QED BY <1>1, <2>1, <2>5
<1>6. CASE n # 0
  <2>1. l \in LoopState /\ l.id = Front.step /\ l.signal # "break"
    BY <1>3 DEF LoopState
  <2>2. BodyQueued(Append(loop_stack, k)) = Append(loop_stack, l)
    BY <1>1, <1>3, PushedStack
  <2>3. Below(main_queue, loop_stack) = loop_stack
    BY <1>1 DEF Below, InLoop, CurrentLoop
  <2>4. /\ main_queue' = Queued(Def[Front.step].body, Front.step, Front.resolved) \o <<Front>> \o Rest
        /\ loop_stack' = Append(Below(main_queue, loop_stack), l)
    BY <1>4, <1>6, <2>2, <2>3 DEF GoOn, ForeachBody
  <2> HIDE DEF l
  <2>5. Front.step \in Step \cup {NoStep}
    BY <1>1
  <2> QED BY <1>1, <2>1, <2>4, <2>5, BodyKeeps
<1> QED BY <1>5, <1>6

(* A foreach comes back.                                                   *)
LEMMA ResumeKeeps ==
  ASSUME BreaksHold, TypeOK, InPlace(main_queue, loop_stack), ForeachResume
  PROVE  InPlace(main_queue', loop_stack')
<1>1. /\ main_queue # <<>> /\ Front \in Entry /\ ~Front.cont /\ InLoop(Front.step)
      /\ Def[Front.step].kind = "foreach" /\ Def[Front.step].kind \in LoopKinds
      /\ main_queue \in Seq(Entry) /\ loop_stack \in Seq(LoopState) /\ Front.step \in Step
      /\ Front = main_queue[1] /\ Rest = Tail(main_queue)
  BY FrontOf DEF ForeachResume, Scanning, LoopKinds
<1>2. /\ loop_stack # <<>> /\ CurrentLoop.id = Front.step
      /\ Below(main_queue, loop_stack) = ExitedLoop(loop_stack)
  BY <1>1 DEF InLoop, Below, CurrentLoop
<1> DEFINE over == CurrentLoop.signal = "break" \/ CurrentLoop.iter + 1 >= CurrentLoop.limit
<1>3. IF over THEN GoOn(Rest, ExitedLoop(loop_stack)) ELSE GoOn(ForeachBody, BodyQueued(Advanced))
  BY DEF ForeachResume
<1> HIDE DEF over
<1>4. CASE over
  <2>1. main_queue' = Rest /\ loop_stack' = ExitedLoop(loop_stack)
    BY <1>3, <1>4 DEF GoOn
  <2>2. InPlace(Tail(main_queue), Below(main_queue, loop_stack))
    BY <1>1, LeftInPlace
  <2> QED BY <1>1, <1>2, <2>1, <2>2
<1>5. CASE ~over
  <2> DEFINE k == Resumed(CurrentLoop)
             l == [k EXCEPT !.runs = @ + 1]
             base == ExitedLoop(loop_stack)
  <2>1. /\ CurrentLoop \in LoopState /\ k \in LoopState /\ base \in Seq(LoopState)
        /\ Advanced = Append(base, k)
    BY <1>1, <1>2, ResumedStack
  <2>2. k.id = Front.step /\ k.signal = "none"
    BY <1>2, <2>1 DEF Resumed, LoopState
  <2> HIDE DEF k, base
  <2>3. l \in LoopState /\ l.id = Front.step /\ l.signal # "break"
    <3> DEFINE m == k.runs + 1
    <3>1. m \in Nat /\ l = [k EXCEPT !.runs = m]
      BY <2>1 DEF LoopState
    <3> HIDE DEF m, l
    <3> QED BY <2>1, <2>2, <3>1 DEF LoopState
  <2>4. BodyQueued(Advanced) = Append(base, l)
    BY <2>1, PushedStack
  <2>5. /\ main_queue' = Queued(Def[Front.step].body, Front.step, Front.resolved) \o <<Front>> \o Rest
        /\ loop_stack' = Append(Below(main_queue, loop_stack), l)
    BY <1>2, <1>3, <1>5, <2>4 DEF GoOn, ForeachBody, base
  <2> HIDE DEF l
  <2>6. Front.step \in Step \cup {NoStep}
    BY <1>1
  <2> QED BY <1>1, <2>3, <2>5, <2>6, BodyKeeps
<1> QED BY <1>4, <1>5

(* break and continue.                                                     *)
LEMMA BreakKeeps ==
  ASSUME BreaksHold, TypeOK, InPlace(main_queue, loop_stack), ProcessBreak
  PROVE  InPlace(main_queue', loop_stack')
<1>1. /\ main_queue # <<>> /\ Def[Front.step].kind = "break" /\ Def[Front.step].kind \notin LoopKinds
      /\ main_queue \in Seq(Entry) /\ loop_stack \in Seq(LoopState)
      /\ Front = main_queue[1] /\ Rest = Tail(main_queue)
  BY FrontOf DEF ProcessBreak, Scanning, LoopKinds
<1>2. CASE loop_stack = <<>>
  <2>1. main_queue' = Rest /\ loop_stack' = loop_stack
    BY <1>2 DEF ProcessBreak, Fail
  <2> QED BY <1>1, <2>1, TakenKeeps
<1>3. CASE loop_stack # <<>>
  <2> DEFINE l == [CurrentLoop EXCEPT !.signal = "break"]
             id == CurrentLoop.id
             first(n) == IF n < Len(Rest) /\ IsLoopStep(Rest[n + 1], id) THEN n + 2 ELSE n + 1
  <2>1. PICK n \in 0..Len(Rest) :
          /\ BodyPrefix(Rest, id, n)
          /\ GoOn(SubSeq(Rest, first(n), Len(Rest)), Signalled("break"))
    BY <1>3 DEF ProcessBreak
  <2>2. /\ CurrentLoop \in LoopState /\ l \in LoopState
        /\ Signalled("break") = Append(ExitedLoop(loop_stack), l)
    BY <1>1, <1>3, ResumedStack DEF Signals
  <2>3. l.id = id /\ CurrentLoop = loop_stack[Len(loop_stack)]
    BY <2>2 DEF LoopState, CurrentLoop
  <2>4. PICK m : m = first(n)
    OBVIOUS
  <2>5. main_queue' = SubSeq(Rest, m, Len(Rest)) /\ loop_stack' = Append(ExitedLoop(loop_stack), l)
    BY <2>1, <2>2, <2>4 DEF GoOn
  <2>6. m = IF n < Len(Tail(main_queue)) /\ IsLoopStep(Tail(main_queue)[n + 1], id) THEN n + 2 ELSE n + 1
    BY <1>1, <2>4
  <2>7. n \in 0..Len(Tail(main_queue)) /\ BodyPrefix(Tail(main_queue), CurrentLoop.id, n) /\ l.id = CurrentLoop.id
    BY <1>1, <2>1, <2>3
  <2> HIDE DEF l, first
  <2>8. InPlace(SubSeq(Tail(main_queue), m, Len(Tail(main_queue))), Append(ExitedLoop(loop_stack), l))
    BY <1>1, <1>3, <2>2, <2>3, <2>6, <2>7, BreakInPlace
  <2> QED BY <1>1, <2>5, <2>8
<1> QED BY <1>2, <1>3

LEMMA ContinueKeeps ==
  ASSUME BreaksHold, TypeOK, InPlace(main_queue, loop_stack), ProcessContinue
  PROVE  InPlace(main_queue', loop_stack')
<1>1. /\ main_queue # <<>> /\ Def[Front.step].kind = "continue" /\ Def[Front.step].kind \notin LoopKinds
      /\ main_queue \in Seq(Entry) /\ loop_stack \in Seq(LoopState)
      /\ Front = main_queue[1] /\ Rest = Tail(main_queue)
  BY FrontOf DEF ProcessContinue, Scanning, LoopKinds
<1>2. CASE loop_stack = <<>>
  <2>1. main_queue' = Rest /\ loop_stack' = loop_stack
    BY <1>2 DEF ProcessContinue, Fail
  <2> QED BY <1>1, <2>1, TakenKeeps
<1>3. CASE loop_stack # <<>>
  <2> DEFINE l == [CurrentLoop EXCEPT !.signal = "continue"]
             t == Tail(main_queue)
  <2>1. PICK n \in 0..Len(Rest) :
          /\ BodyPrefix(Rest, CurrentLoop.id, n)
          /\ GoOn(SubSeq(Rest, n + 1, Len(Rest)), Signalled("continue"))
    BY <1>3 DEF ProcessContinue
  <2>2. /\ CurrentLoop \in LoopState /\ l \in LoopState
        /\ Signalled("continue") = Append(ExitedLoop(loop_stack), l)
    BY <1>1, <1>3, ResumedStack DEF Signals
  <2>3. l.id = CurrentLoop.id /\ l.signal # "break" /\ CurrentLoop = loop_stack[Len(loop_stack)]
    BY <2>2 DEF LoopState, CurrentLoop
  <2>4. main_queue' = SubSeq(Rest, n + 1, Len(Rest)) /\ loop_stack' = Append(ExitedLoop(loop_stack), l)
    BY <2>1, <2>2 DEF GoOn
  <2>5. n \in 0..Len(Tail(main_queue)) /\ BodyPrefix(Tail(main_queue), CurrentLoop.id, n)
    BY <1>1, <2>1
  <2> HIDE DEF l
  <2>6. InPlace(SubSeq(Tail(main_queue), n + 1, Len(Tail(main_queue))), Append(ExitedLoop(loop_stack), l))
    BY <1>1, <1>3, <2>2, <2>3, <2>5, ContinueInPlace
  <2> QED BY <1>1, <2>4, <2>6
<1> QED BY <1>2, <1>3

(* An empty stack, with a queue in which nothing is inside a loop.         *)
LEMMA OutsidePlaced ==
  ASSUME NEW q \in Seq(Entry),
         \A i \in 1..Len(q) : q[i].resolved = {} /\ ~q[i].cont,
         \A x \in Outermost : \A i, j \in 1..Len(q) :
           /\ q[i].step \notin Inside(x)
           /\ q[i].step \in Around(x) /\ q[j].step \in Around(x) => i = j
  PROVE  InPlace(q, <<>>)
<1> DEFINE ids == Ids(<<>>)
           broken == Broken(<<>>)
<1>1. ids = {} /\ broken = {}
  <2>1. Len(<<>>) = 0 /\ 1..0 = {}
    BY EmptySeq
  <2> QED BY <2>1 DEF Ids, Broken
<1>2. q # <<>> => 1 \in 1..Len(q)
  BY LenProperties, EmptySeq
<1>3. ASSUME NEW x \in Outermost
      PROVE  Placed(x, q, ids, broken) /\ (q # <<>> => q[1].step \notin Inside(x))
  <2> HIDE DEF ids, broken
  <2>1. \A i \in 1..Len(q) : q[i].step \notin Inside(x)
    OBVIOUS
  <2>2. q # <<>> => q[1].step \notin Inside(x)
    BY <1>2, <2>1
  <2> QED BY <1>1, <2>1, <2>2 DEF Placed
<1>4. FieldsReplaced(q)
  BY DEF FieldsReplaced
<1> QED BY <1>1, <1>3, <1>4 DEF InPlace, Iterating

LEMMA NothingInPlace == InPlace(<<>>, <<>>)
<1> DEFINE q == <<>>
<1>1. q \in Seq(Entry) /\ Len(q) = 0 /\ 1..Len(q) = {}
  BY EmptySeq
<1> HIDE DEF q
<1>2. InPlace(q, <<>>)
  BY <1>1, OutsidePlaced
<1> QED BY <1>2 DEF q

(* Every action keeps everything in its place.                             *)
LEMMA InPlaceInductive ==
  ASSUME BreaksHold, TypeOK, InPlace(main_queue, loop_stack), [Next]_vars
  PROVE  InPlace(main_queue', loop_stack')
<1>1. CASE main_queue' = main_queue /\ loop_stack' = loop_stack
  BY <1>1
<1>2. CASE ClientStep \/ PrepareFails \/ ServerStep \/ (ProcessConditional /\ Fail(loop_stack))
  <2>1. main_queue # <<>> /\ Def[Front.step].kind \notin LoopKinds
    BY <1>2 DEF ClientStep, PrepareFails, ServerStep, ProcessConditional, Scanning, LoopKinds, BlockingKinds
  <2>2. main_queue' = Rest /\ loop_stack' = loop_stack
    BY <1>2 DEF ClientStep, PrepareFails, ServerStep, ProcessConditional, GoOn, Fail
  <2> QED BY <2>1, <2>2, TakenKeeps
<1>3. CASE ProcessConditional /\ ~Fail(loop_stack)
  <2>1. PICK branch \in {Def[Front.step].body, Def[Front.step].orelse} :
          GoOn(Queued(branch, NoStep, Front.resolved \cup {"items"}) \o Rest, loop_stack)
    BY <1>3 DEF ProcessConditional
  <2>2. Scanning({"conditional"})
    BY <1>3 DEF ProcessConditional
  <2> QED BY <2>1, <2>2, BranchKeeps
<1>4. CASE WhileWithoutCondition \/ ForeachFails
  <2>1. main_queue # <<>> /\ main_queue' = Rest /\ loop_stack' = loop_stack
    BY <1>4 DEF WhileWithoutCondition, ForeachFails, Scanning, Fail
  <2>2. \A x \in Outermost : HasBreak(x) => Front.step \notin Inside(x)
    <3> SUFFICES ASSUME NEW x \in Outermost, HasBreak(x), Front.step \in Inside(x) PROVE FALSE
      OBVIOUS
    <3>1. /\ Def[Front.step].kind = "while_loop" => ~Spoiled("condition")
          /\ Def[Front.step].kind = "foreach" => ~EvaluationFails("items")
      BY <2>1, InsideEvaluates
    <3> QED BY <1>4, <3>1 DEF WhileWithoutCondition, ForeachFails, Scanning
  <2> QED BY <2>1, <2>2, TakenKeeps
<1>5. CASE WhileExit \/ WhileFails
  <2>1. Scanning({"while_loop"}) /\ main_queue' = Rest /\ loop_stack' = ExitedLoop(WhileStack)
    BY <1>5 DEF WhileExit, WhileFails, GoOn, Fail
  <2> QED BY <2>1, WhileEndKeeps
<1>6. CASE Finish
  <2>1. main_queue = <<>> /\ main_queue' = <<>> /\ loop_stack' = <<>>
    BY <1>6 DEF Finish
  <2>2. InPlace(<<>>, <<>>)
    BY <2>1, NothingInPlace
  <2> QED BY <2>1, <2>2
<1> QED
  BY <1>1, <1>2, <1>3, <1>4, <1>5, <1>6, WhileKeeps, ContinuationKeeps, EnterKeeps, ResumeKeeps,
     BreakKeeps, ContinueKeeps
     DEF Next, ProcessStep, vars, BeginCall, Respond

(* At the start, what is inside a loop is not in the queue.                *)
LEMMA InitInPlace ==
  ASSUME BreaksHold, Init
  PROVE  InPlace(main_queue, loop_stack)
<1> DEFINE resolved == {}
           q == Queued(Main, NoStep, resolved)
<1>0. Main \in Seq(Step) /\ DOMAIN Main = 1..Len(Main)
  BY DefAssumption, LenProperties
<1>1. resolved \in SUBSET Fields /\ NoStep \in Step \cup {NoStep}
  OBVIOUS
<1>2. main_queue = q /\ loop_stack = <<>>
  BY DEF Init
<1> HIDE DEF resolved
<1>3. /\ q \in Seq(Entry) /\ Len(q) = Len(Main)
      /\ \A i \in 1..Len(Main) :
           q[i] = [step |-> Main[i], cont |-> FALSE, loop |-> NoStep, resolved |-> resolved]
  BY <1>0, <1>1, QueuedTyped, QueuedSteps, SMTT(30)
<1> HIDE DEF q
<1>4. ASSUME NEW i \in 1..Len(q)
      PROVE  q[i].step = Main[i] /\ ~q[i].cont /\ q[i].resolved = {} /\ i \in DOMAIN Main
  <2>1. q[i] = [step |-> Main[i], cont |-> FALSE, loop |-> NoStep, resolved |-> resolved]
    BY <1>3
  <2>2. i \in DOMAIN Main
    BY <1>0, <1>3
  <2> QED BY <2>1, <2>2 DEF resolved
<1>5. ASSUME NEW x \in Outermost, NEW i \in 1..Len(q), NEW j \in 1..Len(q)
      PROVE  /\ q[i].step \notin Inside(x)
             /\ q[i].step \in Around(x) /\ q[j].step \in Around(x) => i = j
  <2>1. Once(Main, Around(x)) /\ \A n \in DOMAIN Main : Main[n] \notin Inside(x)
    BY DEF BreaksHold, InOnePlace
  <2> QED BY <1>4, <2>1 DEF Once
<1>6. InPlace(q, <<>>)
  BY <1>3, <1>4, <1>5, OutsidePlaced
<1> QED BY <1>2, <1>6

(* A loop that was broken out of has nothing of its body in the queue.     *)
LEMMA InPlaceMeans ==
  ASSUME BreaksHold, TypeOK, InPlace(main_queue, loop_stack)
  PROVE  BreakEndsIteration
<1> SUFFICES ASSUME NEW i \in DOMAIN loop_stack, loop_stack[i].signal = "break",
                    NEW p \in DOMAIN main_queue, NEW b \in DOMAIN Def[loop_stack[i].id].body,
                    main_queue[p].step = Def[loop_stack[i].id].body[b]
             PROVE  FALSE
  BY DEF BreakEndsIteration
<1> DEFINE id == loop_stack[i].id
<1>1. /\ loop_stack \in Seq(LoopState) /\ i \in 1..Len(loop_stack)
      /\ main_queue \in Seq(Entry) /\ p \in 1..Len(main_queue)
  BY LenProperties DEF TypeOK
<1>2. id \in Step
  <2>1. loop_stack[i] \in LoopState
    BY <1>1, ElementOfSeq
  <2> QED BY <2>1 DEF LoopState
<1>3. id \in Ids(loop_stack) /\ id \in Broken(loop_stack)
  BY <1>1 DEF Ids, Broken
<1> HIDE DEF id
<1>4. PICK x \in Outermost : id \in Family(x)
  BY <1>2, <1>3 DEF BreaksHold, InPlace
<1>5. Absent(x, main_queue)
  BY <1>3, <1>4 DEF InPlace, Placed
<1>6. Parts(id) \subseteq Inside(x)
  BY <1>4, OutermostParts DEF Family
<1>7. main_queue[p].step \in Parts(id)
  BY DEF Parts, id
<1> QED BY <1>1, <1>5, <1>6, <1>7 DEF Absent

(* In every workflow whose loops are in one place each, and whose breaks   *)
(* are in loops that recognize their steps, nothing of a loop's body is    *)
(* left to run after break (AC-CF-016).                                    *)
THEOREM BreaksEndIterations == ASSUME BreaksHold PROVE Spec => []BreakEndsIteration
<1>1. Init => InPlace(main_queue, loop_stack)
  BY InitInPlace
<1>2. TypeOK /\ InPlace(main_queue, loop_stack) /\ [Next]_vars => InPlace(main_queue, loop_stack)'
  <2> SUFFICES ASSUME TypeOK, InPlace(main_queue, loop_stack), [Next]_vars
               PROVE  InPlace(main_queue', loop_stack')
    OBVIOUS
  <2> QED BY InPlaceInductive
<1>3. TypeOK /\ InPlace(main_queue, loop_stack) => BreakEndsIteration
  BY InPlaceMeans
<1> QED BY <1>1, <1>2, <1>3, TypeCorrect, PTL DEF Spec
=============================================================================
