-------------------------- MODULE StructuredProgram --------------------------
(***************************************************************************)
(* What the control flow of a workflow promises to its client: a workflow  *)
(* is a structured program.  Its state is a stack of frames, the base      *)
(* frame and one frame per loop being executed, each holding the steps     *)
(* that are still to run in it.  Which branch a condition selects, and how *)
(* many items a list has, is left open.                                    *)
(*                                                                         *)
(* ControlFlow implements this with one flat queue in which the steps of   *)
(* all the frames lie one after the other, and a separate stack of loop    *)
(* states.                                                                 *)
(***************************************************************************)
EXTENDS Integers, Sequences

CONSTANTS
  Def,      (* the definition of every step of the workflow, by step id    *)
  Main,     (* the sequence of top-level steps                             *)
  NoStep    (* not a step                                                  *)

VARIABLES
  frames,   (* the stack of frames, the innermost last                     *)
  batch,    (* the client steps that go into the next response             *)
  status    (* "running" or "completed"                                    *)

vars == <<frames, batch, status>>

ClientKinds == {"user_message", "mcp_call", "parallel_foreach", "wait_step", "unknown"}

Top == frames[Len(frames)]
InLoop == Len(frames) > 1
AtFront(s) == Top.rest # <<>> /\ s = Head(Top.rest)

Outer == SubSeq(frames, 1, Len(frames) - 1)

(* The frames when the innermost one is left with r as its rest.           *)
WithRest(r) == Append(Outer, [Top EXCEPT !.rest = r])

(* A blocking client step closes the batch: nothing runs after it until    *)
(* the client has it.                                                      *)
Open == \A i \in DOMAIN batch : Def[batch[i]].kind = "user_message"

Running == Open /\ UNCHANGED <<batch, status>>

-----------------------------------------------------------------------------
Init ==
  /\ frames = << [loop |-> NoStep, rest |-> Main, runs |-> 0, limit |-> 0] >>
  /\ batch = <<>>
  /\ status = "running"

(* A client step is put into the batch.                                    *)
Issue(s) ==
  /\ Open
  /\ AtFront(s)
  /\ Def[s].kind \in ClientKinds
  /\ batch' = Append(batch, s)
  /\ frames' = WithRest(Tail(Top.rest))
  /\ UNCHANGED status

(* A server step is executed, a loop is not entered (a while loop whose    *)
(* condition is false, a foreach over no items), or a step fails; a break  *)
(* or continue fails outside of every loop.                                *)
Skip(s) ==
  /\ Running
  /\ AtFront(s)
  /\ \/ Def[s].kind \in {"shell_command", "while_loop"}
     \/ Def[s].kind = "foreach" /\ 0 \in Def[s].items
     \/ Def[s].kind \in {"break", "continue"} /\ ~InLoop
     \/ Def[s].kind \notin {"break", "continue"} /\ Def[s].fails
  /\ frames' = WithRest(Tail(Top.rest))

(* One branch of a conditional replaces it.                                *)
Branch(s) ==
  /\ Running
  /\ AtFront(s)
  /\ Def[s].kind = "conditional"
  /\ \E branch \in {Def[s].body, Def[s].orelse} :
       frames' = WithRest(branch \o Tail(Top.rest))

(* A loop opens a frame for its first iteration.                           *)
EnterLoop(s) ==
  /\ Running
  /\ AtFront(s)
  /\ \E n \in CASE Def[s].kind = "while_loop" -> {Def[s].limit}
                [] Def[s].kind = "foreach"    -> Def[s].items
                [] OTHER -> {} :
       /\ n > 0
       /\ frames' = Append(WithRest(Tail(Top.rest)),
                           [loop |-> s, rest |-> Def[s].body, runs |-> 1, limit |-> n])

(* The innermost loop has finished an iteration and starts the next one.   *)
NextIteration ==
  /\ Running
  /\ InLoop
  /\ Top.rest = <<>>
  /\ Top.runs < Top.limit
  /\ frames' = Append(Outer, [Top EXCEPT !.rest = Def[Top.loop].body, !.runs = @ + 1])

(* It has finished its last iteration: a foreach only after its last item, *)
(* unless evaluating its items fails.                                      *)
ExitLoop ==
  /\ Running
  /\ InLoop
  /\ Top.rest = <<>>
  /\ Def[Top.loop].kind = "foreach" /\ ~Def[Top.loop].fails => Top.runs = Top.limit
  /\ frames' = Outer

(* break leaves the innermost loop, and only that one.                     *)
Break(s) ==
  /\ Running
  /\ AtFront(s)
  /\ Def[s].kind = "break"
  /\ InLoop
  /\ frames' = Outer

(* continue skips the rest of the innermost loop's iteration.              *)
Continue(s) ==
  /\ Running
  /\ AtFront(s)
  /\ Def[s].kind = "continue"
  /\ InLoop
  /\ frames' = WithRest(<<>>)

Respond ==
  /\ batch # <<>>
  /\ batch' = <<>>
  /\ UNCHANGED <<frames, status>>

Finish ==
  /\ batch = <<>>
  /\ ~InLoop /\ Top.rest = <<>>
  /\ status' = "completed"
  /\ UNCHANGED <<frames, batch>>

Next ==
  \/ \E s \in DOMAIN Def : \/ Issue(s) \/ Skip(s) \/ Branch(s) \/ EnterLoop(s)
                           \/ Break(s) \/ Continue(s)
  \/ NextIteration \/ ExitLoop
  \/ Respond \/ Finish

Spec == Init /\ [][Next]_vars
=============================================================================
