----------------------------- MODULE Validator ------------------------------
(***************************************************************************)
(* WorkflowValidator: walks through the steps of a workflow and of its     *)
(* sub-agent task and reports break and continue outside loops and         *)
(* variables that are not defined where they are used.                     *)
(*                                                                         *)
(* The steps are given line by line: a loop or a conditional begins a      *)
(* block that "end" closes, so the recursion over blocks is a stack of     *)
(* contexts.  A step uses at most one variable.  Types, required fields    *)
(* and the JSON schema are left out.                                       *)
(*                                                                         *)
(* A definition called a mutant is a plausible mistake in the definition   *)
(* that follows it; no formula uses it.  Some property fails with it.      *)
(***************************************************************************)
EXTENDS Integers, Sequences, FiniteSets, SequencesExt

CONSTANTS
  MaxLines,     (* bound on the lines of a workflow                        *)
  CustomNames,  (* whether foreach steps name their variable               *)
  Unused        (* no variable                                             *)

ASSUME ValidatorAssumption ==
  MaxLines \in Nat /\ CustomNames \in BOOLEAN /\ Unused \notin {"item", "iteration", "custom", "state"}

(* loop.item, loop.iteration, a variable of the loop by another name, and  *)
(* a field of the state that only state_updates declare.                   *)
Variable == {"item", "iteration", "state"} \cup (IF CustomNames THEN {"custom"} ELSE {})

Lines(types, uses) == [type : types, use : uses, named : {FALSE}]

(* "update" is a step with state_updates; "break" stands for continue too. *)
Blocks == {"while", "foreach", "if"}
Opening ==
  Lines(Blocks, Variable \cup {Unused})
    \cup [type : {"foreach"}, use : {Unused}, named : {CustomNames}]
Simple == Lines({"step"}, Variable) \cup Lines({"update", "break", "parallel"}, {Unused})
BlockEnd == [type |-> "end", use |-> Unused, named |-> FALSE]

VARIABLES
  main,  (* the steps of the workflow                                      *)
  task   (* those of its sub-agent task                                    *)

validatorVars == <<main, task>>

-----------------------------------------------------------------------------
NoLoop == [loop |-> FALSE, foreach |-> FALSE, while |-> FALSE]
InForeach == [loop |-> TRUE, foreach |-> TRUE, while |-> FALSE]
InWhile == [loop |-> TRUE, foreach |-> FALSE, while |-> TRUE]

Started == [stack |-> <<NoLoop>>, errors |-> {}, paths |-> {}, referenced |-> {}]
Current(acc) == Last(acc.stack)

(* _validate_variable_reference                                            *)
Defined(v, context, paths) ==
  CASE v = "item" -> context.loop /\ context.foreach
    [] v = "iteration" -> context.loop /\ context.while
    [] v = "custom" -> context.loop /\ context.foreach
    [] v = "state" -> v \in paths

(* _is_context_specific_variable                                           *)
Specific == {"item", "iteration"}

Reported(acc, e) == [acc EXCEPT !.errors = @ \cup {e}]
Deferred(acc, v) == [acc EXCEPT !.referenced = @ \cup {v}]

(* _validate_step_references                                               *)
Referenced(acc, v, context) ==
  IF v = Unused \/ Defined(v, context, acc.paths) THEN acc
  ELSE IF v \in Specific THEN Reported(acc, "undefined")
  ELSE Deferred(acc, v)

(* Conditions: what is not specific to a loop is looked at once more when  *)
(* all is known.                                                           *)
ConditionReferenced(acc, v, context) ==
  CASE v = Unused -> acc
    [] v \in Specific -> IF Defined(v, context, acc.paths) THEN acc ELSE Reported(acc, "undefined")
    [] OTHER -> Deferred(acc, v)

Pushed(acc, context) == [acc EXCEPT !.stack = Append(@, context)]

(* Mutant: the context of a loop replaces the one it stands in.            *)
ClosedForgotten(acc) == [acc EXCEPT !.stack = Append(Front(@), Current(acc))]

Closed(acc) == [acc EXCEPT !.stack = Front(@)]

(* _validate_step with the methods of the types, without parallel_foreach. *)
(* A loop replaces the context, a conditional passes it on; the condition  *)
(* of a while loop is looked at as if it stood in the loop.                *)
Validated(acc, l) ==
  CASE l.type = "foreach" -> Pushed(Referenced(acc, l.use, Current(acc)), InForeach)
    [] l.type = "while" -> Pushed(ConditionReferenced(acc, l.use, InWhile), InWhile)
    [] l.type = "if" ->
           LET context == Current(acc)
           IN  Pushed(ConditionReferenced(Referenced(acc, l.use, context), l.use, context), context)
    [] l.type = "end" -> Closed(acc)
    [] l.type = "step" -> Referenced(acc, l.use, Current(acc))
    [] l.type = "update" -> [acc EXCEPT !.paths = @ \cup {"state"}]
    [] l.type = "break" -> IF Current(acc).loop THEN acc ELSE Reported(acc, "break")
    [] l.type = "parallel" -> acc

HasLine(lines, types) == \E i \in DOMAIN lines : lines[i].type \in types

(* _analyze_step_contexts: with a loop anywhere in the task, all its steps *)
(* count as inside the loop.                                               *)
TaskContext(lines, parent) ==
  LET while == HasLine(lines, {"while"})
      foreach == HasLine(lines, {"foreach", "parallel"})
  IN  [loop |-> parent.loop \/ while \/ foreach,
       foreach |-> parent.foreach \/ foreach,
       while |-> parent.while \/ while]

(* _validate_sub_agent_task                                                *)
TaskErrors(lines, parent) ==
  LET context == TaskContext(lines, parent)
      end == FoldLeft(Validated, [Started EXCEPT !.stack = <<context>>], lines)
  IN  end.errors \cup {e \in {"undefined"} : \E v \in end.referenced : ~Defined(v, context, end.paths)}

(* Mutant: what the task declares stays declared.                          *)
ThroughKept(acc, l) ==
  IF l.type # "parallel" THEN Validated(acc, l)
  ELSE [acc EXCEPT !.errors = @ \cup TaskErrors(task, IF Current(acc).loop THEN Current(acc) ELSE NoLoop),
                   !.paths = @ \cup {p \in {"state"} : HasLine(task, {"update"})}]

(* A parallel_foreach has the task validated in its own context, among     *)
(* definitions of its own.                                                 *)
Through(acc, l) ==
  IF l.type # "parallel" THEN Validated(acc, l)
  ELSE [acc EXCEPT !.errors = @ \cup TaskErrors(task, IF Current(acc).loop THEN Current(acc) ELSE NoLoop)]

(* _validate_references: names of loop variables of one's own are passed.  *)
MainErrors ==
  LET end == FoldLeft(Through, Started, main)
  IN  end.errors \cup {e \in {"undefined"} :
                         \E v \in end.referenced \ {"custom"} : ~Defined(v, NoLoop, end.paths)}

(* A task that has a parallel_foreach for itself is validated inside its   *)
(* own validation, until the recursion is too deep.                        *)
Endless == HasLine(task, {"parallel"})

(* validate                                                                *)
Errors == MainErrors \cup TaskErrors(task, NoLoop)
Accepted == ~Endless /\ Errors = {}

-----------------------------------------------------------------------------
ValidatorInit == main = <<>> /\ task = <<>>

Count(lines, types) == Cardinality({i \in DOMAIN lines : lines[i].type \in types})
Open(lines) == Count(lines, Blocks) - Count(lines, {"end"})
AllClosed == Open(main) = 0 /\ Open(task) = 0

Following(lines) == Opening \cup Simple \cup {l \in {BlockEnd} : Open(lines) > 0}

WriteMain ==
  /\ task = <<>> /\ \E l \in Following(main) : main' = Append(main, l)
  /\ UNCHANGED task
WriteTask ==
  /\ Open(main) = 0 /\ \E l \in Following(task) : task' = Append(task, l)
  /\ UNCHANGED main

ValidatorNext == Len(main) + Len(task) < MaxLines /\ (WriteMain \/ WriteTask)

ValidatorSpec == ValidatorInit /\ [][ValidatorNext]_validatorVars

-----------------------------------------------------------------------------
(* The blocks around line i: those begun before it and not closed since.   *)
Around(lines, i) ==
  {b \in 1..(i - 1) :
     /\ lines[b].type \in Blocks
     /\ \A j \in b..(i - 1) : Open(SubSeq(lines, b, j)) > 0}

(* What the interpreter binds: get_nested_loop_variables has the variables *)
(* of all loops around the step, and a condition has those of its loop.    *)
Provided(lines, i) ==
  LET around == {lines[b] : b \in Around(lines, i)} \cup {l \in {lines[i]} : l.type = "while"}
      loop(t) == \E l \in around : l.type = t
  IN  {v \in Specific : \/ v = "iteration" /\ loop("while")
                        \/ v = "item" /\ \E l \in around : l.type = "foreach" /\ ~l.named}

InLoop(lines, i) == \E b \in Around(lines, i) : lines[b].type \in {"while", "foreach"}

(* A step that the validator has accepted finds what it needs when it is   *)
(* executed: a break its loop, and loop.item and loop.iteration a value.   *)
(* A break in a loop is never the reason to refuse a workflow.             *)
LoopsLexical ==
  AllClosed =>
    /\ Accepted => \A i \in DOMAIN main :
                     /\ main[i].type = "break" => InLoop(main, i)
                     /\ main[i].use \in Specific => main[i].use \in Provided(main, i)
    /\ "break" \in Errors =>
         \E lines \in {main, task} : \E i \in DOMAIN lines : lines[i].type = "break" /\ ~InLoop(lines, i)

(* The task and the steps that call it declare for themselves: a field of  *)
(* the state used in one of them must be set in the same one, anywhere.    *)
TasksIsolated ==
  LET undeclared(lines) ==
        (\E i \in DOMAIN lines : lines[i].use = "state") /\ ~HasLine(lines, {"update"})
      specific(lines) == \E i \in DOMAIN lines : lines[i].use \in Specific
  IN  AllClosed /\ ~Endless /\ ~specific(main) /\ ~specific(task) =>
        ("undefined" \in Errors <=> undeclared(main) \/ undeclared(task))

(* What the validator says of a reference is said by where the step        *)
(* stands: by the blocks around it, although the code keeps one context    *)
(* for all of them, and by the steps of its own list, although a task is   *)
(* validated in the middle of the list that calls it.                      *)
ReferencesScoped == LoopsLexical /\ TasksIsolated

(* "Invalid references must be detected" (AC-EHV-017), also those of       *)
(* sub-agent tasks, and of variables with a name of their own.             *)
ReferencesDetected ==
  Accepted /\ AllClosed =>
    \A lines \in {main, task} : \A i \in DOMAIN lines :
      /\ lines[i].use = "custom" => InLoop(lines, i)
      /\ lines[i].use \in Specific => lines[i].use \in Provided(lines, i)

(* Validation comes to an end.                                             *)
ValidationEnds == Open(task) = 0 => ~Endless

(* What a step is given, it may use.                                       *)
ProvidedAccepted ==
  Open(main) = 0 /\ task = <<>> /\ "undefined" \in Errors =>
    \E i \in DOMAIN main : main[i].use \in Variable \ Provided(main, i)
=============================================================================
