------------------------------ MODULE MCState -------------------------------
(* What a workflow reads and writes: computed fields, the objects a state  *)
(* is made of, the expressions over it, the evaluator of all workflows, *)
(* the validation of what a workflow may refer to, and the workflows that  *)
(* workflows include.  Each is checked by itself: in a behaviour only one  *)
(* moves, and the others keep one initial state.                           *)
EXTENDS ComputedFields, StateObjects, Expressions, SharedEvaluator, Validator,
        Composition
CONSTANTS f1, f2, f3, plan, fix, lint

MCGraph == [Field -> SUBSET Field]
MCFrom == (f1 :> {"inputs"}) @@ (f2 :> {"this"}) @@ (f3 :> {"inputs", "state"})

(* What the theorem about computed fields supposes.                        *)
ASSUME MCPathsAgree == Written = {"inputs", "state"} => PathsAgree

MCOnError == (f1 :> "use_fallback") @@ (f2 :> "propagate") @@ (f3 :> "ignore")

Flow(name, steps) == [name |-> name, valid |-> TRUE, steps |-> steps]
Includes(id, w) == [id |-> id, workflow |-> w]

(* In the first library workflows include each other, without ids or with  *)
(* one; in the second an invalid file of the project hides the user's, and *)
(* a file has another name inside.                                         *)
MCLibraries ==
  {[project |->
      (plan :> Flow(plan, <<Includes(NoId, lint), Includes(NoId, fix), Includes(NoId, lint)>>))
      @@ (fix :> Flow(fix, <<Includes(7, plan)>>)) @@ (lint :> NoFile),
    global |-> (plan :> NoFile) @@ (fix :> NoFile) @@ (lint :> Flow(lint, <<Includes(NoId, fix)>>))],
   [project |->
      (plan :> Flow(plan, <<Includes(NoId, lint), Includes(8, fix), Includes(8, fix)>>))
      @@ (fix :> NoFile) @@ (lint :> [name |-> plan, valid |-> FALSE, steps |-> <<>>]),
    global |-> (plan :> NoFile) @@ (fix :> Flow(lint, <<>>)) @@ (lint :> Flow(lint, <<>>))]}

VARIABLE moving  (* the part that moves; "operator" does not                *)

allVars == <<vars, objectVars, expressionVars, evaluatorVars, validatorVars, compositionVars,
             moving>>

FieldsAtRest == failing = {} /\ \A f \in Field : graph[f] = {}
ObjectsAtRest == ~tiered
ExpressionsAtRest == operation = <<"&&", Null, Null>>
CompositionAtRest ==
  /\ library = <<>> /\ seconds = 1 /\ instances = <<>> /\ contexts = <<>>
  /\ inclusions = <<>> /\ handed = {}

MCInit ==
  /\ moving \in {"fields", "objects", "expression", "operator", "evaluator", "validator",
                "composition"}
  /\ Init /\ (moving # "fields" => FieldsAtRest)
  /\ ObjectsInit /\ (moving # "objects" => ObjectsAtRest)
  /\ ExpressionInit /\ (moving # "operator" => ExpressionsAtRest)
  /\ EvaluatorInit
  /\ ValidatorInit
  /\ IF moving = "composition" THEN CompositionInit ELSE CompositionAtRest

MCNext ==
  \/ /\ moving = "fields" /\ Next
     /\ UNCHANGED <<objectVars, expressionVars, evaluatorVars, validatorVars, compositionVars,
                    moving>>
  \/ /\ moving = "objects" /\ ObjectsNext
     /\ UNCHANGED <<vars, expressionVars, evaluatorVars, validatorVars, compositionVars,
                    moving>>
  \/ /\ moving = "expression" /\ ExpressionNext
     /\ UNCHANGED <<vars, objectVars, evaluatorVars, validatorVars, compositionVars,
                    moving>>
  \/ /\ moving = "evaluator" /\ EvaluatorNext
     /\ UNCHANGED <<vars, objectVars, expressionVars, validatorVars, compositionVars,
                    moving>>
  \/ /\ moving = "validator" /\ ValidatorNext
     /\ UNCHANGED <<vars, objectVars, expressionVars, evaluatorVars, compositionVars,
                    moving>>
  \/ /\ moving = "composition" /\ CompositionNext
     /\ UNCHANGED <<vars, objectVars, expressionVars, evaluatorVars, validatorVars, moving>>

MCSpec == MCInit /\ [][MCNext]_allVars
=============================================================================
