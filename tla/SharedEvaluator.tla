-------------------------- MODULE SharedEvaluator ---------------------------
(***************************************************************************)
(* The evaluation of expressions by several threads.  The executor has one *)
(* ExpressionEvaluator for all workflows, which keeps the context of the   *)
(* expression in attributes, and one JavaScript engine, whose globals it   *)
(* sets before and deletes after each expression.  The locks are those of  *)
(* single workflows; each thread works on a workflow of its own.           *)
(*                                                                         *)
(* A context is abstracted to the thread that stored it.                   *)
(***************************************************************************)
EXTENDS Integers, FiniteSets, Sequences

CONSTANTS
  Thread,
  Nobody

ASSUME EvaluatorAssumption == Nobody \notin Thread

VARIABLES
  context,  (* self.context of the evaluator                               *)
  scoped,   (* self.scoped_context; Nobody is the empty one                  *)
  globals,  (* state, inputs, computed and loop of globalThis              *)
  at,       (* where the expression of a thread is                         *)
  scopes,   (* whether it is evaluated with scopes                         *)
  seen,     (* history: the threads whose values it has read,              *)
  absent,   (* whether it has failed on a global that was not there,       *)
  beside    (* and the threads that have evaluated at the same time        *)

evaluatorVars == <<context, scoped, globals, at, scopes, seen, absent, beside>>

Name == <<"state", "inputs", "computed", "loop">>
Global == {Name[i] : i \in DOMAIN Name}

EvaluatorInit ==
  /\ context = Nobody /\ scoped = Nobody
  /\ globals = [n \in Global |-> Nobody]
  /\ at = [t \in Thread |-> <<"idle", 0>>]
  /\ scopes = [t \in Thread |-> FALSE]
  /\ seen = [t \in Thread |-> {}]
  /\ absent = [t \in Thread |-> FALSE]
  /\ beside = [t \in Thread |-> {}]

Evaluating(t) == at[t][1] # "idle"
Moves(t, from, to) == at[t] = from /\ at' = [at EXCEPT ![t] = to]

(* The history of an expression begins.                                    *)
Begins(t) ==
  /\ seen' = [seen EXCEPT ![t] = {}]
  /\ absent' = [absent EXCEPT ![t] = FALSE]
  /\ beside' = [u \in Thread |-> IF u = t THEN {v \in Thread : Evaluating(v)}
                                 ELSE IF Evaluating(u) THEN beside[u] \cup {t} ELSE beside[u]]

-----------------------------------------------------------------------------
(* evaluate: conditions and templates come with scopes, the items of a     *)
(* loop without.                                                           *)
StoreContext(t) ==
  /\ Moves(t, <<"idle", 0>>, <<"scopes", 0>>)
  /\ context' = t
  /\ scopes' \in {[scopes EXCEPT ![t] = b] : b \in BOOLEAN}
  /\ Begins(t)
  /\ UNCHANGED <<scoped, globals>>

(* Mutant: scopes are stored when there are some.                          *)
StoreScopesGiven(t) ==
  /\ Moves(t, <<"scopes", 0>>, <<"nodes", 0>>)
  /\ scoped' = IF scopes[t] THEN t ELSE scoped
  /\ UNCHANGED <<context, globals, scopes, seen, absent, beside>>

StoreScopes(t) ==
  /\ Moves(t, <<"scopes", 0>>, <<"nodes", 0>>)
  /\ scoped' = IF scopes[t] THEN t ELSE Nobody
  /\ UNCHANGED <<context, globals, scopes, seen, absent, beside>>

(* _evaluate_node, for a name or for a property of this, global, loop or   *)
(* inputs.  Other nodes look nothing up.                                   *)
Look(t) ==
  /\ at[t] = <<"nodes", 0>>
  /\ \E owner \in {context, IF scoped # Nobody THEN scoped ELSE context} :
       seen' = [seen EXCEPT ![t] = @ \cup {owner}]
  /\ UNCHANGED <<context, scoped, globals, at, scopes, absent, beside>>

Return(t) ==
  /\ Moves(t, <<"nodes", 0>>, <<"idle", 0>>)
  /\ UNCHANGED <<context, scoped, globals, scopes, seen, absent, beside>>

-----------------------------------------------------------------------------
(* _evaluate_javascript_expression                                         *)
SetGlobal(t, i) ==
  /\ \/ i = 1 /\ Moves(t, <<"idle", 0>>, <<"set", 1>>) /\ Begins(t)
     \/ i > 1 /\ Moves(t, <<"set", i - 1>>, <<"set", i>>) /\ UNCHANGED <<seen, absent, beside>>
  /\ globals' = [globals EXCEPT ![Name[i]] = t]
  /\ UNCHANGED <<context, scoped, scopes>>

(* The expression reads some of the globals.                               *)
Run(t) ==
  /\ Moves(t, <<"set", Len(Name)>>, <<"delete", 0>>)
  /\ \E names \in SUBSET Global :
       /\ absent' = [absent EXCEPT ![t] = \E n \in names : globals[n] = Nobody]
       /\ seen' = [seen EXCEPT ![t] = {globals[n] : n \in names} \ {Nobody}]
  /\ UNCHANGED <<context, scoped, globals, scopes, beside>>

(* Also after an error.  What is not there is not deleted.                 *)
DeleteGlobal(t, i) ==
  /\ Moves(t, <<"delete", i - 1>>, IF i = Len(Name) THEN <<"idle", 0>> ELSE <<"delete", i>>)
  /\ globals' = [globals EXCEPT ![Name[i]] = Nobody]
  /\ UNCHANGED <<context, scoped, scopes, seen, absent, beside>>

EvaluatorNext ==
  \E t \in Thread :
    \/ StoreContext(t) \/ StoreScopes(t) \/ Look(t) \/ Return(t)
    \/ Run(t)
    \/ \E i \in DOMAIN Name : SetGlobal(t, i) \/ DeleteGlobal(t, i)

EvaluatorSpec == EvaluatorInit /\ [][EvaluatorNext]_evaluatorVars

-----------------------------------------------------------------------------
(* An expression reads no context but its own and those of expressions     *)
(* evaluated at the same time: none is left behind by one that has ended,  *)
(* and only an expression beside it can take its globals away.             *)
NothingLeftBehind ==
  \A t \in Thread :
    /\ seen[t] \subseteq {t} \cup beside[t]
    /\ absent[t] => beside[t] # {}

(* "Execution must proceed without interference between workflow           *)
(* instances" (AC-PR-002): an expression reads the state of its workflow.  *)
OwnContext == \A t \in Thread : seen[t] \subseteq {t} /\ ~absent[t]
=============================================================================
