--------------------------- MODULE ComputedFields ---------------------------
(***************************************************************************)
(* The computed fields of a workflow's state: StateManager computes those  *)
(* that an update affects, found by CascadingUpdateCalculator, and all of  *)
(* them when the state is read, in the order DependencyResolver has found. *)
(* Update and read hold the lock of the workflow, so each is one action.   *)
(*                                                                         *)
(* A computed value is abstracted to what it was made from: the set of the *)
(* values of the state that went into it, directly or through other        *)
(* fields.  A value of the state is the number of times it was set.        *)
(*                                                                         *)
(* A path is a tier.  inputs and raw name one place, state and this name   *)
(* another one; there is one variable in each.                             *)
(*                                                                         *)
(* A definition called a mutant is a plausible mistake in the definition   *)
(* that follows it; no formula uses it.  Some property fails with it.      *)
(***************************************************************************)
EXTENDS FieldOrder

CONSTANTS
  From,       (* the paths of the state a field is computed from           *)
  OnError,    (* its on_error                                              *)
  Written,    (* the paths that are updated                                *)
  MaxUpdates  (* bound on the updates                                      *)

Path == {"inputs", "raw", "state", "this"}
Policy == {"use_fallback", "propagate", "ignore"}

ASSUME ComputedAssumption ==
  /\ From \in [Field -> SUBSET Path]
  /\ OnError \in [Field -> Policy]
  /\ Written \subseteq Path
  /\ MaxUpdates \in Nat

VARIABLES
  place,    (* the values of the two places                                *)
  computed, (* the values of the fields                                    *)
  failing,  (* the fields whose transform fails on the present values      *)
  raised    (* history: a read has ended with an exception                 *)

fieldVars == <<place, computed, failing, raised>>
vars == <<orderVars, fieldVars>>

Place(p) == IF p \in {"inputs", "raw"} THEN "inputs" ELSE "state"

Missing == {<<"missing", 0>>}
Fallback == {<<"fallback", 0>>}

Init ==
  /\ OrderInit
  /\ place = [p \in {"inputs", "state"} |-> 0]
  /\ computed = [f \in Field |-> Missing]
  /\ failing \in SUBSET Field
  /\ raised = FALSE

-----------------------------------------------------------------------------
(* What _compute_field stores for a field                                  *)
Result(f, values, c) ==
  (UNION {c[g] : g \in graph[f]}) \cup {<<Place(p), values[Place(p)]>> : p \in From[f]}

(* The next field, if it is among those to be computed; one that fails is  *)
(* handled by _handle_computation_error, and the first that propagates     *)
(* ends it.                                                                *)
ComputeNext(fields, values, bad, acc, f) ==
  IF acc.ended \/ f \notin fields THEN acc
  ELSE IF f \notin bad THEN [acc EXCEPT !.c[f] = Result(f, values, acc.c)]
  ELSE IF OnError[f] = "propagate" THEN [acc EXCEPT !.ended = TRUE]
  ELSE [acc EXCEPT !.c[f] = IF OnError[f] = "ignore" THEN Missing ELSE Fallback]

(* Fields are computed one after the other, in the order found, each from  *)
(* what is there then.                                                     *)
Compute(fields, values, bad, c) ==
  LET after[i \in 0..Len(result)] ==
        IF i = 0 THEN [ended |-> FALSE, c |-> c]
                 ELSE ComputeNext(fields, values, bad, after[i - 1], result[i])
  IN  after[Len(result)]

(* update looks for fields that depend on the path as it was written; for  *)
(* a state path it also looks for "this".                                  *)
Normalized(p) == IF p = "state" THEN {"state", "this"} ELSE {p}

(* Mutant: fields that depend on the path by another field are forgotten.  *)
AffectedDirectly(p) == {f \in Field : From[f] \cap Normalized(p) # {}}

(* get_affected_fields: the least set with the fields that depend on the   *)
(* path and those that depend on one of them                               *)
Affected(p) ==
  LET direct == {f \in Field : From[f] \cap Normalized(p) # {}}
      closed == {S \in SUBSET Field :
                   direct \subseteq S /\ \A f \in Field : graph[f] \cap S # {} => f \in S}
  IN  {f \in Field : \A S \in closed : f \in S}

(* Which transforms fail may change with what they are given.              *)
Update(p) ==
  LET values == [place EXCEPT ![Place(p)] = @ + 1]
      depend == {f \in Field : \E q \in Path : Place(q) = Place(p) /\ f \in Affected(q)}
  IN  /\ phase = "resolved"
      /\ place["inputs"] + place["state"] < MaxUpdates
      /\ \E bad \in SUBSET Field :
           LET after == Compute(Affected(p), values, bad, computed)
           IN  /\ bad \ depend = failing \ depend
               /\ IF after.ended
                  THEN UNCHANGED fieldVars
                  ELSE /\ place' = values
                       /\ computed' = after.c
                       /\ failing' = bad
                       /\ UNCHANGED raised
      /\ UNCHANGED orderVars

(* _ensure_computed_fields_current; an exception leaves what it has done.  *)
Read ==
  LET after == Compute(Field, place, failing, computed)
  IN  /\ phase = "resolved"
      /\ computed' = after.c
      /\ raised' = (raised \/ after.ended)
      /\ UNCHANGED <<orderVars, place, failing>>

Next ==
  \/ OrderNext /\ UNCHANGED fieldVars
  \/ Read
  \/ \E p \in Written : Update(p)

Spec == Init /\ [][Next]_vars

-----------------------------------------------------------------------------
TypeOK ==
  /\ OrderTypeOK
  /\ place \in [{"inputs", "state"} -> 0..MaxUpdates]
  /\ computed \in [Field -> SUBSET (({"inputs", "state"} \X (0..MaxUpdates)) \cup Missing \cup Fallback)]
  /\ failing \subseteq Field
  /\ raised \in BOOLEAN

(* Whoever updates a place names it by a path that each field computed     *)
(* from the place is looked for with.                                      *)
PathsAgree ==
  \A p \in Written, q \in Path, f \in Field :
    Place(q) = Place(p) /\ q \in From[f] => From[f] \cap Normalized(p) # {}

(* Between two calls, every field that was computed has the value that     *)
(* computing it again would give: none is left behind by a change of what  *)
(* it depends on, over any chain of fields, and none mixes an old value    *)
(* with a new one.  ("After successful updates, cascading transformations  *)
(* are triggered", says update.)                                           *)
UpToDate ==
  ~raised => \A f \in Field \ failing :
               computed[f] \in {Missing, Result(f, place, computed)}
=============================================================================
