---------------------------- MODULE StateObjects ----------------------------
(***************************************************************************)
(* The objects the states of workflows are made of.  start takes the       *)
(* values of default_state and of the inputs as they are and puts an input *)
(* into two tiers; an update changes lists in place; a template that is    *)
(* one expression returns the object it names.  So one list can be in      *)
(* several places, and what is written at one place can appear at others.  *)
(*                                                                         *)
(* All values are lists, and a list is abstracted to its length.  x and y  *)
(* are the fields of a workflow; the client gives x or leaves it out.      *)
(***************************************************************************)
EXTENDS Integers, Sequences, FiniteSets

CONSTANTS
  Instance,    (* workflow ids                                             *)
  Reload,      (* each start has a definition of its own, as in the tool   *)
               (* workflow_start, which loads it; FALSE: they share one    *)
  MaxBatches,  (* bound on the batches of updates                          *)
  None

Slot == {"inputs.x", "state.x", "state.y"}
Given == {"inputs.x", "state.x"}   (* where start puts an input            *)

ASSUME ObjectsAssumption ==
  /\ Reload \in BOOLEAN /\ MaxBatches \in Nat
  /\ None \notin Nat /\ None \notin [Slot -> Nat \cup {None}]

VARIABLES
  length,      (* the lists, numbered as they were made                    *)
  default,     (* default_state of the definition: a list or None each     *)
  tiered,      (* whether default_state has both tiers                     *)
  state,       (* the states, None before start                            *)
  batches,     (* number of batches so far                                 *)
  actor,       (* history: the workflow that made the last step,           *)
  named,       (* the places its batch named,                              *)
  failed       (* and whether it failed                                    *)

objectVars == <<length, default, tiered, state, batches, actor, named, failed>>

Nothing == [q \in Slot |-> None]

ObjectsInit ==
  /\ tiered \in BOOLEAN
  /\ \E y \in {TRUE, FALSE} :
       /\ y => tiered
       /\ length = IF y THEN <<0>> ELSE <<>>
       /\ default = [Nothing EXCEPT !["state.y"] = IF y THEN 1 ELSE None]
  /\ state = [f \in Instance |-> None]
  /\ batches = 0
  /\ actor = None /\ named = {} /\ failed = FALSE

(* copy.deepcopy of a state: new lists, and those that were one stay one.  *)
Copied(s, lists) ==
  LET old == {s[q] : q \in Slot} \ {None}
      new(o) == Cardinality({p \in old : p <= o})
  IN  [lists |-> lists \o [i \in 1..Cardinality(old) |-> lists[CHOOSE o \in old : new(o) = i]],
       state |-> [q \in Slot |-> IF s[q] = None THEN None ELSE Len(lists) + new(s[q])]]

(* default_state.copy() is shallow: where the definition has a tier, the   *)
(* input is written into the definition's own dictionary.                  *)
Start(f) ==
  LET own == IF Reload THEN Copied(default, length) ELSE [lists |-> length, state |-> default]
      with == [q \in Slot |-> IF q \in Given THEN Len(own.lists) + 1 ELSE own.state[q]]
  IN  /\ state[f] = None
      /\ \/ state' = [state EXCEPT ![f] = own.state] /\ length' = own.lists /\ UNCHANGED default
         \/ /\ state' = [state EXCEPT ![f] = with]
            /\ length' = Append(own.lists, 1)
            /\ default' = IF tiered /\ ~Reload THEN with ELSE default
      /\ actor' = f /\ named' = Slot /\ failed' = FALSE
      /\ UNCHANGED <<tiered, batches>>

-----------------------------------------------------------------------------
New == 0

(* The updates: append to a place, or set y to a new list or to the value  *)
(* of a template, which is looked up before the batch.                     *)
Operation(s) ==
  [do : {"append"}, at : Slot]
    \cup [do : {"set"}, at : {"state.y"}, value : {New} \cup ({s[q] : q \in Slot} \ {None})]

(* _apply_single_update and _apply_nested_update.                          *)
Applied(h, op) ==
  LET o == h.state[op.at]
      new == Len(h.lists) + 1
  IN  CASE op.do = "append" /\ o # None -> [h EXCEPT !.lists[o] = @ + 1]
        [] op.do = "append" /\ o = None ->
             [lists |-> Append(h.lists, 1), state |-> [h.state EXCEPT ![op.at] = new]]
        [] op.do = "set" /\ op.value = New ->
             [lists |-> Append(h.lists, 0), state |-> [h.state EXCEPT ![op.at] = new]]
        [] OTHER -> [h EXCEPT !.state[op.at] = op.value]

(* A batch has one update or two.                                          *)
Batches(f) ==
  LET ops == Operation(state[f])
  IN  IF state[f] = None THEN {} ELSE {<<a>> : a \in ops} \cup (ops \X ops)

(* The updates that are left, one after the other                          *)
Done(h, ops) ==
  CASE Len(ops) = 0 -> h
    [] Len(ops) = 1 -> Applied(h, ops[1])
    [] Len(ops) = 2 -> Applied(Applied(h, ops[1]), ops[2])

BatchOf(f, batch) ==
  /\ batches < MaxBatches
  /\ batches' = batches + 1
  /\ actor' = f /\ named' = {batch[i].at : i \in DOMAIN batch}
  /\ UNCHANGED <<default, tiered>>

UpdateState(f) ==
  \E batch \in Batches(f) :
    LET end == Done([lists |-> length, state |-> state[f]], batch)
    IN  /\ BatchOf(f, batch)
        /\ length' = end.lists
        /\ state' = [state EXCEPT ![f] = end.state]
        /\ failed' = FALSE

AllButLast(batch) == SubSeq(batch, 1, Len(batch) - 1)

(* Mutant: the backup holds the lists themselves.                          *)
FailShallow(f) ==
  \E batch \in Batches(f) :
    LET part == Done([lists |-> length, state |-> state[f]], AllButLast(batch))
    IN  /\ BatchOf(f, batch)
        /\ length' = part.lists
        /\ failed' = TRUE
        /\ UNCHANGED state

(* The last update of the batch raises: the backup replaces the state, but *)
(* the lists that other places hold as well keep what the batch did.       *)
Fail(f) ==
  \E batch \in Batches(f) :
    LET backup == Copied(state[f], length)
        part == Done([lists |-> backup.lists, state |-> state[f]], AllButLast(batch))
    IN  /\ BatchOf(f, batch)
        /\ length' = part.lists
        /\ state' = [state EXCEPT ![f] = backup.state]
        /\ failed' = TRUE

ObjectsNext == \E f \in Instance : Start(f) \/ UpdateState(f) \/ Fail(f)

ObjectsSpec == ObjectsInit /\ [][ObjectsNext]_objectVars

-----------------------------------------------------------------------------
(* What is read at the places of a workflow.                               *)
View(f) ==
  IF state[f] = None THEN None
  ELSE [q \in Slot |-> IF state[f][q] = None THEN None ELSE length[state[f][q]]]

(* A step of one workflow changes nothing that another one reads, and a    *)
(* batch that fails leaves all that its own workflow reads as it was.      *)
UpdatesContained ==
  [][\A f \in Instance : View(f)' # View(f) => actor' = f /\ ~failed']_objectVars

(* The inputs are changed by nothing that does not name them.              *)
InputsKept ==
  [][\A f \in Instance :
       state[f] # None /\ View(f)'["inputs.x"] # View(f)["inputs.x"] => "inputs.x" \in named']_objectVars
=============================================================================
