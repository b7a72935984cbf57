--------------------------- MODULE VersionedStore ---------------------------
(***************************************************************************)
(* What the state of a workflow promises to those who share it.  It has a  *)
(* value, which an update replaces as a whole or not at all, and a version *)
(* for optimistic locking: an agent that names the version it has read     *)
(* updates the value only as long as that is the version.  A checkpoint    *)
(* keeps value and version, and can be restored once.                      *)
(*                                                                         *)
(* The executor writes past the versions, and a restored state continues   *)
(* the version of its checkpoint: a version stands for more than one value.*)
(***************************************************************************)
EXTENDS Integers

CONSTANTS
  Field,       (* the parts of a value                                     *)
  Number,      (* what an update writes into each of them                  *)
  Agent,       (* those who use versions                                   *)
  Checkpoint,  (* names of checkpoints                                     *)
  Nothing      (* nothing read; no checkpoint                              *)

VARIABLES
  value,       (* the state                                                *)
  version,     (* its version                                              *)
  known,       (* value and version as an agent last read them             *)
  kept         (* value and version in a checkpoint                        *)

vars == <<value, version, known, kept>>

(* A batch of updates sets every part.                                     *)
Whole == {[f \in Field |-> n] : n \in Number}

Current == [value |-> value, version |-> version]

Init ==
  /\ value = [f \in Field |-> 0]
  /\ version = 1
  /\ known = [a \in Agent |-> Nothing]
  /\ kept = [c \in Checkpoint |-> Nothing]

Read(a) ==
  /\ known' = [known EXCEPT ![a] = Current]
  /\ UNCHANGED <<value, version, kept>>

(* An agent that has read names the version, one that has not need not.    *)
(* What it had read is of no more use.                                     *)
Update(a) ==
  /\ known[a] # Nothing => known[a].version = version
  /\ value' \in Whole
  /\ version' = version + 1
  /\ known' = [known EXCEPT ![a] = Nothing]
  /\ UNCHANGED kept

(* Its update conflicts, is rejected or fails.                             *)
GiveUp(a) ==
  /\ known' = [known EXCEPT ![a] = Nothing]
  /\ UNCHANGED <<value, version, kept>>

(* The executor's update.                                                  *)
Write ==
  /\ value' \in Whole
  /\ UNCHANGED <<version, known, kept>>

Take(c) ==
  /\ kept[c] = Nothing
  /\ kept' = [kept EXCEPT ![c] = Current]
  /\ UNCHANGED <<value, version, known>>

Restore(c) ==
  /\ kept[c] # Nothing
  /\ value' = kept[c].value
  /\ version' = kept[c].version + 1
  /\ kept' = [kept EXCEPT ![c] = Nothing]
  /\ UNCHANGED known

Next ==
  \/ \E a \in Agent : Read(a) \/ Update(a) \/ GiveUp(a)
  \/ Write
  \/ \E c \in Checkpoint : Take(c) \/ Restore(c)

Spec == Init /\ [][Next]_vars
=============================================================================
