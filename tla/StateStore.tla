----------------------------- MODULE StateStore -----------------------------
(***************************************************************************)
(* The state of one workflow, in the StateManager that all the tools share,*)
(* and the ConcurrentStateManager around it.  Executor threads update the  *)
(* StateManager under its lock.  Agents go through the                     *)
(* ConcurrentStateManager, which has a lock of its own and a version for   *)
(* optimistic locking.  Keepers take and restore checkpoints, under that   *)
(* lock but not under the StateManager's.                                  *)
(*                                                                         *)
(* A WorkflowState is an object: an update changes it in place, keeps a    *)
(* deep copy to go back to, and a restored checkpoint shares its           *)
(* dictionaries with the state.  Its fields stand for the tiers, which are *)
(* written and copied one after the other.  An update writes a value of    *)
(* its own, the number of the update, into all of them.                    *)
(*                                                                         *)
(* A definition called a mutant is a plausible mistake in the definition   *)
(* that follows it; no formula uses it.  Some property fails with it.      *)
(***************************************************************************)
EXTENDS Integers, Sequences, FiniteSets

CONSTANTS
  Agent,       (* threads that use the ConcurrentStateManager              *)
  Direct,      (* threads of the executor                                  *)
  Keeper,      (* threads that take and restore checkpoints                *)
  Checkpoint,  (* the checkpoints taken                                    *)
  FieldCount,  (* how many fields a batch of updates sets                  *)
  MaxUpdates,  (* bound: so many updates are begun, an agent's as one more *)
  Quiet,       (* keepers only work while the executor does not update     *)
  Once,        (* a checkpoint is restored at most once                    *)
  Success,     (* may a field "success" be false?  TRUE if there is none   *)
  None         (* no thread, no checkpoint, nothing read                   *)

Thread == Agent \cup Direct \cup Keeper
Field == 1 .. FieldCount

ASSUME StoreAssumption ==
  /\ Agent \cap Direct = {} /\ Agent \cap Keeper = {} /\ Direct \cap Keeper = {}
  /\ None \notin Thread \cup Checkpoint
  /\ None \notin [value : [Field -> Nat], version : Nat]
  /\ None \notin [obj : Nat, version : Nat, restored : BOOLEAN]
  /\ FieldCount \in Nat \ {0}
  /\ MaxUpdates \in Nat
  /\ Quiet \in BOOLEAN /\ Once \in BOOLEAN
  /\ Success \in (SUBSET BOOLEAN) \ {{}}

VARIABLES
  heap,     (* the objects made so far                                     *)
  live,     (* StateManager._states: which object, 0 if none               *)
  version,  (* ConcurrentStateManager._versions                            *)
  saved,    (* checkpoints: object, version, restored?; None               *)
  clock,    (* who holds ConcurrentStateManager's lock of the workflow     *)
  lock,     (* who holds StateManager's lock of the workflow               *)
  pc,       (* where a thread is                                           *)
  obj,      (* the object a thread works on                                *)
  backup,   (* its original_state, or the copy a keeper makes              *)
  at,       (* how many fields it has written or copied                    *)
  target,   (* the checkpoint a keeper restores                            *)
  seen,     (* state and version an agent has read                         *)
  updates   (* how many updates were begun                                 *)

storeVars == <<heap, live, saved>>
localVars == <<obj, backup, at, target>>
vars == <<storeVars, version, clock, lock, pc, localVars, seen, updates>>

Goto(t, l) == pc' = [pc EXCEPT ![t] = l]

(* A call ends and releases what it holds.                                 *)
Return(t) ==
  /\ Goto(t, "idle")
  /\ obj' = [obj EXCEPT ![t] = 0] /\ backup' = [backup EXCEPT ![t] = 0]
  /\ at' = [at EXCEPT ![t] = 0]
  /\ target' = [target EXCEPT ![t] = None]
  /\ clock' = IF clock = t THEN None ELSE clock
  /\ lock' = IF lock = t THEN None ELSE lock
  /\ seen' = IF t \in Agent THEN [seen EXCEPT ![t] = None] ELSE seen

Init ==
  /\ heap = <<[f \in Field |-> 0]>>
  /\ live = 1
  /\ version = 1
  /\ saved = [c \in Checkpoint |-> None]
  /\ clock = None /\ lock = None
  /\ pc = [t \in Thread |-> "idle"]
  /\ obj = [t \in Thread |-> 0] /\ backup = [t \in Thread |-> 0]
  /\ at = [t \in Thread |-> 0]
  /\ target = [t \in Thread |-> None]
  /\ seen = [t \in Agent |-> None]
  /\ updates = 0

Idle(T) == \A t \in T : pc[t] = "idle"

-----------------------------------------------------------------------------
(* StateManager.update                                                     *)

(* _get_or_create_state under the lock, and a deep copy to go back to.     *)
Update(t) ==
  LET created == IF live = 0 THEN Append(heap, [f \in Field |-> 0]) ELSE heap
      state   == IF live = 0 THEN Len(created) ELSE live
  IN  /\ lock = None
      /\ lock' = t
      /\ live' = state
      /\ obj' = [obj EXCEPT ![t] = state]
      /\ heap' = Append(created, created[state])
      /\ backup' = [backup EXCEPT ![t] = Len(created) + 1]
      /\ updates' = updates + 1
      /\ Goto(t, "apply")
      /\ UNCHANGED <<saved, version, clock, at, target, seen>>

(* What has an invalid path is rejected before, and changes nothing.       *)
DirectUpdate(t) ==
  /\ pc[t] = "idle"
  /\ updates < MaxUpdates
  /\ Quiet => Idle(Keeper)
  /\ Update(t)

(* Mutant: one field too many.                                             *)
ApplyPastEnd(t) ==
  /\ pc[t] = "apply"
  /\ at[t] <= FieldCount
  /\ heap' = [heap EXCEPT ![obj[t]][at[t] + 1] = updates]
  /\ at' = [at EXCEPT ![t] = @ + 1]
  /\ UNCHANGED <<live, saved, version, clock, lock, pc, obj, backup, target, seen, updates>>

(* One update of the batch, in place.                                      *)
Apply(t) ==
  /\ pc[t] = "apply"
  /\ at[t] < FieldCount
  /\ heap' = [heap EXCEPT ![obj[t]][at[t] + 1] = updates]
  /\ at' = [at EXCEPT ![t] = @ + 1]
  /\ UNCHANGED <<live, saved, version, clock, lock, pc, obj, backup, target, seen, updates>>

(* Mutants: the state is not put back; the batch is tried again.           *)
ApplyFailsInPlace(t) ==
  /\ pc[t] = "apply"
  /\ Return(t)
  /\ UNCHANGED <<storeVars, version, updates>>

ApplyFailsRetries(t) ==
  /\ pc[t] = "apply"
  /\ heap' = [heap EXCEPT ![obj[t]] = heap[backup[t]]]
  /\ at' = [at EXCEPT ![t] = 0]
  /\ UNCHANGED <<live, saved, version, clock, lock, pc, obj, backup, target, seen, updates>>

(* One update of the batch, or a computed field after it, raises: the copy *)
(* becomes the state, and the exception ends the call.                     *)
ApplyFails(t) ==
  /\ pc[t] = "apply"
  /\ live' = backup[t]
  /\ Return(t)
  /\ UNCHANGED <<heap, saved, version, updates>>

(* All are applied.  An agent goes on to the version.                      *)
Applied(t) ==
  /\ pc[t] = "apply"
  /\ at[t] = FieldCount
  /\ live' = obj[t]
  /\ IF t \in Direct THEN Return(t)
     ELSE /\ Goto(t, "bump")
          /\ lock' = None
          /\ UNCHANGED <<clock, localVars, seen>>
  /\ UNCHANGED <<heap, saved, version, updates>>

-----------------------------------------------------------------------------
(* ConcurrentStateManager.read and update                                  *)

(* State and version are read together.                                    *)
AgentRead(t) ==
  /\ pc[t] \in {"idle", "ready"}
  /\ clock = None /\ lock = None
  /\ live # 0
  /\ seen' = [seen EXCEPT ![t] = [value |-> heap[live], version |-> version]]
  /\ Goto(t, "ready")
  /\ UNCHANGED <<storeVars, version, clock, lock, localVars, updates>>

Expected(t) == seen[t] # None => seen[t].version = version

(* The version is checked if the agent has one to expect.                  *)
AgentBegin(t) ==
  /\ pc[t] \in {"idle", "ready"}
  /\ updates < MaxUpdates
  /\ clock = None
  /\ IF Expected(t)
     THEN /\ clock' = t
          /\ Goto(t, "enter")
          /\ UNCHANGED <<lock, localVars, seen>>
     ELSE Return(t)
  /\ UNCHANGED <<storeVars, version, updates>>

AgentUpdate(t) ==
  /\ pc[t] = "enter"
  /\ Update(t)

(* A path is not valid.                                                    *)
AgentRejected(t) ==
  /\ pc[t] = "enter"
  /\ lock = None
  /\ Return(t)
  /\ UNCHANGED <<storeVars, version, updates>>

(* Mutant: the version only counts updates that were checked.              *)
BumpOnlyExpected(t) ==
  /\ pc[t] = "bump"
  /\ version' = IF seen[t] # None THEN version + 1 ELSE version
  /\ Return(t)
  /\ UNCHANGED <<storeVars, updates>>

(* The result of update is looked up for "success", but it is the state of *)
(* the workflow: when that has a field of this name which is false, the    *)
(* version stays.                                                          *)
Bump(t) ==
  /\ pc[t] = "bump"
  /\ \E success \in Success : version' = IF success THEN version + 1 ELSE version
  /\ Return(t)
  /\ UNCHANGED <<storeVars, updates>>

-----------------------------------------------------------------------------
(* create_checkpoint and restore_from_checkpoint                           *)

(* Mutant: the lock is not awaited.                                        *)
KeeperBeginAnyway(k) ==
  /\ pc[k] = "idle"
  /\ clock' = k
  /\ Quiet => Idle(Direct)

KeeperBegin(k) ==
  /\ pc[k] = "idle"
  /\ clock = None
  /\ clock' = k
  /\ Quiet => Idle(Direct)

(* The object is looked up; its tiers are then copied one after the other. *)
CheckpointBegin(k, c) ==
  /\ saved[c] = None
  /\ live # 0
  /\ KeeperBegin(k)
  /\ target' = [target EXCEPT ![k] = c]
  /\ obj' = [obj EXCEPT ![k] = live]
  /\ heap' = Append(heap, [f \in Field |-> 0])
  /\ backup' = [backup EXCEPT ![k] = Len(heap) + 1]
  /\ Goto(k, "copy")
  /\ UNCHANGED <<live, saved, version, lock, at, seen, updates>>

CheckpointCopy(k) ==
  /\ pc[k] = "copy"
  /\ at[k] < FieldCount
  /\ heap' = [heap EXCEPT ![backup[k]][at[k] + 1] = heap[obj[k]][at[k] + 1]]
  /\ at' = [at EXCEPT ![k] = @ + 1]
  /\ UNCHANGED <<live, saved, version, clock, lock, pc, obj, backup, target, seen, updates>>

CheckpointEnd(k) ==
  /\ pc[k] = "copy"
  /\ at[k] = FieldCount
  /\ saved' = [saved EXCEPT ![target[k]] =
                 [obj |-> backup[k], version |-> version, restored |-> FALSE]]
  /\ Return(k)
  /\ UNCHANGED <<heap, live, version, updates>>

RestoreBegin(k, c) ==
  /\ saved[c] # None
  /\ Once => ~saved[c].restored
  /\ KeeperBegin(k)
  /\ target' = [target EXCEPT ![k] = c]
  /\ saved' = [saved EXCEPT ![c].restored = TRUE]
  /\ live' = 0
  /\ Goto(k, "replace")
  /\ UNCHANGED <<heap, version, lock, obj, backup, at, seen, updates>>

(* The dictionaries of the checkpoint are the state.                       *)
RestoreReplace(k) ==
  /\ pc[k] = "replace"
  /\ live' = saved[target[k]].obj
  /\ Goto(k, "stamp")
  /\ UNCHANGED <<heap, saved, version, clock, lock, localVars, seen, updates>>

RestoreStamp(k) ==
  /\ pc[k] = "stamp"
  /\ version' = saved[target[k]].version + 1
  /\ Return(k)
  /\ UNCHANGED <<storeVars, updates>>

-----------------------------------------------------------------------------
Updating(t) == Apply(t) \/ ApplyFails(t) \/ Applied(t)

AgentGoesOn(t) == AgentUpdate(t) \/ AgentRejected(t) \/ Updating(t) \/ Bump(t)

KeeperGoesOn(k) == CheckpointCopy(k) \/ CheckpointEnd(k) \/ RestoreReplace(k) \/ RestoreStamp(k)

Next ==
  \/ \E t \in Agent : AgentRead(t) \/ AgentBegin(t) \/ AgentGoesOn(t)
  \/ \E t \in Direct : DirectUpdate(t) \/ Updating(t)
  \/ \E k \in Keeper :
       \/ \E c \in Checkpoint : CheckpointBegin(k, c) \/ RestoreBegin(k, c)
       \/ KeeperGoesOn(k)

Spec == Init /\ [][Next]_vars

(* A thread that is in a call is scheduled.  Nobody has to begin one.      *)
Fairness ==
  /\ \A t \in Agent : WF_vars(AgentGoesOn(t))
  /\ \A t \in Direct : WF_vars(Updating(t))
  /\ \A k \in Keeper : WF_vars(KeeperGoesOn(k))

FairSpec == Spec /\ Fairness

-----------------------------------------------------------------------------
(* Properties                                                              *)

Object == [Field -> Nat]
Saved == [obj : DOMAIN heap, version : Nat, restored : BOOLEAN]

TypeOK ==
  /\ heap \in Seq(Object)
  /\ live \in {0} \cup DOMAIN heap
  /\ version \in Nat
  /\ saved \in [Checkpoint -> Saved \cup {None}]
  /\ clock \in Agent \cup Keeper \cup {None}
  /\ lock \in Agent \cup Direct \cup {None}
  /\ pc \in [Thread -> {"idle", "ready", "enter", "apply", "bump", "copy", "replace", "stamp"}]
  /\ obj \in [Thread -> {0} \cup DOMAIN heap]
  /\ backup \in [Thread -> {0} \cup DOMAIN heap]
  /\ at \in [Thread -> 0 .. FieldCount]
  /\ target \in [Thread -> Checkpoint \cup {None}]
  /\ seen \in [Agent -> [value : Object, version : Nat] \cup {None}]
  /\ updates \in Nat

Whole(o) == \A f, g \in Field : heap[o][f] = heap[o][g]

(* All updates of a batch are applied or none: whoever gets the lock finds *)
(* a state that one batch has written (AC-SM-009), also after failures,    *)
(* checkpoints and restores.                                               *)
AtomicUpdates == lock = None /\ live # 0 => Whole(live)

(* A checkpoint holds one state that the workflow had, not parts of two.   *)
CheckpointsWhole ==
  \A c \in Checkpoint : saved[c] # None /\ ~saved[c].restored => Whole(saved[c].obj)

(* Two locks are taken by some and one of them by others: nobody is left   *)
(* waiting, every call that was begun returns.                             *)
OperationsReturn == \A t \in Thread : pc[t] \notin {"idle", "ready"} ~> pc[t] \in {"idle", "ready"}

(* What AC-SM-012 says of concurrent updates: conflicts are detected.  An  *)
(* update with an expected version is begun only while the state is the    *)
(* one that was read with this version.                                    *)
ConflictsDetected ==
  [][\A t \in Agent :
       pc[t] = "ready" /\ pc'[t] = "enter" => live # 0 /\ heap[live] = seen[t].value]_vars

(* What create_checkpoint makes its deep copy for: no later update changes *)
(* what a checkpoint holds.                                                *)
CheckpointStable ==
  [][\A c \in Checkpoint :
       saved[c] # None => heap'[saved[c].obj] = heap[saved[c].obj]]_vars

-----------------------------------------------------------------------------
(* The store that the two managers implement, for keepers that leave the   *)
(* executor alone and restore a checkpoint once.  An update takes place    *)
(* when all of it is applied, its version then counts although the         *)
(* variable is set later; a restore when it removes the state.             *)

Updater(t) == pc[t] = "apply" /\ lock = t
Restoring(k) == pc[k] \in {"replace", "stamp"}
Counting(t) == pc[t] = "bump"

value ==
  IF \E t \in Thread : Updater(t) THEN heap[backup[CHOOSE t \in Thread : Updater(t)]]
  ELSE IF live # 0 THEN heap[live]
  ELSE heap[saved[target[CHOOSE k \in Keeper : Restoring(k)]].obj]

counted ==
  IF \E k \in Keeper : Restoring(k)
  THEN saved[target[CHOOSE k \in Keeper : Restoring(k)]].version + 1
  ELSE IF \E t \in Thread : Counting(t) THEN version + 1
  ELSE version

known == [t \in Agent |-> IF Counting(t) THEN None ELSE seen[t]]

kept ==
  [c \in Checkpoint |->
     IF saved[c] = None THEN None
     ELSE IF saved[c].restored THEN None
     ELSE [value |-> heap[saved[c].obj], version |-> saved[c].version]]

Store == INSTANCE VersionedStore
           WITH version <- counted, Nothing <- None,
                Number <- 1 .. MaxUpdates + 1

(* Every step is one of the store's, or none that it knows of.             *)
ImplementsStore == Store!Spec
=============================================================================
