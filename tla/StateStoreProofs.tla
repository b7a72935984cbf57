--------------------------- MODULE StateStoreProofs ---------------------------
(***************************************************************************)
(* Theorems about StateStore, for any number of agents, executor threads,  *)
(* keepers, checkpoints, fields and updates: types, and, if keepers leave  *)
(* the executor alone and restore a checkpoint once, whole batches in the  *)
(* state and in the checkpoints, and that it implements VersionedStore.    *)
(***************************************************************************)
EXTENDS StateStore, SequenceTheorems, TLAPS

-----------------------------------------------------------------------------
(* The heap.                                                               *)

LEMMA HeapGrows ==
  ASSUME NEW h \in Seq(Object), NEW o \in Object
  PROVE  /\ Append(h, o) \in Seq(Object)
         /\ DOMAIN h \subseteq DOMAIN Append(h, o)
         /\ Len(h) + 1 \in DOMAIN Append(h, o)
         /\ Len(h) + 1 \notin DOMAIN h
         /\ Len(Append(h, o)) = Len(h) + 1
         /\ \A i \in DOMAIN h : Append(h, o)[i] = h[i]
         /\ Append(h, o)[Len(h) + 1] = o
<1>1. /\ Append(h, o) \in Seq(Object)
      /\ Len(Append(h, o)) = Len(h) + 1
      /\ \A i \in 1 .. Len(h) : Append(h, o)[i] = h[i]
      /\ Append(h, o)[Len(h) + 1] = o
      /\ Len(h) \in Nat
  BY AppendProperties, LenProperties
<1>2. DOMAIN h = 1 .. Len(h) /\ DOMAIN Append(h, o) = 1 .. Len(h) + 1
  BY <1>1, LenProperties
<1> QED BY <1>1, <1>2

LEMMA FieldWritten ==
  ASSUME NEW h \in Seq(Object), NEW o, NEW f, NEW n \in Nat
  PROVE  LET w == [h EXCEPT ![o][f] = n]
         IN  /\ w \in Seq(Object)
             /\ DOMAIN w = DOMAIN h
             /\ Len(w) = Len(h)
             /\ \A p \in DOMAIN h : p # o => w[p] = h[p]
             /\ o \in DOMAIN h => w[o] = [h[o] EXCEPT ![f] = n]
<1> DEFINE w == [h EXCEPT ![o][f] = n]
<1>1. /\ DOMAIN h = 1 .. Len(h) /\ Len(h) \in Nat
      /\ \A p \in DOMAIN h : h[p] \in Object
  BY LenProperties, ElementOfSeq
<1>2. /\ DOMAIN w = DOMAIN h
      /\ \A p \in DOMAIN h : w[p] = IF p = o THEN [h[o] EXCEPT ![f] = n] ELSE h[p]
  OBVIOUS
<1>3. \A p \in DOMAIN h : w[p] \in Object
  BY <1>1, <1>2 DEF Object
<1>4. w \in [1 .. Len(h) -> Object]
  BY <1>1, <1>2, <1>3
<1>5. w \in Seq(Object) /\ Len(w) = Len(h)
  <2> HIDE DEF w
  <2>1. w \in Seq(Object)
    BY <1>1, <1>4, SeqDef
  <2> QED BY <1>1, <1>2, <2>1, LenProperties
<1> QED BY <1>2, <1>5

-----------------------------------------------------------------------------
(* Types.  What a keeper copies or restores exists.                        *)

CallOK(t) ==
  /\ pc[t] = "copy" => /\ obj[t] \in DOMAIN heap /\ backup[t] \in DOMAIN heap
                       /\ target[t] \in Checkpoint
  /\ pc[t] \in {"replace", "stamp"} => target[t] \in Checkpoint /\ saved[target[t]] \in Saved

StoreTypeOK ==
  /\ heap \in Seq(Object)
  /\ live \in {0} \cup DOMAIN heap
  /\ version \in Nat
  /\ saved \in [Checkpoint -> Saved \cup {None}]
  /\ updates \in Nat

Labels == {"idle", "ready", "enter", "apply", "bump", "copy", "replace", "stamp"}

LocalTypeOK ==
  /\ clock \in Agent \cup Keeper \cup {None}
  /\ lock \in Agent \cup Direct \cup {None}
  /\ pc \in [Thread -> Labels]
  /\ obj \in [Thread -> {0} \cup DOMAIN heap]
  /\ backup \in [Thread -> {0} \cup DOMAIN heap]
  /\ at \in [Thread -> 0 .. FieldCount]
  /\ target \in [Thread -> Checkpoint \cup {None}]
  /\ seen \in [Agent -> [value : Object, version : Nat] \cup {None}]

Typed == StoreTypeOK /\ LocalTypeOK /\ \A t \in Thread : CallOK(t)

LEMMA TypedIsTypeOK == Typed => TypeOK
BY DEF Typed, StoreTypeOK, LocalTypeOK, Labels, TypeOK

LEMMA ReturnTyped ==
  ASSUME LocalTypeOK, NEW t \in Thread, Return(t), UNCHANGED heap
  PROVE  LocalTypeOK'
<1>1. pc' \in [Thread -> Labels]
  BY DEF LocalTypeOK, Labels, Return, Goto
<1>2. /\ obj' \in [Thread -> {0} \cup DOMAIN heap]
      /\ backup' \in [Thread -> {0} \cup DOMAIN heap]
      /\ at' \in [Thread -> 0 .. FieldCount]
      /\ target' \in [Thread -> Checkpoint \cup {None}]
  BY StoreAssumption DEF LocalTypeOK, Return
<1>3. /\ clock' \in Agent \cup Keeper \cup {None}
      /\ lock' \in Agent \cup Direct \cup {None}
  BY DEF LocalTypeOK, Return
<1>4. seen' \in [Agent -> [value : Object, version : Nat] \cup {None}]
  BY DEF LocalTypeOK, Return
<1> QED BY <1>1, <1>2, <1>3, <1>4 DEF LocalTypeOK

(* Calls other than t's are where they were.                               *)
LEMMA ReturnCalls ==
  ASSUME LocalTypeOK, NEW t \in Thread, Return(t), UNCHANGED heap,
         \A u \in Thread : CallOK(u), NEW u \in Thread,
         u # t => UNCHANGED saved
                  \/ (saved[target[u]] \in Saved => saved'[target[u]] \in Saved)
  PROVE  CallOK(u)'
<1>1. CASE u = t
  BY <1>1 DEF LocalTypeOK, Return, Goto, CallOK
<1>2. CASE u # t
  <2>1. /\ pc'[u] = pc[u] /\ obj'[u] = obj[u] /\ backup'[u] = backup[u]
        /\ target'[u] = target[u]
    BY <1>2 DEF LocalTypeOK, Return, Goto
  <2>2. Saved' = Saved
    BY DEF Saved
  <2> QED BY <1>2, <2>1, <2>2 DEF CallOK
<1> QED BY <1>1, <1>2

LEMMA InitTyped == Init => Typed
<1> SUFFICES ASSUME Init PROVE Typed
  OBVIOUS
<1>1. [f \in Field |-> 0] \in Object
  BY DEF Object
<1>2. heap \in Seq(Object) /\ 1 \in DOMAIN heap
  BY <1>1 DEF Init
<1> QED BY <1>2, StoreAssumption
  DEF Init, Typed, StoreTypeOK, LocalTypeOK, Labels, CallOK

LEMMA UpdateTyped ==
  ASSUME Typed, NEW t \in Agent \cup Direct, pc[t] \in {"idle", "enter"}, Update(t)
  PROVE  Typed'
<1> DEFINE new == [f \in Field |-> 0]
<1> DEFINE created == IF live = 0 THEN Append(heap, new) ELSE heap
<1> DEFINE state == IF live = 0 THEN Len(created) ELSE live
<1>1. new \in Object
  BY DEF Object
<1>2. /\ created \in Seq(Object)
      /\ DOMAIN heap \subseteq DOMAIN created
      /\ state \in DOMAIN created
  BY <1>1, HeapGrows DEF Typed, StoreTypeOK
<1>3. created[state] \in Object
  BY <1>2, ElementOfSeq
<1>4. /\ heap' \in Seq(Object)
      /\ DOMAIN heap \subseteq DOMAIN heap'
      /\ state \in DOMAIN heap'
      /\ Len(created) + 1 \in DOMAIN heap'
  <2>1. heap' = Append(created, created[state])
    BY DEF Update
  <2> HIDE DEF created, state
  <2> QED BY <1>2, <1>3, <2>1, HeapGrows
<1>5. /\ live' = state
      /\ obj' = [obj EXCEPT ![t] = state]
      /\ backup' = [backup EXCEPT ![t] = Len(created) + 1]
      /\ updates' = updates + 1
      /\ lock' = t
      /\ pc' = [pc EXCEPT ![t] = "apply"]
      /\ UNCHANGED <<saved, version, clock, at, target, seen>>
  BY DEF Update, Goto
<1> HIDE DEF created, state
<1>6. saved' \in [Checkpoint -> Saved' \cup {None}]
  BY <1>4, <1>5 DEF Typed, StoreTypeOK, Saved
<1>7. StoreTypeOK'
  BY <1>4, <1>5, <1>6 DEF Typed, StoreTypeOK
<1>8. LocalTypeOK'
  BY <1>4, <1>5 DEF Typed, LocalTypeOK, Labels, Thread
<1>9. ASSUME NEW u \in Thread PROVE CallOK(u)'
  <2>1. CASE u = t
    BY <1>5, <2>1 DEF Typed, LocalTypeOK, CallOK
  <2>2. CASE u # t
    <3>1. Saved \subseteq Saved'
      BY <1>4 DEF Saved
    <3>2. /\ pc'[u] = pc[u] /\ obj'[u] = obj[u] /\ backup'[u] = backup[u]
          /\ target'[u] = target[u]
      BY <1>5, <2>2 DEF Typed, LocalTypeOK
    <3> QED BY <1>4, <1>5, <3>1, <3>2 DEF Typed, CallOK
  <2> QED BY <2>1, <2>2
<1> QED BY <1>7, <1>8, <1>9 DEF Typed

LEMMA UpdatingTyped ==
  ASSUME Typed, NEW t \in Agent \cup Direct, Updating(t)
  PROVE  Typed'
<1>1. CASE Apply(t)
  <2>1. /\ heap' \in Seq(Object)
        /\ DOMAIN heap' = DOMAIN heap
    BY <1>1, FieldWritten DEF Typed, StoreTypeOK, Apply
  <2>2. /\ at' = [at EXCEPT ![t] = @ + 1]
        /\ at[t] < FieldCount
        /\ UNCHANGED <<live, saved, version, clock, lock, pc, obj, backup, target, seen, updates>>
    BY <1>1 DEF Apply
  <2>3. at' \in [Thread -> 0 .. FieldCount]
    BY <2>2, StoreAssumption DEF Typed, LocalTypeOK, Thread
  <2>4. Saved' = Saved
    BY <2>1 DEF Saved
  <2> QED BY <2>1, <2>2, <2>3, <2>4 DEF Typed, StoreTypeOK, LocalTypeOK, CallOK
<1>2. CASE ApplyFails(t)
  <2>1. /\ live' = backup[t]
        /\ Return(t)
        /\ UNCHANGED <<heap, saved, version, updates>>
    BY <1>2 DEF ApplyFails
  <2>2. Saved' = Saved /\ t \in Thread
    BY <2>1 DEF Saved, Thread
  <2>3. StoreTypeOK'
    BY <2>1, <2>2 DEF Typed, StoreTypeOK, LocalTypeOK
  <2> QED BY <2>1, <2>2, <2>3, ReturnTyped, ReturnCalls DEF Typed
<1>3. CASE Applied(t)
  <2>1. live' = obj[t] /\ UNCHANGED <<heap, saved, version, updates>>
    BY <1>3 DEF Applied
  <2>2. Saved' = Saved /\ t \in Thread
    BY <2>1 DEF Saved, Thread
  <2>3. StoreTypeOK'
    BY <2>1, <2>2 DEF Typed, StoreTypeOK, LocalTypeOK
  <2>4. CASE t \in Direct
    BY <1>3, <2>1, <2>2, <2>3, <2>4, ReturnTyped, ReturnCalls DEF Typed, Applied
  <2>5. CASE t \notin Direct
    <3>1. /\ pc' = [pc EXCEPT ![t] = "bump"]
          /\ lock' = None
          /\ UNCHANGED <<clock, obj, backup, at, target, seen>>
      BY <1>3, <2>5 DEF Applied, Goto, localVars
    <3>2. LocalTypeOK'
      BY <2>1, <3>1 DEF Typed, LocalTypeOK, Labels
    <3>3. \A u \in Thread : CallOK(u)'
      BY <2>1, <2>2, <3>1 DEF Typed, LocalTypeOK, CallOK
    <3> QED BY <2>3, <3>2, <3>3 DEF Typed
  <2> QED BY <2>4, <2>5
<1> QED BY <1>1, <1>2, <1>3 DEF Updating

LEMMA AgentTyped ==
  ASSUME Typed, NEW t \in Agent,
         AgentRead(t) \/ AgentBegin(t) \/ AgentRejected(t) \/ Bump(t)
  PROVE  Typed'
<1>1. t \in Thread /\ Saved' = Saved
  BY DEF Thread, Saved, AgentRead, AgentBegin, AgentRejected, Bump, storeVars
<1>2. CASE AgentRead(t)
  <2>1. heap[live] \in Object
    BY <1>2, ElementOfSeq DEF AgentRead, Typed, StoreTypeOK
  <2>2. seen' \in [Agent -> [value : Object, version : Nat] \cup {None}]
    BY <1>2, <2>1 DEF AgentRead, Typed, StoreTypeOK, LocalTypeOK
  <2>3. /\ pc' = [pc EXCEPT ![t] = "ready"]
        /\ UNCHANGED <<heap, live, saved, version, clock, lock, obj, backup, at, target, updates>>
    BY <1>2 DEF AgentRead, Goto, storeVars, localVars
  <2>4. LocalTypeOK'
    BY <2>2, <2>3 DEF Typed, LocalTypeOK, Labels
  <2>5. \A u \in Thread : CallOK(u)'
    BY <1>1, <2>3 DEF Typed, LocalTypeOK, CallOK
  <2> QED BY <1>1, <2>3, <2>4, <2>5 DEF Typed, StoreTypeOK
<1>3. CASE AgentBegin(t)
  <2>1. UNCHANGED <<heap, live, saved, version, updates>>
    BY <1>3 DEF AgentBegin, storeVars
  <2>2. CASE Expected(t)
    <3>1. /\ pc' = [pc EXCEPT ![t] = "enter"]
          /\ clock' = t
          /\ UNCHANGED <<lock, obj, backup, at, target, seen>>
      BY <1>3, <2>2 DEF AgentBegin, Goto, localVars
    <3>2. LocalTypeOK'
      BY <2>1, <3>1 DEF Typed, LocalTypeOK, Labels
    <3>3. \A u \in Thread : CallOK(u)'
      BY <1>1, <2>1, <3>1 DEF Typed, LocalTypeOK, CallOK
    <3> QED BY <1>1, <2>1, <3>2, <3>3 DEF Typed, StoreTypeOK
  <2>3. CASE ~Expected(t)
    <3>1. Return(t)
      BY <1>3, <2>3 DEF AgentBegin
    <3> QED BY <1>1, <2>1, <3>1, ReturnTyped, ReturnCalls DEF Typed, StoreTypeOK
  <2> QED BY <2>2, <2>3
<1>4. CASE AgentRejected(t)
  <2>1. Return(t) /\ UNCHANGED <<heap, live, saved, version, updates>>
    BY <1>4 DEF AgentRejected, storeVars
  <2> QED BY <1>1, <2>1, ReturnTyped, ReturnCalls DEF Typed, StoreTypeOK
<1>5. CASE Bump(t)
  <2>1. Return(t) /\ UNCHANGED <<heap, live, saved, updates>>
    BY <1>5 DEF Bump, storeVars
  <2>2. version' \in Nat
    BY <1>5 DEF Bump, Typed, StoreTypeOK
  <2> QED BY <1>1, <2>1, <2>2, ReturnTyped, ReturnCalls DEF Typed, StoreTypeOK
<1> QED BY <1>2, <1>3, <1>4, <1>5

LEMMA CheckpointTyped ==
  ASSUME Typed, NEW k \in Keeper,
         (\E c \in Checkpoint : CheckpointBegin(k, c)) \/ CheckpointCopy(k) \/ CheckpointEnd(k)
  PROVE  Typed'
<1>1. k \in Thread
  BY DEF Thread
<1>2. ASSUME NEW c \in Checkpoint, CheckpointBegin(k, c)
      PROVE  Typed'
  <2>1. /\ heap' = Append(heap, [f \in Field |-> 0])
        /\ target' = [target EXCEPT ![k] = c]
        /\ obj' = [obj EXCEPT ![k] = live]
        /\ backup' = [backup EXCEPT ![k] = Len(heap) + 1]
        /\ clock' = k
        /\ live # 0
        /\ pc' = [pc EXCEPT ![k] = "copy"]
        /\ UNCHANGED <<live, saved, version, lock, at, seen, updates>>
    BY <1>2 DEF CheckpointBegin, KeeperBegin, Goto
  <2>2. [f \in Field |-> 0] \in Object
    BY DEF Object
  <2>3. /\ heap' \in Seq(Object)
        /\ DOMAIN heap \subseteq DOMAIN heap'
        /\ Len(heap) + 1 \in DOMAIN heap'
    BY <2>1, <2>2, HeapGrows DEF Typed, StoreTypeOK
  <2>4. Saved \subseteq Saved'
    BY <2>3 DEF Saved
  <2>5. StoreTypeOK'
    BY <2>1, <2>3, <2>4 DEF Typed, StoreTypeOK
  <2>6. LocalTypeOK'
    BY <1>1, <2>1, <2>3 DEF Typed, StoreTypeOK, LocalTypeOK, Labels
  <2>7. ASSUME NEW u \in Thread PROVE CallOK(u)'
    <3>1. CASE u = k
      BY <1>1, <2>1, <2>3, <3>1 DEF Typed, StoreTypeOK, LocalTypeOK, CallOK
    <3>2. CASE u # k
      <4>1. /\ pc'[u] = pc[u] /\ obj'[u] = obj[u] /\ backup'[u] = backup[u]
            /\ target'[u] = target[u]
        BY <2>1, <3>2 DEF Typed, LocalTypeOK
      <4> QED BY <2>1, <2>3, <2>4, <4>1 DEF Typed, CallOK
    <3> QED BY <3>1, <3>2
  <2> QED BY <2>5, <2>6, <2>7 DEF Typed
<1>3. CASE CheckpointCopy(k)
  <2> DEFINE f == at[k] + 1
  <2> DEFINE n == heap[obj[k]][f]
  <2>1. /\ heap' = [heap EXCEPT ![backup[k]][f] = n]
        /\ at' = [at EXCEPT ![k] = @ + 1]
        /\ pc[k] = "copy" /\ at[k] < FieldCount
        /\ UNCHANGED <<live, saved, version, clock, lock, pc, obj, backup, target, seen, updates>>
    BY <1>3 DEF CheckpointCopy
  <2>2. at' \in [Thread -> 0 .. FieldCount] /\ f \in Field
    BY <1>1, <2>1, StoreAssumption DEF Typed, LocalTypeOK, Field
  <2>3. n \in Nat
    <3>1. obj[k] \in DOMAIN heap
      BY <1>1, <2>1 DEF Typed, CallOK
    <3>2. heap[obj[k]] \in Object
      BY <3>1, ElementOfSeq DEF Typed, StoreTypeOK
    <3> QED BY <2>2, <3>2 DEF Object
  <2>4. heap' \in Seq(Object) /\ DOMAIN heap' = DOMAIN heap
    <3> HIDE DEF n, f
    <3> QED BY <2>1, <2>3, FieldWritten DEF Typed, StoreTypeOK
  <2>5. Saved' = Saved
    BY <2>4 DEF Saved
  <2> QED BY <2>1, <2>2, <2>4, <2>5 DEF Typed, StoreTypeOK, LocalTypeOK, CallOK
<1>4. CASE CheckpointEnd(k)
  <2>1. /\ Return(k)
        /\ saved' = [saved EXCEPT ![target[k]] =
                       [obj |-> backup[k], version |-> version, restored |-> FALSE]]
        /\ pc[k] = "copy"
        /\ UNCHANGED <<heap, live, version, updates>>
    BY <1>4 DEF CheckpointEnd
  <2>2. Saved' = Saved
    BY <2>1 DEF Saved
  <2>3. [obj |-> backup[k], version |-> version, restored |-> FALSE] \in Saved
    BY <1>1, <2>1 DEF Typed, StoreTypeOK, CallOK, Saved
  <2>4. StoreTypeOK'
    BY <2>1, <2>2, <2>3 DEF Typed, StoreTypeOK
  <2>5. \A u \in Thread : saved[target[u]] \in Saved /\ target[u] \in Checkpoint
                            => saved'[target[u]] \in Saved
    BY <2>1, <2>3 DEF Typed, StoreTypeOK
  <2>6. LocalTypeOK'
    BY <1>1, <2>1, ReturnTyped DEF Typed
  <2>7. ASSUME NEW u \in Thread PROVE CallOK(u)'
    <3>1. CASE u = k
      BY <1>1, <2>1, <3>1, ReturnCalls DEF Typed
    <3>2. CASE u # k
      <4>1. /\ pc'[u] = pc[u] /\ obj'[u] = obj[u] /\ backup'[u] = backup[u]
            /\ target'[u] = target[u]
        BY <2>1, <3>2 DEF Typed, LocalTypeOK, Return, Goto
      <4>2. CallOK(u)
        BY DEF Typed
      <4>3. CASE pc[u] \in {"replace", "stamp"}
        BY <2>2, <2>5, <4>1, <4>2, <4>3 DEF CallOK
      <4>4. CASE pc[u] \notin {"replace", "stamp"}
        BY <2>1, <4>1, <4>2, <4>4 DEF CallOK
      <4> QED BY <4>3, <4>4
    <3> QED BY <3>1, <3>2
  <2> QED BY <2>4, <2>6, <2>7 DEF Typed
<1> QED BY <1>2, <1>3, <1>4

LEMMA RestoreTyped ==
  ASSUME Typed, NEW k \in Keeper,
         (\E c \in Checkpoint : RestoreBegin(k, c)) \/ RestoreReplace(k) \/ RestoreStamp(k)
  PROVE  Typed'
<1>1. k \in Thread /\ Saved' = Saved
  BY DEF Thread, Saved, RestoreBegin, RestoreReplace, RestoreStamp, storeVars
<1>2. ASSUME NEW c \in Checkpoint, RestoreBegin(k, c)
      PROVE  Typed'
  <2>1. /\ target' = [target EXCEPT ![k] = c]
        /\ saved' = [saved EXCEPT ![c].restored = TRUE]
        /\ saved[c] # None
        /\ live' = 0
        /\ clock' = k
        /\ pc' = [pc EXCEPT ![k] = "replace"]
        /\ UNCHANGED <<heap, version, lock, obj, backup, at, seen, updates>>
    BY <1>2 DEF RestoreBegin, KeeperBegin, Goto
  <2>2. saved[c] \in Saved
    BY <2>1 DEF Typed, StoreTypeOK
  <2>3. /\ saved'[c] \in Saved
        /\ \A d \in Checkpoint : d # c => saved'[d] = saved[d]
    BY <2>1, <2>2 DEF Typed, StoreTypeOK, Saved
  <2>4. saved' \in [Checkpoint -> Saved \cup {None}]
    BY <2>1, <2>3 DEF Typed, StoreTypeOK
  <2>5. StoreTypeOK'
    BY <1>1, <2>1, <2>4 DEF Typed, StoreTypeOK
  <2>6. LocalTypeOK'
    BY <1>1, <2>1 DEF Typed, LocalTypeOK, Labels
  <2>7. ASSUME NEW u \in Thread PROVE CallOK(u)'
    <3>1. CASE u = k
      BY <1>1, <2>1, <2>3, <3>1 DEF Typed, LocalTypeOK, CallOK
    <3>2. CASE u # k
      <4>1. /\ pc'[u] = pc[u] /\ obj'[u] = obj[u] /\ backup'[u] = backup[u]
            /\ target'[u] = target[u]
        BY <2>1, <3>2 DEF Typed, LocalTypeOK
      <4>2. CallOK(u)
        BY DEF Typed
      <4>3. CASE pc[u] \in {"replace", "stamp"}
        BY <1>1, <2>3, <4>1, <4>2, <4>3 DEF CallOK
      <4>4. CASE pc[u] \notin {"replace", "stamp"}
        BY <2>1, <4>1, <4>2, <4>4 DEF CallOK
      <4> QED BY <4>3, <4>4
    <3> QED BY <3>1, <3>2
  <2> QED BY <2>5, <2>6, <2>7 DEF Typed
<1>3. CASE RestoreReplace(k)
  <2>1. /\ pc[k] = "replace"
        /\ live' = saved[target[k]].obj
        /\ pc' = [pc EXCEPT ![k] = "stamp"]
        /\ UNCHANGED <<heap, saved, version, clock, lock, obj, backup, at, target, seen, updates>>
    BY <1>3 DEF RestoreReplace, Goto, localVars
  <2>2. saved[target[k]] \in Saved
    BY <1>1, <2>1 DEF Typed, CallOK
  <2>3. live' \in DOMAIN heap
    BY <2>1, <2>2 DEF Saved
  <2>4. LocalTypeOK'
    BY <2>1 DEF Typed, LocalTypeOK, Labels
  <2>5. \A u \in Thread : CallOK(u)'
    BY <1>1, <2>1 DEF Typed, LocalTypeOK, CallOK
  <2> QED BY <1>1, <2>1, <2>3, <2>4, <2>5 DEF Typed, StoreTypeOK
<1>4. CASE RestoreStamp(k)
  <2>1. /\ pc[k] = "stamp"
        /\ version' = saved[target[k]].version + 1
        /\ Return(k)
        /\ UNCHANGED <<heap, live, saved, updates>>
    BY <1>4 DEF RestoreStamp, storeVars
  <2>2. saved[target[k]] \in Saved
    BY <1>1, <2>1 DEF Typed, CallOK
  <2>3. version' \in Nat
    BY <2>1, <2>2 DEF Saved
  <2> QED BY <1>1, <2>1, <2>3, ReturnTyped, ReturnCalls DEF Typed, StoreTypeOK
<1> QED BY <1>2, <1>3, <1>4

LEMMA NextTyped == Typed /\ [Next]_vars => Typed'
<1> SUFFICES ASSUME Typed, [Next]_vars PROVE Typed'
  OBVIOUS
<1>1. ASSUME NEW t \in Agent, AgentRead(t) \/ AgentBegin(t) \/ AgentGoesOn(t)
      PROVE  Typed'
  <2>1. CASE AgentUpdate(t)
    BY <2>1, UpdateTyped DEF AgentUpdate
  <2> QED BY <1>1, <2>1, AgentTyped, UpdatingTyped DEF AgentGoesOn
<1>2. ASSUME NEW t \in Direct, DirectUpdate(t) \/ Updating(t)
      PROVE  Typed'
  BY <1>2, UpdateTyped, UpdatingTyped DEF DirectUpdate
<1>3. ASSUME NEW k \in Keeper,
             \/ \E c \in Checkpoint : CheckpointBegin(k, c) \/ RestoreBegin(k, c)
             \/ KeeperGoesOn(k)
      PROVE  Typed'
  BY <1>3, CheckpointTyped, RestoreTyped DEF KeeperGoesOn
<1>4. CASE UNCHANGED vars
  <2>1. Saved' = Saved
    BY <1>4 DEF vars, storeVars, Saved
  <2> QED BY <1>4, <2>1
        DEF vars, storeVars, localVars, Typed, StoreTypeOK, LocalTypeOK, CallOK
<1> QED BY <1>1, <1>2, <1>3, <1>4 DEF Next

(* The managers keep their types: every object that the state, a thread or *)
(* a checkpoint refers to exists, and a keeper restores a checkpoint that  *)
(* was taken.                                                              *)
THEOREM TypeCorrect == Spec => []TypeOK
<1>1. Typed => TypeOK
  BY TypedIsTypeOK
<1> QED BY <1>1, InitTyped, NextTyped, PTL DEF Spec

-----------------------------------------------------------------------------
(* Who works when.  The thread that applies a batch holds the lock of the  *)
(* StateManager; an agent in an update and a keeper hold the other one;    *)
(* and no keeper works while the executor does.                            *)

BeforeUpdate == {"idle", "ready", "enter"}

Exclusive ==
  /\ \A t \in Thread : pc[t] = "apply" <=> lock = t
  /\ lock # None => lock \in Thread
  /\ \A t \in Direct : pc[t] \in {"idle", "apply"}
  /\ \A t \in Agent : /\ pc[t] \in {"idle", "ready", "enter", "apply", "bump"}
                      /\ pc[t] \notin {"idle", "ready"} => clock = t
  /\ \A k \in Keeper : /\ pc[k] \in {"idle", "copy", "replace", "stamp"}
                       /\ pc[k] # "idle" => clock = k
  /\ \A t \in Direct, k \in Keeper : pc[t] = "idle" \/ pc[k] = "idle"
  /\ \A t \in Thread : pc[t] \in BeforeUpdate \cup {"replace"} => at[t] = 0

(* Whose objects are whose.  A checkpoint that can still be restored has   *)
(* an object of its own; what a batch is undone with is another; what an   *)
(* updater has not written yet, and a keeper not copied, is as it was.     *)

Unrestored(c) == saved[c] # None /\ ~saved[c].restored
Pending(c) == \E k \in Keeper : pc[k] = "replace" /\ target[k] = c
Held(c) == Unrestored(c) \/ Pending(c)

HeldOK(c) ==
  /\ saved[c].obj \in DOMAIN heap
  /\ Whole(saved[c].obj)
  /\ saved[c].obj # live
  /\ \A t \in Thread : pc[t] \in {"apply", "copy"} => saved[c].obj # backup[t]

UpdaterOK(t) ==
  /\ live # 0 /\ obj[t] = live
  /\ backup[t] \in DOMAIN heap /\ backup[t] # live
  /\ Whole(backup[t])
  /\ \A f \in 1 .. at[t] : heap[live][f] = updates

CopierOK(k) ==
  /\ live # 0 /\ obj[k] = live
  /\ backup[k] # live
  /\ \A f \in 1 .. at[k] : heap[backup[k]][f] = heap[live][f]

Kept ==
  /\ AtomicUpdates
  /\ \A t \in Thread : pc[t] = "apply" => UpdaterOK(t)
  /\ \A k \in Keeper : pc[k] = "copy" => CopierOK(k)
  /\ \A k \in Keeper : pc[k] = "replace" => saved[target[k]].restored
  /\ \A c \in Checkpoint : Held(c) => HeldOK(c)
  /\ \A c, d \in Checkpoint : Held(c) /\ Held(d) /\ c # d => saved[c].obj # saved[d].obj

LEMMA ThreadsDisjoint ==
  /\ Agent \subseteq Thread /\ Direct \subseteq Thread /\ Keeper \subseteq Thread
  /\ \A t \in Thread : t # None
  /\ \A t \in Agent : t \notin Direct /\ t \notin Keeper
  /\ \A t \in Direct : t \notin Keeper
BY StoreAssumption DEF Thread

(* A keeper works alone.                                                   *)
LEMMA KeeperAlone ==
  ASSUME Exclusive, NEW k \in Keeper, pc[k] # "idle"
  PROVE  /\ lock = None
         /\ \A t \in Thread : t # k => pc[t] \in {"idle", "ready"}
<1>1. ASSUME NEW t \in Thread, t # k PROVE pc[t] \in {"idle", "ready"}
  <2>1. clock = k
    BY DEF Exclusive
  <2> QED BY <1>1, <2>1 DEF Exclusive, Thread
<1>2. pc[k] # "apply"
  BY DEF Exclusive
<1> QED BY <1>1, <1>2 DEF Exclusive

(* Nobody else is at work when an update begins.                           *)
LEMMA UpdaterAlone ==
  ASSUME Quiet, Exclusive, NEW t \in Agent \cup Direct,
         t \in Direct => pc[t] = "idle" /\ Idle(Keeper),
         t \in Agent => pc[t] = "enter",
         lock = None
  PROVE  \A u \in Thread : pc[u] \notin {"apply", "copy", "replace"}
<1>1. \A u \in Thread : pc[u] # "apply"
  BY ThreadsDisjoint DEF Exclusive
<1>2. \A k \in Keeper : pc[k] = "idle"
  BY ThreadsDisjoint DEF Exclusive, Idle
<1> QED BY <1>1, <1>2 DEF Exclusive, Thread

LEMMA ReturnExclusive ==
  ASSUME LocalTypeOK, Exclusive, NEW t \in Thread, Return(t)
  PROVE  Exclusive'
<1>1. /\ \A u \in Thread : pc'[u] = IF u = t THEN "idle" ELSE pc[u]
      /\ \A u \in Thread : at'[u] = IF u = t THEN 0 ELSE at[u]
      /\ clock' = IF clock = t THEN None ELSE clock
      /\ lock' = IF lock = t THEN None ELSE lock
  BY DEF LocalTypeOK, Return, Goto
<1> QED BY <1>1, ThreadsDisjoint DEF Exclusive, BeforeUpdate

LEMMA UpdateExclusive ==
  ASSUME LocalTypeOK, Exclusive, Quiet, NEW t \in Agent \cup Direct,
         t \in Direct => pc[t] = "idle" /\ Idle(Keeper),
         t \in Agent => pc[t] = "enter",
         Update(t)
  PROVE  Exclusive'
<1>1. /\ \A u \in Thread : pc'[u] = IF u = t THEN "apply" ELSE pc[u]
      /\ lock = None /\ lock' = t
      /\ UNCHANGED <<clock, at>>
  BY DEF LocalTypeOK, Update, Goto
<1> QED BY <1>1, ThreadsDisjoint DEF Exclusive, BeforeUpdate, Idle

LEMMA UpdatingExclusive ==
  ASSUME LocalTypeOK, Exclusive, NEW t \in Agent \cup Direct, Updating(t)
  PROVE  Exclusive'
<1>1. t \in Thread
  BY DEF Thread
<1>2. CASE Apply(t)
  <2>1. /\ \A u \in Thread : u # t => at'[u] = at[u]
        /\ pc[t] = "apply"
        /\ UNCHANGED <<clock, lock, pc>>
    BY <1>2 DEF LocalTypeOK, Apply
  <2> QED BY <2>1 DEF Exclusive, BeforeUpdate
<1>3. CASE ApplyFails(t)
  BY <1>1, <1>3, ReturnExclusive DEF ApplyFails
<1>4. CASE Applied(t)
  <2>1. CASE t \in Direct
    BY <1>1, <1>4, <2>1, ReturnExclusive DEF Applied
  <2>2. CASE t \notin Direct
    <3>1. /\ \A u \in Thread : pc'[u] = IF u = t THEN "bump" ELSE pc[u]
          /\ pc[t] = "apply"
          /\ lock' = None
          /\ UNCHANGED <<clock, at>>
      BY <1>4, <2>2 DEF LocalTypeOK, Applied, Goto, localVars
    <3> QED BY <1>1, <2>2, <3>1, ThreadsDisjoint DEF Exclusive, BeforeUpdate
  <2> QED BY <2>1, <2>2
<1> QED BY <1>2, <1>3, <1>4 DEF Updating

LEMMA AgentExclusive ==
  ASSUME LocalTypeOK, Exclusive, NEW t \in Agent,
         AgentRead(t) \/ AgentBegin(t) \/ AgentRejected(t) \/ Bump(t)
  PROVE  Exclusive'
<1>1. t \in Thread
  BY DEF Thread
<1>2. CASE AgentRead(t)
  <2>1. /\ \A u \in Thread : pc'[u] = IF u = t THEN "ready" ELSE pc[u]
        /\ pc[t] \in {"idle", "ready"}
        /\ UNCHANGED <<clock, lock, at>>
    BY <1>2 DEF LocalTypeOK, AgentRead, Goto, localVars
  <2> QED BY <1>1, <2>1, ThreadsDisjoint DEF Exclusive, BeforeUpdate
<1>3. CASE AgentBegin(t)
  <2>1. CASE Expected(t)
    <3>1. /\ \A u \in Thread : pc'[u] = IF u = t THEN "enter" ELSE pc[u]
          /\ pc[t] \in {"idle", "ready"}
          /\ clock = None /\ clock' = t
          /\ UNCHANGED <<lock, at>>
      BY <1>3, <2>1 DEF LocalTypeOK, AgentBegin, Goto, localVars
    <3> QED BY <1>1, <3>1, ThreadsDisjoint DEF Exclusive, BeforeUpdate
  <2>2. CASE ~Expected(t)
    BY <1>1, <1>3, <2>2, ReturnExclusive DEF AgentBegin
  <2> QED BY <2>1, <2>2
<1>4. CASE AgentRejected(t) \/ Bump(t)
  BY <1>1, <1>4, ReturnExclusive DEF AgentRejected, Bump
<1> QED BY <1>2, <1>3, <1>4

LEMMA KeeperExclusive ==
  ASSUME LocalTypeOK, Exclusive, Quiet, NEW k \in Keeper,
         \/ \E c \in Checkpoint : CheckpointBegin(k, c) \/ RestoreBegin(k, c)
         \/ KeeperGoesOn(k)
  PROVE  Exclusive'
<1>1. k \in Thread
  BY DEF Thread
<1>2. ASSUME NEW c \in Checkpoint, CheckpointBegin(k, c) \/ RestoreBegin(k, c)
      PROVE  Exclusive'
  <2>1. PICK l \in {"copy", "replace"} :
          /\ \A u \in Thread : pc'[u] = IF u = k THEN l ELSE pc[u]
          /\ pc[k] = "idle"
          /\ clock = None /\ clock' = k
          /\ Idle(Direct)
          /\ UNCHANGED <<lock, at>>
    BY <1>2 DEF LocalTypeOK, CheckpointBegin, RestoreBegin, KeeperBegin, Goto
  <2> QED BY <1>1, <2>1, ThreadsDisjoint DEF Exclusive, BeforeUpdate, Idle
<1>3. CASE CheckpointCopy(k)
  <2>1. /\ \A u \in Thread : u # k => at'[u] = at[u]
        /\ pc[k] = "copy"
        /\ UNCHANGED <<clock, lock, pc>>
    BY <1>3 DEF LocalTypeOK, CheckpointCopy
  <2> QED BY <2>1 DEF Exclusive, BeforeUpdate
<1>4. CASE CheckpointEnd(k) \/ RestoreStamp(k)
  BY <1>1, <1>4, ReturnExclusive DEF CheckpointEnd, RestoreStamp
<1>5. CASE RestoreReplace(k)
  <2>1. /\ \A u \in Thread : pc'[u] = IF u = k THEN "stamp" ELSE pc[u]
        /\ pc[k] = "replace"
        /\ UNCHANGED <<clock, lock, at>>
    BY <1>5 DEF LocalTypeOK, RestoreReplace, Goto, localVars
  <2> QED BY <1>1, <2>1, ThreadsDisjoint DEF Exclusive, BeforeUpdate
<1> QED BY <1>2, <1>3, <1>4, <1>5 DEF KeeperGoesOn

LEMMA NextExclusive ==
  ASSUME Quiet, Typed, Exclusive, [Next]_vars
  PROVE  Exclusive'
<1>1. LocalTypeOK
  BY DEF Typed
<1>2. ASSUME NEW t \in Agent, AgentRead(t) \/ AgentBegin(t) \/ AgentGoesOn(t)
      PROVE  Exclusive'
  <2>1. CASE AgentUpdate(t)
    BY <1>1, <2>1, UpdateExclusive, ThreadsDisjoint DEF AgentUpdate
  <2> QED BY <1>1, <1>2, <2>1, AgentExclusive, UpdatingExclusive DEF AgentGoesOn
<1>3. ASSUME NEW t \in Direct, DirectUpdate(t) \/ Updating(t)
      PROVE  Exclusive'
  BY <1>1, <1>3, UpdateExclusive, UpdatingExclusive, ThreadsDisjoint DEF DirectUpdate
<1>4. ASSUME NEW k \in Keeper,
             \/ \E c \in Checkpoint : CheckpointBegin(k, c) \/ RestoreBegin(k, c)
             \/ KeeperGoesOn(k)
      PROVE  Exclusive'
  BY <1>1, <1>4, KeeperExclusive
<1>5. CASE UNCHANGED vars
  BY <1>5 DEF vars, localVars, Exclusive
<1> QED BY <1>2, <1>3, <1>4, <1>5 DEF Next

(* The objects are what they were, and who works on them still does.       *)
LEMMA KeptFrame ==
  ASSUME Typed, Kept,
         UNCHANGED <<heap, live, saved, updates>>,
         lock' = None => lock = None,
         \A u \in Thread : pc'[u] \in {"apply", "copy", "replace"} =>
           /\ pc[u] = pc'[u]
           /\ obj'[u] = obj[u] /\ backup'[u] = backup[u]
           /\ at'[u] = at[u] /\ target'[u] = target[u]
  PROVE  Kept'
<1>1. \A o : Whole(o)' <=> Whole(o)
  BY DEF Whole
<1>2. AtomicUpdates'
  BY <1>1 DEF Kept, AtomicUpdates
<1>3. \A t \in Thread : pc'[t] = "apply" => UpdaterOK(t)'
  BY <1>1 DEF Kept, UpdaterOK
<1>4. \A k \in Keeper : pc'[k] = "copy" => CopierOK(k)'
  BY ThreadsDisjoint DEF Kept, CopierOK
<1>5. \A k \in Keeper : pc'[k] = "replace" => saved'[target'[k]].restored
  BY ThreadsDisjoint DEF Kept
<1>6. \A c \in Checkpoint : Held(c)' => Held(c)
  BY ThreadsDisjoint DEF Held, Unrestored, Pending
<1>7. \A c \in Checkpoint : Held(c)' => HeldOK(c)'
  BY <1>1, <1>6 DEF Kept, HeldOK
<1>8. \A c, d \in Checkpoint : Held(c)' /\ Held(d)' /\ c # d => saved'[c].obj # saved'[d].obj
  BY <1>6 DEF Kept
<1> QED BY <1>2, <1>3, <1>4, <1>5, <1>7, <1>8 DEF Kept

LEMMA InitKept == Init => Exclusive /\ Kept
<1> SUFFICES ASSUME Init PROVE Exclusive /\ Kept
  OBVIOUS
<1>1. Exclusive
  BY StoreAssumption DEF Init, Exclusive, BeforeUpdate, Thread
<1>2. AtomicUpdates
  BY DEF Init, AtomicUpdates, Whole
<1>3. \A t \in Thread : pc[t] = "idle"
  BY DEF Init
<1>4. \A c \in Checkpoint : ~Held(c)
  BY <1>3, ThreadsDisjoint DEF Init, Held, Unrestored, Pending
<1> QED BY <1>1, <1>2, <1>3, <1>4, ThreadsDisjoint DEF Kept

(* What a thread has apart from its label when its call has ended.         *)
LEMMA Returned ==
  ASSUME LocalTypeOK, NEW t \in Thread, Return(t)
  PROVE  /\ pc'[t] = "idle"
         /\ \A u \in Thread : u # t => /\ pc'[u] = pc[u] /\ obj'[u] = obj[u]
                                       /\ backup'[u] = backup[u] /\ at'[u] = at[u]
                                       /\ target'[u] = target[u]
         /\ lock' = IF lock = t THEN None ELSE lock
BY DEF LocalTypeOK, Return, Goto

LEMMA AgentKept ==
  ASSUME Typed, Exclusive, Kept, NEW t \in Agent,
         AgentRead(t) \/ AgentBegin(t) \/ AgentRejected(t) \/ Bump(t)
  PROVE  Kept'
<1>1. t \in Thread /\ LocalTypeOK
  BY DEF Thread, Typed
<1>2. UNCHANGED <<heap, live, saved, updates>>
  BY DEF AgentRead, AgentBegin, AgentRejected, Bump, storeVars
<1>3. CASE Return(t)
  <2>1. pc[t] # "apply"
    BY <1>3 DEF AgentRead, AgentBegin, AgentRejected, Bump
  <2>2. lock # t
    BY <1>1, <2>1 DEF Exclusive
  <2>3. \A u \in Thread : pc'[u] \in {"apply", "copy", "replace"} => u # t
    BY <1>1, <1>3, Returned
  <2> QED BY <1>1, <1>2, <1>3, <2>2, <2>3, Returned, KeptFrame
<1>4. CASE ~Return(t)
  <2>1. PICK l \in {"ready", "enter"} :
          /\ \A u \in Thread : pc'[u] = IF u = t THEN l ELSE pc[u]
          /\ UNCHANGED <<lock, obj, backup, at, target>>
    BY <1>1, <1>4
    DEF LocalTypeOK, AgentRead, AgentBegin, AgentRejected, Bump, Goto, localVars
  <2> QED BY <1>1, <1>2, <2>1, KeptFrame
<1> QED BY <1>3, <1>4

(* A new object for what a batch is undone with, a copy of the state.      *)
LEMMA UpdateKept ==
  ASSUME Quiet, Typed, Exclusive, Kept, NEW t \in Agent \cup Direct,
         t \in Direct => pc[t] = "idle" /\ Idle(Keeper),
         t \in Agent => pc[t] = "enter",
         Update(t)
  PROVE  Kept'
<1> DEFINE new == [f \in Field |-> 0]
<1> DEFINE created == IF live = 0 THEN Append(heap, new) ELSE heap
<1> DEFINE state == IF live = 0 THEN Len(created) ELSE live
<1> DEFINE copy == Len(created) + 1
<1>1. /\ live' = state
      /\ heap' = Append(created, created[state])
      /\ lock = None /\ lock' = t
      /\ obj' = [obj EXCEPT ![t] = state]
      /\ backup' = [backup EXCEPT ![t] = copy]
      /\ pc' = [pc EXCEPT ![t] = "apply"]
      /\ UNCHANGED <<saved, at, target>>
  BY DEF Update, Goto
<1>2. new \in Object /\ t \in Thread
  BY DEF Object, Thread
<1>3. /\ created \in Seq(Object)
      /\ DOMAIN heap \subseteq DOMAIN created
      /\ \A o \in DOMAIN heap : created[o] = heap[o]
      /\ state \in DOMAIN created
      /\ state \notin DOMAIN heap \/ state = live
      /\ \A f, g \in Field : created[state][f] = created[state][g]
  <2>1. CASE live = 0
    BY <1>2, <2>1, HeapGrows DEF Typed, StoreTypeOK
  <2>2. CASE live # 0
    BY <1>1, <2>2 DEF Typed, StoreTypeOK, Kept, AtomicUpdates, Whole
  <2> QED BY <2>1, <2>2
<1>4. created[state] \in Object
  BY <1>3, ElementOfSeq
<1> HIDE DEF created, state, new
<1>5. /\ copy \in DOMAIN heap' /\ copy \notin DOMAIN created
      /\ \A o \in DOMAIN created : heap'[o] = created[o]
      /\ heap'[copy] = created[state]
      /\ DOMAIN created \subseteq DOMAIN heap'
  BY <1>1, <1>3, <1>4, HeapGrows
<1>6. \A u \in Thread : pc[u] \notin {"apply", "copy", "replace"}
  BY <1>1, UpdaterAlone
<1>7. \A u \in Thread : pc'[u] \in {"apply", "copy", "replace"} => u = t /\ pc'[u] = "apply"
  BY <1>1, <1>6 DEF Typed, LocalTypeOK
<1>8. UpdaterOK(t)'
  <2>1. obj'[t] = state /\ backup'[t] = copy /\ at'[t] = 0
    BY <1>1, <1>2, ThreadsDisjoint DEF Typed, LocalTypeOK, Exclusive, BeforeUpdate
  <2>2. state # 0
    BY <1>3, LenProperties
  <2>3. \A f, g \in Field : heap'[copy][f] = heap'[copy][g]
    BY <1>3, <1>5
  <2>4. copy # state
    BY <1>3, <1>5
  <2> HIDE DEF copy
  <2>5. Whole(backup[t])'
    BY <2>1, <2>3 DEF Whole
  <2> QED BY <1>1, <1>5, <2>1, <2>2, <2>4, <2>5 DEF UpdaterOK
<1>9. \A c \in Checkpoint : Held(c)' => Unrestored(c)
  BY <1>1, <1>7, ThreadsDisjoint DEF Held, Unrestored, Pending
<1>10. ASSUME NEW c \in Checkpoint, Held(c)' PROVE HeldOK(c)'
  <2>1. HeldOK(c)
    BY <1>9, <1>10 DEF Kept, Held
  <2>2. Whole(saved[c].obj)'
    <3>1. /\ saved[c].obj \in DOMAIN created
          /\ heap'[saved[c].obj] = heap[saved[c].obj]
      BY <1>3, <1>5, <2>1 DEF HeldOK
    <3> QED BY <1>1, <2>1, <3>1 DEF HeldOK, Whole
  <2>3. saved[c].obj # state /\ saved[c].obj # copy /\ saved[c].obj \in DOMAIN heap'
    BY <1>3, <1>5, <2>1 DEF HeldOK
  <2>4. \A u \in Thread : pc'[u] \in {"apply", "copy"} => backup'[u] = copy
    BY <1>1, <1>2, <1>7 DEF Typed, LocalTypeOK
  <2> QED BY <1>1, <2>2, <2>3, <2>4 DEF HeldOK
<1>11. AtomicUpdates'
  BY <1>1, <1>2, ThreadsDisjoint DEF AtomicUpdates
<1>12. \A c, d \in Checkpoint : Held(c)' /\ Held(d)' /\ c # d => saved'[c].obj # saved'[d].obj
  BY <1>1, <1>9 DEF Kept, Held
<1> QED BY <1>7, <1>8, <1>10, <1>11, <1>12, ThreadsDisjoint DEF Kept

(* One field is written in place.                                          *)
LEMMA ApplyKept ==
  ASSUME Typed, Exclusive, Kept, NEW t \in Agent \cup Direct, Apply(t)
  PROVE  Kept'
<1>1. /\ heap' = [heap EXCEPT ![obj[t]][at[t] + 1] = updates]
      /\ at' = [at EXCEPT ![t] = @ + 1]
      /\ pc[t] = "apply" /\ at[t] < FieldCount
      /\ UNCHANGED <<live, saved, lock, pc, obj, backup, target, updates>>
  BY DEF Apply
<1>2. t \in Thread /\ UpdaterOK(t) /\ lock = t
  BY <1>1 DEF Thread, Kept, Exclusive
<1>3. /\ DOMAIN heap' = DOMAIN heap
      /\ live \in DOMAIN heap
      /\ \A o \in DOMAIN heap : o # live => heap'[o] = heap[o]
      /\ heap'[live] = [heap[live] EXCEPT ![at[t] + 1] = updates]
  BY <1>1, <1>2, FieldWritten DEF UpdaterOK, Typed, StoreTypeOK
<1>4. \A o \in DOMAIN heap : o # live => (Whole(o)' <=> Whole(o))
  BY <1>3 DEF Whole
<1>5. \A u \in Thread : pc[u] \in {"apply", "copy", "replace"} => u = t
  BY <1>1, <1>2, KeeperAlone DEF Exclusive, Thread
<1>6. UpdaterOK(t)'
  <2>1. at'[t] = at[t] + 1 /\ at[t] \in 0 .. FieldCount
    BY <1>1, <1>2 DEF Typed, LocalTypeOK
  <2>2. at[t] + 1 \in DOMAIN heap[live]
    <3>1. heap[live] \in Object
      BY <1>3, ElementOfSeq DEF Typed, StoreTypeOK
    <3>2. at[t] + 1 \in Field
      BY <1>1, <2>1, StoreAssumption DEF Field
    <3> QED BY <3>1, <3>2 DEF Object
  <2>3. \A f \in 1 .. at'[t] : heap'[live][f] = updates
    BY <1>2, <1>3, <2>1, <2>2 DEF UpdaterOK
  <2> QED BY <1>1, <1>2, <1>3, <1>4, <2>3 DEF UpdaterOK
<1>7. \A c \in Checkpoint : Held(c)' <=> Held(c)
  BY <1>1 DEF Held, Unrestored, Pending
<1>8. ASSUME NEW c \in Checkpoint, Held(c)' PROVE HeldOK(c)'
  <2>1. HeldOK(c)
    BY <1>7, <1>8 DEF Kept
  <2> QED BY <1>1, <1>3, <1>4, <2>1 DEF HeldOK
<1>9. AtomicUpdates'
  BY <1>1, <1>2, ThreadsDisjoint DEF AtomicUpdates
<1>10. \A c, d \in Checkpoint : Held(c)' /\ Held(d)' /\ c # d => saved'[c].obj # saved'[d].obj
  BY <1>1, <1>7 DEF Kept
<1>11. \A k \in Keeper : pc'[k] \notin {"copy", "replace"}
  BY <1>1, <1>5, ThreadsDisjoint
<1> QED BY <1>1, <1>5, <1>6, <1>8, <1>9, <1>10, <1>11 DEF Kept

(* The batch ends: the copy becomes the state, or all fields are written.  *)
LEMMA AppliedKept ==
  ASSUME Typed, Exclusive, Kept, NEW t \in Agent \cup Direct, ApplyFails(t) \/ Applied(t)
  PROVE  Kept'
<1>1. t \in Thread /\ LocalTypeOK /\ pc[t] = "apply"
  BY DEF Thread, Typed, ApplyFails, Applied
<1>2. UpdaterOK(t) /\ lock = t
  BY <1>1 DEF Kept, Exclusive
<1>3. /\ pc'[t] \notin {"apply", "copy", "replace"}
      /\ \A u \in Thread : u # t => pc'[u] = pc[u] /\ target'[u] = target[u]
      /\ lock' = None
      /\ UNCHANGED <<heap, saved>>
  <2>1. CASE Return(t)
    BY <1>1, <1>2, <2>1, Returned DEF ApplyFails, Applied
  <2>2. CASE ~Return(t)
    BY <1>1, <2>2 DEF ApplyFails, Applied, LocalTypeOK, Goto, localVars
  <2> QED BY <2>1, <2>2
<1>4. \A u \in Thread : pc'[u] \notin {"apply", "copy", "replace"}
  BY <1>1, <1>2, <1>3, KeeperAlone DEF Exclusive, Thread
<1>5. /\ live' \in {live, backup[t]}
      /\ Whole(live')
  <2>1. CASE ApplyFails(t)
    BY <1>2, <2>1 DEF ApplyFails, UpdaterOK
  <2>2. CASE Applied(t)
    <3>1. live' = live /\ at[t] = FieldCount
      BY <1>2, <2>2 DEF Applied, UpdaterOK
    <3>2. \A f \in Field : heap[live][f] = updates
      BY <1>2, <3>1 DEF UpdaterOK, Field
    <3> QED BY <3>1, <3>2 DEF Whole
  <2> QED BY <2>1, <2>2
<1>6. \A o : Whole(o)' <=> Whole(o)
  BY <1>3 DEF Whole
<1>7. AtomicUpdates'
  <2>1. Whole(live)'
    BY <1>3, <1>5 DEF Whole
  <2> QED BY <2>1 DEF AtomicUpdates
<1>8. \A c \in Checkpoint : Held(c)' => Held(c)
  BY <1>3, <1>4, ThreadsDisjoint DEF Held, Unrestored, Pending
<1>9. ASSUME NEW c \in Checkpoint, Held(c)' PROVE HeldOK(c)'
  <2>1. HeldOK(c)
    BY <1>8, <1>9 DEF Kept
  <2>2. saved[c].obj # live'
    BY <1>1, <1>5, <2>1 DEF HeldOK
  <2> QED BY <1>3, <1>4, <1>6, <2>1, <2>2 DEF HeldOK
<1>10. \A c, d \in Checkpoint : Held(c)' /\ Held(d)' /\ c # d => saved'[c].obj # saved'[d].obj
  BY <1>3, <1>8 DEF Kept
<1> QED BY <1>4, <1>7, <1>9, <1>10, ThreadsDisjoint DEF Kept

(* A keeper takes a checkpoint: a new object, filled field by field.       *)
LEMMA CheckpointBeginKept ==
  ASSUME Typed, Exclusive, Exclusive', Kept, NEW k \in Keeper, NEW c \in Checkpoint,
         CheckpointBegin(k, c)
  PROVE  Kept'
<1> DEFINE copy == Len(heap) + 1
<1>1. /\ heap' = Append(heap, [f \in Field |-> 0])
      /\ obj' = [obj EXCEPT ![k] = live]
      /\ backup' = [backup EXCEPT ![k] = copy]
      /\ live # 0
      /\ pc[k] = "idle" /\ pc' = [pc EXCEPT ![k] = "copy"]
      /\ UNCHANGED <<live, saved, lock, at, updates>>
  BY DEF CheckpointBegin, KeeperBegin, Goto
<1>2. k \in Thread /\ [f \in Field |-> 0] \in Object
  BY DEF Thread, Object
<1>3. /\ copy \in DOMAIN heap' /\ copy \notin DOMAIN heap
      /\ \A o \in DOMAIN heap : heap'[o] = heap[o]
      /\ DOMAIN heap \subseteq DOMAIN heap'
      /\ live \in DOMAIN heap
  BY <1>1, <1>2, HeapGrows DEF Typed, StoreTypeOK
<1> HIDE DEF copy
<1>4. pc'[k] = "copy" /\ obj'[k] = live /\ backup'[k] = copy /\ at'[k] = 0
  BY <1>1, <1>2 DEF Typed, LocalTypeOK, Exclusive, BeforeUpdate
<1>5. lock = None /\ \A u \in Thread : u # k => pc'[u] \notin {"apply", "copy", "replace"}
  <2>1. lock' = None /\ \A u \in Thread : u # k => pc'[u] \in {"idle", "ready"}
    <3>1. pc'[k] # "apply" /\ clock' = k
      BY <1>4 DEF CheckpointBegin, KeeperBegin
    <3> QED BY <1>4, <3>1, ThreadsDisjoint DEF Exclusive, Thread
  <2> QED BY <1>1, <2>1
<1>6. Whole(live) /\ Whole(live)'
  BY <1>1, <1>3, <1>5 DEF Kept, AtomicUpdates, Whole
<1>7. AtomicUpdates'
  BY <1>6 DEF AtomicUpdates
<1>8. CopierOK(k)'
  BY <1>1, <1>3, <1>4 DEF CopierOK
<1>9. \A d \in Checkpoint : Held(d)' => Unrestored(d)
  BY <1>1, <1>4, <1>5, ThreadsDisjoint DEF Held, Unrestored, Pending
<1>10. ASSUME NEW d \in Checkpoint, Held(d)' PROVE HeldOK(d)'
  <2>1. HeldOK(d)
    BY <1>9, <1>10 DEF Kept, Held
  <2>2. /\ saved[d].obj \in DOMAIN heap
        /\ heap'[saved[d].obj] = heap[saved[d].obj]
    BY <1>3, <2>1 DEF HeldOK
  <2>3. Whole(saved[d].obj)'
    BY <1>1, <2>1, <2>2 DEF HeldOK, Whole
  <2>4. \A u \in Thread : pc'[u] \in {"apply", "copy"} => backup'[u] = copy
    BY <1>4, <1>5
  <2> QED BY <1>1, <1>3, <2>1, <2>2, <2>3, <2>4 DEF HeldOK
<1>11. \A d, e \in Checkpoint : Held(d)' /\ Held(e)' /\ d # e => saved'[d].obj # saved'[e].obj
  BY <1>1, <1>9 DEF Kept, Held
<1> QED BY <1>4, <1>5, <1>7, <1>8, <1>10, <1>11, ThreadsDisjoint DEF Kept

LEMMA CheckpointCopyKept ==
  ASSUME Typed, Exclusive, Kept, NEW k \in Keeper, CheckpointCopy(k)
  PROVE  Kept'
<1> DEFINE f == at[k] + 1
<1> DEFINE n == heap[obj[k]][f]
<1>1. /\ heap' = [heap EXCEPT ![backup[k]][f] = n]
      /\ at' = [at EXCEPT ![k] = @ + 1]
      /\ pc[k] = "copy" /\ at[k] < FieldCount
      /\ UNCHANGED <<live, saved, lock, pc, obj, backup, target, updates>>
  BY DEF CheckpointCopy
<1>2. /\ k \in Thread /\ CopierOK(k) /\ CallOK(k)
      /\ at[k] \in 0 .. FieldCount
  BY <1>1 DEF Thread, Kept, Typed, LocalTypeOK
<1>3. f \in Field /\ at'[k] = f
  BY <1>1, <1>2, StoreAssumption DEF Field, Typed, LocalTypeOK
<1>4. /\ backup[k] \in DOMAIN heap /\ live \in DOMAIN heap /\ backup[k] # live /\ obj[k] = live
      /\ heap[live] \in Object /\ heap[backup[k]] \in Object
  BY <1>1, <1>2, ElementOfSeq DEF CopierOK, CallOK, Typed, StoreTypeOK
<1>5. n = heap[live][f] /\ n \in Nat
  BY <1>3, <1>4 DEF Object
<1>6. /\ DOMAIN heap' = DOMAIN heap
      /\ \A o \in DOMAIN heap : o # backup[k] => heap'[o] = heap[o]
      /\ heap'[backup[k]] = [heap[backup[k]] EXCEPT ![f] = n]
  <2> HIDE DEF n, f
  <2> QED BY <1>1, <1>4, <1>5, FieldWritten DEF Typed, StoreTypeOK
<1>7. lock = None /\ \A u \in Thread : u # k => pc[u] \notin {"apply", "copy", "replace"}
  BY <1>1, KeeperAlone
<1>8. CopierOK(k)'
  <2>1. f \in DOMAIN heap[backup[k]]
    BY <1>3, <1>4 DEF Object
  <2>2. \A g \in 1 .. at'[k] : heap'[backup[k]][g] = heap'[live][g]
    <3>1. ASSUME NEW g \in 1 .. at'[k] PROVE heap'[backup[k]][g] = heap'[live][g]
      <4>1. CASE g = f
        BY <1>4, <1>5, <1>6, <2>1, <4>1
      <4>2. CASE g # f
        <5>1. g \in 1 .. at[k]
          BY <1>2, <1>3, <4>2
        <5> HIDE DEF n, f
        <5> QED BY <1>2, <1>4, <1>6, <4>2, <5>1 DEF CopierOK
      <4> QED BY <4>1, <4>2
    <3> QED BY <3>1
  <2> QED BY <1>1, <1>2, <2>2 DEF CopierOK
<1>9. \A o \in DOMAIN heap : o # backup[k] => (Whole(o)' <=> Whole(o))
  BY <1>6 DEF Whole
<1>10. AtomicUpdates'
  BY <1>1, <1>4, <1>7, <1>9 DEF Kept, AtomicUpdates
<1>11. \A c \in Checkpoint : Held(c)' <=> Held(c)
  BY <1>1 DEF Held, Unrestored, Pending
<1>12. ASSUME NEW c \in Checkpoint, Held(c)' PROVE HeldOK(c)'
  <2>1. HeldOK(c)
    BY <1>11, <1>12 DEF Kept
  <2>2. saved[c].obj # backup[k]
    BY <1>1, <1>2, <2>1 DEF HeldOK
  <2> QED BY <1>1, <1>6, <1>9, <2>1, <2>2 DEF HeldOK
<1>13. \A c, d \in Checkpoint : Held(c)' /\ Held(d)' /\ c # d => saved'[c].obj # saved'[d].obj
  BY <1>1, <1>11 DEF Kept
<1> QED BY <1>1, <1>7, <1>8, <1>10, <1>12, <1>13, ThreadsDisjoint DEF Kept

(* The copy is complete, and becomes the object of the checkpoint.         *)
LEMMA CheckpointEndKept ==
  ASSUME Typed, Exclusive, Kept, NEW k \in Keeper, CheckpointEnd(k)
  PROVE  Kept'
<1> DEFINE c == target[k]
<1>1. /\ pc[k] = "copy" /\ at[k] = FieldCount
      /\ Return(k)
      /\ saved' = [saved EXCEPT ![c] =
                     [obj |-> backup[k], version |-> version, restored |-> FALSE]]
      /\ UNCHANGED <<heap, live, updates>>
  BY DEF CheckpointEnd
<1>2. /\ k \in Thread /\ LocalTypeOK /\ CopierOK(k) /\ CallOK(k)
      /\ saved \in [Checkpoint -> Saved \cup {None}]
  BY <1>1 DEF Thread, Kept, Typed, StoreTypeOK
<1>3. /\ c \in Checkpoint /\ backup[k] \in DOMAIN heap
      /\ saved'[c].obj = backup[k]
      /\ \A d \in Checkpoint : d # c => saved'[d] = saved[d]
  BY <1>1, <1>2 DEF CallOK
<1>4. lock = None /\ \A u \in Thread : pc'[u] \notin {"apply", "copy", "replace"}
  BY <1>1, <1>2, KeeperAlone, Returned
<1>5. Whole(live) /\ Whole(backup[k])
  <2>1. Whole(live)
    BY <1>2, <1>4 DEF Kept, AtomicUpdates, CopierOK
  <2>2. \A f \in Field : heap[backup[k]][f] = heap[live][f]
    BY <1>1, <1>2 DEF CopierOK, Field
  <2> QED BY <2>1, <2>2 DEF Whole
<1>6. \A o : Whole(o)' <=> Whole(o)
  BY <1>1 DEF Whole
<1> HIDE DEF c
<1>7. AtomicUpdates'
  BY <1>1, <1>5 DEF AtomicUpdates, Whole
<1>8. \A d \in Checkpoint : d # c /\ Held(d)' => Held(d)
  BY <1>3, <1>4, ThreadsDisjoint DEF Held, Unrestored, Pending
<1>9. ASSUME NEW d \in Checkpoint, Held(d)' PROVE HeldOK(d)'
  <2>1. CASE d = c
    BY <1>1, <1>2, <1>3, <1>4, <1>5, <1>6, <2>1 DEF HeldOK, CopierOK
  <2>2. CASE d # c
    <3>1. HeldOK(d)
      BY <1>8, <1>9, <2>2 DEF Kept
    <3> QED BY <1>1, <1>3, <1>4, <1>6, <2>2, <3>1 DEF HeldOK
  <2> QED BY <2>1, <2>2
<1>10. ASSUME NEW d \in Checkpoint, NEW e \in Checkpoint, Held(d)', Held(e)', d # e
       PROVE  saved'[d].obj # saved'[e].obj
  <2>1. \A g \in Checkpoint : g # c /\ Held(g)' => saved'[g].obj # backup[k]
    BY <1>1, <1>2, <1>3, <1>8 DEF Kept, HeldOK
  <2> QED BY <1>3, <1>8, <1>10, <2>1 DEF Kept
<1> QED BY <1>4, <1>7, <1>9, <1>10, ThreadsDisjoint DEF Kept

(* A checkpoint is restored: its object becomes the state.                 *)
LEMMA RestoreBeginKept ==
  ASSUME Once, Typed, Exclusive, Exclusive', Kept, NEW k \in Keeper, NEW c \in Checkpoint,
         RestoreBegin(k, c)
  PROVE  Kept'
<1>1. /\ saved[c] # None /\ ~saved[c].restored
      /\ target' = [target EXCEPT ![k] = c]
      /\ saved' = [saved EXCEPT ![c].restored = TRUE]
      /\ live' = 0
      /\ clock' = k
      /\ pc' = [pc EXCEPT ![k] = "replace"]
      /\ UNCHANGED <<heap, lock, obj, backup, at, updates>>
  BY DEF RestoreBegin, KeeperBegin, Goto
<1>2. k \in Thread /\ saved[c] \in Saved /\ saved \in [Checkpoint -> Saved \cup {None}]
  BY <1>1 DEF Thread, Typed, StoreTypeOK
<1>3. /\ saved'[c].restored /\ saved'[c].obj = saved[c].obj
      /\ \A d \in Checkpoint : d # c => saved'[d] = saved[d]
  BY <1>1, <1>2 DEF Saved
<1>4. pc'[k] = "replace" /\ target'[k] = c
  BY <1>1, <1>2 DEF Typed, LocalTypeOK
<1>5. \A u \in Thread : u # k => pc'[u] \notin {"apply", "copy", "replace"}
  BY <1>1, <1>4, ThreadsDisjoint DEF Exclusive, Thread
<1>6. \A o : Whole(o)' <=> Whole(o)
  BY <1>1 DEF Whole
<1>7. AtomicUpdates'
  BY <1>1 DEF AtomicUpdates
<1>8. \A d \in Checkpoint : Held(d)' => Unrestored(d)
  BY <1>1, <1>3, <1>4, <1>5, ThreadsDisjoint DEF Held, Unrestored, Pending
<1>9. ASSUME NEW d \in Checkpoint, Held(d)' PROVE HeldOK(d)'
  <2>1. HeldOK(d)
    BY <1>8, <1>9 DEF Kept, Held
  <2>2. saved'[d].obj = saved[d].obj
    BY <1>3
  <2>3. saved[d].obj # 0
    BY <2>1, LenProperties DEF HeldOK, Typed, StoreTypeOK
  <2>4. \A u \in Thread : pc'[u] \notin {"apply", "copy"}
    BY <1>4, <1>5
  <2> QED BY <1>1, <1>6, <2>1, <2>2, <2>3, <2>4 DEF HeldOK
<1>10. \A d, e \in Checkpoint : Held(d)' /\ Held(e)' /\ d # e => saved'[d].obj # saved'[e].obj
  BY <1>3, <1>8 DEF Kept, Held
<1> QED BY <1>3, <1>4, <1>5, <1>7, <1>9, <1>10, ThreadsDisjoint DEF Kept

LEMMA RestoreReplaceKept ==
  ASSUME Typed, Exclusive, Kept, NEW k \in Keeper, RestoreReplace(k)
  PROVE  Kept'
<1>1. /\ pc[k] = "replace" /\ pc' = [pc EXCEPT ![k] = "stamp"]
      /\ live' = saved[target[k]].obj
      /\ UNCHANGED <<heap, saved, lock, obj, backup, at, target, updates>>
  BY DEF RestoreReplace, Goto, localVars
<1>2. k \in Thread /\ target[k] \in Checkpoint /\ saved[target[k]].restored
  BY <1>1 DEF Thread, Typed, CallOK, Kept
<1>3. Held(target[k]) /\ ~Unrestored(target[k])
  BY <1>1, <1>2 DEF Held, Pending, Unrestored
<1>4. HeldOK(target[k])
  BY <1>2, <1>3 DEF Kept
<1>5. \A u \in Thread : pc'[u] \notin {"apply", "copy", "replace"}
  BY <1>1, <1>2, KeeperAlone DEF Typed, LocalTypeOK
<1>6. \A o : Whole(o)' <=> Whole(o)
  BY <1>1 DEF Whole
<1>7. AtomicUpdates'
  BY <1>1, <1>4 DEF AtomicUpdates, HeldOK, Whole
<1>8. \A c \in Checkpoint : Held(c)' => Unrestored(c) /\ c # target[k]
  BY <1>1, <1>3, <1>5, ThreadsDisjoint DEF Held, Unrestored, Pending
<1>9. ASSUME NEW c \in Checkpoint, Held(c)' PROVE HeldOK(c)'
  <2>1. HeldOK(c) /\ saved[c].obj # live'
    BY <1>1, <1>2, <1>3, <1>8, <1>9 DEF Kept, Held
  <2> QED BY <1>1, <1>5, <1>6, <2>1 DEF HeldOK
<1>10. \A c, d \in Checkpoint : Held(c)' /\ Held(d)' /\ c # d => saved'[c].obj # saved'[d].obj
  BY <1>1, <1>8 DEF Kept, Held
<1> QED BY <1>5, <1>7, <1>9, <1>10, ThreadsDisjoint DEF Kept

LEMMA RestoreStampKept ==
  ASSUME Typed, Exclusive, Kept, NEW k \in Keeper, RestoreStamp(k)
  PROVE  Kept'
<1>1. k \in Thread /\ LocalTypeOK /\ Return(k) /\ UNCHANGED <<heap, live, saved, updates>>
  BY DEF Thread, Typed, RestoreStamp, storeVars
<1>2. lock # k
  BY <1>1 DEF RestoreStamp, Exclusive
<1>3. \A u \in Thread : pc'[u] \in {"apply", "copy", "replace"} => u # k
  BY <1>1, Returned
<1> QED BY <1>1, <1>2, <1>3, Returned, KeptFrame

LEMMA NextKept ==
  ASSUME Quiet, Once, Typed, Exclusive, Exclusive', Kept, [Next]_vars
  PROVE  Kept'
<1>1. ASSUME NEW t \in Agent, AgentRead(t) \/ AgentBegin(t) \/ AgentGoesOn(t)
      PROVE  Kept'
  <2>1. CASE AgentUpdate(t)
    BY <2>1, UpdateKept, ThreadsDisjoint DEF AgentUpdate
  <2>2. CASE Updating(t)
    BY <2>2, ApplyKept, AppliedKept DEF Updating
  <2> QED BY <1>1, <2>1, <2>2, AgentKept DEF AgentGoesOn
<1>2. ASSUME NEW t \in Direct, DirectUpdate(t) \/ Updating(t)
      PROVE  Kept'
  <2>1. CASE DirectUpdate(t)
    BY <2>1, UpdateKept, ThreadsDisjoint DEF DirectUpdate
  <2> QED BY <1>2, <2>1, ApplyKept, AppliedKept DEF Updating
<1>3. ASSUME NEW k \in Keeper, NEW c \in Checkpoint, CheckpointBegin(k, c) \/ RestoreBegin(k, c)
      PROVE  Kept'
  BY <1>3, CheckpointBeginKept, RestoreBeginKept
<1>4. ASSUME NEW k \in Keeper, KeeperGoesOn(k)
      PROVE  Kept'
  BY <1>4, CheckpointCopyKept, CheckpointEndKept, RestoreReplaceKept, RestoreStampKept
  DEF KeeperGoesOn
<1>5. CASE UNCHANGED vars
  BY <1>5, KeptFrame DEF vars, storeVars, localVars
<1> QED BY <1>1, <1>2, <1>3, <1>4, <1>5 DEF Next

StoreInv == Typed /\ Exclusive /\ Kept

LEMMA StoreInvariant ==
  ASSUME Quiet, Once
  PROVE  Spec => []StoreInv
<1>1. Init => StoreInv
  BY InitTyped, InitKept DEF StoreInv
<1>2. StoreInv /\ [Next]_vars => StoreInv'
  BY NextTyped, NextExclusive, NextKept DEF StoreInv
<1> QED BY <1>1, <1>2, PTL DEF Spec

(* If keepers leave the executor alone and restore a checkpoint once, the  *)
(* batches of any number of updaters are applied as a whole or not at all, *)
(* although they are written in place and undone by replacing the object   *)
(* (AC-SM-009).                                                            *)
THEOREM BatchesAtomic ==
  ASSUME Quiet, Once
  PROVE  Spec => []AtomicUpdates
<1>1. StoreInv => AtomicUpdates
  BY DEF StoreInv, Kept
<1> QED BY <1>1, StoreInvariant, PTL

(* And a checkpoint that can be restored holds one state that the workflow *)
(* had, although it is copied tier by tier and shares the heap with what   *)
(* is updated in place.                                                    *)
THEOREM CheckpointsConsistent ==
  ASSUME Quiet, Once
  PROVE  Spec => []CheckpointsWhole
<1>1. StoreInv => CheckpointsWhole
  BY DEF StoreInv, Kept, CheckpointsWhole, Held, HeldOK, Unrestored
<1> QED BY <1>1, StoreInvariant, PTL

-----------------------------------------------------------------------------
(* The refinement.  The state is only missing while it is replaced; what   *)
(* an agent expects is the version as long as it holds its lock; the       *)
(* checkpoint that is being taken is not there yet.                        *)

Tracked ==
  /\ live = 0 <=> \E k \in Keeper : pc[k] = "replace"
  /\ \A t \in Agent : pc[t] \in {"enter", "apply"} => Expected(t)
  /\ \A k \in Keeper : pc[k] = "copy" => saved[target[k]] = None
  /\ updates <= MaxUpdates + 1
  /\ \A t \in Agent : pc[t] = "enter" => updates <= MaxUpdates
  /\ \A t \in Thread : pc[t] = "apply" => updates >= 1

TrackedInv == StoreInv /\ Tracked


(* What the state functions of the store are, without the choices.         *)
ValueFacts ==
  /\ \A t \in Thread : pc[t] = "apply" => value = heap[backup[t]]
  /\ lock = None /\ live # 0 => value = heap[live]
  /\ \A k \in Keeper : pc[k] = "replace" => value = heap[saved[target[k]].obj]

CountedFacts ==
  /\ \A k \in Keeper : Restoring(k) => counted = saved[target[k]].version + 1
  /\ \A t \in Agent : Counting(t) => counted = version + 1
  /\ (\A k \in Keeper : ~Restoring(k)) /\ (\A t \in Agent : ~Counting(t)) => counted = version

LEMMA ValueIs == TrackedInv => ValueFacts
<1> SUFFICES ASSUME TrackedInv PROVE ValueFacts
  OBVIOUS
<1>1. \A t \in Thread : Updater(t) <=> pc[t] = "apply"
  BY DEF TrackedInv, StoreInv, Exclusive, Updater
<1>2. ASSUME NEW t \in Thread, pc[t] = "apply" PROVE value = heap[backup[t]]
  <2>1. \A u \in Thread : Updater(u) <=> u = t
    BY <1>1, <1>2 DEF TrackedInv, StoreInv, Exclusive
  <2> HIDE DEF Updater
  <2>2. (CHOOSE u \in Thread : Updater(u)) = t
    BY <2>1
  <2> QED BY <2>1, <2>2 DEF value
<1>3. ASSUME lock = None PROVE \A u \in Thread : ~Updater(u)
  BY <1>3, ThreadsDisjoint DEF Updater
<1>4. ASSUME NEW k \in Keeper, pc[k] = "replace" PROVE value = heap[saved[target[k]].obj]
  <2>1. live = 0 /\ lock = None
    BY <1>4, KeeperAlone DEF TrackedInv, StoreInv, Tracked
  <2>2. \A h \in Keeper : Restoring(h) <=> h = k
    BY <1>4, KeeperAlone, ThreadsDisjoint DEF TrackedInv, StoreInv, Restoring
  <2>3. (CHOOSE h \in Keeper : Restoring(h)) = k
    BY <2>2
  <2> QED BY <1>3, <2>1, <2>3 DEF value
<1> QED BY <1>2, <1>3, <1>4 DEF value, ValueFacts

LEMMA CountedIs == TrackedInv => CountedFacts
<1> SUFFICES ASSUME TrackedInv PROVE CountedFacts
  OBVIOUS
<1>1. ASSUME NEW k \in Keeper, Restoring(k)
      PROVE  counted = saved[target[k]].version + 1
  <2>1. pc[k] # "idle"
    BY <1>1 DEF Restoring
  <2>2. \A h \in Keeper : Restoring(h) <=> h = k
    BY <1>1, <2>1, KeeperAlone, ThreadsDisjoint DEF TrackedInv, StoreInv, Restoring
  <2>3. (CHOOSE h \in Keeper : Restoring(h)) = k
    BY <2>2
  <2> QED BY <1>1, <2>3 DEF counted
<1>2. ASSUME NEW t \in Agent, Counting(t)
      PROVE  counted = version + 1
  <2>1. \A k \in Keeper : ~Restoring(k)
    BY <1>2, KeeperAlone, ThreadsDisjoint DEF TrackedInv, StoreInv, Restoring, Counting
  <2> QED BY <1>2, <2>1, ThreadsDisjoint DEF counted
<1>3. \A t \in Thread : Counting(t) => t \in Agent
  BY DEF TrackedInv, StoreInv, Exclusive, Counting, Thread
<1> QED BY <1>1, <1>2, <1>3 DEF counted, CountedFacts

LEMMA FactsNext == TrackedInv' => ValueFacts' /\ CountedFacts'
BY ValueIs, CountedIs, PTL

(* What an agent that returns forgets, and others do not.                  *)
LEMMA ReturnedSeen ==
  ASSUME LocalTypeOK, NEW t \in Thread, Return(t)
  PROVE  /\ t \in Agent => seen' = [seen EXCEPT ![t] = None]
         /\ t \notin Agent => seen' = seen
BY DEF Return

LEMMA InitTracked == Init => Tracked
<1> SUFFICES ASSUME Init PROVE Tracked
  OBVIOUS
<1>1. \A t \in Thread : pc[t] = "idle"
  BY DEF Init
<1>2. live = 1 /\ updates = 0
  BY DEF Init
<1> QED BY <1>1, <1>2, ThreadsDisjoint, StoreAssumption DEF Tracked

LEMMA AgentTracked ==
  ASSUME StoreInv, Tracked, NEW t \in Agent,
         AgentRead(t) \/ AgentBegin(t) \/ AgentRejected(t) \/ Bump(t)
  PROVE  Tracked'
<1>1. t \in Thread /\ LocalTypeOK /\ t \notin Keeper
  BY ThreadsDisjoint DEF StoreInv, Typed
<1>2. UNCHANGED <<live, saved, updates>>
  BY DEF AgentRead, AgentBegin, AgentRejected, Bump, storeVars
<1>3. CASE Return(t)
  <2>1. /\ pc'[t] = "idle"
        /\ \A u \in Thread : u # t => pc'[u] = pc[u] /\ target'[u] = target[u]
        /\ \A u \in Agent : u # t => seen'[u] = seen[u]
    BY <1>1, <1>3, Returned, ReturnedSeen DEF LocalTypeOK
  <2>2. \A u \in Agent : u # t /\ pc[u] \in {"enter", "apply"} => Expected(u)'
    <3>1. CASE AgentBegin(t) \/ AgentRejected(t)
      BY <2>1, <3>1 DEF AgentBegin, AgentRejected, Tracked, Expected
    <3>2. CASE Bump(t)
      <4>1. \A u \in Agent : u # t => pc[u] \notin {"enter", "apply"}
        BY <3>2, ThreadsDisjoint DEF Bump, StoreInv, Exclusive
      <4> QED BY <4>1
    <3>3. CASE AgentRead(t)
      BY <1>1, <1>3, <2>1, <3>3 DEF AgentRead, Goto, LocalTypeOK
    <3> QED BY <3>1, <3>2, <3>3
  <2> QED BY <1>1, <1>2, <2>1, <2>2, ThreadsDisjoint DEF Tracked
<1>4. CASE ~Return(t)
  <2>1. PICK l \in {"ready", "enter"} :
          /\ \A u \in Thread : pc'[u] = IF u = t THEN l ELSE pc[u]
          /\ \A u \in Agent : u # t => seen'[u] = seen[u]
          /\ l = "enter" => updates < MaxUpdates /\ Expected(t) /\ seen' = seen
          /\ UNCHANGED <<version, target>>
    BY <1>1, <1>4
    DEF LocalTypeOK, AgentRead, AgentBegin, AgentRejected, Bump, Goto, localVars
  <2>2. \A u \in Agent : pc'[u] \in {"enter", "apply"} => Expected(u)'
    BY <1>1, <2>1, ThreadsDisjoint DEF Tracked, Expected
  <2>3. updates \in Nat
    BY DEF StoreInv, Typed, StoreTypeOK
  <2> QED BY <1>1, <1>2, <2>1, <2>2, <2>3, ThreadsDisjoint, StoreAssumption DEF Tracked
<1> QED BY <1>3, <1>4

LEMMA UpdateTracked ==
  ASSUME Quiet, StoreInv, Tracked, NEW t \in Agent \cup Direct,
         t \in Direct => pc[t] = "idle" /\ Idle(Keeper) /\ updates < MaxUpdates,
         t \in Agent => pc[t] = "enter",
         Update(t)
  PROVE  Tracked' /\ live # 0
<1>1. /\ \A u \in Thread : pc'[u] = IF u = t THEN "apply" ELSE pc[u]
      /\ lock = None
      /\ updates' = updates + 1
      /\ UNCHANGED <<saved, version, target, seen>>
  BY DEF Update, Goto, StoreInv, Typed, LocalTypeOK
<1>2. \A u \in Thread : pc[u] \notin {"apply", "copy", "replace"}
  BY <1>1, UpdaterAlone DEF StoreInv
<1>3. live # 0 /\ live' = live
  BY <1>2, ThreadsDisjoint DEF Tracked, Update
<1>4. updates \in Nat /\ MaxUpdates \in Nat
  BY StoreAssumption DEF StoreInv, Typed, StoreTypeOK
<1>5. /\ updates' <= MaxUpdates + 1
      /\ updates' >= 1
      /\ \A u \in Agent : u # t /\ pc[u] = "enter" => updates' <= MaxUpdates
  <2>1. \A u \in Agent : t \in Agent /\ u # t => pc[u] # "enter"
    BY ThreadsDisjoint DEF StoreInv, Exclusive
  <2> QED BY <1>1, <1>4, <2>1 DEF Tracked
<1>6. \A u \in Agent : pc'[u] \in {"enter", "apply"} => Expected(u)'
  BY <1>1, ThreadsDisjoint DEF Tracked, Expected
<1> QED BY <1>1, <1>2, <1>3, <1>5, <1>6, ThreadsDisjoint DEF Tracked

LEMMA UpdatingTracked ==
  ASSUME StoreInv, Tracked, NEW t \in Agent \cup Direct, Updating(t)
  PROVE  Tracked'
<1>1. /\ t \in Thread /\ LocalTypeOK /\ pc[t] = "apply" /\ lock = t
      /\ UpdaterOK(t)
  BY ThreadsDisjoint
  DEF StoreInv, Typed, Exclusive, Kept, Thread, Updating, Apply, ApplyFails, Applied
<1>2. /\ live' # 0
      /\ UNCHANGED <<saved, version, updates>>
  <2>1. backup[t] # 0
    BY <1>1, LenProperties DEF UpdaterOK, StoreInv, Typed, StoreTypeOK
  <2> QED BY <1>1, <2>1 DEF Updating, Apply, ApplyFails, Applied, UpdaterOK
<1>3. \A k \in Keeper : pc[k] = "idle"
  BY <1>1, KeeperAlone, ThreadsDisjoint DEF StoreInv
<1>4. /\ pc'[t] \in {"idle", "apply", "bump"}
      /\ \A u \in Thread : u # t => pc'[u] = pc[u]
      /\ \A u \in Agent : pc'[u] \in {"enter", "apply"} => seen'[u] = seen[u]
  <2>1. CASE Return(t)
    BY <1>1, <2>1, Returned, ReturnedSeen DEF LocalTypeOK
  <2>2. CASE ~Return(t)
    BY <1>1, <2>2 DEF Updating, Apply, ApplyFails, Applied, LocalTypeOK, Goto
  <2> QED BY <2>1, <2>2
<1>5. \A u \in Agent : pc'[u] \in {"enter", "apply"} => Expected(u)'
  BY <1>1, <1>2, <1>4, ThreadsDisjoint DEF Tracked, Expected
<1>6. \A k \in Keeper : pc'[k] = "idle"
  BY <1>1, <1>3, <1>4, ThreadsDisjoint
<1>7. \A u \in Thread : pc'[u] \in {"enter", "apply"} => pc'[u] = pc[u]
  BY <1>1, <1>4
<1> QED BY <1>1, <1>2, <1>5, <1>6, <1>7, ThreadsDisjoint DEF Tracked

LEMMA KeeperTracked ==
  ASSUME StoreInv, Tracked, StoreInv', NEW k \in Keeper,
         \/ \E c \in Checkpoint : CheckpointBegin(k, c) \/ RestoreBegin(k, c)
         \/ KeeperGoesOn(k)
  PROVE  Tracked'
<1>1. k \in Thread /\ LocalTypeOK /\ k \notin Agent
  BY ThreadsDisjoint DEF StoreInv, Typed
<1>2. updates' = updates
  BY DEF CheckpointBegin, RestoreBegin, KeeperGoesOn, CheckpointCopy, CheckpointEnd,
         RestoreReplace, RestoreStamp
<1>3. \A t \in Thread : t # k => pc[t] \in {"idle", "ready"} \/ (pc[t] = "apply" /\ t \in Direct)
  <2>1. clock \in {None, k}
    BY DEF CheckpointBegin, RestoreBegin, KeeperBegin, KeeperGoesOn, CheckpointCopy,
           CheckpointEnd, RestoreReplace, RestoreStamp, StoreInv, Exclusive
  <2> QED BY <2>1, ThreadsDisjoint DEF StoreInv, Exclusive, Thread
<1>4. /\ \A t \in Thread : t # k => pc'[t] = pc[t]
      /\ seen' = seen
  BY <1>1, Returned, ReturnedSeen
  DEF CheckpointBegin, RestoreBegin, KeeperGoesOn, CheckpointCopy, CheckpointEnd,
      RestoreReplace, RestoreStamp, LocalTypeOK, Goto, localVars
<1>5. \A t \in Agent : pc'[t] \notin {"enter", "apply"}
  BY <1>1, <1>3, <1>4, ThreadsDisjoint
<1>6. \A t \in Thread : pc'[t] = "apply" => pc[t] = "apply"
  BY <1>1, <1>4 DEF StoreInv, Exclusive
<1>7. \A h \in Keeper : h # k => pc'[h] = "idle"
  BY <1>3, <1>4, ThreadsDisjoint DEF StoreInv, Exclusive
<1>8. (live' = 0 <=> pc'[k] = "replace") /\ (pc'[k] = "copy" => saved'[target'[k]] = None)
  <2>1. ASSUME NEW c \in Checkpoint, CheckpointBegin(k, c)
        PROVE  live' # 0 /\ pc'[k] = "copy" /\ saved'[target'[k]] = None
    BY <1>1, <2>1 DEF CheckpointBegin, Goto, LocalTypeOK
  <2>2. ASSUME NEW c \in Checkpoint, RestoreBegin(k, c)
        PROVE  live' = 0 /\ pc'[k] = "replace"
    BY <1>1, <2>2 DEF RestoreBegin, Goto, LocalTypeOK
  <2>3. CASE CheckpointCopy(k)
    BY <1>1, <1>7, <2>3 DEF CheckpointCopy, Tracked
  <2>4. CASE CheckpointEnd(k) \/ RestoreStamp(k)
    <3>1. pc'[k] = "idle" /\ pc[k] \in {"copy", "stamp"} /\ live' = live
      BY <1>1, <2>4, Returned DEF CheckpointEnd, RestoreStamp, storeVars
    <3>2. \A h \in Keeper : pc[h] # "replace"
      BY <1>3, <3>1, ThreadsDisjoint DEF StoreInv, Exclusive
    <3> QED BY <3>1, <3>2 DEF Tracked
  <2>5. CASE RestoreReplace(k)
    <3>1. live' = saved[target[k]].obj /\ pc'[k] = "stamp"
      BY <1>1, <2>5 DEF RestoreReplace, Goto, LocalTypeOK
    <3>2. saved[target[k]].obj \in DOMAIN heap
      BY <1>1, <2>5 DEF RestoreReplace, StoreInv, Typed, CallOK, Saved
    <3> QED BY <3>1, <3>2, LenProperties DEF StoreInv, Typed, StoreTypeOK
  <2> QED BY <2>1, <2>2, <2>3, <2>4, <2>5 DEF KeeperGoesOn
<1> QED BY <1>1, <1>2, <1>5, <1>6, <1>7, <1>8, ThreadsDisjoint DEF Tracked

LEMMA NextTracked ==
  ASSUME Quiet, Once, StoreInv, Tracked, StoreInv', [Next]_vars
  PROVE  Tracked'
<1>1. ASSUME NEW t \in Agent, AgentRead(t) \/ AgentBegin(t) \/ AgentGoesOn(t)
      PROVE  Tracked'
  <2>1. CASE AgentUpdate(t)
    BY <2>1, UpdateTracked, ThreadsDisjoint DEF AgentUpdate
  <2> QED BY <1>1, <2>1, AgentTracked, UpdatingTracked DEF AgentGoesOn
<1>2. ASSUME NEW t \in Direct, DirectUpdate(t) \/ Updating(t)
      PROVE  Tracked'
  <2>1. CASE DirectUpdate(t)
    BY <2>1, UpdateTracked, ThreadsDisjoint DEF DirectUpdate
  <2> QED BY <1>2, <2>1, UpdatingTracked
<1>3. ASSUME NEW k \in Keeper,
             \/ \E c \in Checkpoint : CheckpointBegin(k, c) \/ RestoreBegin(k, c)
             \/ KeeperGoesOn(k)
      PROVE  Tracked'
  BY <1>3, KeeperTracked
<1>4. CASE UNCHANGED vars
  BY <1>4 DEF vars, storeVars, localVars, Tracked, Expected
<1> QED BY <1>1, <1>2, <1>3, <1>4 DEF Next

Linked == TrackedInv /\ ValueFacts /\ CountedFacts

(* Steps after which the store counts, knows and keeps what it did.        *)
LEMMA CountedUnchanged ==
  ASSUME Linked, Linked', version' = version,
         \A k \in Keeper : ~Restoring(k) /\ ~Restoring(k)',
         \A t \in Agent : Counting(t)' <=> Counting(t)
  PROVE  counted' = counted
<1>1. CASE \E t \in Agent : Counting(t)
  <2>1. PICK t \in Agent : Counting(t)
    BY <1>1
  <2> HIDE DEF Counting
  <2>2. counted = version + 1 /\ counted' = version' + 1
    BY <2>1 DEF Linked, CountedFacts
  <2> QED BY <2>2
<1>2. CASE \A t \in Agent : ~Counting(t)
  BY <1>2 DEF Linked, CountedFacts
<1> QED BY <1>1, <1>2

LEMMA KnownUnchanged ==
  ASSUME seen' = seen, \A t \in Agent : Counting(t)' <=> Counting(t)
  PROVE  known' = known
BY DEF known

LEMMA KeptUnchanged ==
  ASSUME saved' = saved,
         \A c \in Checkpoint : Unrestored(c) => heap'[saved[c].obj] = heap[saved[c].obj]
  PROVE  kept' = kept
BY DEF kept, Unrestored

LEMMA HeldObject ==
  ASSUME Linked, NEW c \in Checkpoint, Unrestored(c)
  PROVE  /\ saved[c].obj \in DOMAIN heap
         /\ saved[c].obj # live
         /\ \A t \in Thread : pc[t] \in {"apply", "copy"} => saved[c].obj # backup[t]
BY DEF Linked, TrackedInv, StoreInv, Kept, Held, HeldOK

(* An update begins: the copy has the value of the state.                  *)
LEMMA UpdateHidden ==
  ASSUME Quiet, Linked, Linked', NEW t \in Agent \cup Direct,
         t \in Direct => pc[t] = "idle" /\ Idle(Keeper) /\ updates < MaxUpdates,
         t \in Agent => pc[t] = "enter",
         Update(t)
  PROVE  UNCHANGED <<value, counted, known, kept>>
<1>1. live # 0
  BY UpdateTracked DEF Linked, TrackedInv
<1>2. /\ heap' = Append(heap, heap[live])
      /\ backup' = [backup EXCEPT ![t] = Len(heap) + 1]
      /\ pc' = [pc EXCEPT ![t] = "apply"]
      /\ lock = None
      /\ UNCHANGED <<live, saved, version, seen>>
  BY <1>1 DEF Update, Goto
<1>3. /\ t \in Thread /\ heap \in Seq(Object) /\ live \in DOMAIN heap /\ heap[live] \in Object
      /\ pc \in [Thread -> Labels] /\ backup \in [Thread -> {0} \cup DOMAIN heap]
  BY <1>1, ThreadsDisjoint, ElementOfSeq
  DEF Linked, TrackedInv, StoreInv, Typed, StoreTypeOK, LocalTypeOK
<1>4. /\ \A o \in DOMAIN heap : heap'[o] = heap[o]
      /\ heap'[Len(heap) + 1] = heap[live]
  BY <1>2, <1>3, HeapGrows
<1>5. pc'[t] = "apply" /\ backup'[t] = Len(heap) + 1 /\ \A u \in Thread : u # t => pc'[u] = pc[u]
  BY <1>2, <1>3
<1>6. value' = value
  BY <1>1, <1>2, <1>3, <1>4, <1>5 DEF Linked, ValueFacts
<1>7. counted' = counted
  <2>1. pc[t] # "bump" /\ t \notin Keeper
    BY ThreadsDisjoint
  <2>2. \A k \in Keeper : pc[k] = "idle"
    BY <1>3, KeeperAlone, ThreadsDisjoint
    DEF Linked, TrackedInv, StoreInv, Idle
  <2> QED BY <1>2, <1>5, <2>1, <2>2, CountedUnchanged, ThreadsDisjoint DEF Restoring, Counting
<1>8. known' = known
  BY <1>2, <1>5, KnownUnchanged, ThreadsDisjoint DEF Counting
<1>9. kept' = kept
  BY <1>2, <1>4, HeldObject, KeptUnchanged
<1> QED BY <1>6, <1>7, <1>8, <1>9

(* A field is written: what the batch is undone with is as it was.         *)
LEMMA ApplyHidden ==
  ASSUME Linked, Linked', NEW t \in Agent \cup Direct, Apply(t)
  PROVE  UNCHANGED <<value, counted, known, kept>>
<1>1. /\ heap' = [heap EXCEPT ![obj[t]][at[t] + 1] = updates]
      /\ pc[t] = "apply"
      /\ UNCHANGED <<live, saved, version, pc, backup, seen>>
  BY DEF Apply
<1>2. t \in Thread /\ UpdaterOK(t) /\ heap \in Seq(Object) /\ updates \in Nat
  BY <1>1, ThreadsDisjoint DEF Linked, TrackedInv, StoreInv, Kept, Typed, StoreTypeOK
<1>3. \A o \in DOMAIN heap : o # live => heap'[o] = heap[o]
  BY <1>1, <1>2, FieldWritten DEF UpdaterOK
<1>4. value' = value
  BY <1>1, <1>2, <1>3 DEF Linked, ValueFacts, UpdaterOK
<1>5. counted' = counted
  BY <1>1, <1>2, KeeperAlone, CountedUnchanged, ThreadsDisjoint
  DEF Restoring, Counting, Linked, TrackedInv, StoreInv
<1>6. known' = known
  BY <1>1, KnownUnchanged DEF Counting
<1>7. kept' = kept
  BY <1>1, <1>3, HeldObject, KeptUnchanged
<1> QED BY <1>4, <1>5, <1>6, <1>7

(* A thread that works on the state has no keeper beside it.               *)
LEMMA NoKeeper ==
  ASSUME Linked, NEW t \in Thread, t \notin Keeper, pc[t] \in {"enter", "apply", "bump"}
  PROVE  \A k \in Keeper : pc[k] = "idle"
BY KeeperAlone DEF Linked, TrackedInv, StoreInv

(* A failed update leaves the value; an agent gives up.                    *)
LEMMA ApplyFailsStep ==
  ASSUME Linked, Linked', NEW t \in Agent \cup Direct, ApplyFails(t)
  PROVE  /\ UNCHANGED <<value, counted, kept>>
         /\ t \in Agent => known' = [known EXCEPT ![t] = None]
         /\ t \in Direct => known' = known
<1>1. /\ pc[t] = "apply" /\ Return(t)
      /\ live' = backup[t]
      /\ UNCHANGED <<heap, saved, version>>
  BY DEF ApplyFails
<1>2. /\ t \in Thread /\ t \notin Keeper /\ LocalTypeOK /\ UpdaterOK(t) /\ lock = t
      /\ live' # 0
  <2>1. t \in Thread /\ t \notin Keeper /\ LocalTypeOK /\ UpdaterOK(t) /\ lock = t
    BY <1>1, ThreadsDisjoint DEF Linked, TrackedInv, StoreInv, Exclusive, Kept, Typed
  <2>2. backup[t] # 0
    BY <2>1, LenProperties DEF UpdaterOK, Linked, TrackedInv, StoreInv, Typed, StoreTypeOK
  <2> QED BY <1>1, <2>1, <2>2
<1>3. /\ pc'[t] = "idle" /\ lock' = None
      /\ \A u \in Thread : u # t => pc'[u] = pc[u]
  BY <1>1, <1>2, Returned
<1>4. value' = value
  BY <1>1, <1>2, <1>3 DEF Linked, ValueFacts
<1>5. \A u \in Agent : Counting(u)' <=> Counting(u)
  BY <1>1, <1>3, ThreadsDisjoint DEF Counting
<1>6. counted' = counted
  BY <1>1, <1>2, <1>3, <1>5, NoKeeper, CountedUnchanged, ThreadsDisjoint DEF Restoring
<1>7. kept' = kept
  BY <1>1, KeptUnchanged
<1>8. t \in Agent => known' = [known EXCEPT ![t] = None]
  BY <1>1, <1>2, <1>3, <1>5, ReturnedSeen DEF known, Counting, LocalTypeOK
<1>9. t \in Direct => known' = known
  BY <1>1, <1>2, <1>5, ReturnedSeen, KnownUnchanged, ThreadsDisjoint
<1> QED BY <1>4, <1>6, <1>7, <1>8, <1>9

(* A batch that is complete becomes the value.  An agent's counts at once. *)
LEMMA AppliedStep ==
  ASSUME Linked, Linked', NEW t \in Agent \cup Direct, Applied(t)
  PROVE  IF t \in Agent THEN Store!Update(t) ELSE Store!Write
<1>1. /\ pc[t] = "apply" /\ at[t] = FieldCount
      /\ live' = obj[t]
      /\ UNCHANGED <<heap, saved, version, updates>>
  BY DEF Applied
<1>2. /\ t \in Thread /\ t \notin Keeper /\ LocalTypeOK /\ UpdaterOK(t) /\ lock = t
      /\ heap \in Seq(Object) /\ live \in DOMAIN heap
      /\ updates \in 1 .. MaxUpdates + 1
  BY <1>1, ThreadsDisjoint, StoreAssumption
  DEF Linked, TrackedInv, Tracked, StoreInv, Exclusive, Kept, UpdaterOK, Typed, StoreTypeOK
<1>3. live' = live /\ heap[live] = [f \in Field |-> updates]
  <2>1. heap[live] \in Object
    BY <1>2, ElementOfSeq
  <2>2. \A f \in Field : heap[live][f] = updates
    BY <1>1, <1>2 DEF UpdaterOK, Field
  <2> QED BY <1>1, <1>2, <2>1, <2>2 DEF UpdaterOK, Object
<1>4. /\ lock' = None
      /\ pc'[t] = IF t \in Agent THEN "bump" ELSE "idle"
      /\ seen' = seen
      /\ \A u \in Thread : u # t => pc'[u] = pc[u]
  <2>1. CASE t \in Agent
    BY <1>2, <2>1, ThreadsDisjoint DEF Applied, Goto, LocalTypeOK
  <2>2. CASE t \in Direct
    BY <1>2, <2>2, Returned, ReturnedSeen, ThreadsDisjoint DEF Applied
  <2> QED BY <2>1, <2>2
<1>5. value' \in Store!Whole
  <2>1. live' # 0
    BY <1>2, <1>3, LenProperties
  <2>2. value' = [f \in Field |-> updates]
    BY <1>1, <1>3, <1>4, <2>1 DEF Linked, ValueFacts
  <2> QED BY <1>2, <2>2 DEF Store!Whole
<1>6. \A k \in Keeper : ~Restoring(k) /\ ~Restoring(k)'
  BY <1>1, <1>2, <1>4, NoKeeper, ThreadsDisjoint DEF Restoring
<1>7. kept' = kept
  BY <1>1, KeptUnchanged
<1>8. CASE t \in Agent
  <2>1. \A u \in Agent : ~Counting(u)
    BY <1>1, <1>8, ThreadsDisjoint DEF Counting, Linked, TrackedInv, StoreInv, Exclusive
  <2>2. Counting(t)' /\ \A u \in Agent : u # t => ~Counting(u)'
    BY <1>4, <1>8, <2>1, ThreadsDisjoint DEF Counting
  <2>3. counted = version
    BY <1>6, <2>1 DEF Linked, CountedFacts
  <2>4. counted' = version' + 1
    BY <1>8, <2>2 DEF Linked, CountedFacts
  <2>5. known' = [known EXCEPT ![t] = None]
    BY <1>4, <2>1, <2>2 DEF known
  <2>6. known[t] # None => known[t].version = counted
    <3>1. known[t] = seen[t]
      BY <1>8, <2>1 DEF known
    <3> QED BY <1>1, <1>8, <2>3, <3>1 DEF Linked, TrackedInv, Tracked, Expected
  <2> QED BY <1>1, <1>5, <1>7, <1>8, <2>3, <2>4, <2>5, <2>6 DEF Store!Update
<1>9. CASE t \in Direct
  <2>1. \A u \in Agent : Counting(u)' <=> Counting(u)
    BY <1>4, <1>9, ThreadsDisjoint DEF Counting
  <2>2. counted' = counted
    BY <1>1, <1>6, <2>1, CountedUnchanged
  <2>3. known' = known
    BY <1>4, <2>1, KnownUnchanged
  <2> QED BY <1>5, <1>7, <1>9, <2>2, <2>3, ThreadsDisjoint DEF Store!Write
<1> QED BY <1>8, <1>9

(* Nothing is done to the objects, and the same thread updates.            *)
LEMMA ValueUnchanged ==
  ASSUME Linked, Linked', UNCHANGED <<heap, live>>,
         \A k \in Keeper : pc[k] # "replace" /\ pc'[k] # "replace",
         \A t \in Thread : /\ pc'[t] = "apply" <=> pc[t] = "apply"
                           /\ pc[t] = "apply" => backup'[t] = backup[t]
  PROVE  value' = value
<1>1. CASE \E t \in Thread : pc[t] = "apply"
  BY <1>1 DEF Linked, ValueFacts
<1>2. CASE \A t \in Thread : pc[t] # "apply"
  <2>1. lock = None /\ lock' = None
    BY <1>2 DEF Linked, TrackedInv, StoreInv, Exclusive
  <2>2. live # 0
    BY DEF Linked, TrackedInv, Tracked
  <2> QED BY <2>1, <2>2 DEF Linked, ValueFacts
<1> QED BY <1>1, <1>2

(* An agent reads state and version as one.                                *)
LEMMA AgentReads ==
  ASSUME Linked, Linked', NEW t \in Agent, AgentRead(t)
  PROVE  Store!Read(t)
<1>1. /\ clock = None /\ lock = None /\ live # 0
      /\ pc[t] \in {"idle", "ready"} /\ pc' = [pc EXCEPT ![t] = "ready"]
      /\ seen' = [seen EXCEPT ![t] = [value |-> heap[live], version |-> version]]
      /\ UNCHANGED <<heap, live, saved, version, lock, backup>>
  BY DEF AgentRead, Goto, storeVars, localVars
<1>2. /\ \A k \in Keeper : pc[k] = "idle" /\ pc'[k] = "idle"
      /\ \A u \in Thread : pc[u] # "apply" /\ pc'[u] # "apply"
      /\ \A u \in Agent : ~Counting(u) /\ ~Counting(u)'
  BY <1>1, ThreadsDisjoint
  DEF Linked, TrackedInv, StoreInv, Typed, LocalTypeOK, Exclusive, Counting
<1>3. value = heap[live] /\ value' = value
  BY <1>1, <1>2, ValueUnchanged DEF Linked, ValueFacts
<1>4. counted = version /\ counted' = counted
  BY <1>1, <1>2, CountedUnchanged DEF Linked, CountedFacts, Restoring
<1>5. kept' = kept
  BY <1>1, KeptUnchanged
<1>6. known' = [known EXCEPT ![t] = [value |-> value, version |-> counted]]
  BY <1>1, <1>2, <1>3, <1>4
  DEF known, Linked, TrackedInv, StoreInv, Typed, LocalTypeOK
<1> QED BY <1>3, <1>4, <1>5, <1>6 DEF Store!Read, Store!Current

(* An update begins, is refused or is counted.                             *)
LEMMA AgentStep ==
  ASSUME Success = {TRUE}, Linked, Linked', NEW t \in Agent,
         AgentBegin(t) \/ AgentRejected(t) \/ Bump(t)
  PROVE  Store!GiveUp(t) \/ UNCHANGED <<value, counted, known, kept>>
<1>1. /\ t \in Thread /\ t \notin Keeper /\ LocalTypeOK
      /\ pc[t] \in {"idle", "ready", "enter", "bump"}
      /\ UNCHANGED <<heap, live, saved>>
  BY ThreadsDisjoint
  DEF AgentBegin, AgentRejected, Bump, storeVars, Linked, TrackedInv, StoreInv, Typed
<1>2. kept' = kept
  BY <1>1, KeptUnchanged
<1>3. /\ \A u \in Thread : u # t => pc'[u] = pc[u] /\ backup'[u] = backup[u]
      /\ pc'[t] \in {"idle", "enter"}
  <2>1. CASE Return(t)
    BY <1>1, <2>1, Returned
  <2>2. CASE ~Return(t)
    BY <1>1, <2>2 DEF AgentBegin, AgentRejected, Bump, Goto, LocalTypeOK, localVars
  <2> QED BY <2>1, <2>2
<1>4. \A k \in Keeper : pc[k] = "idle" /\ pc'[k] = "idle"
  <2>1. clock \in {None, t}
    BY <1>1
    DEF AgentBegin, AgentRejected, Bump, Linked, TrackedInv, StoreInv, Exclusive
  <2> QED BY <1>1, <1>3, <2>1, ThreadsDisjoint DEF Linked, TrackedInv, StoreInv, Exclusive
<1>5. value' = value
  BY <1>1, <1>3, <1>4, ValueUnchanged
<1>6. CASE Bump(t)
  <2>1. pc[t] = "bump" /\ Return(t) /\ version' = version + 1
    BY <1>6 DEF Bump
  <2>2. counted = version + 1
    BY <2>1 DEF Counting, Linked, CountedFacts
  <2>3. \A u \in Agent : u # t => ~Counting(u)
    BY <2>1, <1>1, ThreadsDisjoint DEF Counting, Linked, TrackedInv, StoreInv, Exclusive
  <2>4. \A u \in Agent : ~Counting(u)'
    BY <1>3, <2>3, ThreadsDisjoint DEF Counting
  <2>5. counted' = version'
    BY <1>4, <2>4 DEF Restoring, Linked, CountedFacts
  <2>6. /\ seen' = [seen EXCEPT ![t] = None]
        /\ seen \in [Agent -> [value : Object, version : Nat] \cup {None}]
    BY <1>1, <2>1, ReturnedSeen DEF LocalTypeOK
  <2>7. known' = known
    BY <2>1, <2>3, <2>4, <2>6 DEF known, Counting
  <2> QED BY <1>2, <1>5, <2>1, <2>2, <2>5, <2>7
<1>7. CASE AgentBegin(t) \/ AgentRejected(t)
  <2>1. version' = version /\ \A u \in Agent : Counting(u)' <=> Counting(u)
    BY <1>1, <1>3, <1>7, ThreadsDisjoint DEF AgentBegin, AgentRejected, Counting
  <2>2. counted' = counted
    BY <1>4, <2>1, CountedUnchanged DEF Restoring
  <2>3. CASE Return(t)
    <3>1. seen' = [seen EXCEPT ![t] = None]
      BY <1>1, <2>3, ReturnedSeen
    <3>2. pc'[t] = "idle"
      BY <1>1, <2>3, Returned
    <3>3. known' = [known EXCEPT ![t] = None]
      BY <1>1, <2>1, <3>1, <3>2 DEF known, Counting, LocalTypeOK
    <3> QED BY <1>2, <1>5, <2>2, <3>3 DEF Store!GiveUp
  <2>4. CASE ~Return(t)
    <3>1. seen' = seen
      BY <1>7, <2>4 DEF AgentBegin, AgentRejected
    <3> QED BY <1>2, <1>5, <2>1, <2>2, <3>1, KnownUnchanged
  <2> QED BY <2>3, <2>4
<1> QED BY <1>6, <1>7

(* What is true while a keeper works, whatever it does next.               *)
LEMMA KeeperWorks ==
  ASSUME Linked, NEW k \in Keeper, pc[k] # "idle"
  PROVE  /\ lock = None
         /\ \A t \in Agent : ~Counting(t)
         /\ \A t \in Thread : pc[t] # "apply"
         /\ \A h \in Keeper : h # k => pc[h] = "idle"
BY KeeperAlone, ThreadsDisjoint DEF Linked, TrackedInv, StoreInv, Exclusive, Counting

(* What is true once it has begun.                                         *)
LEMMA KeeperBegins ==
  ASSUME Linked', NEW k \in Keeper, pc'[k] # "idle", pc[k] = "idle",
         \A t \in Thread : t # k => pc'[t] = pc[t]
  PROVE  /\ lock' = None
         /\ \A t \in Agent : ~Counting(t) /\ ~Counting(t)'
         /\ \A t \in Thread : pc[t] # "apply" /\ pc'[t] # "apply"
         /\ \A h \in Keeper : h # k => pc[h] = "idle" /\ pc'[h] = "idle"
<1>1. clock' = k /\ pc'[k] # "apply" /\ \A t \in Direct : pc'[t] = "idle"
  BY DEF Linked, TrackedInv, StoreInv, Exclusive
<1>2. \A t \in Thread : t # k => pc'[t] \in {"idle", "ready"}
  BY <1>1, ThreadsDisjoint DEF Linked, TrackedInv, StoreInv, Exclusive, Thread
<1>3. lock' = None
  BY <1>1, <1>2 DEF Linked, TrackedInv, StoreInv, Exclusive
<1>4. \A h \in Keeper : h # k => pc'[h] = "idle"
  BY <1>1, ThreadsDisjoint DEF Linked, TrackedInv, StoreInv, Exclusive
<1> QED BY <1>1, <1>2, <1>3, <1>4, ThreadsDisjoint DEF Counting

(* A checkpoint is begun: a new object.                                    *)
LEMMA CheckpointBeginHidden ==
  ASSUME Linked, Linked', NEW k \in Keeper, NEW c \in Checkpoint, CheckpointBegin(k, c)
  PROVE  UNCHANGED <<value, counted, known, kept>>
<1>1. /\ live # 0
      /\ heap' = Append(heap, [f \in Field |-> 0])
      /\ pc[k] = "idle" /\ pc' = [pc EXCEPT ![k] = "copy"]
      /\ UNCHANGED <<live, saved, version, lock, seen>>
  BY DEF CheckpointBegin, KeeperBegin, Goto
<1>2. /\ k \in Thread /\ pc \in [Thread -> Labels] /\ heap \in Seq(Object)
      /\ live \in DOMAIN heap /\ [f \in Field |-> 0] \in Object
  BY <1>1, ThreadsDisjoint
  DEF Linked, TrackedInv, StoreInv, Typed, StoreTypeOK, LocalTypeOK, Object
<1>3. \A o \in DOMAIN heap : heap'[o] = heap[o]
  BY <1>1, <1>2, HeapGrows
<1>4. pc'[k] = "copy" /\ \A t \in Thread : t # k => pc'[t] = pc[t]
  BY <1>1, <1>2
<1>5. /\ lock' = None
      /\ \A h \in Keeper : h # k => pc[h] = "idle" /\ pc'[h] = "idle"
  BY <1>1, <1>4, KeeperBegins
<1>6. value' = value
  BY <1>1, <1>2, <1>3, <1>5 DEF Linked, ValueFacts
<1>7. \A t \in Agent : Counting(t)' <=> Counting(t)
  BY <1>4, ThreadsDisjoint DEF Counting
<1>8. counted' = counted
  <2>1. \A h \in Keeper : ~Restoring(h) /\ ~Restoring(h)'
    BY <1>1, <1>4, <1>5 DEF Restoring
  <2> QED BY <1>1, <1>7, <2>1, CountedUnchanged
<1>9. kept' = kept
  BY <1>1, <1>3, HeldObject, KeptUnchanged
<1> QED BY <1>1, <1>6, <1>7, <1>8, <1>9, KnownUnchanged

(* A field is copied, into an object that is nobody's state.               *)
LEMMA CheckpointCopyHidden ==
  ASSUME Linked, Linked', NEW k \in Keeper, CheckpointCopy(k)
  PROVE  UNCHANGED <<value, counted, known, kept>>
<1>1. /\ pc[k] = "copy"
      /\ heap' = [heap EXCEPT ![backup[k]][at[k] + 1] = heap[obj[k]][at[k] + 1]]
      /\ UNCHANGED <<live, saved, version, lock, pc, seen>>
  BY DEF CheckpointCopy
<1>2. /\ k \in Thread /\ CopierOK(k) /\ lock = None
      /\ heap \in Seq(Object) /\ live \in DOMAIN heap
  BY <1>1, KeeperWorks, ThreadsDisjoint
  DEF Linked, TrackedInv, StoreInv, Kept, CopierOK, Typed, StoreTypeOK
<1>3. \A o \in DOMAIN heap : o # backup[k] => heap'[o] = heap[o]
  BY <1>1
<1>4. value' = value
  BY <1>1, <1>2, <1>3 DEF Linked, ValueFacts, CopierOK
<1>5. counted' = counted
  BY <1>1, KeeperWorks, CountedUnchanged DEF Restoring, Counting
<1>6. known' = known
  BY <1>1, KnownUnchanged DEF Counting
<1>7. kept' = kept
  BY <1>1, <1>2, <1>3, HeldObject, KeptUnchanged
<1> QED BY <1>4, <1>5, <1>6, <1>7

(* The copy is complete: it holds value and version of the store.          *)
LEMMA CheckpointEndTakes ==
  ASSUME Linked, Linked', NEW k \in Keeper, CheckpointEnd(k)
  PROVE  Store!Take(target[k])
<1> DEFINE c == target[k]
<1>1. /\ pc[k] = "copy" /\ at[k] = FieldCount
      /\ Return(k)
      /\ saved' = [saved EXCEPT ![c] =
                     [obj |-> backup[k], version |-> version, restored |-> FALSE]]
      /\ UNCHANGED <<heap, live, version>>
  BY DEF CheckpointEnd
<1>2. /\ k \in Thread /\ k \notin Agent /\ LocalTypeOK /\ CopierOK(k)
      /\ c \in Checkpoint /\ saved[c] = None
      /\ heap \in Seq(Object) /\ live \in DOMAIN heap /\ backup[k] \in DOMAIN heap
      /\ saved \in [Checkpoint -> Saved \cup {None}]
  BY <1>1, ThreadsDisjoint
  DEF Linked, TrackedInv, Tracked, StoreInv, Kept, CopierOK, Typed, StoreTypeOK, CallOK
<1>3. /\ pc'[k] = "idle" /\ lock' = lock
      /\ \A t \in Thread : t # k => pc'[t] = pc[t]
      /\ seen' = seen
  BY <1>1, <1>2, KeeperWorks, Returned, ReturnedSeen
<1>4. /\ lock = None
      /\ \A t \in Agent : ~Counting(t) /\ ~Counting(t)'
      /\ \A h \in Keeper : ~Restoring(h) /\ ~Restoring(h)'
  BY <1>1, <1>3, KeeperWorks, ThreadsDisjoint DEF Restoring, Counting
<1>5. heap[backup[k]] = heap[live]
  <2>1. heap[backup[k]] \in Object /\ heap[live] \in Object
    BY <1>2, ElementOfSeq
  <2>2. \A f \in Field : heap[backup[k]][f] = heap[live][f]
    BY <1>1, <1>2 DEF CopierOK, Field
  <2> QED BY <2>1, <2>2 DEF Object
<1>6. value = heap[live] /\ value' = value
  BY <1>1, <1>2, <1>3, <1>4 DEF CopierOK, Linked, ValueFacts
<1>7. counted = version /\ counted' = counted
  BY <1>1, <1>4, CountedUnchanged DEF Linked, CountedFacts
<1>8. known' = known
  BY <1>3, <1>4, KnownUnchanged
<1> HIDE DEF c
<1>9. /\ saved'[c] = [obj |-> backup[k], version |-> version, restored |-> FALSE]
      /\ saved'[c] # None
      /\ \A d \in Checkpoint : d # c => saved'[d] = saved[d]
  <2>1. saved'[c] = [obj |-> backup[k], version |-> version, restored |-> FALSE]
    BY <1>1, <1>2
  <2>2. saved'[c] \in [obj : Nat, version : Nat, restored : BOOLEAN]
    BY <1>2, <2>1, LenProperties DEF Linked, TrackedInv, StoreInv, Typed, StoreTypeOK
  <2>3. saved'[c] # None
    BY <2>2, StoreAssumption
  <2> QED BY <1>1, <1>2, <2>1, <2>3
<1>10. kept[c] = None
  BY <1>2 DEF kept
<1>11. kept' = [kept EXCEPT ![c] = [value |-> value, version |-> counted]]
  BY <1>1, <1>2, <1>5, <1>6, <1>7, <1>9 DEF kept
<1> QED BY <1>6, <1>7, <1>8, <1>10, <1>11 DEF Store!Take, Store!Current, c

(* A restore removes the state: from here on that of the checkpoint counts.*)
LEMMA RestoreBeginRestores ==
  ASSUME Once, Linked, Linked', NEW k \in Keeper, NEW c \in Checkpoint, RestoreBegin(k, c)
  PROVE  Store!Restore(c)
<1>1. /\ saved[c] # None /\ ~saved[c].restored
      /\ pc[k] = "idle" /\ pc' = [pc EXCEPT ![k] = "replace"]
      /\ target' = [target EXCEPT ![k] = c]
      /\ saved' = [saved EXCEPT ![c].restored = TRUE]
      /\ UNCHANGED <<heap, version, seen>>
  BY DEF RestoreBegin, KeeperBegin, Goto
<1>2. /\ k \in Thread /\ pc \in [Thread -> Labels]
      /\ target \in [Thread -> Checkpoint \cup {None}]
      /\ saved[c] \in Saved /\ saved \in [Checkpoint -> Saved \cup {None}]
      /\ heap \in Seq(Object)
  BY <1>1, ThreadsDisjoint
  DEF Linked, TrackedInv, StoreInv, Typed, StoreTypeOK, LocalTypeOK
<1>3. /\ pc'[k] = "replace" /\ target'[k] = c
      /\ \A t \in Thread : t # k => pc'[t] = pc[t]
  BY <1>1, <1>2
<1>4. /\ saved'[c] = [saved[c] EXCEPT !.restored = TRUE]
      /\ \A d \in Checkpoint : d # c => saved'[d] = saved[d]
  BY <1>1, <1>2
<1>5. /\ saved'[c].obj = saved[c].obj /\ saved'[c].version = saved[c].version
      /\ saved'[c].restored
  BY <1>2, <1>4 DEF Saved
<1>6. kept[c] = [value |-> heap[saved[c].obj], version |-> saved[c].version]
  BY <1>1 DEF kept
<1>7. kept[c] # None
  <2>1. heap[saved[c].obj] \in [Field -> Nat] /\ saved[c].version \in Nat
    BY <1>2, ElementOfSeq DEF Saved, Object
  <2> QED BY <1>6, <2>1, StoreAssumption
<1>8. value' = kept[c].value
  BY <1>1, <1>3, <1>5, <1>6 DEF Linked, ValueFacts
<1>9. counted' = kept[c].version + 1
  BY <1>3, <1>5, <1>6 DEF Restoring, Linked, CountedFacts
<1>10. known' = known
  BY <1>1, <1>3, KeeperBegins, KnownUnchanged
<1>11. kept' = [kept EXCEPT ![c] = None]
  BY <1>1, <1>4, <1>5 DEF kept
<1> QED BY <1>7, <1>8, <1>9, <1>10, <1>11 DEF Store!Restore

(* The rest of a restore only catches up with what counts already.         *)
LEMMA RestoreHidden ==
  ASSUME Linked, Linked', NEW k \in Keeper, RestoreReplace(k) \/ RestoreStamp(k)
  PROVE  UNCHANGED <<value, counted, known, kept>>
<1>1. /\ k \in Thread /\ k \notin Agent /\ LocalTypeOK
      /\ pc[k] \in {"replace", "stamp"}
      /\ saved[target[k]] \in Saved
      /\ UNCHANGED <<heap, saved>>
  BY ThreadsDisjoint
  DEF RestoreReplace, RestoreStamp, storeVars, Linked, TrackedInv, StoreInv, Typed, CallOK
<1>2. /\ \A t \in Thread : t # k => pc'[t] = pc[t]
      /\ pc'[k] \in {"stamp", "idle"}
      /\ lock' = None /\ seen' = seen
  BY <1>1, KeeperWorks, Returned, ReturnedSeen
  DEF RestoreReplace, RestoreStamp, Goto, localVars, LocalTypeOK
<1>3. \A t \in Agent : ~Counting(t) /\ ~Counting(t)'
  BY <1>1, <1>2, KeeperWorks, ThreadsDisjoint DEF Counting
<1>4. kept' = kept /\ known' = known
  BY <1>1, <1>2, <1>3, KeptUnchanged, KnownUnchanged
<1>5. counted = saved[target[k]].version + 1
  BY <1>1 DEF Restoring, Linked, CountedFacts
<1>6. CASE RestoreReplace(k)
  <2>1. /\ pc[k] = "replace" /\ pc'[k] = "stamp"
        /\ live' = saved[target[k]].obj /\ target' = target
    BY <1>1, <1>6 DEF RestoreReplace, Goto, localVars, LocalTypeOK
  <2>2. live' # 0
    BY <1>1, <2>1, LenProperties
    DEF Saved, Linked, TrackedInv, StoreInv, Typed, StoreTypeOK
  <2>3. value' = value
    BY <1>1, <1>2, <2>1, <2>2 DEF Linked, ValueFacts
  <2>4. counted' = counted
    BY <1>1, <1>5, <2>1 DEF Restoring, Linked, CountedFacts
  <2> QED BY <1>4, <2>3, <2>4
<1>7. CASE RestoreStamp(k)
  <2>1. /\ pc[k] = "stamp" /\ pc'[k] = "idle"
        /\ version' = saved[target[k]].version + 1 /\ live' = live
    BY <1>1, <1>7, Returned DEF RestoreStamp, storeVars
  <2>2. \A h \in Keeper : pc[h] # "replace" /\ ~Restoring(h)'
    BY <1>1, <1>2, <2>1, KeeperWorks, ThreadsDisjoint DEF Restoring
  <2>3. live # 0 /\ lock = None
    BY <1>1, <2>2, KeeperWorks DEF Linked, TrackedInv, Tracked
  <2>4. value' = value
    BY <1>1, <1>2, <2>1, <2>3 DEF Linked, ValueFacts
  <2>5. counted' = counted
    BY <1>3, <1>5, <2>1, <2>2 DEF Linked, CountedFacts
  <2> QED BY <1>4, <2>4, <2>5
<1> QED BY <1>6, <1>7

(* Nothing happens.                                                        *)
LEMMA NothingHidden ==
  ASSUME Linked, Linked', UNCHANGED vars
  PROVE  UNCHANGED <<value, counted, known, kept>>
<1>1. UNCHANGED <<heap, live, saved, version, pc, lock, backup, target, seen>>
  BY DEF vars, storeVars, localVars
<1>2. value' = value
  <2>1. CASE \E k \in Keeper : pc[k] = "replace"
    BY <1>1, <2>1 DEF Linked, ValueFacts
  <2>2. CASE \A k \in Keeper : pc[k] # "replace"
    BY <1>1, <2>2, ValueUnchanged
  <2> QED BY <2>1, <2>2
<1>3. counted' = counted
  <2>1. CASE \E k \in Keeper : Restoring(k)
    BY <1>1, <2>1 DEF Restoring, Linked, CountedFacts
  <2>2. CASE \A k \in Keeper : ~Restoring(k)
    BY <1>1, <2>2, CountedUnchanged DEF Restoring, Counting
  <2> QED BY <2>1, <2>2
<1> QED BY <1>1, <1>2, <1>3, KnownUnchanged, KeptUnchanged DEF Counting

LEMMA InitStore == Init /\ TrackedInv => Store!Init
<1> SUFFICES ASSUME Init, TrackedInv PROVE Store!Init
  OBVIOUS
<1>1. ValueFacts /\ CountedFacts
  BY ValueIs, CountedIs
<1>2. \A t \in Thread : pc[t] = "idle"
  BY DEF Init
<1>3. value = [f \in Field |-> 0]
  BY <1>1 DEF Init, ValueFacts
<1>4. counted = 1
  BY <1>1, <1>2, ThreadsDisjoint DEF Init, CountedFacts, Restoring, Counting
<1>5. known = [a \in Agent |-> None] /\ kept = [c \in Checkpoint |-> None]
  BY <1>2, ThreadsDisjoint DEF Init, known, kept, Counting
<1> QED BY <1>3, <1>4, <1>5 DEF Store!Init

LEMMA NextStore ==
  ASSUME Quiet, Once, Success = {TRUE}, Linked, Linked', [Next]_vars
  PROVE  [Store!Next]_(Store!vars)
<1> DEFINE Hidden == UNCHANGED <<value, counted, known, kept>>
<1>1. Hidden => [Store!Next]_(Store!vars)
  BY DEF Store!vars
<1>2. ASSUME NEW t \in Agent, AgentRead(t) \/ AgentBegin(t) \/ AgentGoesOn(t)
      PROVE  Hidden \/ Store!Next
  <2>1. CASE AgentRead(t)
    BY <2>1, AgentReads DEF Store!Next
  <2>2. CASE AgentBegin(t) \/ AgentRejected(t) \/ Bump(t)
    BY <2>2, AgentStep DEF Store!Next
  <2>3. CASE AgentUpdate(t)
    BY <2>3, UpdateHidden, ThreadsDisjoint DEF AgentUpdate
  <2>4. CASE Apply(t)
    BY <2>4, ApplyHidden
  <2>5. CASE ApplyFails(t)
    BY <2>5, ApplyFailsStep DEF Store!Next, Store!GiveUp
  <2>6. CASE Applied(t)
    BY <2>6, AppliedStep DEF Store!Next
  <2> QED BY <1>2, <2>1, <2>2, <2>3, <2>4, <2>5, <2>6 DEF AgentGoesOn, Updating
<1>3. ASSUME NEW t \in Direct, DirectUpdate(t) \/ Updating(t)
      PROVE  Hidden \/ Store!Next
  <2>1. CASE DirectUpdate(t)
    BY <2>1, UpdateHidden, ThreadsDisjoint DEF DirectUpdate
  <2>2. CASE Apply(t)
    BY <2>2, ApplyHidden
  <2>3. CASE ApplyFails(t)
    BY <2>3, ApplyFailsStep
  <2>4. CASE Applied(t)
    BY <2>4, AppliedStep, ThreadsDisjoint DEF Store!Next
  <2> QED BY <1>3, <2>1, <2>2, <2>3, <2>4 DEF Updating
<1>4. ASSUME NEW k \in Keeper, NEW c \in Checkpoint, CheckpointBegin(k, c) \/ RestoreBegin(k, c)
      PROVE  Hidden \/ Store!Next
  BY <1>4, CheckpointBeginHidden, RestoreBeginRestores DEF Store!Next
<1>5. ASSUME NEW k \in Keeper, KeeperGoesOn(k)
      PROVE  Hidden \/ Store!Next
  <2>1. CASE CheckpointEnd(k)
    <3>1. target[k] \in Checkpoint
      BY <2>1 DEF CheckpointEnd, Linked, TrackedInv, StoreInv, Typed, CallOK, Thread
    <3> QED BY <2>1, <3>1, CheckpointEndTakes DEF Store!Next
  <2> QED BY <1>5, <2>1, CheckpointCopyHidden, RestoreHidden DEF KeeperGoesOn
<1>6. CASE UNCHANGED vars
  BY <1>1, <1>6, NothingHidden
<1> HIDE DEF Hidden
<1> QED BY <1>1, <1>2, <1>3, <1>4, <1>5, <1>6 DEF Next, Hidden

(* The two managers implement the store, if keepers leave the executor     *)
(* alone, restore a checkpoint once, and no state has a field "success"    *)
(* that is false: to agents, executor and keepers an update takes place at *)
(* one moment or not at all, an agent's only while the version is the one  *)
(* it has read, and a restore brings back what the checkpoint was taken of.*)
THEOREM StoreImplemented ==
  ASSUME Quiet, Once, Success = {TRUE}
  PROVE  Spec => ImplementsStore
<1>1. Spec => []StoreInv
  BY StoreInvariant
<1>2. Init => Tracked
  BY InitTracked
<1>3. StoreInv /\ Tracked /\ StoreInv' /\ [Next]_vars => Tracked'
  BY NextTracked
<1>4. StoreInv /\ Tracked => Linked
  BY ValueIs, CountedIs DEF Linked, TrackedInv
<1>5. Init /\ StoreInv /\ Tracked => Store!Init
  BY InitStore DEF TrackedInv
<1>6. Linked /\ Linked' /\ [Next]_vars => [Store!Next]_(Store!vars)
  BY NextStore
<1> QED BY <1>1, <1>2, <1>3, <1>4, <1>5, <1>6, PTL DEF Spec, ImplementsStore, Store!Spec
=============================================================================
