---------------------------- MODULE StateProofs -----------------------------
(***************************************************************************)
(* Theorems about what the state of a workflow is computed from.           *)
(*                                                                         *)
(* FieldOrder, for any finite set of computed fields and any dependency    *)
(* graphs: the order found is one in which the fields can be computed, and *)
(* a schema is refused if and only if it is circular.                      *)
(*                                                                         *)
(* ComputedFields, for any graph, paths, policies and failures: updates    *)
(* and reads leave no computed field with the value of an earlier state.   *)
(*                                                                         *)
(* SharedEvaluator, for any threads: an expression reads nothing that one  *)
(* which has ended has left behind.                                        *)
(*                                                                         *)
(* Composition, for any files and numbers: the two tables of inclusions    *)
(* agree, however inclusions are made, ended and cleaned up.               *)
(*                                                                         *)
(* StateObjects, for any workflows: where each start loads its definition, *)
(* no step of one workflow changes what another one reads.                 *)
(*                                                                         *)
(* Validator, for any steps and tasks: what is reported of a reference     *)
(* depends on the blocks and the list the step stands in.                  *)
(***************************************************************************)
EXTENDS ComputedFields, SharedEvaluator, Composition, StateObjects, Validator,
        FiniteSetTheorems, FunctionTheorems, SequenceTheorems,
        NaturalsInduction, WellFoundedInduction, TLAPS

Call == [node : Field, rest : SUBSET Field]

-----------------------------------------------------------------------------
(* The stack of the search                                                 *)

LEMMA Graphs ==
  ASSUME graph \in Graph
  PROVE  graph \in [Field -> SUBSET Field]
BY FieldAssumption

LEMMA PathIndices ==
  ASSUME path \in Seq(Call)
  PROVE  /\ Len(path) \in Nat
         /\ DOMAIN path = 1 .. Len(path)
         /\ \A i \in DOMAIN path : path[i] \in Call
         /\ path # <<>> => Len(path) \in DOMAIN path
BY LenProperties, ElementOfSeq, EmptySeq

LEMMA TopIsCall ==
  ASSUME path \in Seq(Call), path # <<>>
  PROVE  Top \in Call
BY PathIndices DEF Top

(* A neighbour is passed over: only the rest of the last call changes.     *)
LEMMA SkippedPath ==
  ASSUME path \in Seq(Call), path # <<>>, NEW n
  PROVE  /\ Skipped(n) \in Seq(Call)
         /\ Len(Skipped(n)) = Len(path)
         /\ DOMAIN Skipped(n) = DOMAIN path
         /\ \A i \in DOMAIN path :
              /\ Skipped(n)[i].node = path[i].node
              /\ Skipped(n)[i].rest = IF i = Len(path) THEN path[i].rest \ {n} ELSE path[i].rest
<1>1. /\ DOMAIN Skipped(n) = DOMAIN path
      /\ \A i \in DOMAIN path :
           Skipped(n)[i] = IF i = Len(path) THEN [path[i] EXCEPT !.rest = @ \ {n}] ELSE path[i]
  BY DEF Skipped
<1>2. \A i \in DOMAIN path :
        /\ Skipped(n)[i] \in Call
        /\ Skipped(n)[i].node = path[i].node
        /\ Skipped(n)[i].rest = IF i = Len(path) THEN path[i].rest \ {n} ELSE path[i].rest
  BY <1>1, PathIndices DEF Call
<1>3. Skipped(n) \in [1 .. Len(path) -> Call]
  <2>1. DOMAIN path = 1 .. Len(path)
    BY PathIndices
  <2>2. Skipped(n) = [i \in 1 .. Len(path) |-> Skipped(n)[i]]
    BY <2>1 DEF Skipped
  <2> QED BY <1>2, <2>1, <2>2
<1>4. Skipped(n) \in Seq(Call)
  BY <1>3, PathIndices, SeqDef
<1>5. Len(Skipped(n)) = Len(path)
  BY <1>3, <1>4, PathIndices, LenProperties
<1> QED BY <1>1, <1>2, <1>4, <1>5

LEMMA PushedPath ==
  ASSUME NEW s \in Seq(Call), NEW c \in Call
  PROVE  /\ Append(s, c) \in Seq(Call)
         /\ Len(Append(s, c)) = Len(s) + 1
         /\ DOMAIN Append(s, c) = DOMAIN s \cup {Len(s) + 1}
         /\ \A i \in DOMAIN s : Append(s, c)[i] = s[i]
         /\ Append(s, c)[Len(s) + 1] = c
         /\ Len(s) + 1 \notin DOMAIN s
BY AppendProperties, LenProperties

LEMMA PoppedPath ==
  ASSUME path \in Seq(Call), path # <<>>
  PROVE  LET p == SubSeq(path, 1, Len(path) - 1)
         IN  /\ p \in Seq(Call)
             /\ DOMAIN p = 1 .. Len(path) - 1
             /\ Len(p) = Len(path) - 1
             /\ \A i \in DOMAIN p : p[i] = path[i]
<1>1. Len(path) \in Nat \ {0}
  BY PathIndices, LenProperties, EmptySeq
<1> DEFINE p == SubSeq(path, 1, Len(path) - 1)
<1>2. /\ p \in Seq(Call)
      /\ Len(p) = Len(path) - 1
      /\ \A i \in 1 .. Len(p) : p[i] = path[i]
  <2>1. \A i \in 1 .. Len(path) - 1 : path[i] \in Call
    BY <1>1, PathIndices
  <2>2. PICK m \in Int : m = Len(path) - 1 /\ m >= 0
    BY <1>1
  <2>3. /\ SubSeq(path, 1, m) \in Seq(Call)
        /\ Len(SubSeq(path, 1, m)) = IF 1 <= m THEN m - 1 + 1 ELSE 0
        /\ \A i \in 1 .. m - 1 + 1 : SubSeq(path, 1, m)[i] = path[1 + i - 1]
    BY <2>1, <2>2, SubSeqProperties
  <2>4. p = SubSeq(path, 1, m)
    BY <2>2
  <2> HIDE DEF p
  <2> QED BY <1>1, <2>2, <2>3, <2>4
<1>3. DOMAIN p = 1 .. Len(path) - 1
  BY <1>1, <1>2, LenProperties
<1> QED BY <1>1, <1>2, <1>3

-----------------------------------------------------------------------------
(* Types                                                                   *)

LEMMA NodeInField ==
  ASSUME OrderTypeOK
  PROVE  /\ graph \in [Field -> SUBSET Field]
         /\ path \in Seq(Call)
         /\ \A n \in Field : IsFiniteSet(graph[n]) /\ Begin(n) \in Call
         /\ \A S \in SUBSET Field : IsFiniteSet(S)
<1>1. graph \in [Field -> SUBSET Field] /\ path \in Seq(Call)
  BY Graphs DEF OrderTypeOK, Call
<1>2. \A S \in SUBSET Field : IsFiniteSet(S)
  BY FS_Subset, FieldAssumption
<1> QED BY <1>1, <1>2 DEF Begin, Call

(* In-degrees only go down to zero while the sort is right about them.     *)
DegreesOK ==
  phase = "sort" => \A n \in Field : inDegree[n] = Cardinality(graph[n] \ Sorted)

(* The order so far: each field once, after its dependencies; what waits   *)
(* in the queue are the fields all of whose dependencies are in it.        *)
SortedOK ==
  /\ \A i, j \in DOMAIN result : result[i] = result[j] => i = j
  /\ \A i \in DOMAIN result : \A n \in graph[result[i]] : \E j \in 1 .. (i - 1) : result[j] = n
  /\ Len(result) = Cardinality(Sorted)
  /\ phase \in {"search", "circular"} => result = <<>>
  /\ phase = "sort" => queue = {n \in Field \ Sorted : graph[n] \subseteq Sorted}
  /\ phase = "resolved" => Sorted = Field
  /\ phase # "unresolved"

(* The calls of dfs in progress: their fields are gray, all of them, and   *)
(* different; each field is a dependency of the one before; what a call    *)
(* has passed over is black, but for the call it is waiting for.           *)
PathOK ==
  /\ \A i \in DOMAIN path :
       color[path[i].node] = "gray" /\ path[i].rest \subseteq graph[path[i].node]
  /\ \A i, j \in DOMAIN path : path[i].node = path[j].node => i = j
  /\ \A i \in DOMAIN path : i + 1 \in DOMAIN path => path[i + 1].node \in graph[path[i].node]
  /\ \A i \in DOMAIN path : \A m \in graph[path[i].node] \ path[i].rest :
       color[m] = "black" \/ (i + 1 \in DOMAIN path /\ path[i + 1].node = m)

GraysOK == \A n \in Field : color[n] = "gray" => \E i \in DOMAIN path : path[i].node = n

(* Black fields depend on black fields only, and there is no cycle there.  *)
BlackOK ==
  /\ \A n \in Field : color[n] = "black" => \A m \in graph[n] : color[m] = "black"
  /\ \A S \in SUBSET Field :
       S # {} /\ (\A n \in S : color[n] = "black") => \E n \in S : graph[n] \cap S = {}

VerdictOK ==
  /\ phase = "circular" => Circular
  /\ phase \in {"sort", "resolved", "unresolved"} => \A n \in Field : color[n] = "black"

IInv == OrderTypeOK /\ DegreesOK /\ SortedOK /\ PathOK /\ GraysOK /\ BlackOK /\ VerdictOK

-----------------------------------------------------------------------------
(* What the steps share                                                    *)

(* Without a change of the black fields, what is known of them stays.      *)
LEMMA SameBlack ==
  ASSUME BlackOK, graph' = graph,
         \A m \in Field : color'[m] = "black" <=> color[m] = "black",
         graph \in [Field -> SUBSET Field]
  PROVE  BlackOK'
BY DEF BlackOK

(* The search leaves the sort alone.                                       *)
LEMMA SearchSortsNothing ==
  ASSUME SortedOK, UNCHANGED <<graph, queue, result>>,
         phase = "search", phase' \in {"search", "circular"}
  PROVE  SortedOK' /\ DegreesOK'
BY DEF SortedOK, DegreesOK, Sorted

LEMMA SortedMembers ==
  ASSUME OrderTypeOK
  PROVE  /\ DOMAIN result = 1 .. Len(result)
         /\ Len(result) \in Nat
         /\ Sorted \subseteq Field
         /\ IsFiniteSet(Sorted)
<1>1. DOMAIN result = 1 .. Len(result) /\ Len(result) \in Nat
  BY LenProperties DEF OrderTypeOK
<1>2. \A i \in DOMAIN result : result[i] \in Field
  BY <1>1, ElementOfSeq DEF OrderTypeOK
<1>3. Sorted \subseteq Field
  BY <1>2 DEF Sorted
<1> QED BY <1>1, <1>3, FS_Subset, FieldAssumption

-----------------------------------------------------------------------------
(* The inductive invariant                                                 *)

LEMMA InitOK == OrderInit => IInv
<1> SUFFICES ASSUME OrderInit PROVE IInv
  OBVIOUS
<1>1. OrderTypeOK
  BY DEF OrderInit, OrderTypeOK
<1>2. Sorted = {}
  BY DEF OrderInit, Sorted
<1>3. SortedOK
  BY <1>2, FS_EmptySet DEF OrderInit, SortedOK
<1> QED BY <1>1, <1>3 DEF IInv, OrderInit, DegreesOK, PathOK, GraysOK, BlackOK, VerdictOK

LEMMA StartSearchStep ==
  ASSUME IInv, NEW n \in Field, StartSearch(n)
  PROVE  IInv'
<1> USE DEF IInv
<1>1. /\ path' \in Seq(Call) /\ Len(path') = 1 /\ DOMAIN path' = {1}
      /\ path'[1] = Begin(n) /\ Begin(n) \in Call
  BY NodeInField DEF StartSearch
<1>2. OrderTypeOK'
  BY <1>1 DEF StartSearch, OrderTypeOK, Call
<1>3. \A m \in Field : color'[m] = IF m = n THEN "gray" ELSE color[m]
  BY DEF StartSearch, OrderTypeOK
<1>4. BlackOK'
  BY <1>3, SameBlack, NodeInField DEF StartSearch
<1>5. SortedOK' /\ DegreesOK'
  BY SearchSortsNothing DEF StartSearch
<1>6. PathOK'
  BY <1>1, <1>3 DEF PathOK, Begin, StartSearch
<1>7. GraysOK'
  BY <1>1, <1>3 DEF GraysOK, Begin, StartSearch
<1>8. VerdictOK'
  BY DEF VerdictOK, StartSearch
<1> QED BY <1>2, <1>4, <1>5, <1>6, <1>7, <1>8

(* A neighbour that is gray is one of the calls in progress: from it on,   *)
(* they are a cycle.                                                       *)
LEMMA GrayClosesCycle ==
  ASSUME IInv, path # <<>>, NEW n \in Field, n \in Top.rest, color[n] = "gray"
  PROVE  Circular
<1> USE DEF IInv
<1>1. path \in Seq(Call) /\ graph \in [Field -> SUBSET Field]
  BY NodeInField
<1>2. /\ DOMAIN path = 1 .. Len(path) /\ Len(path) \in Nat /\ Len(path) \in DOMAIN path
      /\ \A i \in DOMAIN path : path[i].node \in Field
  BY <1>1, PathIndices DEF Call
<1>3. PICK j \in DOMAIN path : path[j].node = n
  BY DEF GraysOK
<1> DEFINE S == {path[i].node : i \in j .. Len(path)}
<1>4. S \in SUBSET Field /\ n \in S
  BY <1>2, <1>3
<1>5. ASSUME NEW i \in j .. Len(path)
      PROVE  graph[path[i].node] \cap S # {}
  <2>1. CASE i = Len(path)
    <3>1. n \in graph[path[i].node]
      BY <2>1, <1>2 DEF PathOK, Top
    <3> QED BY <3>1, <1>4
  <2>2. CASE i # Len(path)
    <3>0. j \in 1 .. Len(path)
      BY <1>2
    <3>1. i \in 1 .. Len(path) /\ i + 1 \in 1 .. Len(path) /\ i + 1 \in j .. Len(path)
      <4>1. \A a, b, c \in Nat :
              c \in a .. b /\ 1 <= a /\ c # b => c \in 1 .. b /\ c + 1 \in 1 .. b /\ c + 1 \in a .. b
        OBVIOUS
      <4>2. j \in Nat /\ 1 <= j /\ Len(path) \in Nat
        BY <3>0, <1>2
      <4>3. i \in Nat
        BY <4>2
      <4> QED BY <4>1, <4>2, <4>3, <2>2
    <3>2. path[i + 1].node \in graph[path[i].node] /\ path[i + 1].node \in S
      BY <3>1, <1>2 DEF PathOK
    <3> QED BY <3>2
  <2> QED BY <2>1, <2>2
<1>6. \A m \in S : graph[m] \cap S # {}
  BY <1>5
<1> QED BY <1>4, <1>6 DEF Circular

LEMMA FollowStep ==
  ASSUME IInv, NEW n \in Field, Follow(n)
  PROVE  IInv'
<1> USE DEF IInv
<1>1. /\ path \in Seq(Call) /\ path # <<>>
      /\ graph \in [Field -> SUBSET Field]
      /\ Begin(n) \in Call
      /\ phase = "search" /\ n \in Top.rest
      /\ UNCHANGED <<graph, inDegree, queue, result>>
  BY NodeInField DEF Follow
<1>2. /\ DOMAIN path = 1 .. Len(path) /\ Len(path) \in Nat /\ Len(path) \in DOMAIN path
      /\ \A i \in DOMAIN path : path[i] \in Call
  BY <1>1, PathIndices
<1>3. n \in path[Len(path)].rest /\ n \in graph[path[Len(path)].node]
  BY <1>1, <1>2 DEF PathOK, Top
<1>4. phase' \in {"search", "circular"}
  BY <1>1 DEF Follow
<1>5. SortedOK' /\ DegreesOK'
  BY <1>1, <1>4, SearchSortsNothing
<1>6. /\ Skipped(n) \in Seq(Call) /\ Len(Skipped(n)) = Len(path)
      /\ DOMAIN Skipped(n) = DOMAIN path
      /\ \A i \in DOMAIN path :
           /\ Skipped(n)[i].node = path[i].node
           /\ Skipped(n)[i].rest = IF i = Len(path) THEN path[i].rest \ {n} ELSE path[i].rest
  BY <1>1, SkippedPath
<1>7. CASE color[n] = "gray" /\ phase' = "circular" /\ UNCHANGED <<color, path>>
  <2>1. Circular'
    BY <1>7, <1>1, GrayClosesCycle DEF Circular
  <2>2. OrderTypeOK'
    BY <1>7, <1>1 DEF OrderTypeOK
  <2>3. PathOK' /\ GraysOK'
    BY <1>7, <1>1 DEF PathOK, GraysOK
  <2>4. BlackOK'
    BY <1>7, <1>1, SameBlack
  <2> QED BY <2>1, <2>2, <2>3, <2>4, <1>5, <1>7 DEF VerdictOK
<1>8. CASE color[n] = "black" /\ path' = Skipped(n) /\ UNCHANGED <<color, phase>>
  <2>1. OrderTypeOK' /\ BlackOK' /\ VerdictOK'
    BY <1>8, <1>1, <1>6 DEF OrderTypeOK, BlackOK, VerdictOK, Call
  <2>2. GraysOK'
    BY <1>8, <1>6 DEF GraysOK
  <2>3. PathOK'
    <3>1. \A i \in DOMAIN path' :
            color'[path'[i].node] = "gray" /\ path'[i].rest \subseteq graph'[path'[i].node]
      <4>1. SUFFICES ASSUME NEW i \in DOMAIN path
                     PROVE  color[path'[i].node] = "gray" /\ path'[i].rest \subseteq graph[path'[i].node]
        BY <1>8, <1>6, <1>1
      <4>2. path'[i].node = path[i].node /\ path'[i].rest \subseteq path[i].rest
        BY <1>8, <1>6
      <4>3. path[i].rest \subseteq graph[path[i].node] /\ color[path[i].node] = "gray"
        BY DEF PathOK
      <4> QED BY <4>2, <4>3
    <3>2. \A i, j \in DOMAIN path' : path'[i].node = path'[j].node => i = j
      BY <1>8, <1>6 DEF PathOK
    <3>3. \A i \in DOMAIN path' :
            i + 1 \in DOMAIN path' => path'[i + 1].node \in graph'[path'[i].node]
      BY <1>8, <1>6, <1>1 DEF PathOK
    <3>4. ASSUME NEW i \in DOMAIN path', NEW m \in graph'[path'[i].node] \ path'[i].rest
          PROVE  color'[m] = "black" \/ (i + 1 \in DOMAIN path' /\ path'[i + 1].node = m)
      <4>1. i \in DOMAIN path /\ path'[i].node = path[i].node /\ m \in graph[path[i].node]
        BY <1>8, <1>6, <1>1
      <4>2. m = n \/ m \in graph[path[i].node] \ path[i].rest
        BY <4>1, <1>8, <1>6, <1>1
      <4>3. CASE m = n
        BY <4>3, <1>8
      <4>4. CASE m \in graph[path[i].node] \ path[i].rest
        <5>1. color[m] = "black" \/ (i + 1 \in DOMAIN path /\ path[i + 1].node = m)
          BY <4>1, <4>4 DEF PathOK
        <5> QED BY <5>1, <1>8, <1>6
      <4> QED BY <4>2, <4>3, <4>4
    <3> QED BY <3>1, <3>2, <3>3, <3>4 DEF PathOK
  <2> QED BY <2>1, <2>2, <2>3, <1>5
<1>9. CASE /\ color[n] = "white"
           /\ color' = [color EXCEPT ![n] = "gray"]
           /\ path' = Append(Skipped(n), Begin(n))
           /\ UNCHANGED phase
  <2> DEFINE L == Len(path)
  <2>0. /\ path' = Append(Skipped(n), Begin(n)) /\ L \in Nat /\ L \in DOMAIN path
        /\ Begin(n).node = n /\ Begin(n).rest = graph[n]
    BY <1>9, <1>2 DEF Begin
  <2>1. /\ path' \in Seq(Call) /\ Len(path') = L + 1 /\ L + 1 \notin DOMAIN path
        /\ DOMAIN path' = DOMAIN path \cup {L + 1}
        /\ path'[L + 1] = Begin(n)
        /\ \A i \in DOMAIN path : path'[i] = Skipped(n)[i]
    BY <1>9, <1>1, <1>6, PushedPath
  <2>2. /\ path'[L + 1].node = n /\ path'[L + 1].rest = graph[n]
        /\ \A i \in DOMAIN path :
             /\ path'[i].node = path[i].node
             /\ path'[i].rest = IF i = L THEN path[i].rest \ {n} ELSE path[i].rest
    BY <2>1, <2>0, <1>6
  <2>3. \A m \in Field : color'[m] = IF m = n THEN "gray" ELSE color[m]
    BY <1>9 DEF OrderTypeOK
  <2>4. OrderTypeOK' /\ VerdictOK'
    BY <1>9, <1>1, <2>1 DEF OrderTypeOK, VerdictOK, Call
  <2>5. BlackOK'
    BY <1>9, <2>3, <1>1, SameBlack
  <2>6. GraysOK'
    <3>1. SUFFICES ASSUME NEW m \in Field, color'[m] = "gray"
                   PROVE  \E i \in DOMAIN path' : path'[i].node = m
      BY DEF GraysOK
    <3>2. CASE m = n
      BY <3>2, <2>1, <2>2
    <3>3. CASE m # n
      <4>1. PICK i \in DOMAIN path : path[i].node = m
        BY <3>1, <3>3, <2>3 DEF GraysOK
      <4> QED BY <4>1, <2>1, <2>2
    <3> QED BY <3>2, <3>3
  <2>7. \A i \in DOMAIN path :
          path[i].node \in Field /\ path[i].node # n /\ color'[path[i].node] = "gray"
    BY <1>9, <1>2, <2>3 DEF PathOK, Call
  <2>8. PathOK'
    <3>1. \A i \in DOMAIN path' :
            color'[path'[i].node] = "gray" /\ path'[i].rest \subseteq graph'[path'[i].node]
      <4>1. SUFFICES ASSUME NEW i \in DOMAIN path'
                     PROVE  color'[path'[i].node] = "gray" /\ path'[i].rest \subseteq graph'[path'[i].node]
        OBVIOUS
      <4>2. CASE i = L + 1
        BY <4>2, <2>2, <2>3, <1>1
      <4>3. CASE i \in DOMAIN path
        <5>1. path'[i].node = path[i].node /\ path'[i].rest \subseteq path[i].rest
          BY <4>3, <2>2
        <5>2. path[i].rest \subseteq graph[path[i].node] /\ color'[path[i].node] = "gray"
          BY <4>3, <2>7 DEF PathOK
        <5> QED BY <5>1, <5>2, <1>1
      <4> QED BY <4>2, <4>3, <2>1
    <3>2. \A i, j \in DOMAIN path' : path'[i].node = path'[j].node => i = j
      BY <2>1, <2>2, <2>7 DEF PathOK
    <3>3. \A i \in DOMAIN path' :
            i + 1 \in DOMAIN path' => path'[i + 1].node \in graph'[path'[i].node]
      <4>1. SUFFICES ASSUME NEW i \in DOMAIN path', i + 1 \in DOMAIN path'
                     PROVE  path'[i + 1].node \in graph[path'[i].node]
        BY <1>1
      <4>2. CASE i = L
        BY <4>2, <2>0, <2>2, <1>3
      <4>3. CASE i # L
        <5>1. i \in DOMAIN path /\ i + 1 \in DOMAIN path
          BY <4>1, <4>3, <2>0, <2>1, <1>2
        <5> QED BY <5>1, <2>2 DEF PathOK
      <4> QED BY <4>2, <4>3
    <3>4. ASSUME NEW i \in DOMAIN path', NEW m \in graph'[path'[i].node] \ path'[i].rest
          PROVE  color'[m] = "black" \/ (i + 1 \in DOMAIN path' /\ path'[i + 1].node = m)
      <4>1. CASE i = L + 1
        BY <4>1, <2>2, <1>1
      <4>2. CASE i \in DOMAIN path /\ m = n /\ i = L
        BY <4>2, <2>1, <2>2
      <4>3. CASE i \in DOMAIN path /\ ~(m = n /\ i = L)
        <5>1. m \in graph[path[i].node] \ path[i].rest /\ m \in Field
          BY <4>3, <2>2, <1>1, <2>7
        <5>2. color[m] = "black" \/ (i + 1 \in DOMAIN path /\ path[i + 1].node = m)
          BY <5>1, <4>3 DEF PathOK
        <5> QED BY <5>1, <5>2, <2>1, <2>2, <2>3, <1>9
      <4> QED BY <4>1, <4>2, <4>3, <2>1
    <3> QED BY <3>1, <3>2, <3>3, <3>4 DEF PathOK
  <2> QED BY <2>4, <2>5, <2>6, <2>8, <1>5
<1> QED BY <1>7, <1>8, <1>9 DEF Follow

LEMMA FinishFieldStep ==
  ASSUME IInv, FinishField
  PROVE  IInv'
<1> USE DEF IInv
<1> DEFINE L == Len(path)
           n == Top.node
<1>1. /\ path \in Seq(Call) /\ path # <<>>
      /\ graph \in [Field -> SUBSET Field] /\ color \in [Field -> {"white", "gray", "black"}]
      /\ phase = "search" /\ Top.rest = {}
      /\ UNCHANGED <<graph, phase, inDegree, queue, result>>
      /\ color' = [color EXCEPT ![n] = "black"]
      /\ path' = SubSeq(path, 1, L - 1)
  BY NodeInField DEF FinishField, OrderTypeOK
<1>2. /\ DOMAIN path = 1 .. L /\ L \in Nat /\ L \in DOMAIN path
      /\ \A i \in DOMAIN path : path[i] \in Call /\ path[i].node \in Field
  BY <1>1, PathIndices DEF Call
<1>3. n = path[L].node /\ path[L].rest = {} /\ n \in Field /\ color[n] = "gray"
  BY <1>1, <1>2 DEF Top, PathOK
<1> HIDE DEF n
<1>4. /\ path' \in Seq(Call) /\ DOMAIN path' = 1 .. L - 1
      /\ \A i \in DOMAIN path' : path'[i] = path[i]
  BY <1>1, PoppedPath
<1>5. \A i \in DOMAIN path' : i \in DOMAIN path /\ i # L /\ i + 1 \in DOMAIN path
  BY <1>2, <1>4
<1>6. \A i \in DOMAIN path : i # L => i \in DOMAIN path'
  BY <1>2, <1>4
<1>7. \A m \in Field : color'[m] = IF m = n THEN "black" ELSE color[m]
  BY <1>1, <1>3
<1>8. \A m \in graph[n] : m \in Field /\ color[m] = "black"
  <2>1. L + 1 \notin DOMAIN path
    BY <1>2
  <2> QED BY <2>1, <1>1, <1>2, <1>3 DEF PathOK
<1>9. OrderTypeOK' /\ VerdictOK'
  BY <1>1, <1>4, <1>7 DEF OrderTypeOK, VerdictOK, Call
<1>10. SortedOK' /\ DegreesOK'
  BY <1>1, SearchSortsNothing
<1>11. GraysOK'
  <2>1. SUFFICES ASSUME NEW m \in Field, color'[m] = "gray"
                 PROVE  \E i \in DOMAIN path' : path'[i].node = m
    BY DEF GraysOK
  <2>2. m # n /\ color[m] = "gray"
    BY <2>1, <1>7
  <2>3. PICK i \in DOMAIN path : path[i].node = m
    BY <2>2 DEF GraysOK
  <2> QED BY <2>2, <2>3, <1>3, <1>4, <1>6
<1>12. PathOK'
  <2>1. \A i \in DOMAIN path' : path[i].node # n /\ path[i].node \in Field
    BY <1>2, <1>3, <1>5 DEF PathOK
  <2>2. \A i \in DOMAIN path' :
          color'[path'[i].node] = "gray" /\ path'[i].rest \subseteq graph'[path'[i].node]
    BY <2>1, <1>1, <1>4, <1>5, <1>7 DEF PathOK
  <2>3. \A i, j \in DOMAIN path' : path'[i].node = path'[j].node => i = j
    BY <1>4, <1>5 DEF PathOK
  <2>4. \A i \in DOMAIN path' :
          i + 1 \in DOMAIN path' => path'[i + 1].node \in graph'[path'[i].node]
    BY <1>1, <1>4, <1>5 DEF PathOK
  <2>5. ASSUME NEW i \in DOMAIN path', NEW m \in graph'[path'[i].node] \ path'[i].rest
        PROVE  color'[m] = "black" \/ (i + 1 \in DOMAIN path' /\ path'[i + 1].node = m)
    <3>1. i \in DOMAIN path /\ m \in graph[path[i].node] \ path[i].rest /\ m \in Field
      BY <1>1, <1>2, <1>4, <1>5
    <3>2. color[m] = "black" \/ (i + 1 \in DOMAIN path /\ path[i + 1].node = m)
      BY <3>1 DEF PathOK
    <3>3. CASE color[m] = "black"
      BY <3>3, <3>1, <1>7
    <3>4. CASE i + 1 \in DOMAIN path /\ path[i + 1].node = m
      <4>1. CASE i + 1 = L
        BY <4>1, <3>1, <3>4, <1>3, <1>7
      <4>2. CASE i + 1 # L
        BY <4>2, <3>4, <1>4, <1>6
      <4> QED BY <4>1, <4>2
    <3> QED BY <3>2, <3>3, <3>4
  <2> QED BY <2>2, <2>3, <2>4, <2>5 DEF PathOK
<1>13. BlackOK'
  <2>1. \A k \in Field : color'[k] = "black" => \A m \in graph'[k] : color'[m] = "black"
    <3>1. SUFFICES ASSUME NEW k \in Field, color'[k] = "black", NEW m \in graph[k]
                   PROVE  color'[m] = "black"
      BY <1>1
    <3>2. m \in Field
      BY <1>1
    <3> QED BY <3>1, <3>2, <1>7, <1>8 DEF BlackOK
  <2>2. ASSUME NEW S \in SUBSET Field, S # {}, \A k \in S : color'[k] = "black"
        PROVE  \E k \in S : graph'[k] \cap S = {}
    <3> DEFINE T == S \ {n}
    <3>1. \A k \in T : color[k] = "black"
      BY <2>2, <1>7
    <3>2. CASE T = {}
      <4>1. S = {n}
        BY <3>2, <2>2
      <4>2. graph[n] \cap S = {}
        BY <4>1, <1>3, <1>8
      <4> QED BY <4>1, <4>2, <1>1
    <3>3. CASE T # {}
      <4>1. PICK k \in T : graph[k] \cap T = {}
        BY <3>1, <3>3 DEF BlackOK
      <4>2. n \notin graph[k]
        BY <3>1, <1>3 DEF BlackOK
      <4> QED BY <4>1, <4>2, <1>1
    <3> QED BY <3>2, <3>3
  <2> QED BY <2>1, <2>2 DEF BlackOK
<1> QED BY <1>9, <1>10, <1>11, <1>12, <1>13

LEMMA BeginSortStep ==
  ASSUME IInv, BeginSort
  PROVE  IInv'
<1> USE DEF IInv
<1>1. /\ phase = "search" /\ phase' = "sort" /\ UNCHANGED <<graph, color, path, result>>
      /\ inDegree' = [m \in Field |-> Cardinality(graph[m])]
      /\ queue' = {m \in Field : graph[m] = {}}
      /\ \A m \in Field : color[m] = "black"
  BY DEF BeginSort
<1>2. result = <<>> /\ Sorted = {} /\ Sorted' = {}
  BY <1>1 DEF SortedOK, Sorted
<1>3. \A m \in Field : Cardinality(graph[m]) \in Nat /\ graph[m] \ {} = graph[m]
  BY NodeInField, FS_CardinalityType
<1>4. OrderTypeOK'
  BY <1>1, <1>3 DEF OrderTypeOK
<1>5. DegreesOK'
  BY <1>1, <1>2, <1>3 DEF DegreesOK
<1>6. SortedOK'
  BY <1>1, <1>2, FS_EmptySet DEF SortedOK
<1>7. PathOK' /\ GraysOK' /\ BlackOK' /\ VerdictOK'
  <2>1. PathOK' /\ GraysOK'
    BY <1>1 DEF PathOK, GraysOK
  <2> QED BY <2>1, <1>1, SameBlack, NodeInField DEF VerdictOK
<1> QED BY <1>4, <1>5, <1>6, <1>7

LEMMA TakeFieldStep ==
  ASSUME IInv, NEW n \in Field, TakeField(n)
  PROVE  IInv'
<1> USE DEF IInv
<1> DEFINE L == Len(result)
<1>1. /\ phase = "sort" /\ n \in queue /\ UNCHANGED <<graph, phase, color, path>>
      /\ result' = Append(result, n)
      /\ inDegree' = [m \in Field |-> IF n \in graph[m] THEN inDegree[m] - 1 ELSE inDegree[m]]
      /\ queue' = (queue \ {n}) \cup {m \in Field : n \in graph[m] /\ inDegree'[m] = 0}
  BY DEF TakeField
<1>2. n \notin Sorted /\ graph[n] \subseteq Sorted
  BY <1>1 DEF SortedOK
<1>3. /\ DOMAIN result = 1 .. L /\ L \in Nat /\ IsFiniteSet(Sorted) /\ Sorted \subseteq Field
      /\ L = Cardinality(Sorted)
  BY SortedMembers DEF SortedOK
<1>4. /\ result' \in Seq(Field) /\ DOMAIN result' = DOMAIN result \cup {L + 1}
      /\ Len(result') = L + 1 /\ L + 1 \notin DOMAIN result
      /\ result'[L + 1] = n /\ \A i \in DOMAIN result : result'[i] = result[i]
  BY <1>1, <1>3, AppendProperties, LenProperties DEF OrderTypeOK
<1>5. Sorted' = Sorted \cup {n}
  BY <1>4 DEF Sorted
<1>6. \A m \in Field : /\ inDegree'[m] = Cardinality(graph[m] \ Sorted')
                       /\ inDegree'[m] \in Nat
                       /\ IsFiniteSet(graph[m] \ Sorted')
  <2>1. SUFFICES ASSUME NEW m \in Field
                 PROVE  inDegree'[m] = Cardinality(graph[m] \ Sorted') /\ inDegree'[m] \in Nat
                        /\ IsFiniteSet(graph[m] \ Sorted')
    OBVIOUS
  <2>2. inDegree[m] = Cardinality(graph[m] \ Sorted) /\ inDegree[m] \in Nat
    BY <1>1 DEF DegreesOK, OrderTypeOK
  <2>3. graph[m] \subseteq Field /\ IsFiniteSet(graph[m] \ Sorted) /\ IsFiniteSet(graph[m] \ Sorted')
    BY NodeInField, FS_Subset
  <2>4. CASE n \in graph[m]
    <3>1. graph[m] \ Sorted' = (graph[m] \ Sorted) \ {n} /\ n \in graph[m] \ Sorted
      BY <2>4, <1>2, <1>5
    <3>2. Cardinality(graph[m] \ Sorted') = Cardinality(graph[m] \ Sorted) - 1
      BY <3>1, <2>3, FS_RemoveElement
    <3> QED BY <3>2, <2>2, <2>3, <2>4, <1>1, FS_CardinalityType
  <2>5. CASE n \notin graph[m]
    <3>1. graph[m] \ Sorted' = graph[m] \ Sorted
      BY <2>5, <1>5
    <3> QED BY <3>1, <2>2, <2>3, <2>5, <1>1
  <2> QED BY <2>4, <2>5
<1>7. queue' = {m \in Field \ Sorted' : graph[m] \subseteq Sorted'}
  <2>1. \A m \in Field : inDegree'[m] = 0 <=> graph[m] \subseteq Sorted'
    <3>1. SUFFICES ASSUME NEW m \in Field
                   PROVE  inDegree'[m] = 0 <=> graph[m] \ Sorted' = {}
      OBVIOUS
    <3> QED BY <1>6, FS_EmptySet
  <2>2. queue = {m \in Field \ Sorted : graph[m] \subseteq Sorted}
    BY <1>1 DEF SortedOK
  <2>3. ASSUME NEW m \in queue' PROVE m \in Field \ Sorted' /\ graph[m] \subseteq Sorted'
    <3>1. CASE m \in queue \ {n}
      BY <3>1, <2>2, <1>5
    <3>2. CASE m \in Field /\ n \in graph[m] /\ inDegree'[m] = 0
      <4>1. graph[m] \subseteq Sorted'
        BY <3>2, <2>1
      <4>2. m # n
        BY <3>2, <1>2
      <4>3. m \notin Sorted
        <5>1. SUFFICES ASSUME m \in Sorted PROVE FALSE
          OBVIOUS
        <5>2. PICK i \in DOMAIN result : result[i] = m
          BY <5>1 DEF Sorted
        <5>3. PICK j \in 1 .. (i - 1) : result[j] = n
          BY <5>2, <3>2 DEF SortedOK
        <5>4. j \in DOMAIN result
          BY <1>3
        <5> QED BY <5>3, <5>4, <1>2 DEF Sorted
      <4> QED BY <4>1, <4>2, <4>3, <3>2, <1>5
    <3> QED BY <3>1, <3>2, <1>1
  <2>4. ASSUME NEW m \in Field \ Sorted', graph[m] \subseteq Sorted' PROVE m \in queue'
    <3>1. CASE n \in graph[m]
      BY <3>1, <2>4, <2>1, <1>1
    <3>2. CASE n \notin graph[m]
      BY <3>2, <2>4, <2>2, <1>1, <1>5
    <3> QED BY <3>1, <3>2
  <2> QED BY <2>3, <2>4
<1>8. SortedOK'
  <2>1. \A i, j \in DOMAIN result' : result'[i] = result'[j] => i = j
    <3>1. \A i \in DOMAIN result : result[i] # n
      BY <1>2 DEF Sorted
    <3> QED BY <3>1, <1>4 DEF SortedOK
  <2>2. ASSUME NEW i \in DOMAIN result', NEW m \in graph'[result'[i]]
        PROVE  \E j \in 1 .. (i - 1) : result'[j] = m
    <3>1. CASE i = L + 1
      <4>1. m \in Sorted
        BY <3>1, <1>1, <1>2, <1>4
      <4>2. PICK j \in DOMAIN result : result[j] = m
        BY <4>1 DEF Sorted
      <4>3. j \in 1 .. (i - 1)
        BY <4>2, <3>1, <1>3
      <4> QED BY <4>2, <4>3, <1>4
    <3>2. CASE i \in DOMAIN result
      <4>1. PICK j \in 1 .. (i - 1) : result[j] = m
        BY <3>2, <1>1, <1>4 DEF SortedOK
      <4>2. j \in DOMAIN result
        BY <4>1, <3>2, <1>3
      <4> QED BY <4>1, <4>2, <1>4
    <3> QED BY <3>1, <3>2, <1>4
  <2>3. Len(result') = Cardinality(Sorted')
    <3>1. Cardinality(Sorted') = Cardinality(Sorted) + 1
      BY <1>2, <1>3, <1>5, FS_AddElement
    <3> QED BY <3>1, <1>3, <1>4
  <2> QED BY <2>1, <2>2, <2>3, <1>7, <1>1 DEF SortedOK
<1>9. OrderTypeOK'
  <2>1. inDegree' \in [Field -> Nat]
    BY <1>1, <1>6
  <2>2. queue' \subseteq Field
    BY <1>7
  <2> QED BY <2>1, <2>2, <1>1, <1>4 DEF OrderTypeOK
<1>10. DegreesOK'
  BY <1>1, <1>6 DEF DegreesOK
<1>11. PathOK' /\ GraysOK' /\ BlackOK' /\ VerdictOK'
  <2>1. PathOK' /\ GraysOK'
    BY <1>1 DEF PathOK, GraysOK
  <2> QED BY <2>1, <1>1, SameBlack, NodeInField DEF VerdictOK
<1> QED BY <1>8, <1>9, <1>10, <1>11

(* Were fields left, they would be black, and one of them would depend on  *)
(* none of them: it would be in the queue.                                 *)
LEMMA EndSortStep ==
  ASSUME IInv, EndSort
  PROVE  IInv'
<1> USE DEF IInv
<1>1. /\ phase = "sort" /\ queue = {}
      /\ phase' = IF Len(result) = Cardinality(Field) THEN "resolved" ELSE "unresolved"
      /\ UNCHANGED <<graph, color, path, inDegree, queue, result>>
  BY DEF EndSort
<1> DEFINE S == Field \ Sorted
<1>2. Sorted \subseteq Field
  BY SortedMembers
<1>3. S = {}
  <2>1. SUFFICES ASSUME S # {} PROVE FALSE
    OBVIOUS
  <2>2. \A m \in S : color[m] = "black"
    BY <1>1 DEF VerdictOK
  <2>3. PICK m \in S : graph[m] \cap S = {}
    BY <2>1, <2>2 DEF BlackOK
  <2>4. graph[m] \subseteq Sorted
    BY <2>3, NodeInField
  <2> QED BY <2>3, <2>4, <1>1 DEF SortedOK
<1>4. Sorted = Field /\ Sorted' = Sorted
  BY <1>1, <1>2, <1>3 DEF Sorted
<1>5. phase' = "resolved"
  BY <1>1, <1>4 DEF SortedOK
<1>6. SortedOK'
  BY <1>1, <1>4, <1>5 DEF SortedOK
<1>7. OrderTypeOK' /\ DegreesOK' /\ PathOK' /\ GraysOK' /\ VerdictOK'
  BY <1>1, <1>5 DEF OrderTypeOK, DegreesOK, PathOK, GraysOK, VerdictOK
<1>8. BlackOK'
  BY <1>1, SameBlack, NodeInField
<1> QED BY <1>6, <1>7, <1>8

LEMMA StepOK == IInv /\ [OrderNext]_orderVars => IInv'
<1> SUFFICES ASSUME IInv, [OrderNext]_orderVars PROVE IInv'
  OBVIOUS
<1>1. CASE FinishField
  BY <1>1, FinishFieldStep
<1>2. CASE BeginSort
  BY <1>2, BeginSortStep
<1>3. CASE EndSort
  BY <1>3, EndSortStep
<1>4. ASSUME NEW n \in Field, StartSearch(n) \/ Follow(n) \/ TakeField(n) PROVE IInv'
  BY <1>4, StartSearchStep, FollowStep, TakeFieldStep
<1>5. CASE UNCHANGED orderVars
  <2>1. UNCHANGED <<graph, phase, color, path, inDegree, queue, result>>
    BY <1>5 DEF orderVars
  <2>2. OrderTypeOK' /\ VerdictOK'
    BY <2>1 DEF IInv, OrderTypeOK, VerdictOK, Circular
  <2>3. DegreesOK' /\ SortedOK'
    BY <2>1 DEF IInv, DegreesOK, SortedOK, Sorted
  <2>4. PathOK' /\ GraysOK'
    BY <2>1 DEF IInv, PathOK, GraysOK
  <2>5. BlackOK'
    BY <2>1, SameBlack, NodeInField DEF IInv
  <2> QED BY <2>2, <2>3, <2>4, <2>5 DEF IInv
<1> QED BY <1>1, <1>2, <1>3, <1>4, <1>5 DEF OrderNext

LEMMA Invariant == OrderSpec => []IInv
BY InitOK, StepOK, PTL DEF OrderSpec

-----------------------------------------------------------------------------
(* The state of the resolver has the form that DependencyResolver gives it.*)
THEOREM TypeCorrect == OrderSpec => []OrderTypeOK
<1>1. IInv => OrderTypeOK
  BY DEF IInv
<1> QED BY Invariant, <1>1, PTL

(* The order that _topological_sort returns has every field once, each     *)
(* after all that it depends on.                                           *)
THEOREM OrderCorrect == OrderSpec => []InOrder
<1>1. IInv => InOrder
  BY DEF IInv, SortedOK, InOrder
<1> QED BY Invariant, <1>1, PTL

(* resolve refuses a schema as circular if it is, and only then: the sort  *)
(* never finds that fields are left.                                       *)
THEOREM CyclesCorrect == OrderSpec => []CyclesFound
<1>1. ASSUME IInv PROVE CyclesFound
  <2>1. phase \in {"sort", "resolved"} => ~Circular
    <3>1. SUFFICES ASSUME phase \in {"sort", "resolved"}, Circular PROVE FALSE
      OBVIOUS
    <3>2. PICK S \in SUBSET Field : S # {} /\ \A n \in S : graph[n] \cap S # {}
      BY <3>1 DEF Circular
    <3>3. \A n \in S : color[n] = "black"
      BY <3>1, <1>1 DEF IInv, VerdictOK
    <3> QED BY <3>2, <3>3, <1>1 DEF IInv, BlackOK
  <2> QED BY <2>1, <1>1 DEF IInv, VerdictOK, SortedOK, CyclesFound
<1> QED BY Invariant, <1>1, PTL

(* For every graph of dependencies resolve answers with an order that      *)
(* respects it, or that it has a cycle, whichever is true.                 *)
THEOREM ResolveCorrect == OrderSpec => []OrderRight
<1>1. InOrder /\ CyclesFound => OrderRight
  BY DEF OrderRight
<1> QED BY OrderCorrect, CyclesCorrect, <1>1, PTL

-----------------------------------------------------------------------------
(***************************************************************************)
(* The evaluator: what is stored for an expression was stored by its own   *)
(* thread or by one that evaluates beside it.                              *)
(***************************************************************************)

Stages ==
  {<<"idle", 0>>, <<"scopes", 0>>, <<"nodes", 0>>}
    \cup ({"set"} \X (1..4)) \cup ({"delete"} \X (0..3))

(* The threads that may have stored what the expression of t finds.        *)
ScopesAround(t) == {t} \cup beside[t]

EvaluatorTypeOK ==
  /\ at \in [Thread -> Stages]
  /\ scopes \in [Thread -> BOOLEAN]
  /\ seen \in [Thread -> SUBSET (Thread \cup {Nobody})]
  /\ absent \in [Thread -> BOOLEAN]
  /\ beside \in [Thread -> SUBSET Thread]
  /\ context \in Thread \cup {Nobody} /\ scoped \in Thread \cup {Nobody}
  /\ globals \in [Global -> Thread \cup {Nobody}]

BesideEachOther ==
  \A t, u \in Thread : t # u /\ Evaluating(t) /\ Evaluating(u) => u \in beside[t]

ContextsAround ==
  \A t \in Thread :
    /\ at[t] \in {<<"scopes", 0>>, <<"nodes", 0>>} => context \in ScopesAround(t)
    /\ at[t] = <<"nodes", 0>> => scoped \in ScopesAround(t) \cup {Nobody}

GlobalsAround ==
  \A t \in Thread : \A i \in 1..4 : at[t] = <<"set", i>> =>
    \A j \in 1..i : \/ globals[Name[j]] \in ScopesAround(t)
                    \/ globals[Name[j]] = Nobody /\ beside[t] # {}

EvaluatorInv ==
  EvaluatorTypeOK /\ BesideEachOther /\ ContextsAround /\ GlobalsAround /\ NothingLeftBehind

LEMMA Names ==
  /\ DOMAIN Name = 1..4 /\ Len(Name) = 4
  /\ \A i \in 1..4 : Name[i] \in Global
  /\ \A n \in Global : \E i \in 1..4 : n = Name[i]
  /\ \A i, j \in 1..4 : Name[i] = Name[j] => i = j
<1>1. DOMAIN Name = 1..4 /\ Len(Name) = 4
  BY DEF Name
<1>2. \A i \in 1..4 : Name[i] \in Global
  BY <1>1 DEF Global
<1>3. \A n \in Global : \E i \in 1..4 : n = Name[i]
  BY <1>1 DEF Global
<1>4. Name[1] = "state" /\ Name[2] = "inputs" /\ Name[3] = "computed" /\ Name[4] = "loop"
  BY DEF Name
<1>5. \A i \in 1..4 : i \in {1, 2, 3, 4}
  OBVIOUS
<1>6. \A i, j \in 1..4 : Name[i] = Name[j] => i = j
  BY <1>4, <1>5
<1> QED BY <1>1, <1>2, <1>3, <1>6

LEMMA EvaluatorInitOK == EvaluatorInit => EvaluatorInv
<1> SUFFICES ASSUME EvaluatorInit PROVE EvaluatorInv
  OBVIOUS
<1>1. EvaluatorTypeOK
  BY DEF EvaluatorInit, EvaluatorTypeOK, Stages
<1>2. \A t \in Thread : at[t] = <<"idle", 0>> /\ ~Evaluating(t)
  BY DEF EvaluatorInit, Evaluating
<1>3. \A t \in Thread : at[t] # <<"scopes", 0>> /\ at[t] # <<"nodes", 0>> /\ \A i \in 1..4 : at[t] # <<"set", i>>
  BY <1>2
<1> QED BY <1>1, <1>2, <1>3 DEF EvaluatorInit, EvaluatorInv, BesideEachOther, ContextsAround,
             GlobalsAround, NothingLeftBehind

(* A thread that goes from one stage to another and begins nothing         *)
LEMMA MovesOn ==
  ASSUME EvaluatorTypeOK, BesideEachOther, NEW t \in Thread, NEW from, NEW to \in Stages,
         Moves(t, from, to), from[1] # "idle", UNCHANGED beside
  PROVE  /\ at' \in [Thread -> Stages] /\ BesideEachOther'
         /\ at'[t] = to /\ \A u \in Thread : u # t => at'[u] = at[u]
         /\ \A u \in Thread : u # t /\ Evaluating(u) => t \in beside'[u]
<1>1. at' \in [Thread -> Stages] /\ at[t] = from /\ Evaluating(t)
      /\ at'[t] = to /\ \A u \in Thread : u # t => at'[u] = at[u]
  BY DEF EvaluatorTypeOK, Moves, Evaluating
<1>2. \A u \in Thread : Evaluating(u)' => Evaluating(u)
  BY <1>1 DEF Evaluating
<1> QED BY <1>1, <1>2 DEF BesideEachOther

(* A thread that begins                                                    *)
LEMMA MovesIn ==
  ASSUME EvaluatorTypeOK, BesideEachOther, NothingLeftBehind,
         NEW t \in Thread, NEW to \in Stages,
         Moves(t, <<"idle", 0>>, to), Begins(t)
  PROVE  /\ at' \in [Thread -> Stages] /\ BesideEachOther'
         /\ at'[t] = to /\ \A u \in Thread : u # t => at'[u] = at[u]
         /\ \A u \in Thread : u # t /\ Evaluating(u) => t \in beside'[u]
         /\ \A u \in Thread : u # t => beside[u] \subseteq beside'[u]
         /\ seen' \in [Thread -> SUBSET (Thread \cup {Nobody})] /\ absent' \in [Thread -> BOOLEAN]
         /\ beside' \in [Thread -> SUBSET Thread]
         /\ NothingLeftBehind'
<1>1. /\ at' \in [Thread -> Stages] /\ at[t] = <<"idle", 0>> /\ ~Evaluating(t)
      /\ at'[t] = to /\ \A u \in Thread : u # t => at'[u] = at[u]
  BY DEF EvaluatorTypeOK, Moves, Evaluating
<1>2. /\ beside' \in [Thread -> SUBSET Thread]
      /\ beside'[t] = {v \in Thread : Evaluating(v)}
      /\ \A u \in Thread : u # t => beside'[u] = IF Evaluating(u) THEN beside[u] \cup {t} ELSE beside[u]
  BY DEF EvaluatorTypeOK, Begins
<1>3. /\ seen' \in [Thread -> SUBSET (Thread \cup {Nobody})] /\ absent' \in [Thread -> BOOLEAN]
      /\ seen'[t] = {} /\ absent'[t] = FALSE
      /\ \A u \in Thread : u # t => seen'[u] = seen[u] /\ absent'[u] = absent[u]
  BY DEF EvaluatorTypeOK, Begins
<1>4. \A u \in Thread : u # t => (Evaluating(u)' <=> Evaluating(u))
  BY <1>1 DEF Evaluating
<1>5. BesideEachOther'
  BY <1>2, <1>4 DEF BesideEachOther
<1>6. NothingLeftBehind'
  BY <1>2, <1>3 DEF NothingLeftBehind
<1> QED BY <1>1, <1>2, <1>3, <1>5, <1>6

LEMMA EvaluatorStep ==
  ASSUME EvaluatorInv, NEW t \in Thread,
         \/ StoreContext(t) \/ StoreScopes(t) \/ Look(t) \/ Return(t) \/ Run(t)
         \/ \E i \in DOMAIN Name : SetGlobal(t, i) \/ DeleteGlobal(t, i)
  PROVE  EvaluatorInv'
<1>0. /\ EvaluatorTypeOK /\ BesideEachOther /\ ContextsAround /\ GlobalsAround /\ NothingLeftBehind
      /\ \A u \in Thread : u # Nobody /\ beside[u] \subseteq Thread
  BY EvaluatorAssumption DEF EvaluatorInv, EvaluatorTypeOK
<1>1. CASE StoreContext(t)
  <2> DEFINE to == <<"scopes", 0>>
  <2>1. /\ Moves(t, <<"idle", 0>>, to) /\ context' = t /\ Begins(t)
        /\ scopes' \in [Thread -> BOOLEAN] /\ UNCHANGED <<scoped, globals>> /\ to \in Stages
    BY <1>0, <1>1 DEF StoreContext, EvaluatorTypeOK, Stages
  <2>2. /\ at' \in [Thread -> Stages] /\ BesideEachOther'
        /\ at'[t] = to /\ \A u \in Thread : u # t => at'[u] = at[u]
        /\ \A u \in Thread : u # t /\ Evaluating(u) => t \in beside'[u]
        /\ \A u \in Thread : u # t => beside[u] \subseteq beside'[u]
        /\ seen' \in [Thread -> SUBSET (Thread \cup {Nobody})] /\ absent' \in [Thread -> BOOLEAN]
        /\ beside' \in [Thread -> SUBSET Thread]
        /\ NothingLeftBehind'
    <3> HIDE DEF to
    <3> QED BY <1>0, <2>1, MovesIn
  <2>3. EvaluatorTypeOK'
    BY <1>0, <2>1, <2>2 DEF EvaluatorTypeOK
  <2>4. ContextsAround'
    <3>1. ASSUME NEW u \in Thread, u # t, at'[u] \in {<<"scopes", 0>>, <<"nodes", 0>>}
          PROVE  t \in beside'[u]
      BY <2>2, <3>1 DEF Evaluating
    <3>2. ASSUME NEW u \in Thread, u # t, at'[u] = <<"nodes", 0>>
          PROVE  scoped \in ScopesAround(u)' \cup {Nobody}
      BY <1>0, <2>2, <3>2 DEF ContextsAround, ScopesAround
    <3> QED BY <2>1, <2>2, <3>1, <3>2 DEF ContextsAround, ScopesAround
  <2>5. GlobalsAround'
    <3>1. SUFFICES ASSUME NEW u \in Thread, NEW i \in 1..4, at'[u] = <<"set", i>>, NEW j \in 1..i
                   PROVE  \/ globals'[Name[j]] \in ScopesAround(u)'
                          \/ globals'[Name[j]] = Nobody /\ beside'[u] # {}
      BY DEF GlobalsAround
    <3>2. u # t /\ at[u] = <<"set", i>>
      BY <2>2, <3>1
    <3>3. globals[Name[j]] \in ScopesAround(u) \/ (globals[Name[j]] = Nobody /\ beside[u] # {})
      BY <1>0, <3>2 DEF GlobalsAround
    <3> QED BY <2>1, <2>2, <3>2, <3>3 DEF ScopesAround
  <2> QED BY <2>2, <2>3, <2>4, <2>5 DEF EvaluatorInv
<1>2. CASE StoreScopes(t)
  <2> DEFINE from == <<"scopes", 0>>
             to == <<"nodes", 0>>
  <2>1. /\ Moves(t, from, to) /\ scoped' \in {t, Nobody} /\ at[t] = from
        /\ UNCHANGED <<context, globals, scopes, seen, absent, beside>>
        /\ to \in Stages /\ from[1] # "idle"
    BY <1>0, <1>2 DEF StoreScopes, EvaluatorTypeOK, Stages, Moves
  <2>2. /\ at' \in [Thread -> Stages] /\ BesideEachOther'
        /\ at'[t] = to /\ \A u \in Thread : u # t => at'[u] = at[u]
        /\ \A u \in Thread : u # t /\ Evaluating(u) => t \in beside'[u]
    <3> HIDE DEF from, to
    <3> QED BY <1>0, <2>1, MovesOn
  <2>3. EvaluatorTypeOK' /\ NothingLeftBehind'
    BY <1>0, <2>1, <2>2 DEF EvaluatorTypeOK, NothingLeftBehind
  <2>4. ContextsAround'
    <3>1. ASSUME NEW u \in Thread, u # t, at'[u] = <<"nodes", 0>>
          PROVE  t \in beside'[u]
      BY <2>2, <3>1 DEF Evaluating
    <3>2. ASSUME NEW u \in Thread, u # t, at'[u] \in {<<"scopes", 0>>, <<"nodes", 0>>}
          PROVE  context \in ScopesAround(u)'
      BY <1>0, <2>1, <2>2, <3>2 DEF ContextsAround, ScopesAround
    <3>3. context \in ScopesAround(t)' /\ scoped' \in ScopesAround(t)' \cup {Nobody}
      BY <1>0, <2>1 DEF ContextsAround, ScopesAround
    <3> QED BY <2>1, <3>1, <3>2, <3>3 DEF ContextsAround, ScopesAround
  <2>5. GlobalsAround'
    BY <1>0, <2>1, <2>2 DEF GlobalsAround, ScopesAround
  <2> QED BY <2>2, <2>3, <2>4, <2>5 DEF EvaluatorInv
<1>3. CASE Look(t)
  <2>1. PICK owner \in {context, IF scoped # Nobody THEN scoped ELSE context} :
          /\ at[t] = <<"nodes", 0>> /\ seen' = [seen EXCEPT ![t] = @ \cup {owner}]
          /\ UNCHANGED <<context, scoped, globals, at, scopes, absent, beside>>
    BY <1>3 DEF Look
  <2>2. owner \in ScopesAround(t) /\ owner \in Thread \cup {Nobody}
    BY <1>0, <2>1 DEF ContextsAround, EvaluatorTypeOK
  <2>3. EvaluatorTypeOK' /\ NothingLeftBehind'
    BY <1>0, <2>1, <2>2 DEF EvaluatorTypeOK, NothingLeftBehind, ScopesAround
  <2>4. BesideEachOther' /\ ContextsAround' /\ GlobalsAround'
    BY <1>0, <2>1 DEF BesideEachOther, ContextsAround, GlobalsAround, ScopesAround, Evaluating
  <2> QED BY <2>3, <2>4 DEF EvaluatorInv
<1>4. CASE Return(t)
  <2> DEFINE from == <<"nodes", 0>>
             to == <<"idle", 0>>
  <2>1. /\ Moves(t, from, to) /\ UNCHANGED <<context, scoped, globals, scopes, seen, absent, beside>>
        /\ to \in Stages /\ from[1] # "idle"
    BY <1>4 DEF Return, Stages
  <2>2. /\ at' \in [Thread -> Stages] /\ BesideEachOther'
        /\ at'[t] = to /\ \A u \in Thread : u # t => at'[u] = at[u]
    <3> HIDE DEF from, to
    <3> QED BY <1>0, <2>1, MovesOn
  <2>3. EvaluatorTypeOK' /\ NothingLeftBehind'
    BY <1>0, <2>1, <2>2 DEF EvaluatorTypeOK, NothingLeftBehind
  <2>4. ContextsAround' /\ GlobalsAround'
    BY <1>0, <2>1, <2>2 DEF ContextsAround, GlobalsAround, ScopesAround
  <2> QED BY <2>2, <2>3, <2>4 DEF EvaluatorInv
<1>5. CASE Run(t)
  <2> DEFINE from == <<"set", 4>>
             to == <<"delete", 0>>
  <2>1. /\ Moves(t, from, to) /\ at[t] = from /\ UNCHANGED <<context, scoped, globals, scopes, beside>>
        /\ to \in Stages /\ from[1] # "idle"
    BY <1>5, Names DEF Run, Stages, Moves
  <2>2. PICK names \in SUBSET Global :
          /\ absent' = [absent EXCEPT ![t] = \E n \in names : globals[n] = Nobody]
          /\ seen' = [seen EXCEPT ![t] = {globals[n] : n \in names} \ {Nobody}]
    BY <1>5 DEF Run
  <2>3. /\ at' \in [Thread -> Stages] /\ BesideEachOther'
        /\ at'[t] = to /\ \A u \in Thread : u # t => at'[u] = at[u]
    <3> HIDE DEF from, to
    <3> QED BY <1>0, <2>1, MovesOn
  <2>4. \A n \in Global : globals[n] \in ScopesAround(t) \/ (globals[n] = Nobody /\ beside[t] # {})
    BY <1>0, <2>1, Names DEF GlobalsAround
  <2>5. EvaluatorTypeOK'
    <3>1. seen' \in [Thread -> SUBSET (Thread \cup {Nobody})] /\ absent' \in [Thread -> BOOLEAN]
      BY <1>0, <2>2 DEF EvaluatorTypeOK
    <3> QED BY <1>0, <2>1, <2>3, <3>1 DEF EvaluatorTypeOK
  <2>6. NothingLeftBehind'
    <3>1. /\ seen'[t] = {globals[n] : n \in names} \ {Nobody}
          /\ absent'[t] <=> \E n \in names : globals[n] = Nobody
          /\ \A u \in Thread : u # t => seen'[u] = seen[u] /\ absent'[u] = absent[u]
      BY <1>0, <2>2 DEF EvaluatorTypeOK
    <3>2. seen'[t] \subseteq ScopesAround(t)
      BY <2>4, <3>1
    <3>3. absent'[t] => beside[t] # {}
      BY <1>0, <2>4, <3>1 DEF ScopesAround
    <3> QED BY <1>0, <2>1, <3>1, <3>2, <3>3 DEF NothingLeftBehind, ScopesAround
  <2>7. ContextsAround' /\ GlobalsAround'
    BY <1>0, <2>1, <2>3 DEF ContextsAround, GlobalsAround, ScopesAround
  <2> QED BY <2>3, <2>5, <2>6, <2>7 DEF EvaluatorInv
<1>6. ASSUME NEW i \in 1..4, SetGlobal(t, i) PROVE EvaluatorInv'
  <2> DEFINE to == <<"set", i>>
  <2>1. /\ globals' = [globals EXCEPT ![Name[i]] = t] /\ UNCHANGED <<context, scoped, scopes>>
        /\ to \in Stages /\ Name[i] \in Global
    BY <1>6, Names DEF SetGlobal, Stages
  <2>2. globals' \in [Global -> Thread \cup {Nobody}]
    BY <1>0, <2>1 DEF EvaluatorTypeOK
  <2>3. /\ at' \in [Thread -> Stages] /\ BesideEachOther'
        /\ at'[t] = to /\ \A u \in Thread : u # t => at'[u] = at[u]
        /\ \A u \in Thread : u # t /\ Evaluating(u) => t \in beside'[u]
        /\ \A u \in Thread : u # t => beside[u] \subseteq beside'[u]
        /\ seen' \in [Thread -> SUBSET (Thread \cup {Nobody})] /\ absent' \in [Thread -> BOOLEAN]
        /\ beside' \in [Thread -> SUBSET Thread]
        /\ NothingLeftBehind'
        /\ i > 1 => at[t] = <<"set", i - 1>> /\ beside' = beside
    <3>1. CASE i = 1 /\ Moves(t, <<"idle", 0>>, to) /\ Begins(t)
      <4> HIDE DEF to
      <4> QED BY <1>0, <2>1, <3>1, MovesIn
    <3>2. CASE i > 1 /\ Moves(t, <<"set", i - 1>>, to) /\ UNCHANGED <<seen, absent, beside>>
      <4> DEFINE from == <<"set", i - 1>>
      <4>1. from[1] # "idle"
        OBVIOUS
      <4>2. /\ at' \in [Thread -> Stages] /\ BesideEachOther'
            /\ at'[t] = to /\ \A u \in Thread : u # t => at'[u] = at[u]
            /\ \A u \in Thread : u # t /\ Evaluating(u) => t \in beside'[u]
        <5> HIDE DEF from, to
        <5> QED BY <1>0, <2>1, <3>2, <4>1, MovesOn DEF from, to
      <4>3. at[t] = from
        BY <3>2 DEF Moves
      <4> QED BY <1>0, <3>2, <4>2, <4>3 DEF EvaluatorTypeOK, NothingLeftBehind
    <3> QED BY <1>6, <3>1, <3>2 DEF SetGlobal
  <2>4. EvaluatorTypeOK'
    BY <1>0, <2>1, <2>2, <2>3 DEF EvaluatorTypeOK
  <2>5. ContextsAround'
    BY <1>0, <2>1, <2>3 DEF ContextsAround, ScopesAround
  <2>6. GlobalsAround'
    <3>1. SUFFICES ASSUME NEW u \in Thread, NEW k \in 1..4, at'[u] = <<"set", k>>, NEW j \in 1..k
                   PROVE  \/ globals'[Name[j]] \in ScopesAround(u)'
                          \/ globals'[Name[j]] = Nobody /\ beside'[u] # {}
      BY DEF GlobalsAround
    <3>2. globals'[Name[j]] = IF j = i THEN t ELSE globals[Name[j]]
      <4>1. j \in 1..4
        OBVIOUS
      <4> QED BY <1>0, <2>1, <4>1, Names DEF EvaluatorTypeOK
    <3>3. CASE u = t
      <4>1. k = i
        BY <2>3, <3>1, <3>3
      <4>2. CASE j = i
        BY <3>2, <3>3, <4>2 DEF ScopesAround
      <4>3. CASE j # i
        <5>1. i > 1 /\ j \in 1..(i - 1) /\ i - 1 \in 1..4
          BY <4>1, <4>3
        <5> QED BY <1>0, <2>3, <3>2, <3>3, <4>3, <5>1 DEF GlobalsAround, ScopesAround
      <4> QED BY <4>2, <4>3
    <3>4. CASE u # t
      <4>1. at[u] = <<"set", k>>
        BY <2>3, <3>1, <3>4
      <4>2. globals[Name[j]] \in ScopesAround(u) \/ (globals[Name[j]] = Nobody /\ beside[u] # {})
        BY <1>0, <4>1 DEF GlobalsAround
      <4>3. t \in beside'[u]
        BY <2>3, <3>4, <4>1 DEF Evaluating
      <4> QED BY <2>3, <3>2, <3>4, <4>2, <4>3 DEF ScopesAround
    <3> QED BY <3>3, <3>4
  <2> QED BY <2>3, <2>4, <2>5, <2>6 DEF EvaluatorInv
<1>7. ASSUME NEW i \in 1..4, DeleteGlobal(t, i) PROVE EvaluatorInv'
  <2> DEFINE from == <<"delete", i - 1>>
             to == IF i = 4 THEN <<"idle", 0>> ELSE <<"delete", i>>
  <2>1. /\ Moves(t, from, to) /\ globals' = [globals EXCEPT ![Name[i]] = Nobody]
        /\ UNCHANGED <<context, scoped, scopes, seen, absent, beside>>
        /\ from[1] # "idle" /\ Name[i] \in Global
    BY <1>7, Names DEF DeleteGlobal
  <2>2. to \in Stages /\ to[1] # "set" /\ to # <<"scopes", 0>> /\ to # <<"nodes", 0>>
    BY DEF Stages
  <2>3. /\ at' \in [Thread -> Stages] /\ BesideEachOther'
        /\ at'[t] = to /\ \A u \in Thread : u # t => at'[u] = at[u]
        /\ \A u \in Thread : u # t /\ Evaluating(u) => t \in beside'[u]
    <3> HIDE DEF from, to
    <3> QED BY <1>0, <2>1, <2>2, MovesOn
  <2> HIDE DEF to
  <2>4. EvaluatorTypeOK' /\ NothingLeftBehind'
    BY <1>0, <2>1, <2>3 DEF EvaluatorTypeOK, NothingLeftBehind
  <2>5. ContextsAround'
    BY <1>0, <2>1, <2>2, <2>3 DEF ContextsAround, ScopesAround
  <2>6. GlobalsAround'
    <3>1. SUFFICES ASSUME NEW u \in Thread, NEW k \in 1..4, at'[u] = <<"set", k>>, NEW j \in 1..k
                   PROVE  \/ globals'[Name[j]] \in ScopesAround(u)'
                          \/ globals'[Name[j]] = Nobody /\ beside'[u] # {}
      BY DEF GlobalsAround
    <3>2. u # t /\ at[u] = <<"set", k>>
      BY <2>2, <2>3, <3>1
    <3>3. t \in beside'[u]
      BY <2>3, <3>2 DEF Evaluating
    <3>4. globals'[Name[j]] \in {Nobody, globals[Name[j]]}
      <4>1. j \in 1..4
        OBVIOUS
      <4> QED BY <1>0, <2>1, <4>1, Names DEF EvaluatorTypeOK
    <3>5. globals[Name[j]] \in ScopesAround(u) \/ (globals[Name[j]] = Nobody /\ beside[u] # {})
      BY <1>0, <3>2 DEF GlobalsAround
    <3> QED BY <2>1, <3>3, <3>4, <3>5 DEF ScopesAround
  <2> QED BY <2>3, <2>4, <2>5, <2>6 DEF EvaluatorInv
<1> QED BY <1>1, <1>2, <1>3, <1>4, <1>5, <1>6, <1>7, Names

LEMMA EvaluatorStepOK == EvaluatorInv /\ [EvaluatorNext]_evaluatorVars => EvaluatorInv'
<1> SUFFICES ASSUME EvaluatorInv, [EvaluatorNext]_evaluatorVars PROVE EvaluatorInv'
  OBVIOUS
<1>1. CASE EvaluatorNext
  BY <1>1, EvaluatorStep DEF EvaluatorNext
<1>2. CASE UNCHANGED evaluatorVars
  BY <1>2 DEF evaluatorVars, EvaluatorInv, EvaluatorTypeOK, BesideEachOther, ContextsAround,
       GlobalsAround, NothingLeftBehind, ScopesAround, Evaluating
<1> QED BY <1>1, <1>2

(* However many threads there are: what an expression reads was stored by  *)
(* its own thread or by one that evaluated at the same time, and only such *)
(* a thread can have taken a global away before it is read.                *)
THEOREM NothingIsLeftBehind == EvaluatorSpec => []NothingLeftBehind
<1>1. EvaluatorInv => NothingLeftBehind
  BY DEF EvaluatorInv
<1> QED BY EvaluatorInitOK, EvaluatorStepOK, <1>1, PTL DEF EvaluatorSpec

-----------------------------------------------------------------------------
(* The tables of the composer                                              *)

InclusionId == Nat \X Nat
Inclusion == [id : InclusionId, parent : Nat, workflow : FlowName]
IncludeContext == [parent : Nat, workflow : FlowName, status : {"pending", "completed", "failed"},
            end : Nat]
FlowInstance == [name : FlowName, at : Nat \ {0}, waits : InclusionId \cup {NoId}, by : Nat,
             ended : BOOLEAN]

CompositionTypeOK ==
  /\ library \in Libraries /\ seconds \in Nat
  /\ instances \in Seq(FlowInstance)
  /\ \A w \in DOMAIN instances :
       instances[w].by \in {0} \cup DOMAIN instances /\ Loads(instances[w].name)
  /\ DOMAIN contexts \subseteq InclusionId
  /\ contexts \in [DOMAIN contexts -> IncludeContext]
  /\ inclusions \in [DOMAIN inclusions -> SUBSET InclusionId]
  /\ handed \subseteq Inclusion
  /\ \A h \in handed : h.parent \in DOMAIN instances /\ Loads(h.workflow)

(* Who waits was handed what it waits for, and each context was made for   *)
(* an inclusion that was handed out.                                       *)
HandedOK ==
  /\ \A w \in DOMAIN instances : Waiting(w) =>
       \E h \in handed : h.id = instances[w].waits /\ h.parent = w
  /\ \A i \in DOMAIN contexts : \E h \in handed :
       h.id = i /\ h.parent = contexts[i].parent /\ h.workflow = contexts[i].workflow

CompositionInv == CompositionTypeOK /\ HandedOK /\ InclusionsKept

LEMMA CompositionInitOK == CompositionInit => CompositionInv
<1> SUFFICES ASSUME CompositionInit PROVE CompositionInv
  OBVIOUS
<1> USE DEF CompositionInit
<1>0. /\ DOMAIN instances = {} /\ DOMAIN contexts = {} /\ DOMAIN inclusions = {}
      /\ instances \in Seq(FlowInstance)
  OBVIOUS
<1>1. CompositionTypeOK
  BY <1>0 DEF CompositionTypeOK
<1>2. HandedOK
  BY <1>0 DEF HandedOK
<1>3. InclusionsKept
  BY <1>0 DEF InclusionsKept
<1> QED BY <1>1, <1>2, <1>3 DEF CompositionInv

(* What is included is in a file that loads.                               *)
LEMMA StepsTyped ==
  ASSUME CompositionTypeOK, NEW w \in DOMAIN instances
  PROVE  /\ StepsOf(w) \in Seq(IncludeStep)
         /\ Left(w) => /\ instances[w].at \in DOMAIN StepsOf(w)
                       /\ StepsOf(w)[instances[w].at].workflow \in FlowName
                       /\ StepId(StepsOf(w), instances[w].at) \in Nat
<1>1. /\ instances[w] \in FlowInstance /\ Loads(instances[w].name)
      /\ library \in [{"project", "global"} -> [FlowName -> FlowFile \cup {NoFile}]]
  BY CompositionAssumption DEF CompositionTypeOK
<1>2. Chosen(instances[w].name) \in {"project", "global"} /\ instances[w].name \in FlowName
  BY <1>1 DEF Chosen, FlowInstance
<1>3. Loaded(instances[w].name) \in FlowFile
  BY <1>1, <1>2 DEF Loads, IsFile, Loaded
<1>4. StepsOf(w) \in Seq(IncludeStep)
  BY <1>3 DEF StepsOf, FlowFile
<1> DEFINE s == StepsOf(w)
<1>5. ASSUME Left(w) PROVE instances[w].at \in DOMAIN s
  BY <1>1, <1>4, <1>5 DEF Left, FlowInstance
<1>6. ASSUME NEW i \in DOMAIN s PROVE s[i].workflow \in FlowName /\ StepId(s, i) \in Nat
  <2>1. s[i] \in IncludeStep /\ i \in Nat /\ i >= 1
    BY <1>4
  <2> QED BY <2>1 DEF StepId, IncludeStep
<1> QED BY <1>4, <1>5, <1>6

LEMMA InstanceChanged ==
  ASSUME NEW r \in FlowInstance
  PROVE  /\ [r EXCEPT !.at = @ + 1] \in FlowInstance
         /\ [r EXCEPT !.ended = TRUE] \in FlowInstance
         /\ \A i \in InclusionId \cup {NoId} : [r EXCEPT !.waits = i] \in FlowInstance
<1>1. [r EXCEPT !.at = @ + 1] \in FlowInstance
  BY DEF FlowInstance
<1>2. [r EXCEPT !.ended = TRUE] \in FlowInstance
  BY DEF FlowInstance
<1>3. ASSUME NEW i \in InclusionId \cup {NoId} PROVE [r EXCEPT !.waits = i] \in FlowInstance
  BY DEF FlowInstance
<1> QED BY <1>1, <1>2, <1>3

LEMMA InstanceTyped ==
  ASSUME NEW s \in Seq(FlowInstance), NEW i \in DOMAIN s
  PROVE  s[i] \in FlowInstance
BY ElementOfSeq

(* What does not change the tables and lets the instances go on            *)
LEMMA InstancesGoOn ==
  ASSUME CompositionInv, UNCHANGED <<library, contexts, inclusions, handed>>, seconds' \in Nat,
         instances' \in Seq(FlowInstance), DOMAIN instances \subseteq DOMAIN instances',
         \A w \in DOMAIN instances' :
            /\ instances'[w].by \in {0} \cup DOMAIN instances' /\ Loads(instances'[w].name)
            /\ IF w \in DOMAIN instances THEN instances'[w].waits = instances[w].waits
               ELSE instances'[w].waits = NoId
  PROVE  CompositionInv'
<1> USE DEF CompositionInv
<1>1. CompositionTypeOK'
  BY DEF CompositionTypeOK, Loads, IsFile, Chosen
<1>2. HandedOK'
  BY DEF HandedOK, Waiting
<1>3. InclusionsKept'
  <2>1. \A h \in handed : instances'[h.parent].waits = instances[h.parent].waits
    BY DEF CompositionTypeOK
  <2> QED BY <2>1 DEF InclusionsKept, OneOfItsId, Included
<1> QED BY <1>1, <1>2, <1>3

(* A new workflow                                                          *)
LEMMA StartedOK ==
  ASSUME CompositionInv, NEW f \in FlowName, Loads(f), NEW u \in {0} \cup DOMAIN instances,
         instances' = Append(instances, [name |-> f, at |-> 1, waits |-> NoId, by |-> u,
                                         ended |-> FALSE]),
         UNCHANGED <<library, seconds, contexts, inclusions, handed>>
  PROVE  CompositionInv'
<1> DEFINE new == [name |-> f, at |-> 1, waits |-> NoId, by |-> u, ended |-> FALSE]
<1>1. instances \in Seq(FlowInstance) /\ u \in Nat
  BY DEF CompositionInv, CompositionTypeOK
<1>2. new \in FlowInstance
  BY <1>1 DEF FlowInstance
<1>3. /\ instances' \in Seq(FlowInstance)
      /\ DOMAIN instances' = DOMAIN instances \cup {Len(instances) + 1}
      /\ \A w \in DOMAIN instances : instances'[w] = instances[w]
      /\ instances'[Len(instances) + 1] = new /\ Len(instances) + 1 \notin DOMAIN instances
  BY <1>1, <1>2, AppendProperties
<1>4. new.waits = NoId /\ new.by = u /\ new.name = f
  OBVIOUS
<1> HIDE DEF new
<1> QED BY <1>3, <1>4, InstancesGoOn DEF CompositionInv, CompositionTypeOK

LEMMA StartWorkflowStep ==
  ASSUME CompositionInv, StartWorkflow
  PROVE  CompositionInv'
BY StartedOK DEF StartWorkflow

LEMMA StartIncludedStep ==
  ASSUME CompositionInv, NEW w \in DOMAIN instances, StartIncluded(w)
  PROVE  CompositionInv'
<1>1. \A h \in handed : h.workflow \in FlowName /\ Loads(h.workflow)
  BY DEF CompositionInv, CompositionTypeOK, Inclusion
<1> QED BY <1>1, StartedOK DEF StartIncluded

LEMMA RefusedStep ==
  ASSUME CompositionInv, NEW w \in DOMAIN instances, Refused(w)
  PROVE  CompositionInv'
<1>1. instances \in Seq(FlowInstance)
  BY DEF CompositionInv, CompositionTypeOK
<1>2. instances' = [instances EXCEPT ![w].at = @ + 1]
  BY DEF Refused
<1>3. [instances[w] EXCEPT !.at = @ + 1] \in FlowInstance
  BY <1>1, InstanceTyped, InstanceChanged
<1>4. /\ instances' \in Seq(FlowInstance) /\ DOMAIN instances' = DOMAIN instances
      /\ \A v \in DOMAIN instances :
           /\ instances'[v].by = instances[v].by /\ instances'[v].name = instances[v].name
           /\ instances'[v].waits = instances[v].waits
  BY <1>1, <1>2, <1>3, ExceptSeq DEF FlowInstance
<1> QED BY <1>4, InstancesGoOn DEF CompositionInv, CompositionTypeOK, Refused

LEMMA SecondStep ==
  ASSUME CompositionInv, Second
  PROVE  CompositionInv'
<1>1. seconds' \in Nat
  BY DEF Second, CompositionInv, CompositionTypeOK
<1> QED BY <1>1, InstancesGoOn DEF CompositionInv, CompositionTypeOK, Second

LEMMA IncludeStepOK ==
  ASSUME CompositionInv, NEW w \in DOMAIN instances, Include(w)
  PROVE  CompositionInv'
<1> DEFINE steps == StepsOf(w)
           turn == instances[w].at
           id == <<StepId(steps, turn), seconds>>
           name == steps[turn].workflow
           new == [id |-> id, parent |-> w, workflow |-> name]
           made == [parent |-> w, workflow |-> name, status |-> "pending", end |-> 0]
<1>1. /\ CompositionTypeOK /\ HandedOK /\ InclusionsKept
      /\ Left(w) /\ ~WouldCreateCycle(w, name) /\ Loads(name)
      /\ contexts' = [i \in DOMAIN contexts \cup {id} |-> IF i = id THEN made ELSE contexts[i]]
      /\ inclusions' = With(w, id)
      /\ handed' = handed \cup {new}
      /\ instances' = [instances EXCEPT ![w].waits = id]
      /\ UNCHANGED <<library, seconds>>
  BY DEF Include, CompositionInv
<1>2. id \in InclusionId /\ name \in FlowName /\ w \in Nat
  <2>1. StepId(steps, turn) \in Nat /\ name \in FlowName
    BY <1>1, StepsTyped
  <2> QED BY <2>1, <1>1 DEF InclusionId, CompositionTypeOK
<1>3. id # NoId
  BY <1>2, CompositionAssumption DEF InclusionId
<1>4. new \in Inclusion /\ made \in IncludeContext
  BY <1>2 DEF Inclusion, IncludeContext
<1>5. /\ new.id = id /\ new.parent = w /\ new.workflow = name
      /\ made.parent = w /\ made.workflow = name /\ made.status = "pending"
  OBVIOUS
<1> HIDE DEF id, name, new, made
<1>6. /\ instances' \in Seq(FlowInstance) /\ DOMAIN instances' = DOMAIN instances
      /\ \A v \in DOMAIN instances :
           /\ instances'[v].by = instances[v].by /\ instances'[v].name = instances[v].name
           /\ instances'[v].waits = IF v = w THEN id ELSE instances[v].waits
  <2>1. [instances[w] EXCEPT !.waits = id] \in FlowInstance
    BY <1>1, <1>2, InstanceTyped, InstanceChanged DEF CompositionTypeOK
  <2> QED BY <1>1, <2>1, ExceptSeq DEF CompositionTypeOK, FlowInstance
<1>7. /\ DOMAIN inclusions' = DOMAIN inclusions \cup {w}
      /\ \A v \in DOMAIN inclusions' :
           inclusions'[v] = Included(v) \cup (IF v = w THEN {id} ELSE {})
  BY <1>1 DEF With
<1>8. \A v : Included(v)' = Included(v) \cup (IF v = w THEN {id} ELSE {})
  BY <1>7 DEF Included
<1>9. CompositionTypeOK'
  <2>1. inclusions' \in [DOMAIN inclusions' -> SUBSET InclusionId]
    BY <1>1, <1>2, <1>7 DEF With, CompositionTypeOK, Included
  <2>2. contexts' \in [DOMAIN contexts' -> IncludeContext] /\ DOMAIN contexts' \subseteq InclusionId
    BY <1>1, <1>2, <1>4 DEF CompositionTypeOK
  <2>3. \A f : Loads(f)' = Loads(f)
    BY <1>1 DEF Loads, IsFile, Chosen
  <2>4. handed' \subseteq Inclusion
        /\ \A h \in handed' : h.parent \in DOMAIN instances' /\ Loads(h.workflow)'
    BY <1>1, <1>4, <1>5, <1>6, <2>3 DEF CompositionTypeOK
  <2> QED BY <1>1, <1>6, <2>1, <2>2, <2>3, <2>4 DEF CompositionTypeOK
<1>10. HandedOK'
  <2>1. \A v \in DOMAIN instances' : Waiting(v)' =>
          \E h \in handed' : h.id = instances'[v].waits /\ h.parent = v
    BY <1>1, <1>5, <1>6 DEF HandedOK, Waiting
  <2>2. \A i \in DOMAIN contexts' : \E h \in handed' :
          h.id = i /\ h.parent = contexts'[i].parent /\ h.workflow = contexts'[i].workflow
    BY <1>1, <1>5 DEF HandedOK
  <2> QED BY <2>1, <2>2 DEF HandedOK
<1>11. \A h \in handed : OneOfItsId(h)' => OneOfItsId(h) /\ (h = new \/ h.id # id)
  BY <1>1, <1>5 DEF OneOfItsId
<1>12. InclusionsKept'
  <2>1. \A i \in DOMAIN contexts' : i \in (Included(contexts[i].parent))'
    <3>1. ASSUME NEW i \in DOMAIN contexts' PROVE i \in (Included(contexts[i].parent))'
      <4>1. CASE i = id
        BY <1>1, <1>5, <1>7, <4>1 DEF Included
      <4>2. CASE i # id
        <5>1. i \in DOMAIN contexts /\ contexts'[i] = contexts[i]
          BY <1>1, <4>2
        <5>2. i \in Included(contexts[i].parent)
          BY <1>1, <5>1 DEF InclusionsKept
        <5> QED BY <1>7, <5>1, <5>2 DEF Included
      <4> QED BY <4>1, <4>2
    <3> QED BY <3>1
  <2>2. ASSUME NEW h \in handed', OneOfItsId(h)', instances'[h.parent].waits = h.id
        PROVE  /\ h.id \in DOMAIN contexts'
               /\ contexts'[h.id].parent = h.parent /\ contexts'[h.id].workflow = h.workflow
               /\ contexts'[h.id].status = "pending"
    <3>1. CASE h = new
      BY <1>1, <1>5, <3>1
    <3>2. CASE h # new
      <4>1. h \in handed /\ OneOfItsId(h) /\ h.id # id /\ h.parent \in DOMAIN instances
        BY <1>1, <1>11, <2>2, <3>2 DEF CompositionTypeOK
      <4>2. instances[h.parent].waits = h.id
        BY <1>6, <2>2, <4>1
      <4> QED BY <1>1, <4>1, <4>2 DEF InclusionsKept
    <3> QED BY <3>1, <3>2
  <2>3. ASSUME NEW g \in handed', g # new, OneOfItsId(g)', g.parent = w, g.workflow = name,
               g.id \in DOMAIN contexts'
        PROVE  FALSE
    <3>1. g \in handed /\ OneOfItsId(g) /\ g.id # id /\ g.id \in DOMAIN contexts
      BY <1>1, <1>11, <2>3
    <3>2. PICK h \in handed :
            /\ h.id = g.id /\ h.parent = contexts[g.id].parent
            /\ h.workflow = contexts[g.id].workflow
      BY <1>1, <3>1 DEF HandedOK
    <3>3. h = g
      BY <3>1, <3>2 DEF OneOfItsId
    <3>4. g.id \in Included(w) /\ contexts[g.id].workflow = name
      BY <1>1, <2>3, <3>1, <3>2, <3>3 DEF InclusionsKept
    <3> QED BY <1>1, <3>1, <3>4 DEF WouldCreateCycle
  <2>4. ASSUME NEW g \in handed', NEW h \in handed', OneOfItsId(g)', OneOfItsId(h)',
               g.parent = h.parent, g.workflow = h.workflow, {g.id, h.id} \subseteq DOMAIN contexts'
        PROVE  g = h
    <3>1. CASE g = new \/ h = new
      BY <1>5, <2>3, <2>4, <3>1
    <3>2. CASE g # new /\ h # new
      <4>1. /\ g \in handed /\ OneOfItsId(g) /\ g.id \in DOMAIN contexts
            /\ h \in handed /\ OneOfItsId(h) /\ h.id \in DOMAIN contexts
        BY <1>1, <1>11, <2>4, <3>2
      <4>2. \A x, y \in handed :
              OneOfItsId(x) /\ OneOfItsId(y) /\ x.parent = y.parent /\ x.workflow = y.workflow
                /\ x.id \in DOMAIN contexts /\ y.id \in DOMAIN contexts => x = y
        BY <1>1 DEF InclusionsKept
      <4> QED BY <2>4, <4>1, <4>2
    <3> QED BY <3>1, <3>2
  <2> QED BY <2>1, <2>2, <2>4 DEF InclusionsKept
<1> QED BY <1>9, <1>10, <1>12 DEF CompositionInv

LEMMA CompleteIncludedStep ==
  ASSUME CompositionInv, NEW v \in DOMAIN instances, CompleteIncluded(v)
  PROVE  CompositionInv'
<1> DEFINE w == instances[v].by
           id == instances[w].waits
<1>1. PICK status \in {"completed", "failed"} :
        contexts' = [i \in DOMAIN contexts |->
                       IF i = id THEN [contexts[i] EXCEPT !.status = status, !.end = seconds]
                       ELSE contexts[i]]
  BY DEF CompleteIncluded
<1>2. /\ CompositionTypeOK /\ HandedOK /\ InclusionsKept
      /\ w # 0 /\ Waiting(w)
      /\ instances' = [instances EXCEPT ![v].ended = TRUE, ![w].waits = NoId, ![w].at = @ + 1]
      /\ UNCHANGED <<library, seconds, inclusions, handed>>
  BY DEF CompleteIncluded, CompositionInv
<1>3. w \in DOMAIN instances /\ v \in DOMAIN instances
  BY <1>2 DEF CompositionTypeOK
<1> HIDE DEF w
<1>4. /\ instances' \in Seq(FlowInstance) /\ DOMAIN instances' = DOMAIN instances
      /\ \A u \in DOMAIN instances :
           /\ instances'[u].by = instances[u].by /\ instances'[u].name = instances[u].name
           /\ instances'[u].waits = IF u = w THEN NoId ELSE instances[u].waits
  <2>1. instances \in Seq(FlowInstance)
    BY <1>2 DEF CompositionTypeOK
  <2> DEFINE one == [instances EXCEPT ![v].ended = TRUE]
             two == [one EXCEPT ![w].waits = NoId]
  <2>2. [instances[v] EXCEPT !.ended = TRUE] \in FlowInstance
    BY <1>3, <2>1, InstanceTyped, InstanceChanged
  <2>3. /\ one \in Seq(FlowInstance) /\ DOMAIN one = DOMAIN instances
        /\ \A u \in DOMAIN one :
             /\ one[u].by = instances[u].by /\ one[u].name = instances[u].name
             /\ one[u].waits = instances[u].waits
    BY <1>3, <2>1, <2>2, ExceptSeq DEF FlowInstance
  <2>4. instances' = [two EXCEPT ![w].at = @ + 1]
    BY <1>2
  <2> HIDE DEF one
  <2>5. [one[w] EXCEPT !.waits = NoId] \in FlowInstance
    BY <1>3, <2>3, InstanceTyped, InstanceChanged
  <2>6. /\ two \in Seq(FlowInstance) /\ DOMAIN two = DOMAIN instances
        /\ \A u \in DOMAIN two :
             /\ two[u].by = instances[u].by /\ two[u].name = instances[u].name
             /\ two[u].waits = IF u = w THEN NoId ELSE instances[u].waits
    BY <1>3, <2>3, <2>5, ExceptSeq DEF FlowInstance
  <2> HIDE DEF two
  <2>7. [two[w] EXCEPT !.at = @ + 1] \in FlowInstance
    BY <1>3, <2>6, InstanceTyped, InstanceChanged
  <2> QED BY <1>3, <2>4, <2>6, <2>7, ExceptSeq DEF FlowInstance
<1>5. /\ DOMAIN contexts' = DOMAIN contexts
      /\ contexts' \in [DOMAIN contexts -> IncludeContext]
      /\ \A i \in DOMAIN contexts :
           /\ contexts'[i].parent = contexts[i].parent /\ contexts'[i].workflow = contexts[i].workflow
           /\ i # id => contexts'[i] = contexts[i]
  <2>1. \A i \in DOMAIN contexts :
          LET c == [contexts[i] EXCEPT !.status = status, !.end = seconds]
          IN  /\ c \in IncludeContext
              /\ c.parent = contexts[i].parent /\ c.workflow = contexts[i].workflow
    <3>1. ASSUME NEW c \in IncludeContext
          PROVE  /\ [c EXCEPT !.status = status, !.end = seconds] \in IncludeContext
                 /\ [c EXCEPT !.status = status, !.end = seconds].parent = c.parent
                 /\ [c EXCEPT !.status = status, !.end = seconds].workflow = c.workflow
      BY <1>2 DEF CompositionTypeOK, IncludeContext
    <3> QED BY <1>2, <3>1 DEF CompositionTypeOK
  <2>2. DOMAIN contexts' = DOMAIN contexts
    BY <1>1
  <2>3. ASSUME NEW i \in DOMAIN contexts
        PROVE  /\ contexts'[i] \in IncludeContext
               /\ contexts'[i].parent = contexts[i].parent
               /\ contexts'[i].workflow = contexts[i].workflow
               /\ i # id => contexts'[i] = contexts[i]
    <3>1. CASE i = id
      BY <1>1, <2>1, <3>1
    <3>2. CASE i # id
      BY <1>1, <1>2, <3>2 DEF CompositionTypeOK
    <3> QED BY <3>1, <3>2
  <2>4. contexts' \in [DOMAIN contexts -> IncludeContext]
    BY <1>1, <2>3
  <2> QED BY <2>2, <2>3, <2>4
<1>6. CompositionTypeOK'
  <2>1. \A f : Loads(f)' = Loads(f)
    BY <1>2 DEF Loads, IsFile, Chosen
  <2>2. \A u \in DOMAIN instances' :
          instances'[u].by \in {0} \cup DOMAIN instances' /\ Loads(instances[u].name)'
    BY <1>2, <1>4, <2>1 DEF CompositionTypeOK
  <2> QED BY <1>2, <1>4, <1>5, <2>1, <2>2 DEF CompositionTypeOK
<1>7. HandedOK'
  <2>1. \A u \in DOMAIN instances' : Waiting(u)' =>
          \E h \in handed' : h.id = instances'[u].waits /\ h.parent = u
    <3>1. ASSUME NEW u \in DOMAIN instances, instances'[u].waits # NoId
          PROVE  \E h \in handed : h.id = instances'[u].waits /\ h.parent = u
      <4>1. instances'[u].waits = instances[u].waits
        BY <1>4, <3>1
      <4> QED BY <1>2, <3>1, <4>1 DEF HandedOK, Waiting
    <3> QED BY <1>2, <1>4, <3>1 DEF Waiting
  <2>2. \A i \in DOMAIN contexts' : \E h \in handed' :
          h.id = i /\ h.parent = contexts'[i].parent /\ h.workflow = contexts'[i].workflow
    BY <1>2, <1>5 DEF HandedOK
  <2> QED BY <2>1, <2>2 DEF HandedOK
<1>8. PICK own \in handed : own.id = id /\ own.parent = w
  BY <1>2, <1>3 DEF HandedOK
<1>9. InclusionsKept'
  <2>0. \A h \in handed : OneOfItsId(h)' = OneOfItsId(h)
    BY <1>2 DEF OneOfItsId
  <2>1. \A i \in DOMAIN contexts' : i \in (Included(contexts[i].parent))'
    <3>1. \A i \in DOMAIN contexts : i \in Included(contexts[i].parent)
      BY <1>2 DEF InclusionsKept
    <3> QED BY <1>2, <1>5, <3>1 DEF Included
  <2>2. ASSUME NEW h \in handed', OneOfItsId(h)', instances'[h.parent].waits = h.id
        PROVE  /\ h.id \in DOMAIN contexts'
               /\ contexts'[h.id].parent = h.parent /\ contexts'[h.id].workflow = h.workflow
               /\ contexts'[h.id].status = "pending"
    <3>1. h \in handed /\ OneOfItsId(h) /\ h.parent \in DOMAIN instances /\ h.id # NoId
      BY <1>2, <2>2, CompositionAssumption DEF CompositionTypeOK, OneOfItsId, Inclusion, InclusionId
    <3>2. h.parent # w /\ instances[h.parent].waits = h.id
      BY <1>4, <2>2, <3>1
    <3>3. h.id # id
      BY <1>8, <3>1, <3>2 DEF OneOfItsId
    <3> QED BY <1>2, <1>5, <3>1, <3>2, <3>3 DEF InclusionsKept
  <2>3. \A g, h \in handed' :
          /\ OneOfItsId(g)' /\ OneOfItsId(h)' /\ g.parent = h.parent /\ g.workflow = h.workflow
          /\ {g.id, h.id} \subseteq DOMAIN contexts'
          => g = h
    <3>1. \A g, h \in handed :
            OneOfItsId(g) /\ OneOfItsId(h) /\ g.parent = h.parent /\ g.workflow = h.workflow
              /\ g.id \in DOMAIN contexts /\ h.id \in DOMAIN contexts => g = h
      BY <1>2 DEF InclusionsKept
    <3> QED BY <1>2, <1>5, <2>0, <3>1
  <2> QED BY <2>1, <2>2, <2>3 DEF InclusionsKept
<1> QED BY <1>6, <1>7, <1>9 DEF CompositionInv

LEMMA CleanUpStep ==
  ASSUME CompositionInv, CleanUp
  PROVE  CompositionInv'
<1>1. /\ CompositionTypeOK /\ HandedOK /\ InclusionsKept
      /\ contexts' = [i \in DOMAIN contexts \ Old |-> contexts[i]]
      /\ inclusions' = [w \in DOMAIN inclusions |->
                         {i \in inclusions[w] : i \notin Old \/ contexts[i].parent # w}]
      /\ UNCHANGED <<library, seconds, instances, handed>>
  BY DEF CleanUp, CompositionInv
<1>2. /\ DOMAIN contexts' = DOMAIN contexts \ Old
      /\ \A i \in DOMAIN contexts' : contexts'[i] = contexts[i]
  BY <1>1
<1>3. CompositionTypeOK'
  BY <1>1, <1>2 DEF CompositionTypeOK, Loads, IsFile, Chosen
<1>4. HandedOK'
  BY <1>1, <1>2 DEF HandedOK, Waiting
<1>5. InclusionsKept'
  <2>1. \A i \in DOMAIN contexts' : i \in (Included(contexts[i].parent))'
    <3>1. ASSUME NEW i \in DOMAIN contexts' PROVE i \in (Included(contexts[i].parent))'
      <4>1. i \in DOMAIN contexts /\ i \notin Old /\ contexts'[i] = contexts[i]
        BY <1>2
      <4>2. i \in Included(contexts[i].parent)
        BY <1>1, <4>1 DEF InclusionsKept
      <4> QED BY <1>1, <4>1, <4>2 DEF Included
    <3> QED BY <3>1
  <2>2. \A i \in DOMAIN contexts : contexts[i].status = "pending" => i \notin Old
    BY DEF Old
  <2>3. \A h \in handed : OneOfItsId(h)' = OneOfItsId(h)
    BY <1>1 DEF OneOfItsId
  <2>4. ASSUME NEW h \in handed', OneOfItsId(h)', instances'[h.parent].waits = h.id
        PROVE  /\ h.id \in DOMAIN contexts'
               /\ contexts'[h.id].parent = h.parent /\ contexts'[h.id].workflow = h.workflow
               /\ contexts'[h.id].status = "pending"
    <3>1. h \in handed /\ OneOfItsId(h) /\ instances[h.parent].waits = h.id
      BY <1>1, <2>3, <2>4
    <3>2. /\ h.id \in DOMAIN contexts
          /\ contexts[h.id].parent = h.parent /\ contexts[h.id].workflow = h.workflow
          /\ contexts[h.id].status = "pending"
      BY <1>1, <3>1 DEF InclusionsKept
    <3> QED BY <1>2, <2>2, <3>2
  <2>5. \A g, h \in handed' :
          /\ OneOfItsId(g)' /\ OneOfItsId(h)' /\ g.parent = h.parent /\ g.workflow = h.workflow
          /\ {g.id, h.id} \subseteq DOMAIN contexts'
          => g = h
    <3>1. \A g, h \in handed :
            OneOfItsId(g) /\ OneOfItsId(h) /\ g.parent = h.parent /\ g.workflow = h.workflow
              /\ g.id \in DOMAIN contexts /\ h.id \in DOMAIN contexts => g = h
      BY <1>1 DEF InclusionsKept
    <3> QED BY <1>1, <1>2, <2>3, <3>1
  <2> QED BY <2>1, <2>4, <2>5 DEF InclusionsKept
<1> QED BY <1>3, <1>4, <1>5 DEF CompositionInv

(* However often workflows include each other, in whatever order they end, *)
(* and whenever the composer cleans up: its tables agree, an inclusion     *)
(* whose id no other has taken is remembered until its end is reported,    *)
(* and none is made beside one of the same name.                           *)
THEOREM InclusionsAreKept == CompositionSpec => []InclusionsKept
<1>1. CompositionInv /\ [CompositionNext]_compositionVars => CompositionInv'
  <2>1. CASE CompositionNext
    BY <2>1, StartWorkflowStep, CleanUpStep, SecondStep, IncludeStepOK, RefusedStep,
       StartIncludedStep, CompleteIncludedStep DEF CompositionNext
  <2>2. ASSUME CompositionInv, UNCHANGED compositionVars PROVE CompositionInv'
    BY <2>2 DEF compositionVars, CompositionInv, CompositionTypeOK, HandedOK, InclusionsKept,
       Waiting, Included, OneOfItsId, Loads, IsFile, Chosen
  <2> QED BY <2>1, <2>2
<1>2. CompositionInv => InclusionsKept
  BY DEF CompositionInv
<1> QED BY CompositionInitOK, <1>1, <1>2, PTL DEF CompositionSpec

-----------------------------------------------------------------------------
(* The objects of states                                                   *)

Heap == [lists : Seq(Nat), state : [Slot -> Nat \cup {None}]]
Refs(s) == {s[q] : q \in Slot} \ {None}

(* What updates have made of the lists of before: only those that were own *)
(* can be others, and what the state has now is own, or new.               *)
Mine(h, own, before) ==
  /\ h \in Heap
  /\ Len(h.lists) >= Len(before)
  /\ \A i \in 1..Len(before) : i \in own \/ h.lists[i] = before[i]
  /\ \A q \in Slot :
       h.state[q] = None \/ h.state[q] \in own \cup (Len(before) + 1 .. Len(h.lists))

Updating(own) ==
  [do : {"append"}, at : Slot] \cup [do : {"set"}, at : {"state.y"}, value : {New} \cup own]

LEMMA HeapParts ==
  ASSUME NEW h \in Heap
  PROVE  /\ h.lists \in Seq(Nat) /\ Len(h.lists) \in Nat
         /\ h.state \in [Slot -> Nat \cup {None}]
         /\ \A i \in 1..Len(h.lists) : h.lists[i] \in Nat
         /\ \A q \in Slot : h.state[q] \in Nat \cup {None}
<1>1. h.lists \in Seq(Nat) /\ h.state \in [Slot -> Nat \cup {None}]
  BY DEF Heap
<1> QED BY <1>1, ElementOfSeq, LenProperties

(* A list is made and put into the state.                                  *)
LEMMA ListMade ==
  ASSUME NEW before \in Seq(Nat), NEW own \in SUBSET (1..Len(before)), NEW h,
         Mine(h, own, before), NEW slot \in Slot, NEW n \in Nat
  PROVE  Mine([lists |-> Append(h.lists, n), state |-> [h.state EXCEPT ![slot] = Len(h.lists) + 1]],
              own, before)
<1>0. /\ h \in Heap /\ Len(h.lists) >= Len(before)
      /\ \A i \in 1..Len(before) : i \in own \/ h.lists[i] = before[i]
      /\ \A q \in Slot : h.state[q] = None \/ h.state[q] \in own
                           \/ h.state[q] \in Len(before) + 1 .. Len(h.lists)
  BY DEF Mine
<1>1. h \in Heap /\ Len(before) \in Nat
  BY <1>0, LenProperties
<1>2. /\ h.lists \in Seq(Nat) /\ Len(h.lists) \in Nat
      /\ h.state \in [Slot -> Nat \cup {None}]
  BY <1>1, HeapParts
<1> DEFINE l == Append(h.lists, n)
           s == [h.state EXCEPT ![slot] = Len(h.lists) + 1]
<1>3. /\ l \in Seq(Nat) /\ Len(l) = Len(h.lists) + 1
      /\ \A i \in 1..Len(h.lists) : l[i] = h.lists[i]
  BY <1>2, AppendProperties
<1>4. s \in [Slot -> Nat \cup {None}] /\ s[slot] = Len(h.lists) + 1
      /\ \A q \in Slot : q # slot => s[q] = h.state[q]
  BY <1>2
<1>5. [lists |-> l, state |-> s].lists = l /\ [lists |-> l, state |-> s].state = s
      /\ [lists |-> l, state |-> s] \in Heap
  BY <1>3, <1>4 DEF Heap
<1> HIDE DEF l, s
<1>6. ASSUME NEW i \in 1..Len(before) PROVE i \in own \/ l[i] = before[i]
  <2>1. i \in own \/ h.lists[i] = before[i]
    BY <1>0
  <2>2. i \in 1..Len(h.lists)
    BY <1>0, <1>1, <1>2
  <2> QED BY <1>3, <2>1, <2>2
<1>7. ASSUME NEW q \in Slot
      PROVE  s[q] = None \/ s[q] \in own \cup (Len(before) + 1 .. Len(l))
  <2>1. CASE q = slot
    <3>1. Len(h.lists) >= Len(before)
      BY DEF Mine
    <3> QED BY <1>1, <1>2, <1>3, <1>4, <2>1, <3>1
  <2>2. CASE q # slot
    <3>1. h.state[q] = None \/ h.state[q] \in own \cup (Len(before) + 1 .. Len(h.lists))
      BY DEF Mine
    <3> QED BY <1>1, <1>2, <1>3, <1>4, <2>2, <3>1
  <2> QED BY <2>1, <2>2
<1>8. Len(l) >= Len(before)
  BY <1>1, <1>2, <1>3 DEF Mine
<1> QED BY <1>5, <1>6, <1>7, <1>8 DEF Mine, l, s

LEMMA AppliedMine ==
  ASSUME NEW before \in Seq(Nat), NEW own \in SUBSET (1..Len(before)), NEW h,
         Mine(h, own, before), NEW op \in Updating(own)
  PROVE  Mine(Applied(h, op), own, before)
<1> DEFINE o == h.state[op.at]
           new == Len(h.lists) + 1
<1>0. /\ h \in Heap /\ Len(h.lists) >= Len(before)
      /\ \A i \in 1..Len(before) : i \in own \/ h.lists[i] = before[i]
      /\ \A q \in Slot : h.state[q] = None \/ h.state[q] \in own
                           \/ h.state[q] \in Len(before) + 1 .. Len(h.lists)
  BY DEF Mine
<1>1. h \in Heap /\ Len(before) \in Nat
  BY <1>0, LenProperties
<1>2. /\ h.lists \in Seq(Nat) /\ Len(h.lists) \in Nat
      /\ h.state \in [Slot -> Nat \cup {None}]
      /\ \A i \in 1..Len(h.lists) : h.lists[i] \in Nat
      /\ h = [lists |-> h.lists, state |-> h.state]
  BY <1>1, HeapParts DEF Heap
<1>3. op.at \in Slot /\ op.do \in {"append", "set"}
      /\ (op.do = "set" => op.value = New \/ op.value \in own)
  <2>1. CASE op \in [do : {"append"}, at : Slot]
    BY <2>1
  <2>2. CASE op \in [do : {"set"}, at : {"state.y"}, value : {New} \cup own]
    <3>1. op.do = "set" /\ op.at = "state.y" /\ op.value \in {New} \cup own
      BY <2>2
    <3> QED BY <3>1 DEF Slot
  <2> QED BY <2>1, <2>2 DEF Updating
<1>4. CASE op.do = "append" /\ o # None
  <2>1. Applied(h, op) = [h EXCEPT !.lists[o] = @ + 1]
    BY <1>4 DEF Applied
  <2>2. (o \in own \/ o \in Len(before) + 1 .. Len(h.lists)) /\ Len(h.lists) >= Len(before)
    BY <1>0, <1>3, <1>4
  <2>3. o \in 1..Len(h.lists)
    BY <1>1, <1>2, <2>2
  <2> DEFINE l == [h.lists EXCEPT ![o] = @ + 1]
  <2>4. /\ l \in Seq(Nat) /\ Len(l) = Len(h.lists)
        /\ \A i \in 1..Len(h.lists) : i # o => l[i] = h.lists[i]
    <3>1. h.lists[o] + 1 \in Nat
      BY <1>2, <2>3
    <3> QED BY <1>2, <2>3, <3>1, ExceptSeq
  <2>5. [h EXCEPT !.lists[o] = @ + 1] = [lists |-> l, state |-> h.state]
    BY <1>1 DEF Heap
  <2>6. [lists |-> l, state |-> h.state] \in Heap
        /\ [lists |-> l, state |-> h.state].lists = l
        /\ [lists |-> l, state |-> h.state].state = h.state
    BY <1>2, <2>4 DEF Heap
  <2> HIDE DEF l, o
  <2>7. ASSUME NEW i \in 1..Len(before) PROVE i \in own \/ l[i] = before[i]
    <3>1. i \in own \/ h.lists[i] = before[i]
      BY <1>0
    <3>2. i \in 1..Len(h.lists)
      BY <1>1, <1>2, <2>2
    <3>3. i = o => i \in own
      BY <1>1, <2>2
    <3> QED BY <2>4, <3>1, <3>2, <3>3
  <2>8. \A q \in Slot :
          h.state[q] = None \/ h.state[q] \in own \cup (Len(before) + 1 .. Len(l))
    BY <2>4 DEF Mine
  <2> QED BY <2>1, <2>2, <2>4, <2>5, <2>6, <2>7, <2>8 DEF Mine
<1>5. CASE op.do = "append" /\ o = None
  <2>1. Applied(h, op) = [lists |-> Append(h.lists, 1), state |-> [h.state EXCEPT ![op.at] = new]]
    BY <1>5 DEF Applied
  <2> HIDE DEF o
  <2>2. op.at \in Slot /\ 1 \in Nat
    BY <1>3
  <2>3. Mine([lists |-> Append(h.lists, 1), state |-> [h.state EXCEPT ![op.at] = new]], own, before)
    BY <2>2, ListMade, Zenon
  <2> QED BY <2>1, <2>3
<1>6. CASE op.do = "set" /\ op.value = New
  <2>1. Applied(h, op) = [lists |-> Append(h.lists, 0), state |-> [h.state EXCEPT ![op.at] = new]]
    BY <1>6 DEF Applied
  <2> HIDE DEF o
  <2>2. op.at \in Slot /\ 0 \in Nat
    BY <1>3
  <2>3. Mine([lists |-> Append(h.lists, 0), state |-> [h.state EXCEPT ![op.at] = new]], own, before)
    BY <2>2, ListMade, Zenon
  <2> QED BY <2>1, <2>3
<1>7. CASE op.do = "set" /\ op.value # New
  <2>1. Applied(h, op) = [h EXCEPT !.state[op.at] = op.value]
    BY <1>7 DEF Applied
  <2> DEFINE s == [h.state EXCEPT ![op.at] = op.value]
  <2>2. op.value \in own
    BY <1>3, <1>7
  <2> DEFINE v == op.value
  <2>0. v \in own /\ v = op.value
    BY <2>2
  <2> HIDE DEF v
  <2>9. v \in Nat
    BY <1>1, <2>0
  <2>3. Applied(h, op) = [lists |-> h.lists, state |-> s]
    BY <1>2, <2>1
  <2>4. s \in [Slot -> Nat \cup {None}] /\ s[op.at] = op.value
        /\ \A q \in Slot : q # op.at => s[q] = h.state[q]
    BY <1>2, <1>3, <2>0, <2>9
  <2>5. [lists |-> h.lists, state |-> s] \in Heap
        /\ [lists |-> h.lists, state |-> s].lists = h.lists
        /\ [lists |-> h.lists, state |-> s].state = s
    BY <1>2, <2>4 DEF Heap
  <2> HIDE DEF s
  <2>6. \A q \in Slot : s[q] = None \/ s[q] \in own \cup (Len(before) + 1 .. Len(h.lists))
    BY <2>2, <2>4 DEF Mine
  <2> QED BY <2>3, <2>5, <2>6 DEF Mine
<1> QED BY <1>3, <1>4, <1>5, <1>6, <1>7

(* A batch, or what comes before the update that raises                    *)
LEMMA DoneMine ==
  ASSUME NEW before \in Seq(Nat), NEW own \in SUBSET (1..Len(before)), NEW h,
         Mine(h, own, before), NEW ops \in Seq(Updating(own)), Len(ops) \in 0..2
  PROVE  Mine(Done(h, ops), own, before)
<1>1. Len(ops) \in 0..2 /\ \A i \in 1..Len(ops) : ops[i] \in Updating(own)
  <2> DEFINE U == Updating(own)
  <2>1. ops \in Seq(U)
    OBVIOUS
  <2> HIDE DEF U
  <2>2. \A i \in 1..Len(ops) : ops[i] \in U
    BY <2>1, ElementOfSeq
  <2> QED BY <2>2 DEF U
<1>2. CASE Len(ops) = 0
  BY <1>2 DEF Done
<1>3. CASE Len(ops) = 1
  BY <1>1, <1>3, AppliedMine DEF Done
<1>4. CASE Len(ops) = 2
  <2>1. Mine(Applied(h, ops[1]), own, before)
    BY <1>1, <1>4, AppliedMine
  <2>2. Mine(Applied(Applied(h, ops[1]), ops[2]), own, before)
    BY <1>1, <1>4, <2>1, AppliedMine
  <2> QED BY <1>4, <2>2 DEF Done
<1> QED BY <1>1, <1>2, <1>3, <1>4

-----------------------------------------------------------------------------
(* copy.deepcopy                                                           *)

(* The number of an object among those that are copied                     *)
Rank(o, S) == Cardinality({p \in S : p <= o})

LEMMA Ranks ==
  ASSUME NEW S \in SUBSET Nat, IsFiniteSet(S)
  PROVE  /\ Cardinality(S) \in Nat
         /\ \A o \in S : Rank(o, S) \in 1..Cardinality(S)
         /\ \A o, p \in S : Rank(o, S) = Rank(p, S) => o = p
         /\ \A i \in 1..Cardinality(S) : \E o \in S : Rank(o, S) = i
<1>1. \A o \in S : IsFiniteSet({p \in S : p <= o})
  BY FS_Subset
<1>2. ASSUME NEW o \in S PROVE Rank(o, S) \in 1..Cardinality(S)
  <2>1. Rank(o, S) \in Nat /\ Rank(o, S) <= Cardinality(S) /\ Cardinality(S) \in Nat
    BY <1>1, FS_Subset, FS_CardinalityType DEF Rank
  <2>2. Rank(o, S) # 0
    <3>1. o \in {p \in S : p <= o}
      OBVIOUS
    <3> QED BY <1>1, <3>1, FS_EmptySet DEF Rank
  <2> QED BY <2>1, <2>2
<1>3. ASSUME NEW o \in S, NEW p \in S, o < p PROVE Rank(o, S) < Rank(p, S)
  <2> DEFINE A == {r \in S : r <= o}
             B == {r \in S : r <= p}
  <2>0. o \in Nat /\ p \in Nat /\ \A r \in S : r \in Nat
    OBVIOUS
  <2>1. /\ A \subseteq B /\ p \in B /\ p \notin A
        /\ IsFiniteSet(B)
    <3>1. \A r \in S : r <= o => r <= p
      BY <1>3, <2>0
    <3>2. p <= p /\ ~ (p <= o)
      BY <1>3, <2>0
    <3>3. IsFiniteSet(B)
      BY <1>1
    <3> QED BY <3>1, <3>2, <3>3
  <2>2. Cardinality(A) < Cardinality(B)
    <3> HIDE DEF A, B
    <3>1. Cardinality(A) <= Cardinality(B) /\ (Cardinality(A) = Cardinality(B) => A = B)
      BY <2>1, FS_Subset
    <3>2. IsFiniteSet(A)
      BY <2>1, FS_Subset
    <3>3. Cardinality(A) \in Nat /\ Cardinality(B) \in Nat
      BY <2>1, <3>2, FS_CardinalityType
    <3> QED BY <2>1, <3>1, <3>3
  <2> QED BY <2>2 DEF Rank
<1>4. \A o, p \in S : Rank(o, S) = Rank(p, S) => o = p
  <2> SUFFICES ASSUME NEW o \in S, NEW p \in S, Rank(o, S) = Rank(p, S) PROVE o = p
    OBVIOUS
  <2>1. Rank(o, S) \in Nat /\ o \in Nat /\ p \in Nat
    BY <1>2, FS_CardinalityType
  <2>2. ~ (o < p) /\ ~ (p < o)
    BY <1>3, <2>1
  <2> QED BY <2>1, <2>2
<1>5. Cardinality(S) \in Nat
  BY FS_CardinalityType
<1>6. \A i \in 1..Cardinality(S) : \E o \in S : Rank(o, S) = i
  <2> DEFINE T == 1..Cardinality(S)
             numbered == [o \in S |-> Rank(o, S)]
  <2>1. numbered \in [S -> T] /\ \A o \in S : numbered[o] = Rank(o, S)
    BY <1>2
  <2>2. \A o, p \in S : numbered[o] = numbered[p] => o = p
    BY <1>4, <2>1
  <2>3. IsFiniteSet(T) /\ Cardinality(T) = Cardinality(S)
    BY <1>5, FS_Interval
  <2> HIDE DEF numbered, T
  <2>4. numbered \in Injection(S, T)
    BY <2>1, <2>2 DEF Injection, IsInjective
  <2>5. numbered \in Surjection(S, T)
    BY <2>3, <2>4, FS_Injection
  <2>6. \A i \in T : \E o \in S : numbered[o] = i
    BY <2>5 DEF Surjection
  <2> QED BY <2>1, <2>6 DEF T
<1> QED BY <1>2, <1>4, <1>5, <1>6

(* A copy has lists of its own, with the same contents.                    *)
LEMMA CopiedApart ==
  ASSUME NEW l \in Seq(Nat), NEW s \in [Slot -> (1..Len(l)) \cup {None}]
  PROVE  LET c == Copied(s, l)
         IN  /\ c.lists \in Seq(Nat) /\ Len(c.lists) >= Len(l)
             /\ \A i \in 1..Len(l) : c.lists[i] = l[i]
             /\ c.state \in [Slot -> (1..Len(c.lists)) \cup {None}]
             /\ \A q \in Slot : c.state[q] = None \/ c.state[q] > Len(l)
             /\ \A q \in Slot : s[q] = None <=> c.state[q] = None
             /\ \A q \in Slot : s[q] # None => c.lists[c.state[q]] = l[s[q]]
<1> DEFINE S == Refs(s)
           n == Cardinality(S)
           made == [i \in 1..n |-> l[CHOOSE o \in S : Rank(o, S) = i]]
           t == [q \in Slot |-> IF s[q] = None THEN None ELSE Len(l) + Rank(s[q], S)]
<1>1. Copied(s, l) = [lists |-> l \o made, state |-> t]
  BY DEF Copied, Refs, Rank
<1>2. Len(l) \in Nat /\ \A i \in 1..Len(l) : l[i] \in Nat
  BY ElementOfSeq, LenProperties
<1>3. IsFiniteSet(S) /\ S \subseteq 1..Len(l) /\ S \subseteq Nat
  <2>1. S \subseteq 1..Len(l) /\ 1..Len(l) \subseteq Nat
    BY <1>2 DEF Refs
  <2>2. IsFiniteSet(1..Len(l))
    BY <1>2, FS_Interval
  <2> QED BY <2>1, <2>2, FS_Subset
<1>4. /\ n \in Nat
      /\ \A o \in S : Rank(o, S) \in 1..n
      /\ \A o, p \in S : Rank(o, S) = Rank(p, S) => o = p
      /\ \A i \in 1..n : \E o \in S : Rank(o, S) = i
  BY <1>3, Ranks
<1>5. \A q \in Slot : s[q] # None => s[q] \in S
  BY DEF Refs
<1> HIDE DEF S, n
<1>6. \A o \in S : made[Rank(o, S)] = l[o]
  <2> SUFFICES ASSUME NEW o \in S PROVE made[Rank(o, S)] = l[o]
    OBVIOUS
  <2>1. (CHOOSE p \in S : Rank(p, S) = Rank(o, S)) = o
    BY <1>4
  <2> QED BY <1>4, <2>1
<1>7. \A i \in 1..n : made[i] \in Nat
  <2> SUFFICES ASSUME NEW i \in 1..n PROVE made[i] \in Nat
    OBVIOUS
  <2>1. PICK o \in S : Rank(o, S) = i
    BY <1>4
  <2> QED BY <1>2, <1>3, <1>6, <2>1
<1>8. made \in Seq(Nat) /\ Len(made) = n
  <2>1. made \in [1..n -> Nat] /\ n \in Nat
    BY <1>4, <1>7
  <2> HIDE DEF made
  <2> QED BY <2>1
<1>9. t \in [Slot -> (1..Len(l) + n) \cup {None}]
      /\ \A q \in Slot : t[q] = IF s[q] = None THEN None ELSE Len(l) + Rank(s[q], S)
  BY <1>2, <1>4, <1>5
<1> HIDE DEF made, t
<1>10. /\ l \o made \in Seq(Nat) /\ Len(l \o made) = Len(l) + n
       /\ \A i \in 1..Len(l) : (l \o made)[i] = l[i]
       /\ \A i \in 1..n : (l \o made)[Len(l) + i] = made[i]
  <2>1. /\ l \o made \in Seq(Nat) /\ Len(l \o made) = Len(l) + n
        /\ \A i \in 1 .. Len(l) + n :
             (l \o made)[i] = IF i <= Len(l) THEN l[i] ELSE made[i - Len(l)]
    BY <1>8, ConcatProperties
  <2> HIDE DEF S, n
  <2> QED BY <1>2, <1>4, <2>1
<1>11. ASSUME NEW q \in Slot, s[q] # None
       PROVE  t[q] \in Len(l) + 1 .. Len(l) + n /\ (l \o made)[t[q]] = l[s[q]]
  BY <1>2, <1>4, <1>5, <1>6, <1>9, <1>10, <1>11
<1>12. None \notin Nat
  BY ObjectsAssumption
<1> DEFINE c == [lists |-> l \o made, state |-> t]
<1>13. c.lists = l \o made /\ c.state = t
  OBVIOUS
<1> HIDE DEF c
<1>14. Copied(s, l) = c
  BY <1>1 DEF c
<1>15. \A q \in Slot : c.state[q] = None \/ c.state[q] > Len(l)
  BY <1>2, <1>4, <1>9, <1>11, <1>13
<1>16. \A q \in Slot : s[q] = None <=> c.state[q] = None
  BY <1>2, <1>4, <1>9, <1>11, <1>12, <1>13
<1>17. \A q \in Slot : s[q] # None => c.lists[c.state[q]] = l[s[q]]
  BY <1>11, <1>13
<1>18. c.state \in [Slot -> (1..Len(c.lists)) \cup {None}]
  BY <1>9, <1>10, <1>13
<1>19. c.lists \in Seq(Nat) /\ Len(c.lists) >= Len(l) /\ \A i \in 1..Len(l) : c.lists[i] = l[i]
  BY <1>2, <1>4, <1>10, <1>13
<1> QED BY <1>14, <1>15, <1>16, <1>17, <1>18, <1>19

-----------------------------------------------------------------------------
(* States share no lists.                                                  *)

Objects(l) == [Slot -> (1..Len(l)) \cup {None}]
Seen(s, l) ==
  IF s = None THEN None ELSE [q \in Slot |-> IF s[q] = None THEN None ELSE l[s[q]]]
Holds(s) == IF s = None THEN {} ELSE Refs(s)

NoneShared(l, s) ==
  /\ l \in Seq(Nat)
  /\ s \in [Instance -> {None} \cup [Slot -> Nat \cup {None}]]
  /\ \A f \in Instance : s[f] = None \/ s[f] \in Objects(l)
  /\ \A f, g \in Instance : f # g => Holds(s[f]) \cap Holds(s[g]) = {}

ObjectsInv == NoneShared(length, state) /\ default \in Objects(length)

(* The lists of one state change, and the lists it has now are its own or  *)
(* new ones: no other state reads another value.                           *)
LEMMA OneChanges ==
  ASSUME NEW l, NEW s, NoneShared(l, s), NEW f \in Instance, NEW l2 \in Seq(Nat),
         NEW s2 \in Objects(l2), Len(l2) >= Len(l),
         \A i \in 1..Len(l) : i \in Holds(s[f]) \/ l2[i] = l[i],
         \A q \in Slot : s2[q] = None \/ s2[q] \in Holds(s[f]) \/ s2[q] \in Len(l) + 1 .. Len(l2)
  PROVE  /\ NoneShared(l2, [s EXCEPT ![f] = s2])
         /\ \A g \in Instance : g # f => Seen(s[g], l2) = Seen(s[g], l)
<1> DEFINE t == [s EXCEPT ![f] = s2]
<1>0. None \notin Nat /\ None \notin [Slot -> Nat \cup {None}]
  BY ObjectsAssumption
<1>1. l \in Seq(Nat) /\ Len(l) \in Nat /\ Len(l2) \in Nat
  BY LenProperties DEF NoneShared
<1>2. s2 \in [Slot -> Nat \cup {None}]
  BY <1>1 DEF Objects
<1>3. /\ s \in [Instance -> {None} \cup [Slot -> Nat \cup {None}]]
      /\ \A g \in Instance : s[g] = None \/ s[g] \in Objects(l)
      /\ \A g, e \in Instance : g # e => Holds(s[g]) \cap Holds(s[e]) = {}
  BY DEF NoneShared
<1>4. /\ t \in [Instance -> {None} \cup [Slot -> Nat \cup {None}]]
      /\ t[f] = s2 /\ \A g \in Instance : g # f => t[g] = s[g]
  BY <1>2, <1>3
<1>5. s2 # None
  BY <1>0, <1>2
<1> HIDE DEF t
<1>6. \A g \in Instance : Holds(s[g]) \subseteq 1..Len(l)
  <2> SUFFICES ASSUME NEW g \in Instance, s[g] # None PROVE Holds(s[g]) \subseteq 1..Len(l)
    BY DEF Holds
  <2>1. s[g] \in [Slot -> (1..Len(l)) \cup {None}]
    BY <1>3 DEF Objects
  <2> QED BY <2>1 DEF Holds, Refs
<1>7. ASSUME NEW g \in Instance PROVE t[g] = None \/ t[g] \in Objects(l2)
  <2>1. CASE g = f
    BY <1>4, <2>1
  <2>2. CASE g # f
    <3>1. t[g] = None \/ t[g] \in [Slot -> (1..Len(l)) \cup {None}]
      BY <1>3, <1>4, <2>2 DEF Objects
    <3>2. 1..Len(l) \subseteq 1..Len(l2)
      BY <1>1
    <3> QED BY <3>1, <3>2 DEF Objects
  <2> QED BY <2>1, <2>2
<1>8. Holds(t[f]) \subseteq Holds(s[f]) \cup (Len(l) + 1 .. Len(l2))
  <2>1. Holds(t[f]) = {s2[q] : q \in Slot} \ {None}
    BY <1>4, <1>5 DEF Holds, Refs
  <2> QED BY <2>1
<1>9. ASSUME NEW g \in Instance, g # f PROVE Holds(t[g]) \cap Holds(t[f]) = {}
  <2>1. Holds(t[g]) = Holds(s[g]) /\ Holds(s[g]) \cap Holds(s[f]) = {}
    BY <1>3, <1>4, <1>9
  <2>2. \A i \in Holds(s[g]) : i \notin Len(l) + 1 .. Len(l2)
    BY <1>1, <1>6
  <2> QED BY <1>8, <2>1, <2>2
<1>10. ASSUME NEW g \in Instance, NEW e \in Instance, g # e
       PROVE  Holds(t[g]) \cap Holds(t[e]) = {}
  <2>1. CASE g = f
    BY <1>9, <1>10, <2>1
  <2>2. CASE e = f
    BY <1>9, <1>10, <2>2
  <2>3. CASE g # f /\ e # f
    BY <1>3, <1>4, <1>10, <2>3
  <2> QED BY <2>1, <2>2, <2>3
<1>11. ASSUME NEW g \in Instance, g # f PROVE Seen(s[g], l2) = Seen(s[g], l)
  <2>1. CASE s[g] = None
    BY <2>1 DEF Seen
  <2>2. CASE s[g] # None
    <3>1. ASSUME NEW q \in Slot, s[g][q] # None PROVE l2[s[g][q]] = l[s[g][q]]
      <4>1. s[g][q] \in Holds(s[g])
        BY <2>2, <3>1 DEF Holds, Refs
      <4>2. s[g][q] \notin Holds(s[f]) /\ s[g][q] \in 1..Len(l)
        BY <1>3, <1>6, <1>11, <4>1
      <4> QED BY <4>2
    <3> QED BY <2>2, <3>1 DEF Seen
  <2> QED BY <2>1, <2>2
<1>12. NoneShared(l2, t)
  BY <1>4, <1>7, <1>10 DEF NoneShared
<1> QED BY <1>11, <1>12 DEF t

LEMMA HeldIsMade ==
  ASSUME NEW l, NEW s, NoneShared(l, s), NEW f \in Instance
  PROVE  /\ l \in Seq(Nat) /\ Len(l) \in Nat
         /\ Holds(s[f]) \in SUBSET (1..Len(l))
         /\ s[f] # None => s[f] \in Objects(l) /\ s[f] \in [Slot -> Nat \cup {None}]
<1>1. l \in Seq(Nat) /\ Len(l) \in Nat
  BY LenProperties DEF NoneShared
<1>2. s[f] = None \/ s[f] \in [Slot -> (1..Len(l)) \cup {None}]
  BY DEF NoneShared, Objects
<1>3. s[f] # None => s[f] \in [Slot -> Nat \cup {None}]
  <2>1. 1..Len(l) \subseteq Nat
    BY <1>1
  <2> QED BY <1>2, <2>1
<1>4. Holds(s[f]) \in SUBSET (1..Len(l))
  BY <1>2 DEF Holds, Refs
<1> QED BY <1>1, <1>2, <1>3, <1>4 DEF Objects

LEMMA BatchSize ==
  ASSUME NEW f \in Instance, NEW batch \in Batches(f)
  PROVE  /\ state[f] # None
         /\ batch \in Seq(Updating(Refs(state[f]))) /\ Len(batch) \in 1..2
         /\ AllButLast(batch) \in Seq(Updating(Refs(state[f])))
         /\ Len(AllButLast(batch)) \in 0..2
<1> DEFINE U == Updating(Refs(state[f]))
<1>1. Operation(state[f]) = U
  BY DEF Operation, Updating, Refs
<1>2. state[f] # None /\ batch \in {<<a>> : a \in U} \cup (U \X U)
  BY <1>1 DEF Batches
<1> HIDE DEF U
<1>3. batch \in Seq(U) /\ Len(batch) \in 1..2
  <2>1. CASE batch \in {<<a>> : a \in U}
    <3>1. PICK a \in U : batch = <<a>>
      BY <2>1
    <3> QED BY <3>1
  <2>2. CASE batch \in U \X U
    <3>1. PICK a \in U, b \in U : batch = <<a, b>>
      BY <2>2
    <3> QED BY <3>1
  <2> QED BY <1>2, <2>1, <2>2
<1>4. AllButLast(batch) \in Seq(U) /\ Len(AllButLast(batch)) = Len(batch) - 1
  <2>1. 1 \in 1..Len(batch) + 1 /\ Len(batch) - 1 \in 0..Len(batch)
    BY <1>3
  <2> QED BY <1>3, <2>1, SubSeqProperties DEF AllButLast
<1> QED BY <1>2, <1>3, <1>4 DEF U

LEMMA ObjectsInitInv ==
  ASSUME ObjectsInit PROVE ObjectsInv
<1>1. length \in Seq(Nat) /\ default \in Objects(length)
  <2>1. PICK y \in {TRUE, FALSE} :
          /\ length = IF y THEN <<0>> ELSE <<>>
          /\ default = [Nothing EXCEPT !["state.y"] = IF y THEN 1 ELSE None]
    BY DEF ObjectsInit
  <2>2. "state.y" \in Slot
    BY DEF Slot
  <2>3. Nothing \in [Slot -> {None}]
    BY DEF Nothing
  <2>4. CASE y
    <3>1. length = <<0>> /\ Len(length) = 1 /\ length \in Seq(Nat)
      BY <2>1, <2>4
    <3>2. default = [Nothing EXCEPT !["state.y"] = 1]
      BY <2>1, <2>4
    <3> QED BY <2>2, <2>3, <3>1, <3>2 DEF Objects
  <2>5. CASE ~ y
    <3>1. length = <<>> /\ length \in Seq(Nat)
      BY <2>1, <2>5
    <3>2. default = [Nothing EXCEPT !["state.y"] = None]
      BY <2>1, <2>5
    <3> QED BY <2>2, <2>3, <3>1, <3>2 DEF Objects
  <2> QED BY <2>4, <2>5
<1>2. state = [f \in Instance |-> None]
  BY DEF ObjectsInit
<1>3. \A f \in Instance : state[f] = None /\ Holds(state[f]) = {}
  BY <1>2 DEF Holds
<1>4. state \in [Instance -> {None} \cup [Slot -> Nat \cup {None}]]
  BY <1>2
<1> QED BY <1>1, <1>3, <1>4 DEF ObjectsInv, NoneShared

(* What a step of f does: the others read what they read.                  *)
Contained(f, l2, s2) ==
  /\ NoneShared(l2, s2)
  /\ \A g \in Instance : g # f => Seen(s2[g], l2) = Seen(state[g], length)

LEMMA StartContained ==
  ASSUME Reload, ObjectsInv, NEW f \in Instance, Start(f)
  PROVE  Contained(f, length', state') /\ default' = default /\ Len(length') >= Len(length)
<1>0. NoneShared(length, state) /\ default \in [Slot -> (1..Len(length)) \cup {None}]
  BY DEF ObjectsInv, Objects
<1>1. length \in Seq(Nat) /\ Len(length) \in Nat
  BY <1>0, HeldIsMade
<1> DEFINE own == Copied(default, length)
           with == [q \in Slot |-> IF q \in Given THEN Len(own.lists) + 1 ELSE own.state[q]]
<1>2. /\ own.lists \in Seq(Nat) /\ Len(own.lists) >= Len(length)
      /\ \A i \in 1..Len(length) : own.lists[i] = length[i]
      /\ own.state \in [Slot -> (1..Len(own.lists)) \cup {None}]
      /\ \A q \in Slot : own.state[q] = None \/ own.state[q] > Len(length)
  <2> HIDE DEF own
  <2>1. own = Copied(default, length)
    BY DEF own
  <2> QED BY <1>0, <1>1, <2>1, CopiedApart
<1>3. state[f] = None /\ default' = default
      /\ \/ state' = [state EXCEPT ![f] = own.state] /\ length' = own.lists
         \/ state' = [state EXCEPT ![f] = with] /\ length' = Append(own.lists, 1)
  BY DEF Start
<1> HIDE DEF own
<1>4. Len(own.lists) \in Nat /\ Holds(state[f]) = {}
  BY <1>2, <1>3, LenProperties DEF Holds
<1>5. CASE state' = [state EXCEPT ![f] = own.state] /\ length' = own.lists
  <2>1. own.state \in Objects(own.lists)
    BY <1>2 DEF Objects
  <2>2. \A q \in Slot : own.state[q] = None \/ own.state[q] \in Len(length) + 1 .. Len(own.lists)
    BY <1>1, <1>2, <1>4
  <2>3. /\ NoneShared(own.lists, [state EXCEPT ![f] = own.state])
        /\ \A g \in Instance : g # f => Seen(state[g], own.lists) = Seen(state[g], length)
    BY <1>0, <1>2, <2>1, <2>2, OneChanges
  <2>4. \A g \in Instance : g # f => state'[g] = state[g]
    BY <1>0, <1>5 DEF NoneShared
  <2> QED BY <1>2, <1>3, <1>5, <2>3, <2>4 DEF Contained
<1>6. CASE state' = [state EXCEPT ![f] = with] /\ length' = Append(own.lists, 1)
  <2> DEFINE l2 == Append(own.lists, 1)
  <2>1. /\ l2 \in Seq(Nat) /\ Len(l2) = Len(own.lists) + 1
        /\ \A i \in 1..Len(own.lists) : l2[i] = own.lists[i]
    BY <1>2, AppendProperties
  <2>2. \A q \in Slot : with[q] = Len(own.lists) + 1 \/ with[q] = own.state[q]
    OBVIOUS
  <2>3. with \in [Slot -> (1..Len(l2)) \cup {None}]
    BY <1>2, <1>4, <2>1
  <2> HIDE DEF l2, with
  <2>4. with \in Objects(l2)
    BY <2>3 DEF Objects
  <2>5. \A q \in Slot : with[q] = None \/ with[q] \in Len(length) + 1 .. Len(l2)
    BY <1>1, <1>2, <1>4, <2>1, <2>2
  <2>6. Len(l2) >= Len(length) /\ \A i \in 1..Len(length) : l2[i] = length[i]
    <3>1. 1..Len(length) \subseteq 1..Len(own.lists)
      BY <1>1, <1>2, <1>4
    <3>2. Len(l2) >= Len(length)
      BY <1>1, <1>2, <1>4, <2>1
    <3> QED BY <1>2, <2>1, <3>1, <3>2
  <2>7. /\ NoneShared(l2, [state EXCEPT ![f] = with])
        /\ \A g \in Instance : g # f => Seen(state[g], l2) = Seen(state[g], length)
    BY <1>0, <2>1, <2>4, <2>5, <2>6, OneChanges
  <2>8. \A g \in Instance : g # f => state'[g] = state[g]
    BY <1>0, <1>6 DEF NoneShared
  <2>9. length' = l2
    BY <1>6 DEF l2
  <2> QED BY <1>3, <1>6, <2>6, <2>7, <2>8, <2>9 DEF Contained
<1> QED BY <1>3, <1>5, <1>6

LEMMA UpdateContained ==
  ASSUME ObjectsInv, NEW f \in Instance, UpdateState(f)
  PROVE  Contained(f, length', state') /\ default' = default /\ Len(length') >= Len(length)
<1> DEFINE o == Refs(state[f])
           h == [lists |-> length, state |-> state[f]]
<1>1. PICK batch \in Batches(f) :
        /\ length' = Done(h, batch).lists
        /\ state' = [state EXCEPT ![f] = Done(h, batch).state]
        /\ default' = default
  BY DEF UpdateState, BatchOf
<1>2. state[f] # None /\ batch \in Seq(Updating(o)) /\ Len(batch) \in 0..2
  BY BatchSize
<1>3. NoneShared(length, state) /\ Holds(state[f]) = o
  BY <1>2 DEF ObjectsInv, Holds
<1>4. /\ length \in Seq(Nat) /\ Len(length) \in Nat /\ o \in SUBSET (1..Len(length))
      /\ state[f] \in [Slot -> Nat \cup {None}]
  BY <1>2, <1>3, HeldIsMade
<1>5. Mine(h, o, length)
  <2>1. h \in Heap /\ h.lists = length /\ h.state = state[f]
    BY <1>4 DEF Heap
  <2>2. \A q \in Slot : state[f][q] = None \/ state[f][q] \in o
    BY DEF Refs
  <2> HIDE DEF h, o
  <2> QED BY <1>4, <2>1, <2>2 DEF Mine
<1> DEFINE end == Done(h, batch)
<1> HIDE DEF h, o
<1>6. Mine(end, o, length)
  BY <1>2, <1>4, <1>5, DoneMine
<1> HIDE DEF end
<1>7. /\ end \in Heap /\ Len(end.lists) >= Len(length)
      /\ \A i \in 1..Len(length) : i \in o \/ end.lists[i] = length[i]
      /\ \A q \in Slot : end.state[q] = None \/ end.state[q] \in o
                           \/ end.state[q] \in Len(length) + 1 .. Len(end.lists)
  BY <1>6 DEF Mine
<1>8. /\ end.lists \in Seq(Nat) /\ Len(end.lists) \in Nat
      /\ end.state \in [Slot -> Nat \cup {None}]
  BY <1>7, HeapParts
<1>9. end.state \in Objects(end.lists)
  <2>1. \A q \in Slot : end.state[q] = None \/ end.state[q] \in 1..Len(end.lists)
    BY <1>4, <1>7, <1>8
  <2> QED BY <1>8, <2>1 DEF Objects
<1>10. /\ NoneShared(end.lists, [state EXCEPT ![f] = end.state])
       /\ \A g \in Instance : g # f => Seen(state[g], end.lists) = Seen(state[g], length)
  BY <1>3, <1>7, <1>8, <1>9, OneChanges
<1>11. length' = end.lists /\ state' = [state EXCEPT ![f] = end.state]
  BY <1>1 DEF end
<1>12. \A g \in Instance : g # f => state'[g] = state[g]
  BY <1>3, <1>11 DEF NoneShared
<1> QED BY <1>1, <1>7, <1>10, <1>11, <1>12 DEF Contained

(* The copy that replaces the state was made before the batch, and nothing *)
(* of the batch can reach its lists.                                       *)
LEMMA FailContained ==
  ASSUME ObjectsInv, NEW f \in Instance, Fail(f)
  PROVE  /\ Contained(f, length', state') /\ default' = default /\ Len(length') >= Len(length)
         /\ Seen(state'[f], length') = Seen(state[f], length)
<1> DEFINE o == Refs(state[f])
           backup == Copied(state[f], length)
           h == [lists |-> backup.lists, state |-> state[f]]
<1>1. PICK batch \in Batches(f) :
        /\ length' = Done(h, AllButLast(batch)).lists
        /\ state' = [state EXCEPT ![f] = backup.state]
        /\ default' = default
  BY DEF Fail, BatchOf
<1> DEFINE done == AllButLast(batch)
           part == Done(h, done)
<1>2. state[f] # None /\ done \in Seq(Updating(o)) /\ Len(done) \in 0..2
  BY BatchSize
<1> HIDE DEF done
<1>3. NoneShared(length, state) /\ Holds(state[f]) = o
  BY <1>2 DEF ObjectsInv, Holds
<1>4. /\ length \in Seq(Nat) /\ Len(length) \in Nat /\ o \in SUBSET (1..Len(length))
      /\ state[f] \in [Slot -> Nat \cup {None}]
      /\ state[f] \in [Slot -> (1..Len(length)) \cup {None}]
  BY <1>2, <1>3, HeldIsMade DEF Objects
<1>5. /\ backup.lists \in Seq(Nat) /\ Len(backup.lists) >= Len(length)
      /\ \A i \in 1..Len(length) : backup.lists[i] = length[i]
      /\ backup.state \in [Slot -> (1..Len(backup.lists)) \cup {None}]
      /\ \A q \in Slot : backup.state[q] = None \/ backup.state[q] > Len(length)
      /\ \A q \in Slot : state[f][q] = None <=> backup.state[q] = None
      /\ \A q \in Slot : state[f][q] # None => backup.lists[backup.state[q]] = length[state[f][q]]
  <2> DEFINE s == state[f]
  <2>1. s \in [Slot -> (1..Len(length)) \cup {None}] /\ backup = Copied(s, length)
    BY <1>4
  <2> HIDE DEF s, backup
  <2>2. /\ backup.lists \in Seq(Nat) /\ Len(backup.lists) >= Len(length)
        /\ \A i \in 1..Len(length) : backup.lists[i] = length[i]
        /\ backup.state \in [Slot -> (1..Len(backup.lists)) \cup {None}]
        /\ \A q \in Slot : backup.state[q] = None \/ backup.state[q] > Len(length)
        /\ \A q \in Slot : s[q] = None <=> backup.state[q] = None
        /\ \A q \in Slot : s[q] # None => backup.lists[backup.state[q]] = length[s[q]]
    BY <1>4, <2>1, CopiedApart
  <2> QED BY <2>2 DEF s
<1> HIDE DEF backup
<1>6. Len(backup.lists) \in Nat
  BY <1>5, LenProperties
<1>7. o \in SUBSET (1..Len(backup.lists))
  BY <1>4, <1>5, <1>6
<1>8. Mine(h, o, backup.lists)
  <2>1. h \in Heap /\ h.lists = backup.lists /\ h.state = state[f]
    BY <1>4, <1>5 DEF Heap
  <2>2. \A q \in Slot : state[f][q] = None \/ state[f][q] \in o
    BY DEF Refs
  <2> HIDE DEF h, o
  <2> QED BY <1>6, <2>1, <2>2 DEF Mine
<1> HIDE DEF h, o
<1>9. Mine(part, o, backup.lists)
  BY <1>2, <1>5, <1>7, <1>8, DoneMine
<1> HIDE DEF part
<1>10. /\ part \in Heap /\ Len(part.lists) >= Len(backup.lists)
       /\ \A i \in 1..Len(backup.lists) : i \in o \/ part.lists[i] = backup.lists[i]
  BY <1>9 DEF Mine
<1>11. part.lists \in Seq(Nat) /\ Len(part.lists) \in Nat
  BY <1>10, HeapParts
<1>12. \A i \in 1..Len(length) : i \in o \/ part.lists[i] = length[i]
  BY <1>4, <1>5, <1>6, <1>10
<1>13. backup.state \in Objects(part.lists)
  <2>1. 1..Len(backup.lists) \subseteq 1..Len(part.lists)
    BY <1>6, <1>10, <1>11
  <2> QED BY <1>5, <2>1 DEF Objects
<1>14. \A q \in Slot : backup.state[q] = None \/ backup.state[q] \in Len(length) + 1 .. Len(part.lists)
  <2> SUFFICES ASSUME NEW q \in Slot, backup.state[q] # None
               PROVE  backup.state[q] \in Len(length) + 1 .. Len(part.lists)
    OBVIOUS
  <2>1. backup.state[q] \in 1..Len(backup.lists) /\ backup.state[q] > Len(length)
    BY <1>5
  <2> QED BY <1>4, <1>6, <1>10, <1>11, <2>1
<1>15. Len(part.lists) >= Len(length)
  BY <1>4, <1>5, <1>6, <1>10, <1>11
<1>16. /\ NoneShared(part.lists, [state EXCEPT ![f] = backup.state])
       /\ \A g \in Instance : g # f => Seen(state[g], part.lists) = Seen(state[g], length)
  BY <1>3, <1>11, <1>12, <1>13, <1>14, <1>15, OneChanges
<1>17. length' = part.lists /\ state' = [state EXCEPT ![f] = backup.state]
  BY <1>1 DEF part, done
<1>18. state'[f] = backup.state /\ \A g \in Instance : g # f => state'[g] = state[g]
  BY <1>3, <1>17 DEF NoneShared
<1>19. Seen(backup.state, part.lists) = Seen(state[f], length)
  <2>0. None \notin [Slot -> Nat \cup {None}]
    BY ObjectsAssumption
  <2>1. backup.state # None
    <3>1. 1..Len(backup.lists) \subseteq Nat
      OBVIOUS
    <3>2. backup.state \in [Slot -> Nat \cup {None}]
      BY <1>5, <3>1
    <3> QED BY <2>0, <3>2
  <2>2. ASSUME NEW q \in Slot, state[f][q] # None
        PROVE  part.lists[backup.state[q]] = length[state[f][q]]
    <3>1. backup.state[q] \in 1..Len(backup.lists) /\ backup.state[q] > Len(length)
      BY <1>5, <2>2
    <3>2. backup.state[q] \notin o
      BY <1>4, <3>1
    <3> QED BY <1>5, <1>10, <2>2, <3>1, <3>2
  <2>3. \A q \in Slot : state[f][q] = None <=> backup.state[q] = None
    BY <1>5
  <2> QED BY <1>2, <2>1, <2>2, <2>3 DEF Seen
<1> QED BY <1>1, <1>15, <1>16, <1>17, <1>18, <1>19 DEF Contained

LEMMA ObjectsStep ==
  ASSUME Reload, ObjectsInv, [ObjectsNext]_objectVars
  PROVE  /\ ObjectsInv'
         /\ [\A f \in Instance : View(f)' # View(f) => actor' = f /\ ~failed']_objectVars
<1>1. CASE UNCHANGED objectVars
  <2>1. length' = length /\ state' = state /\ default' = default
    BY <1>1 DEF objectVars
  <2> QED BY <1>1, <2>1 DEF ObjectsInv
<1>2. ASSUME NEW f \in Instance, Start(f) \/ UpdateState(f) \/ Fail(f)
      PROVE  /\ ObjectsInv'
             /\ \A g \in Instance : View(g)' # View(g) => actor' = g /\ ~failed'
  <2>1. /\ Contained(f, length', state') /\ default' = default /\ Len(length') >= Len(length)
        /\ Fail(f) => Seen(state'[f], length') = Seen(state[f], length)
    BY <1>2, StartContained, UpdateContained, FailContained
  <2>2. ObjectsInv'
    <3>1. /\ NoneShared(length, state) /\ default \in [Slot -> (1..Len(length)) \cup {None}]
          /\ NoneShared(length', state')
      BY <2>1 DEF ObjectsInv, Objects, Contained
    <3>2. Len(length) \in Nat /\ length' \in Seq(Nat)
      BY <3>1, LenProperties DEF NoneShared
    <3>3. Len(length') \in Nat
      BY <3>2, LenProperties
    <3>4. 1..Len(length) \subseteq 1..Len(length')
      BY <2>1, <3>2, <3>3
    <3>5. default' \in [Slot -> (1..Len(length')) \cup {None}]
      BY <2>1, <3>1, <3>4
    <3> QED BY <3>1, <3>5 DEF ObjectsInv, Objects
  <2>3. \A g \in Instance : View(g) = Seen(state[g], length) /\ View(g)' = Seen(state'[g], length')
    BY DEF View, Seen
  <2>4. \A g \in Instance : g # f => View(g)' = View(g)
    BY <2>1, <2>3 DEF Contained
  <2>5. actor' = f /\ (failed' => Fail(f))
    <3>1. CASE Start(f)
      BY <3>1 DEF Start
    <3>2. CASE UpdateState(f)
      BY <3>2 DEF UpdateState, BatchOf
    <3>3. CASE Fail(f)
      BY <3>3 DEF Fail, BatchOf
    <3> QED BY <1>2, <3>1, <3>2, <3>3
  <2> QED BY <2>1, <2>2, <2>3, <2>4, <2>5
<1> QED BY <1>1, <1>2 DEF ObjectsNext

(* UpdatesContained, where each start loads the definition: a step of one  *)
(* workflow changes nothing that another one reads, and a batch that fails *)
(* changes nothing that its own workflow reads.                            *)
THEOREM UpdatesAreContained ==
  ASSUME Reload
  PROVE  ObjectsSpec => UpdatesContained
<1>1. ObjectsInit => ObjectsInv
  BY ObjectsInitInv
<1>2. ObjectsInv /\ [ObjectsNext]_objectVars => ObjectsInv'
  BY ObjectsStep
<1>3. ObjectsInv /\ [ObjectsNext]_objectVars
        => [\A f \in Instance : View(f)' # View(f) => actor' = f /\ ~failed']_objectVars
  BY ObjectsStep
<1> QED BY <1>1, <1>2, <1>3, PTL DEF ObjectsSpec, UpdatesContained

-----------------------------------------------------------------------------
(***************************************************************************)
(* The computed fields: computing some of them leaves each with the value  *)
(* that what is there now gives.                                           *)
(***************************************************************************)

(* A set of numbers that is not empty has a least one.                     *)
LEMMA Least ==
  ASSUME NEW T, T \subseteq Nat, T # {}
  PROVE  \E n \in T : \A m \in T : n <= m
<1>1. PICK n \in T : \A m \in T : ~ (<<m, n>> \in OpToRel(<, Nat))
  BY WFMin, NatLessThanWellFounded, Zenon
<1>2. \A m \in T : m \in Nat /\ n \in Nat /\ ~ (m < n)
  BY <1>1 DEF OpToRel
<1> QED BY <1>2

(* What holds of 0, and of each number up to n if it holds of the one      *)
(* before it, holds of all of them.                                        *)
LEMMA UpTo ==
  ASSUME NEW n \in Nat, NEW B, 0 \in B, \A i \in 1..n : i - 1 \in B => i \in B
  PROVE  \A i \in 0..n : i \in B
<1>1. SUFFICES ASSUME NEW b \in 0..n, b \notin B PROVE FALSE
  OBVIOUS
<1> DEFINE Bad == {i \in 0..n : i \notin B}
<1>2. PICK m \in Bad : \A i \in Bad : m <= i
  <2>1. Bad \subseteq Nat /\ Bad # {}
    BY <1>1
  <2> QED BY <2>1, Least
<1>3. m \in 1..n
  OBVIOUS
<1>4. m - 1 \in B
  BY <1>2, <1>3
<1> QED BY <1>3, <1>4

-----------------------------------------------------------------------------
Values == SUBSET (({"inputs", "state"} \X (0..MaxUpdates)) \cup Missing \cup Fallback)
Places == [{"inputs", "state"} -> 0..MaxUpdates]
Progress == [ended : BOOLEAN, c : [Field -> Values]]

LEMMA ResultTyped ==
  ASSUME graph \in [Field -> SUBSET Field], NEW f \in Field, NEW values \in Places,
         NEW c \in [Field -> Values]
  PROVE  Result(f, values, c) \in Values
<1>1. UNION {c[g] : g \in graph[f]} \in Values
  BY DEF Values
<1>2. \A p \in From[f] : Place(p) \in {"inputs", "state"}
  BY DEF Place
<1>3. {<<Place(p), values[Place(p)]>> : p \in From[f]} \in Values
  BY <1>2 DEF Values, Places
<1>4. \A v \in Values, w \in Values : v \cup w \in Values
  BY DEF Values
<1> QED BY <1>1, <1>3, <1>4 DEF Result

(* What the next field makes of the values so far: it changes its own only.*)
LEMMA NextComputed ==
  ASSUME graph \in [Field -> SUBSET Field], NEW fields, NEW bad, NEW values \in Places,
         NEW a \in Progress, NEW f \in Field
  PROVE  LET b == ComputeNext(fields, values, bad, a, f)
         IN  /\ b \in Progress
             /\ \A g \in Field : g # f => b.c[g] = a.c[g]
             /\ a.ended \/ f \notin fields => b = a
             /\ ~b.ended /\ f \in fields /\ f \notin bad => b.c[f] = Result(f, values, a.c)
<1> DEFINE b == ComputeNext(fields, values, bad, a, f)
<1>1. a.c \in [Field -> Values] /\ a.ended \in BOOLEAN
  BY DEF Progress
<1>2. CASE a.ended \/ f \notin fields
  <2>1. b = a
    BY <1>2 DEF ComputeNext
  <2> HIDE DEF b
  <2> QED BY <1>2, <2>1 DEF b
<1>3. CASE ~a.ended /\ f \in fields /\ f \notin bad
  <2> DEFINE v == Result(f, values, a.c)
  <2>1. b = [a EXCEPT !.c[f] = v]
    BY <1>3 DEF ComputeNext
  <2>2. v \in Values
    BY <1>1, ResultTyped
  <2> HIDE DEF b, v
  <2>3. b = [a EXCEPT !.c = [a.c EXCEPT ![f] = v]]
    BY <2>1
  <2>4. b.c = [a.c EXCEPT ![f] = v] /\ b \in Progress
    BY <2>2, <2>3, <1>1 DEF Progress
  <2> QED BY <1>1, <1>3, <2>4 DEF b, v
<1>4. CASE ~a.ended /\ f \in fields /\ f \in bad /\ OnError[f] = "propagate"
  <2>1. b = [a EXCEPT !.ended = TRUE]
    BY <1>4 DEF ComputeNext
  <2> HIDE DEF b
  <2>2. b \in Progress /\ b.c = a.c
    BY <2>1 DEF Progress
  <2> QED BY <1>4, <2>2 DEF b
<1>5. CASE ~a.ended /\ f \in fields /\ f \in bad /\ OnError[f] # "propagate"
  <2> DEFINE v == IF OnError[f] = "ignore" THEN Missing ELSE Fallback
  <2>1. b = [a EXCEPT !.c[f] = v]
    BY <1>5 DEF ComputeNext
  <2>2. v \in Values
    BY DEF Values
  <2> HIDE DEF b, v
  <2>3. b = [a EXCEPT !.c = [a.c EXCEPT ![f] = v]]
    BY <2>1
  <2>4. b.c = [a.c EXCEPT ![f] = v] /\ b \in Progress
    BY <2>2, <2>3, <1>1 DEF Progress
  <2> QED BY <1>1, <1>5, <2>4 DEF b
<1> QED BY <1>2, <1>3, <1>4, <1>5

(* The values after each of the fields in the order found.                 *)
Computation(fields, values, bad, c, p) ==
  /\ p \in [0..Len(result) -> Progress]
  /\ p[0] = [ended |-> FALSE, c |-> c]
  /\ \A i \in 1..Len(result) : p[i] = ComputeNext(fields, values, bad, p[i - 1], result[i])
  /\ Compute(fields, values, bad, c) = p[Len(result)]

LEMMA ComputationExists ==
  ASSUME graph \in [Field -> SUBSET Field], result \in Seq(Field), NEW fields, NEW bad,
         NEW values \in Places, NEW c \in [Field -> Values]
  PROVE  \E p : Computation(fields, values, bad, c, p)
<1> DEFINE n == Len(result)
           base == [ended |-> FALSE, c |-> c]
           Nx(a, i) == ComputeNext(fields, values, bad, a, result[i])
<1>0. n \in Nat /\ (\A i \in 1..n : result[i] \in Field) /\ base \in Progress
  BY LenProperties, ElementOfSeq DEF Progress
<1>1. \A i \in 1..n : \A a \in Progress : Nx(a, i) \in Progress
  BY <1>0, NextComputed
<1> DEFINE Upto(i, p) == /\ p \in [0..i -> Progress] /\ p[0] = base
                         /\ \A j \in 1..i : p[j] = Nx(p[j - 1], j)
           B == {i \in 0..n : \E p : Upto(i, p)}
<1>2. 0 \in B
  <2> HIDE DEF n, base, Nx
  <2> DEFINE p == [i \in 0..0 |-> base]
  <2>1. p \in [0..0 -> Progress] /\ p[0] = base /\ \A j \in 1..0 : FALSE
    BY <1>0
  <2>2. Upto(0, p)
    BY <2>1
  <2> HIDE DEF Upto, p
  <2>3. 0 \in 0..n
    BY <1>0
  <2> QED BY <2>2, <2>3
<1>3. ASSUME NEW i \in 1..n, i - 1 \in B PROVE i \in B
  <2> HIDE DEF n, base, Nx
  <2>1. PICK p : Upto(i - 1, p)
    BY <1>3
  <2> DEFINE q == [k \in 0..i |-> IF k = i THEN Nx(p[i - 1], i) ELSE p[k]]
  <2>2. i - 1 \in 0..i - 1 /\ i \in 0..n /\ p[i - 1] \in Progress
    BY <1>0, <2>1
  <2>3. Nx(p[i - 1], i) \in Progress
    BY <1>1, <2>2
  <2>4. \A k \in 0..i : k # i => k \in 0..i - 1
    BY <1>0
  <2>5. q \in [0..i -> Progress]
    BY <2>1, <2>3, <2>4
  <2>6. q[0] = base
    BY <1>0, <2>1
  <2>7. ASSUME NEW j \in 1..i PROVE q[j] = Nx(q[j - 1], j)
    <3>1. j - 1 \in 0..i /\ j - 1 # i /\ q[j - 1] = p[j - 1]
      BY <1>0
    <3>2. CASE j = i
      BY <3>1, <3>2
    <3>3. CASE j # i
      <4>1. j \in 1..i - 1
        BY <1>0, <3>3
      <4> QED BY <2>1, <3>1, <3>3, <4>1
    <3> QED BY <3>2, <3>3
  <2>8. Upto(i, q)
    BY <2>5, <2>6, <2>7
  <2> QED BY <2>2, <2>8
<1>4. \A i \in 0..n : i \in B
  <2> HIDE DEF B, n
  <2> QED BY <1>0, <1>2, <1>3, UpTo
<1>5. PICK g : Upto(n, g)
  <2>1. n \in B
    <3> HIDE DEF B, n
    <3> QED BY <1>0, <1>4
  <2> HIDE DEF Upto
  <2> QED BY <2>1
<1> DEFINE R(h) == h = [i \in 0..n |-> IF i = 0 THEN base ELSE Nx(h[i - 1], i)]
           p == CHOOSE h : R(h)
<1>6. Compute(fields, values, bad, c) = p[n]
  BY DEF Compute
<1>7. R(g)
  <2> HIDE DEF n, base, Nx
  <2> QED BY <1>0, <1>5
<1>8. R(p)
  BY <1>7
<1>9. p[0] = base /\ DOMAIN p = 0..n /\ \A i \in 1..n : p[i] = Nx(p[i - 1], i)
  <2> HIDE DEF n, base, Nx, p
  <2>1. 0 \in 0..n /\ \A i \in 1..n : i \in 0..n /\ i # 0
    BY <1>0
  <2> QED BY <1>8, <2>1
<1>10. \A i \in 0..n : p[i] \in Progress
  <2> DEFINE C == {i \in 0..n : p[i] \in Progress}
  <2>1. 0 \in C
    <3> HIDE DEF n, base, Nx, p
    <3> QED BY <1>0, <1>9
  <2>2. ASSUME NEW i \in 1..n, i - 1 \in C PROVE i \in C
    <3> HIDE DEF n, base, Nx, p
    <3> QED BY <1>0, <1>1, <1>9, <2>2
  <2>3. \A i \in 0..n : i \in C
    <3> HIDE DEF C, n
    <3> QED BY <1>0, <2>1, <2>2, UpTo
  <2> QED BY <2>3
<1>11. p \in [0..n -> Progress]
  <2> HIDE DEF n, base, Nx, p
  <2>1. p = [i \in 0..n |-> p[i]]
    BY <1>8
  <2> QED BY <1>10, <2>1
<1>12. Computation(fields, values, bad, c, p)
  <2> HIDE DEF p
  <2> QED BY <1>6, <1>9, <1>11 DEF Computation
<1> QED BY <1>12

(* What has been computed is never computed again, and what it depends on  *)
(* was computed before.                                                    *)
LEMMA ComputedRight ==
  ASSUME OrderTypeOK, SortedOK, phase = "resolved", NEW fields, NEW bad, NEW values \in Places,
         NEW c \in [Field -> Values], NEW p, Computation(fields, values, bad, c, p),
         ~p[Len(result)].ended
  PROVE  \A f \in Field :
           /\ f \notin fields => p[Len(result)].c[f] = c[f]
           /\ f \in fields /\ f \notin bad =>
                p[Len(result)].c[f] = Result(f, values, p[Len(result)].c)
<1> DEFINE n == Len(result)
<1>0. /\ n \in Nat /\ DOMAIN result = 1..n /\ (\A i \in 1..n : result[i] \in Field)
      /\ graph \in [Field -> SUBSET Field]
  BY LenProperties, ElementOfSeq, Graphs DEF OrderTypeOK
<1>1. /\ \A i, j \in 1..n : result[i] = result[j] => i = j
      /\ \A i \in 1..n : \A g \in graph[result[i]] : \E j \in 1..(i - 1) : result[j] = g
      /\ \A f \in Field : \E i \in 1..n : result[i] = f
  BY <1>0 DEF SortedOK, Sorted
<1>2. /\ p \in [0..n -> Progress] /\ p[0] = [ended |-> FALSE, c |-> c]
      /\ \A i \in 1..n : p[i] = ComputeNext(fields, values, bad, p[i - 1], result[i])
  BY DEF Computation
<1> HIDE DEF n
<1>3. ASSUME NEW i \in 1..n
      PROVE  /\ p[i] \in Progress /\ p[i - 1] \in Progress
             /\ \A g \in Field : g # result[i] => p[i].c[g] = p[i - 1].c[g]
             /\ p[i - 1].ended \/ result[i] \notin fields => p[i] = p[i - 1]
             /\ ~p[i].ended /\ result[i] \in fields /\ result[i] \notin bad =>
                  p[i].c[result[i]] = Result(result[i], values, p[i - 1].c)
  <2>1. i - 1 \in 0..n /\ i \in 0..n
    BY <1>0
  <2>2. p[i - 1] \in Progress /\ p[i] \in Progress /\ result[i] \in Field
    BY <1>0, <1>2, <2>1
  <2> QED BY <1>0, <1>2, <2>2, NextComputed
(* Nothing was ended before.                                               *)
<1>4. \A i \in 0..n : ~p[i].ended
  <2> DEFINE B == {i \in 0..n : \A k \in 0..i : p[k].ended => p[i].ended}
  <2>1. 0 \in B
    BY <1>0
  <2>2. ASSUME NEW i \in 1..n, i - 1 \in B PROVE i \in B
    <3>1. p[i - 1].ended => p[i].ended
      BY <1>3
    <3>2. \A k \in 0..i : k = i \/ k \in 0..(i - 1)
      BY <1>0
    <3>3. i \in 0..n
      BY <1>0
    <3> QED BY <2>2, <3>1, <3>2, <3>3
  <2>3. n \in 0..n /\ \A i \in 0..n : i \in B
    <3> HIDE DEF B
    <3> QED BY <1>0, <2>1, <2>2, UpTo
  <2>4. ~p[n].ended
    BY DEF n
  <2> QED BY <2>3, <2>4
(* A field keeps its value until it is computed.                           *)
<1>5. \A i \in 0..n : \A j \in 0..i : \A g \in Field :
        (\A k \in j + 1..i : result[k] # g) => p[i].c[g] = p[j].c[g]
  <2> DEFINE B == {i \in 0..n : \A j \in 0..i : \A g \in Field :
                     (\A k \in j + 1..i : result[k] # g) => p[i].c[g] = p[j].c[g]}
  <2>1. 0 \in B
    BY <1>0
  <2>2. ASSUME NEW i \in 1..n, i - 1 \in B PROVE i \in B
    <3>1. SUFFICES ASSUME NEW j \in 0..i, NEW g \in Field, \A k \in j + 1..i : result[k] # g
                   PROVE  p[i].c[g] = p[j].c[g]
      BY <1>0
    <3>2. CASE j = i
      BY <3>2
    <3>3. CASE j # i
      <4>1. j \in 0..(i - 1) /\ i \in j + 1..i /\ \A k \in j + 1..(i - 1) : k \in j + 1..i
        BY <1>0, <3>3
      <4>2. p[i - 1].c[g] = p[j].c[g]
        BY <2>2, <3>1, <4>1
      <4>3. p[i].c[g] = p[i - 1].c[g]
        BY <1>3, <3>1, <4>1
      <4> QED BY <4>2, <4>3
    <3> QED BY <3>2, <3>3
  <2>3. \A i \in 0..n : i \in B
    <3> HIDE DEF B
    <3> QED BY <1>0, <2>1, <2>2, UpTo
  <2> QED BY <2>3
<1>6. ASSUME NEW i \in 1..n PROVE p[n].c[result[i]] = p[i].c[result[i]]
  <2>1. i \in 0..n /\ n \in 0..n /\ \A k \in i + 1..n : k \in 1..n /\ k # i
    BY <1>0
  <2>2. \A k \in i + 1..n : result[k] # result[i]
    BY <1>1, <2>1
  <2> QED BY <1>0, <1>5, <2>1, <2>2
<1>7. ASSUME NEW f \in Field
      PROVE  /\ f \notin fields => p[n].c[f] = c[f]
             /\ f \in fields /\ f \notin bad => p[n].c[f] = Result(f, values, p[n].c)
  <2>1. PICK i \in 1..n : result[i] = f
    BY <1>1
  <2>2. ASSUME f \notin fields PROVE p[n].c[f] = c[f]
    <3>1. p[i].c[f] = p[i - 1].c[f]
      BY <1>3, <2>1, <2>2
    <3>2. i - 1 \in 0..n /\ 0 \in 0..(i - 1) /\ \A k \in 0 + 1..(i - 1) : k \in 1..n /\ k # i
      BY <1>0
    <3>3. \A k \in 0 + 1..(i - 1) : result[k] # f
      BY <1>1, <2>1, <3>2
    <3>4. p[i - 1].c[f] = p[0].c[f]
      BY <1>5, <3>2, <3>3
    <3> QED BY <1>2, <1>6, <2>1, <3>1, <3>4
  <2>3. ASSUME f \in fields, f \notin bad PROVE p[n].c[f] = Result(f, values, p[n].c)
    <3>1. p[n].c[f] = Result(f, values, p[i - 1].c)
      <4>1. i \in 0..n
        BY <1>0
      <4> QED BY <1>3, <1>4, <1>6, <2>1, <2>3, <4>1
    <3>2. ASSUME NEW g \in graph[f] PROVE p[i - 1].c[g] = p[n].c[g]
      <4>1. PICK j \in 1..(i - 1) : result[j] = g
        BY <1>1, <2>1
      <4>2. /\ j \in 1..n /\ i - 1 \in 0..n /\ j \in 0..(i - 1)
            /\ \A k \in j + 1..(i - 1) : k \in 1..n /\ k # j
        BY <1>0
      <4>3. \A k \in j + 1..(i - 1) : result[k] # g
        BY <1>1, <4>1, <4>2
      <4>4. g \in Field
        BY <1>0
      <4>5. p[i - 1].c[g] = p[j].c[g]
        BY <1>5, <4>2, <4>3, <4>4
      <4> QED BY <1>6, <4>1, <4>2, <4>5
    <3>3. {p[i - 1].c[g] : g \in graph[f]} = {p[n].c[g] : g \in graph[f]}
      BY <3>2
    <3> QED BY <3>1, <3>3 DEF Result
  <2> QED BY <2>2, <2>3
<1> QED BY <1>7 DEF n

-----------------------------------------------------------------------------
(* The fields that an update affects: those that depend on the path, and   *)
(* those that depend on one of them.                                       *)
Directly(p) == {f \in Field : From[f] \cap Normalized(p) # {}}

LEMMA AffectedClosed ==
  ASSUME NEW p
  PROVE  /\ Affected(p) \in SUBSET Field /\ Directly(p) \subseteq Affected(p)
         /\ \A f \in Field : graph[f] \cap Affected(p) # {} => f \in Affected(p)
         /\ \A q : Directly(q) \subseteq Directly(p) => Affected(q) \subseteq Affected(p)
<1> DEFINE Above(q) == {S \in SUBSET Field :
              Directly(q) \subseteq S /\ \A f \in Field : graph[f] \cap S # {} => f \in S}
<1>1. \A q : Affected(q) = {f \in Field : \A S \in Above(q) : f \in S}
  BY DEF Affected, Directly
<1>2. \A q : Directly(q) \subseteq Field
  BY DEF Directly
<1>3. ASSUME NEW f \in Field, graph[f] \cap Affected(p) # {} PROVE f \in Affected(p)
  BY <1>1, <1>3
<1>4. ASSUME NEW q, Directly(q) \subseteq Directly(p) PROVE Affected(q) \subseteq Affected(p)
  <2>1. \A S \in Above(p) : S \in Above(q)
    BY <1>4
  <2> QED BY <1>1, <2>1
<1> QED BY <1>1, <1>2, <1>3, <1>4

(* All that may change with a place is affected by an update of it.        *)
LEMMA DependAffected ==
  ASSUME PathsAgree, NEW p \in Written, NEW q \in Path, Place(q) = Place(p)
  PROVE  Affected(q) \subseteq Affected(p)
<1>1. ASSUME NEW f \in Directly(q) PROVE f \in Directly(p)
  <2>1. PICK r \in From[f] : r \in Normalized(q)
    BY DEF Directly
  <2>2. r \in Path /\ Place(r) = Place(q) /\ f \in Field
    BY <2>1 DEF Normalized, Place, Path, Directly
  <2> QED BY <2>1, <2>2 DEF PathsAgree, Directly
<1> QED BY <1>1, AffectedClosed

FieldsTypeOK ==
  /\ place \in Places /\ computed \in [Field -> Values]
  /\ failing \in SUBSET Field /\ raised \in BOOLEAN

LEMMA UpdateKeeps ==
  ASSUME PathsAgree, IInv, FieldsTypeOK, UpToDate, NEW p \in Written, Update(p)
  PROVE  FieldsTypeOK' /\ UpToDate'
<1> DEFINE values == [place EXCEPT ![Place(p)] = @ + 1]
           depend == {f \in Field : \E q \in Path : Place(q) = Place(p) /\ f \in Affected(q)}
           After(bad) == Compute(Affected(p), values, bad, computed)
<1>1. PICK bad \in SUBSET Field :
        /\ bad \ depend = failing \ depend
        /\ IF After(bad).ended
           THEN UNCHANGED fieldVars
           ELSE /\ place' = values /\ computed' = After(bad).c
                /\ failing' = bad /\ UNCHANGED raised
  BY DEF Update
<1>2. phase = "resolved" /\ UNCHANGED orderVars /\ place["inputs"] + place["state"] < MaxUpdates
  BY DEF Update
<1>3. CASE After(bad).ended
  <2>1. UNCHANGED fieldVars /\ UNCHANGED orderVars
    BY <1>1, <1>2, <1>3
  <2> QED BY <2>1 DEF FieldsTypeOK, UpToDate, Result, fieldVars, orderVars
<1>4. CASE ~After(bad).ended
  <2>0. /\ OrderTypeOK /\ SortedOK /\ graph \in [Field -> SUBSET Field] /\ result \in Seq(Field)
        /\ graph' = graph /\ p \in Path /\ Place(p) \in {"inputs", "state"}
    BY <1>2, Graphs, ComputedAssumption DEF IInv, OrderTypeOK, orderVars, Place
  <2>1. values \in Places
    <3>1. MaxUpdates \in Nat /\ place \in [{"inputs", "state"} -> 0..MaxUpdates]
      BY ComputedAssumption DEF FieldsTypeOK, Places
    <3>2. place[Place(p)] + 1 \in 0..MaxUpdates
      BY <1>2, <2>0, <3>1
    <3> QED BY <2>0, <3>1, <3>2 DEF Places
  <2>2. computed \in [Field -> Values]
    BY DEF FieldsTypeOK
  <2>3. /\ place' = values /\ computed' = After(bad).c /\ failing' = bad /\ raised' = raised
        /\ \A q \in {"inputs", "state"} : q # Place(p) => values[q] = place[q]
    BY <1>1, <1>4 DEF FieldsTypeOK, Places
  <2>4. depend \subseteq Affected(p)
    BY DependAffected
  <2> HIDE DEF values, depend
  <2>5. PICK t : Computation(Affected(p), values, bad, computed, t)
    BY <2>0, <2>1, <2>2, ComputationExists
  <2>6. After(bad) = t[Len(result)] /\ t[Len(result)] \in Progress
    <3>1. Len(result) \in 0..Len(result)
      BY <2>0, LenProperties
    <3> QED BY <2>5, <3>1 DEF Computation
  <2>7. \A f \in Field :
           /\ f \notin Affected(p) => computed'[f] = computed[f]
           /\ f \in Affected(p) /\ f \notin bad => computed'[f] = Result(f, values, computed')
    <3> HIDE DEF After
    <3>1. ~t[Len(result)].ended /\ computed' = t[Len(result)].c
      BY <1>4, <2>3, <2>6
    <3> QED BY <1>2, <2>0, <2>1, <2>2, <2>5, <3>1, ComputedRight
  <2> HIDE DEF After
  <2>8. FieldsTypeOK'
    <3>1. computed' \in [Field -> Values]
      BY <2>3, <2>6 DEF Progress
    <3> QED BY <2>1, <2>3, <3>1 DEF FieldsTypeOK
  <2>9. ASSUME ~raised, NEW f \in Field, f \notin bad
        PROVE  computed'[f] \in {Missing, Result(f, values, computed')}
    <3>1. CASE f \in Affected(p)
      BY <2>7, <2>9, <3>1
    <3>2. CASE f \notin Affected(p)
      <4>1. f \notin failing
        BY <1>1, <2>4, <2>9, <3>2
      <4>2. computed'[f] = computed[f] /\ computed[f] \in {Missing, Result(f, place, computed)}
        BY <2>7, <2>9, <3>2, <4>1 DEF UpToDate
      <4>3. \A g \in graph[f] : g \in Field /\ g \notin Affected(p) /\ computed'[g] = computed[g]
        BY <2>0, <2>7, <3>2, AffectedClosed
      <4>4. \A q \in From[f] : values[Place(q)] = place[Place(q)]
        <5>1. SUFFICES ASSUME NEW q \in From[f] PROVE Place(q) # Place(p)
          BY <2>3 DEF Place
        <5>2. q \in Path
          BY ComputedAssumption
        <5>3. f \notin Directly(p)
          BY <3>2, AffectedClosed
        <5> QED BY <5>2, <5>3 DEF PathsAgree, Directly
      <4>5. {computed'[g] : g \in graph[f]} = {computed[g] : g \in graph[f]}
        BY <4>3
      <4>6. {<<Place(q), values[Place(q)]>> : q \in From[f]}
              = {<<Place(q), place[Place(q)]>> : q \in From[f]}
        BY <4>4
      <4> QED BY <4>2, <4>5, <4>6 DEF Result
    <3> QED BY <3>1, <3>2
  <2>10. \A f \in Field : Result(f, values, computed') = Result(f, place, computed)'
    BY <2>0, <2>3 DEF Result
  <2> QED BY <2>3, <2>8, <2>9, <2>10 DEF UpToDate
<1> QED BY <1>3, <1>4

LEMMA ReadKeeps ==
  ASSUME IInv, FieldsTypeOK, UpToDate, Read
  PROVE  FieldsTypeOK' /\ UpToDate'
<1> DEFINE after == Compute(Field, place, failing, computed)
<1>1. /\ phase = "resolved" /\ computed' = after.c /\ raised' = (raised \/ after.ended)
      /\ place' = place /\ failing' = failing /\ UNCHANGED orderVars
  BY DEF Read
<1>2. /\ OrderTypeOK /\ SortedOK /\ graph \in [Field -> SUBSET Field] /\ result \in Seq(Field)
      /\ graph' = graph /\ place \in Places /\ computed \in [Field -> Values]
  BY <1>1, Graphs DEF IInv, OrderTypeOK, orderVars, FieldsTypeOK
<1>3. PICK t : Computation(Field, place, failing, computed, t)
  BY <1>2, ComputationExists
<1>4. after = t[Len(result)] /\ t[Len(result)] \in Progress
  <2>1. Len(result) \in 0..Len(result)
    BY <1>2, LenProperties
  <2> QED BY <1>3, <2>1 DEF Computation
<1> HIDE DEF after
<1>5. FieldsTypeOK'
  <2>1. computed' \in [Field -> Values] /\ after.ended \in BOOLEAN
    BY <1>1, <1>4 DEF Progress
  <2> QED BY <1>1, <1>2, <2>1 DEF FieldsTypeOK
<1>6. ASSUME ~raised', NEW f \in Field, f \notin failing
      PROVE  computed'[f] = Result(f, place, computed')
  <2>1. ~t[Len(result)].ended /\ computed' = t[Len(result)].c
    BY <1>1, <1>4, <1>6
  <2> QED BY <1>1, <1>2, <1>3, <1>6, <2>1, ComputedRight
<1>7. \A f \in Field : Result(f, place, computed') = Result(f, place, computed)'
  BY <1>1, <1>2 DEF Result
<1> QED BY <1>1, <1>5, <1>6, <1>7 DEF UpToDate

(* For any graph of dependencies, policies and failures: as long as no     *)
(* read has ended with an exception, each field that was computed has the  *)
(* value that computing it again would give, if the updates name places as *)
(* the fields do.                                                          *)
THEOREM FieldsAreUpToDate == ASSUME PathsAgree PROVE Spec => []UpToDate
<1>1. Init => IInv /\ FieldsTypeOK /\ UpToDate
  <2> SUFFICES ASSUME Init PROVE IInv /\ FieldsTypeOK /\ UpToDate
    OBVIOUS
  <2>1. IInv
    BY InitOK DEF Init
  <2>2. Missing \in Values /\ 0 \in 0..MaxUpdates
    BY ComputedAssumption DEF Values
  <2>3. place \in Places /\ computed = [f \in Field |-> Missing] /\ computed \in [Field -> Values]
    BY <2>2 DEF Init, Places
  <2> QED BY <2>1, <2>3 DEF Init, FieldsTypeOK, UpToDate
<1>2. IInv /\ FieldsTypeOK /\ UpToDate /\ [Next]_vars => IInv' /\ FieldsTypeOK' /\ UpToDate'
  <2> SUFFICES ASSUME IInv, FieldsTypeOK, UpToDate, [Next]_vars
               PROVE  IInv' /\ FieldsTypeOK' /\ UpToDate'
    OBVIOUS
  <2>1. [OrderNext]_orderVars
    BY DEF Next, vars, Read, Update
  <2>2. IInv'
    BY <2>1, StepOK
  <2>3. CASE UNCHANGED fieldVars
    <3>1. graph' = graph
      BY <2>1 DEF OrderNext, orderVars, FinishField, BeginSort, EndSort, StartSearch, Follow,
                  TakeField
    <3> QED BY <2>2, <2>3, <3>1 DEF fieldVars, FieldsTypeOK, UpToDate, Result
  <2>4. CASE Read
    BY <2>2, <2>4, ReadKeeps
  <2>5. ASSUME NEW p \in Written, Update(p) PROVE FieldsTypeOK' /\ UpToDate'
    BY <2>5, UpdateKeeps
  <2> QED BY <2>2, <2>3, <2>4, <2>5 DEF Next, vars
<1> QED BY <1>1, <1>2, PTL DEF Spec

-----------------------------------------------------------------------------
(***************************************************************************)
(* What a fold computes, when each of its steps stays within a set Acc.    *)
(***************************************************************************)

(* A set of numbers up to n has a greatest one.                            *)
LEMMA Greatest ==
  ASSUME NEW n \in Nat, NEW s \in SUBSET (1..n), s # {}
  PROVE  Max(s) \in s /\ \A i \in s : i <= Max(s)
<1> DEFINE Below == {k \in Nat : n - k \in s}
<1>1. PICK k \in Below : \A j \in Below : k <= j
  <2>1. PICK i \in s : TRUE
    OBVIOUS
  <2>2. i \in 1..n /\ n - i \in Nat /\ n - (n - i) = i
    BY <2>1
  <2>3. n - i \in Below
    BY <2>1, <2>2
  <2>4. Below \subseteq Nat /\ Below # {}
    BY <2>3
  <2> QED BY <2>4, Least
<1> DEFINE x == n - k
<1>2. x \in s
  BY <1>1
<1>3. ASSUME NEW i \in s PROVE x >= i
  <2>1. i \in 1..n /\ n - i \in Nat /\ n - (n - i) = i
    OBVIOUS
  <2>2. n - i \in Below
    BY <2>1
  <2>3. k <= n - i /\ k \in Nat
    BY <2>2, <1>1
  <2> QED BY <2>1, <2>3
<1>4. Max(s) \in s /\ \A i \in s : Max(s) >= i
  <2> HIDE DEF x
  <2> QED BY <1>2, <1>3 DEF Max
<1>5. \A i \in s : i \in 1..n
  OBVIOUS
<1> QED BY <1>4, <1>5

LEMMA UpToGreatest ==
  ASSUME NEW i \in Nat, i # 0
  PROVE  1..i # {} /\ Max(1..i) = i /\ (1..i) \ {Max(1..i)} = 1..(i - 1)
<1>1. (1..i) \in SUBSET (1..i) /\ i \in 1..i
  OBVIOUS
<1>2. Max(1..i) \in 1..i /\ \A j \in 1..i : j <= Max(1..i)
  BY <1>1, Greatest
<1>3. Max(1..i) = i
  BY <1>1, <1>2
<1> QED BY <1>1, <1>3

(* Two folds over 1..n that make the same steps have the same result.      *)
LEMMA FoldsAgree ==
  ASSUME NEW n \in Nat, NEW g, NEW h, g[{}] = h[{}],
         \A s \in SUBSET (1..n) :
           s # {} /\ g[s \ {Max(s)}] = h[s \ {Max(s)}] => g[s] = h[s]
  PROVE  g[1..n] = h[1..n]
<1> DEFINE B == {i \in Nat : g[1..i] = h[1..i]}
<1>1. 0 \in B
  BY 1..0 = {}
<1>2. ASSUME NEW i \in 1..n, i - 1 \in B PROVE i \in B
  <2>1. i \in Nat /\ i # 0 /\ (1..i) \in SUBSET (1..n)
    OBVIOUS
  <2>2. 1..i # {} /\ (1..i) \ {Max(1..i)} = 1..(i - 1)
    BY <2>1, UpToGreatest
  <2> QED BY <2>1, <2>2, <1>2
<1>3. \A i \in 0..n : i \in B
  <2> HIDE DEF B
  <2> QED BY <1>1, <1>2, UpTo
<1>4. n \in 0..n
  OBVIOUS
<1> QED BY <1>3, <1>4

(* The values in Acc that a fold of the steps G has on the subsets of 1..n *)
Folds(n, Acc, G, base, g) ==
  /\ g \in [SUBSET (1..n) -> Acc]
  /\ \A s \in SUBSET (1..n) : g[s] = IF s = {} THEN base ELSE G[Max(s)][g[s \ {Max(s)}]]

LEMMA FoldExists ==
  ASSUME NEW n \in Nat, NEW Acc, NEW G \in [1..n -> [Acc -> Acc]], NEW base \in Acc
  PROVE  \E g : Folds(n, Acc, G, base, g)
<1> DEFINE B == {i \in 0..n : \E g : Folds(i, Acc, G, base, g)}
<1>1. 0 \in B
  <2> DEFINE g == [s \in SUBSET (1..0) |-> base]
  <2>1. \A s \in SUBSET (1..0) : s = {}
    OBVIOUS
  <2>2. g \in [SUBSET (1..0) -> Acc]
    OBVIOUS
  <2>3. Folds(0, Acc, G, base, g)
    BY <2>1, <2>2 DEF Folds
  <2> QED BY <2>3
<1>2. ASSUME NEW i \in 1..n, i - 1 \in B PROVE i \in B
  <2>0. PICK g : Folds(i - 1, Acc, G, base, g)
    BY <1>2
  <2>1. /\ g \in [SUBSET (1..(i - 1)) -> Acc]
        /\ \A s \in SUBSET (1..(i - 1)) : g[s] = IF s = {} THEN base ELSE G[Max(s)][g[s \ {Max(s)}]]
    BY <2>0 DEF Folds
  <2> DEFINE h == [s \in SUBSET (1..i) |-> IF i \in s THEN G[i][g[s \ {i}]] ELSE g[s]]
  <2>2. \A s \in SUBSET (1..i) : s \ {i} \in SUBSET (1..(i - 1)) /\ (i \notin s => s \in SUBSET (1..(i - 1)))
    OBVIOUS
  <2>3. h \in [SUBSET (1..i) -> Acc]
    BY <2>1, <2>2
  <2>4. ASSUME NEW s \in SUBSET (1..i)
        PROVE  h[s] = IF s = {} THEN base ELSE G[Max(s)][h[s \ {Max(s)}]]
    <3>1. \A r \in SUBSET (1..(i - 1)) : r \in SUBSET (1..i) /\ i \notin r /\ h[r] = g[r]
      OBVIOUS
    <3>2. CASE i \in s
      <4>1. i \in Nat /\ s # {}
        BY <3>2
      <4>2. Max(s) \in s /\ (\A j \in s : j <= Max(s))
        BY <4>1, Greatest
      <4>3. Max(s) \in 1..i /\ i <= Max(s)
        BY <4>2, <3>2
      <4>4. Max(s) = i
        BY <4>1, <4>3
      <4>5. h[s \ {i}] = g[s \ {i}]
        BY <2>2, <3>1
      <4> QED BY <3>2, <4>4, <4>5
    <3>3. CASE i \notin s
      <4>1. s \in SUBSET (1..(i - 1)) /\ h[s] = g[s]
        BY <3>3, <3>1, <2>2
      <4>2. g[s] = IF s = {} THEN base ELSE G[Max(s)][g[s \ {Max(s)}]]
        BY <2>1, <4>1
      <4>3. s # {} => h[s \ {Max(s)}] = g[s \ {Max(s)}]
        BY <4>1, <3>1
      <4> QED BY <4>1, <4>2, <4>3
    <3> QED BY <3>2, <3>3
  <2> HIDE DEF h
  <2>5. Folds(i, Acc, G, base, h)
    BY <2>3, <2>4 DEF Folds
  <2> QED BY <2>5
<1>3. \A i \in 0..n : i \in B
  <2> HIDE DEF B
  <2> QED BY <1>1, <1>2, UpTo
<1>4. n \in B
  <2>1. n \in 0..n
    OBVIOUS
  <2> QED BY <1>3, <2>1
<1> QED BY <1>4

(* The values that such a fold has after each step, the last one being end *)
FoldRun(n, Acc, G, base, p, end) ==
  /\ p \in [0..n -> Acc]
  /\ p[0] = base /\ p[n] = end /\ \A i \in 1..n : p[i] = G[i][p[i - 1]]

LEMMA FoldResult ==
  ASSUME NEW n \in Nat, NEW Acc, NEW G \in [1..n -> [Acc -> Acc]], NEW base \in Acc,
         NEW h, h[{}] = base,
         \A s \in SUBSET (1..n) :
           s # {} /\ h[s \ {Max(s)}] \in Acc => h[s] = G[Max(s)][h[s \ {Max(s)}]]
  PROVE  \E p : FoldRun(n, Acc, G, base, p, h[1..n])
<1>0. PICK g : Folds(n, Acc, G, base, g)
  BY FoldExists
<1>1. /\ g \in [SUBSET (1..n) -> Acc]
      /\ \A s \in SUBSET (1..n) : g[s] = IF s = {} THEN base ELSE G[Max(s)][g[s \ {Max(s)}]]
  BY <1>0 DEF Folds
<1> DEFINE p == [i \in 0..n |-> g[1..i]]
<1>2. p \in [0..n -> Acc] /\ p[n] = g[1..n]
  BY <1>1
<1>3. p[0] = base
  <2>1. 1..0 = {} /\ (1..0) \in SUBSET (1..n) /\ 0 \in 0..n
    OBVIOUS
  <2> QED BY <1>1, <2>1
<1>4. ASSUME NEW i \in 1..n PROVE p[i] = G[i][p[i - 1]]
  <2>1. i \in Nat /\ i # 0 /\ (1..i) \in SUBSET (1..n) /\ i \in 0..n /\ i - 1 \in 0..n
    OBVIOUS
  <2>2. 1..i # {} /\ Max(1..i) = i /\ (1..i) \ {Max(1..i)} = 1..(i - 1)
    BY <2>1, UpToGreatest
  <2>3. g[1..i] = G[Max(1..i)][g[(1..i) \ {Max(1..i)}]]
    BY <1>1, <2>1, <2>2
  <2> QED BY <2>1, <2>2, <2>3
<1>5. g[{}] = h[{}]
  <2>1. {} \in SUBSET (1..n)
    OBVIOUS
  <2> QED BY <1>1, <2>1
<1>6. ASSUME NEW s \in SUBSET (1..n), s # {}, g[s \ {Max(s)}] = h[s \ {Max(s)}] PROVE g[s] = h[s]
  <2>1. s \ {Max(s)} \in SUBSET (1..n)
    OBVIOUS
  <2>2. g[s \ {Max(s)}] \in Acc
    BY <1>1, <2>1
  <2> QED BY <1>1, <1>6, <2>2
<1>7. g[1..n] = h[1..n]
  BY <1>5, <1>6, FoldsAgree
<1> HIDE DEF p
<1>8. FoldRun(n, Acc, G, base, p, h[1..n])
  BY <1>2, <1>3, <1>4, <1>7 DEF FoldRun
<1> QED BY <1>8

-----------------------------------------------------------------------------
(***************************************************************************)
(* The validator: what it says of a step depends on the blocks around it.  *)
(***************************************************************************)

Line == Opening \cup Simple \cup {BlockEnd}

(* Lines that close no block but those they have opened.                   *)
Nested(lines) ==
  /\ lines \in Seq(Line)
  /\ \A k \in 1..Len(lines) : lines[k].type = "end" => Open(SubSeq(lines, 1, k - 1)) > 0

LEMMA LineIs ==
  ASSUME ~CustomNames, NEW l \in Line
  PROVE  /\ l.type \in Blocks \cup {"step", "update", "break", "parallel", "end"}
         /\ l.use \in Specific \cup {"state", Unused}
         /\ l.type \in {"update", "break", "parallel", "end"} => l.use = Unused
         /\ ~l.named
<1>1. CASE l \in Lines(Blocks, Variable \cup {Unused})
  BY <1>1 DEF Lines, Blocks, Specific, Variable
<1>2. CASE l \in [type : {"foreach"}, use : {Unused}, named : {CustomNames}]
  BY <1>2 DEF Blocks, Specific
<1>3. CASE l \in Lines({"step"}, Variable)
  BY <1>3 DEF Lines, Blocks, Specific, Variable
<1>4. CASE l \in Lines({"update", "break", "parallel"}, {Unused})
  BY <1>4 DEF Lines, Blocks, Specific, Variable
<1>5. CASE l = BlockEnd
  BY <1>5 DEF BlockEnd, Blocks, Specific
<1> QED BY <1>1, <1>2, <1>3, <1>4, <1>5 DEF Line, Opening, Simple

Delta(l) == IF l.type \in Blocks THEN 1 ELSE IF l.type = "end" THEN -1 ELSE 0

LEMMA CountGrows ==
  ASSUME NEW s \in Seq(Line), NEW l \in Line, NEW types
  PROVE  /\ Count(s, types) \in Nat
         /\ Count(Append(s, l), types) = Count(s, types) + IF l.type \in types THEN 1 ELSE 0
<1> DEFINE n == Len(s)
           S == {i \in 1..n : s[i].type \in types}
           T == {i \in 1..(n + 1) : Append(s, l)[i].type \in types}
<1>1. /\ n \in Nat /\ DOMAIN s = 1..n /\ DOMAIN Append(s, l) = 1..(n + 1)
      /\ \A i \in 1..n : Append(s, l)[i] = s[i]
      /\ Append(s, l)[n + 1] = l
  <2>1. n \in Nat /\ DOMAIN s = 1..n
    BY LenProperties
  <2>2. Append(s, l) \in Seq(Line) /\ Len(Append(s, l)) = n + 1
    BY AppendProperties
  <2>3. DOMAIN Append(s, l) = 1..(n + 1)
    BY <2>2, LenProperties
  <2> QED BY <2>1, <2>3, AppendProperties
<1> HIDE DEF n
<1>2. T = IF l.type \in types THEN S \cup {n + 1} ELSE S
  <2>1. 1..(n + 1) = (1..n) \cup {n + 1} /\ n + 1 \notin 1..n
    BY <1>1
  <2> QED BY <1>1, <2>1
<1>3. IsFiniteSet(S) /\ n + 1 \notin S
  <2>1. IsFiniteSet(1..n) /\ S \subseteq 1..n /\ n + 1 \notin 1..n
    BY <1>1, FS_Interval
  <2> QED BY <2>1, FS_Subset
<1>4. Cardinality(S) \in Nat /\ Cardinality(S \cup {n + 1}) = Cardinality(S) + 1
  <2> HIDE DEF S
  <2> QED BY <1>3, FS_CardinalityType, FS_AddElement
<1>5. Count(s, types) = Cardinality(S) /\ Count(Append(s, l), types) = Cardinality(T)
  BY <1>1 DEF Count
<1> HIDE DEF S, T
<1> QED BY <1>2, <1>4, <1>5

LEMMA OpenGrows ==
  ASSUME NEW s \in Seq(Line), NEW l \in Line
  PROVE  Open(s) \in Int /\ Open(Append(s, l)) = Open(s) + Delta(l)
<1>1. "end" \notin Blocks
  BY DEF Blocks
<1> QED BY <1>1, CountGrows DEF Open, Delta

LEMMA NothingOpen == Open(<<>>) = 0
<1>1. \A types : {i \in DOMAIN <<>> : <<>>[i].type \in types} = {}
  OBVIOUS
<1>2. \A types : Count(<<>>, types) = 0
  BY <1>1, FS_EmptySet DEF Count
<1> QED BY <1>2 DEF Open

LEMMA PartGrows ==
  ASSUME NEW lines \in Seq(Line), NEW k \in 1..Len(lines), NEW b \in 1..k
  PROVE  /\ SubSeq(lines, b, k - 1) \in Seq(Line) /\ SubSeq(lines, b, k) \in Seq(Line)
         /\ Open(SubSeq(lines, b, k - 1)) \in Int /\ Open(SubSeq(lines, b, k)) \in Int
         /\ Open(SubSeq(lines, b, k)) = Open(SubSeq(lines, b, k - 1)) + Delta(lines[k])
<1> DEFINE s == SubSeq(lines, b, k - 1)
           t == SubSeq(lines, b, k)
<1>0. Len(lines) \in Nat /\ k \in Nat /\ b \in Nat /\ k - 1 \in Int
  BY LenProperties
<1>1. \A i \in b..k : lines[i] \in Line
  BY <1>0, ElementOfSeq
<1>2. s \in Seq(Line) /\ Len(s) = k - b /\ \A i \in 1..(k - b) : s[i] = lines[b + i - 1]
  <2>1. \A i \in b..(k - 1) : lines[i] \in Line
    BY <1>1, <1>0
  <2>2. /\ s \in Seq(Line) /\ Len(s) = IF b <= k - 1 THEN k - 1 - b + 1 ELSE 0
        /\ \A i \in 1..(k - 1 - b + 1) : s[i] = lines[b + i - 1]
    <3> HIDE DEF s
    <3> QED BY <1>0, <2>1, SubSeqProperties DEF s
  <2> HIDE DEF s
  <2> QED BY <1>0, <2>2
<1>3. t \in Seq(Line) /\ Len(t) = k - b + 1 /\ \A i \in 1..(k - b + 1) : t[i] = lines[b + i - 1]
  <2> HIDE DEF t
  <2>1. /\ t \in Seq(Line) /\ Len(t) = IF b <= k THEN k - b + 1 ELSE 0
        /\ \A i \in 1..(k - b + 1) : t[i] = lines[b + i - 1]
    BY <1>0, <1>1, SubSeqProperties DEF t
  <2> QED BY <1>0, <2>1
<1>4. lines[k] \in Line
  BY <1>1, <1>0
<1> HIDE DEF s, t
<1>5. /\ Append(s, lines[k]) \in Seq(Line) /\ Len(Append(s, lines[k])) = k - b + 1
      /\ \A i \in 1..(k - b) : Append(s, lines[k])[i] = s[i]
      /\ Append(s, lines[k])[k - b + 1] = lines[k]
  BY <1>2, <1>4, AppendProperties
<1>6. t = Append(s, lines[k])
  <2>1. \A i \in 1..Len(t) : t[i] = Append(s, lines[k])[i]
    <3> SUFFICES ASSUME NEW i \in 1..(k - b + 1) PROVE t[i] = Append(s, lines[k])[i]
      BY <1>3
    <3>1. CASE i = k - b + 1
      <4>1. t[k - b + 1] = lines[b + (k - b + 1) - 1] /\ b + (k - b + 1) - 1 = k
        BY <1>0, <1>3
      <4> QED BY <3>1, <4>1, <1>5
    <3>2. CASE i \in 1..(k - b)
      <4>1. t[i] = lines[b + i - 1]
        BY <1>3
      <4>2. s[i] = lines[b + i - 1] /\ Append(s, lines[k])[i] = s[i]
        BY <3>2, <1>2, <1>5
      <4> QED BY <4>1, <4>2
    <3>3. i = k - b + 1 \/ i \in 1..(k - b)
      BY <1>0
    <3> QED BY <3>1, <3>2, <3>3
  <2> QED BY <2>1, <1>3, <1>5, SeqEqual
<1>7. Open(s) \in Int /\ Open(t) = Open(s) + Delta(lines[k])
  BY <1>2, <1>4, <1>6, OpenGrows
<1>8. Open(t) \in Int
  BY <1>7 DEF Delta
<1> QED BY <1>2, <1>3, <1>7, <1>8 DEF s, t

LEMMA ValidatorInitOK == ValidatorInit => Nested(main) /\ Nested(task)
BY EmptySeq DEF ValidatorInit, Nested

LEMMA NestedGrows ==
  ASSUME NEW lines, Nested(lines), NEW l \in Following(lines)
  PROVE  Nested(Append(lines, l))
<1> DEFINE n == Len(lines)
           more == Append(lines, l)
<1>1. lines \in Seq(Line) /\ n \in Nat
  BY LenProperties DEF Nested
<1>2. l \in Line /\ (l.type = "end" => Open(lines) > 0)
  BY DEF Following, Line, Opening, Simple, Lines, Blocks
<1>3. /\ more \in Seq(Line) /\ Len(more) = n + 1 /\ more[n + 1] = l
      /\ \A i \in 1..n : more[i] = lines[i]
  BY <1>1, <1>2, AppendProperties
<1> HIDE DEF n, more
<1>4. ASSUME NEW k \in 0..n PROVE SubSeq(more, 1, k) = SubSeq(lines, 1, k)
  <2>0. k \in Int /\ 1 \in Int /\ k - 1 + 1 = k
    BY <1>1
  <2>1. \A i \in 1..k : lines[i] \in Line /\ more[i] \in Line /\ more[i] = lines[i]
    <3>1. \A i \in 1..k : i \in 1..n /\ i \in 1..Len(more)
      BY <1>1, <1>3
    <3> QED BY <3>1, <1>1, <1>3, ElementOfSeq DEF n
  <2>2. /\ SubSeq(lines, 1, k) \in Seq(Line) /\ Len(SubSeq(lines, 1, k)) = k
        /\ \A i \in 1..k : SubSeq(lines, 1, k)[i] = lines[i]
    <3>1. /\ SubSeq(lines, 1, k) \in Seq(Line)
          /\ Len(SubSeq(lines, 1, k)) = IF 1 <= k THEN k - 1 + 1 ELSE 0
          /\ \A i \in 1..(k - 1 + 1) : SubSeq(lines, 1, k)[i] = lines[1 + i - 1]
      BY <2>0, <2>1, SubSeqProperties
    <3> QED BY <3>1, <2>0
  <2>3. /\ SubSeq(more, 1, k) \in Seq(Line) /\ Len(SubSeq(more, 1, k)) = k
        /\ \A i \in 1..k : SubSeq(more, 1, k)[i] = more[i]
    <3>1. /\ SubSeq(more, 1, k) \in Seq(Line)
          /\ Len(SubSeq(more, 1, k)) = IF 1 <= k THEN k - 1 + 1 ELSE 0
          /\ \A i \in 1..(k - 1 + 1) : SubSeq(more, 1, k)[i] = more[1 + i - 1]
      BY <2>0, <2>1, SubSeqProperties
    <3> QED BY <3>1, <2>0
  <2> QED BY <2>1, <2>2, <2>3, SeqEqual
<1>5. SubSeq(lines, 1, n) = lines
  BY <1>1, SubSeqFull DEF n
<1>6. ASSUME NEW k \in 1..Len(more), more[k].type = "end"
      PROVE  Open(SubSeq(more, 1, k - 1)) > 0
  <2>1. CASE k = n + 1
    <3>1. SubSeq(more, 1, k - 1) = lines
      BY <2>1, <1>1, <1>4, <1>5
    <3> QED BY <2>1, <3>1, <1>2, <1>3, <1>6
  <2>2. CASE k \in 1..n
    <3>1. SubSeq(more, 1, k - 1) = SubSeq(lines, 1, k - 1) /\ lines[k].type = "end"
      BY <2>2, <1>1, <1>3, <1>4, <1>6
    <3> QED BY <2>2, <3>1 DEF Nested, n
  <2> QED BY <2>1, <2>2, <1>1, <1>3
<1> QED BY <1>3, <1>6 DEF Nested, more

LEMMA ValidatorStepOK ==
  Nested(main) /\ Nested(task) /\ [ValidatorNext]_validatorVars => Nested(main)' /\ Nested(task)'
<1> SUFFICES ASSUME Nested(main), Nested(task), [ValidatorNext]_validatorVars
             PROVE  Nested(main)' /\ Nested(task)'
  OBVIOUS
<1>1. CASE WriteMain
  <2>1. PICK l \in Following(main) : main' = Append(main, l)
    BY <1>1 DEF WriteMain
  <2>2. Nested(Append(main, l))
    BY <2>1, NestedGrows
  <2>3. Nested(main)'
    BY <2>1, <2>2 DEF Nested, Open, Count
  <2> QED BY <1>1, <2>3 DEF WriteMain, Nested, Open, Count
<1>2. CASE WriteTask
  <2>1. PICK l \in Following(task) : task' = Append(task, l)
    BY <1>2 DEF WriteTask
  <2>2. Nested(Append(task, l))
    BY <2>1, NestedGrows
  <2>3. Nested(task)'
    BY <2>1, <2>2 DEF Nested, Open, Count
  <2>4. main' = main
    BY <1>2 DEF WriteTask
  <2>5. Nested(main)'
    BY <2>4 DEF Nested, Open, Count
  <2> QED BY <2>3, <2>5
<1>3. CASE UNCHANGED validatorVars
  BY <1>3 DEF validatorVars, Nested, Open, Count
<1> QED BY <1>1, <1>2, <1>3 DEF ValidatorNext

(* The blocks that are open after k lines, in their order.                 *)
Nest(lines, k, B) ==
  /\ B \in Seq(1..k) /\ Len(B) = Open(SubSeq(lines, 1, k))
  /\ \A d \in 1..Len(B) :
       /\ lines[B[d]].type \in Blocks
       /\ Open(SubSeq(lines, B[d], k)) = Len(B) - d + 1
       /\ \A j \in B[d]..k : Open(SubSeq(lines, B[d], j)) > 0
  /\ \A b \in 1..k : lines[b].type \in Blocks =>
       (\E d \in 1..Len(B) : B[d] = b) \/ \E j \in b..k : Open(SubSeq(lines, b, j)) <= 0

NestedBy(l, k, B) ==
  IF l.type \in Blocks THEN Append(B, k) ELSE IF l.type = "end" THEN Front(B) ELSE B

LEMMA FrontIs ==
  ASSUME NEW S, NEW s \in Seq(S), s # <<>>
  PROVE  /\ Len(s) \in Nat \ {0} /\ Front(s) \in Seq(S) /\ Len(Front(s)) = Len(s) - 1
         /\ \A i \in 1..(Len(s) - 1) : Front(s)[i] = s[i]
<1> DEFINE n == Len(s)
<1>1. n \in Nat \ {0}
  BY EmptySeq
<1>2. \A i \in 1..(n - 1) : s[i] \in S
  BY <1>1, ElementOfSeq
<1> HIDE DEF n
<1>3. n - 1 \in Int /\ 1 \in Int
  BY <1>1
<1>4. /\ SubSeq(s, 1, n - 1) \in Seq(S)
      /\ Len(SubSeq(s, 1, n - 1)) = IF 1 <= n - 1 THEN n - 1 - 1 + 1 ELSE 0
      /\ \A i \in 1..(n - 1 - 1 + 1) : SubSeq(s, 1, n - 1)[i] = s[1 + i - 1]
  BY <1>2, <1>3, SubSeqProperties
<1>5. Len(SubSeq(s, 1, n - 1)) = n - 1 /\ \A i \in 1..(n - 1) : SubSeq(s, 1, n - 1)[i] = s[i]
  BY <1>1, <1>4
<1> QED BY <1>1, <1>4, <1>5 DEF n, Front

LEMMA NestStart == ASSUME NEW lines PROVE Nest(lines, 0, <<>>)
<1>1. SubSeq(lines, 1, 0) = <<>>
  BY SubSeqEmpty
<1>2. <<>> \in Seq(1..0) /\ Len(<<>>) = 0 /\ 1..0 = {}
  BY EmptySeq
<1>3. Len(<<>>) = Open(SubSeq(lines, 1, 0))
  BY <1>1, <1>2, NothingOpen
<1> QED BY <1>2, <1>3 DEF Nest

LEMMA NestStep ==
  ASSUME NEW lines, Nested(lines), NEW k \in 1..Len(lines), NEW B, Nest(lines, k - 1, B)
  PROVE  /\ lines[k].type = "end" => B # <<>>
         /\ Nest(lines, k, NestedBy(lines[k], k, B))
<1> DEFINE l == lines[k]
           n == Len(B)
           C == NestedBy(l, k, B)
<1>1. lines \in Seq(Line) /\ Len(lines) \in Nat /\ k \in Nat /\ B \in Seq(1..(k - 1)) /\ n \in Nat
  BY LenProperties DEF Nested, Nest
<1>2. ASSUME NEW b \in 1..k
      PROVE  /\ Open(SubSeq(lines, b, k - 1)) \in Int /\ Open(SubSeq(lines, b, k)) \in Int
             /\ Open(SubSeq(lines, b, k)) = Open(SubSeq(lines, b, k - 1)) + Delta(l)
  BY <1>1, PartGrows
<1>3. ASSUME NEW d \in 1..n
      PROVE  /\ B[d] \in 1..(k - 1) /\ B[d] \in 1..k /\ lines[B[d]].type \in Blocks
             /\ Open(SubSeq(lines, B[d], k - 1)) = n - d + 1
             /\ \A j \in B[d]..(k - 1) : Open(SubSeq(lines, B[d], j)) > 0
  <2>1. B[d] \in 1..(k - 1)
    BY <1>1, ElementOfSeq
  <2> QED BY <2>1, <1>1 DEF Nest
<1>4. ASSUME NEW b \in 1..(k - 1), lines[b].type \in Blocks
      PROVE  (\E d \in 1..n : B[d] = b) \/ \E j \in b..k : j < k /\ Open(SubSeq(lines, b, j)) <= 0
  <2>1. (\E d \in 1..n : B[d] = b) \/ \E j \in b..(k - 1) : Open(SubSeq(lines, b, j)) <= 0
    BY <1>4 DEF Nest
  <2>2. \A j \in b..(k - 1) : j \in b..k /\ j < k
    BY <1>1
  <2> QED BY <2>1, <2>2
<1>5. n = Open(SubSeq(lines, 1, k - 1)) /\ Open(SubSeq(lines, 1, k)) = n + Delta(l)
  <2>1. n = Open(SubSeq(lines, 1, k - 1))
    BY DEF Nest
  <2>2. 1 \in 1..k
    BY <1>1
  <2> QED BY <2>1, <2>2, <1>2
<1>6. B \in Seq(1..k)
  <2>1. 1..(k - 1) \subseteq 1..k
    BY <1>1
  <2> QED BY <1>1, <2>1, SeqMonotonic
<1>7. "end" \notin Blocks
  BY DEF Blocks
<1> HIDE DEF l, n
<1>8. CASE l.type \in Blocks
  <2>1. Delta(l) = 1 /\ C = Append(B, k)
    BY <1>8 DEF Delta, NestedBy
  <2>2. k \in 1..k
    BY <1>1
  <2>3. C \in Seq(1..k) /\ Len(C) = n + 1 /\ C[n + 1] = k /\ \A d \in 1..n : C[d] = B[d]
    BY <2>1, <2>2, <1>6, AppendProperties DEF n
  <2>4. Open(SubSeq(lines, k, k)) = 1
    <3>1. SubSeq(lines, k, k - 1) = <<>>
      <4>1. k \in Int /\ k - 1 \in Int /\ k - 1 < k
        BY <1>1
      <4> QED BY <4>1, SubSeqEmpty
    <3>2. Open(SubSeq(lines, k, k)) = Open(SubSeq(lines, k, k - 1)) + 1
      BY <2>1, <2>2, <1>2
    <3>3. Open(SubSeq(lines, k, k - 1)) = 0
      BY <3>1, NothingOpen, Zenon
    <3> QED BY <3>2, <3>3
  <2> HIDE DEF C
  <2>5. ASSUME NEW d \in 1..Len(C)
        PROVE  /\ lines[C[d]].type \in Blocks
               /\ Open(SubSeq(lines, C[d], k)) = Len(C) - d + 1
               /\ \A j \in C[d]..k : Open(SubSeq(lines, C[d], j)) > 0
    <3>1. CASE d = n + 1
      <4>1. C[d] = k /\ \A j \in k..k : j = k
        BY <3>1, <2>3, <1>1
      <4>2. Len(C) - d + 1 = 1
        BY <3>1, <2>3, <1>1
      <4> QED BY <4>1, <4>2, <2>4, <1>8 DEF l
    <3>2. CASE d \in 1..n
      <4>1. C[d] = B[d]
        BY <3>2, <2>3
      <4>2. Open(SubSeq(lines, B[d], k)) = n - d + 1 + 1
        BY <3>2, <1>2, <1>3, <2>1
      <4>3. \A j \in B[d]..k : Open(SubSeq(lines, B[d], j)) > 0
        <5>1. \A j \in B[d]..k : j \in B[d]..(k - 1) \/ j = k
          BY <3>2, <1>1, <1>3
        <5>2. n - d + 1 + 1 > 0
          BY <3>2, <1>1
        <5> QED BY <3>2, <5>1, <5>2, <4>2, <1>3
      <4>4. Len(C) - d + 1 = n - d + 1 + 1
        BY <3>2, <2>3, <1>1
      <4> QED BY <3>2, <4>1, <4>2, <4>3, <4>4, <1>3
    <3>3. d = n + 1 \/ d \in 1..n
      BY <2>3, <1>1
    <3> QED BY <3>1, <3>2, <3>3
  <2>6. ASSUME NEW b \in 1..k, lines[b].type \in Blocks
        PROVE  (\E d \in 1..Len(C) : C[d] = b) \/ \E j \in b..k : Open(SubSeq(lines, b, j)) <= 0
    <3>1. CASE b = k
      <4>1. n + 1 \in 1..Len(C)
        BY <2>3, <1>1
      <4> QED BY <3>1, <4>1, <2>3
    <3>2. CASE b \in 1..(k - 1)
      <4>1. \A d \in 1..n : d \in 1..Len(C)
        BY <2>3, <1>1
      <4> QED BY <3>2, <4>1, <2>3, <2>6, <1>4
    <3>3. b = k \/ b \in 1..(k - 1)
      BY <1>1
    <3> QED BY <3>1, <3>2, <3>3
  <2>7. Len(C) = Open(SubSeq(lines, 1, k))
    BY <2>1, <2>3, <1>5
  <2>8. Nest(lines, k, C)
    BY <2>3, <2>5, <2>6, <2>7 DEF Nest
  <2> QED BY <2>8, <1>7, <1>8 DEF C, l
<1>9. CASE l.type = "end"
  <2>1. Delta(l) = -1 /\ C = Front(B)
    BY <1>7, <1>9 DEF Delta, NestedBy
  <2>2. n > 0
    BY <1>5, <1>9 DEF Nested, l
  <2>3. B # <<>>
    BY <2>2, EmptySeq DEF n
  <2>4. C \in Seq(1..k) /\ Len(C) = n - 1 /\ \A d \in 1..(n - 1) : C[d] = B[d]
    BY <2>1, <2>3, <1>6, FrontIs DEF n
  <2> HIDE DEF C
  <2>5. ASSUME NEW d \in 1..Len(C)
        PROVE  /\ lines[C[d]].type \in Blocks
               /\ Open(SubSeq(lines, C[d], k)) = Len(C) - d + 1
               /\ \A j \in C[d]..k : Open(SubSeq(lines, C[d], j)) > 0
    <3>0. d \in 1..n /\ C[d] = B[d]
      BY <2>4, <1>1
    <3>1. Open(SubSeq(lines, B[d], k)) = Len(C) - d + 1
      <4>1. B[d] \in 1..k /\ Open(SubSeq(lines, B[d], k - 1)) = n - d + 1
        BY <3>0, <1>3
      <4>2. Open(SubSeq(lines, B[d], k)) = n - d + 1 + -1
        BY <4>1, <1>2, <2>1
      <4> QED BY <4>2, <3>0, <1>1, <2>4
    <3>2. \A j \in B[d]..k : Open(SubSeq(lines, B[d], j)) > 0
      <4>1. \A j \in B[d]..k : j \in B[d]..(k - 1) \/ j = k
        BY <3>0, <1>1, <1>3
      <4>2. Len(C) - d + 1 > 0
        BY <2>4, <1>1
      <4> QED BY <3>0, <3>1, <4>1, <4>2, <1>3
    <3> QED BY <3>0, <3>1, <3>2, <1>3
  <2>6. ASSUME NEW b \in 1..k, lines[b].type \in Blocks
        PROVE  (\E d \in 1..Len(C) : C[d] = b) \/ \E j \in b..k : Open(SubSeq(lines, b, j)) <= 0
    <3>1. b \in 1..(k - 1)
      <4>1. b = k \/ b \in 1..(k - 1)
        BY <1>1
      <4> QED BY <4>1, <2>6, <1>7, <1>9 DEF l
    <3>2. CASE \E j \in b..k : j < k /\ Open(SubSeq(lines, b, j)) <= 0
      BY <3>2
    <3>3. CASE \E d \in 1..n : B[d] = b
      <4>1. PICK d \in 1..n : B[d] = b
        BY <3>3
      <4>2. CASE d = n
        <5>1. Open(SubSeq(lines, b, k)) = 0
          <6>1. Open(SubSeq(lines, b, k)) = n - n + 1 + -1
            BY <4>1, <4>2, <1>2, <1>3, <2>1
          <6> QED BY <6>1, <1>1
        <5>2. k \in b..k
          BY <1>1
        <5> QED BY <5>1, <5>2
      <4>3. CASE d \in 1..(n - 1)
        BY <4>1, <4>3, <2>4
      <4>4. d = n \/ d \in 1..(n - 1)
        BY <1>1
      <4> QED BY <4>2, <4>3, <4>4
    <3> QED BY <3>1, <3>2, <3>3, <2>6, <1>4
  <2>7. Len(C) = Open(SubSeq(lines, 1, k))
    BY <2>1, <2>4, <1>1, <1>5
  <2>8. Nest(lines, k, C)
    BY <2>4, <2>5, <2>6, <2>7 DEF Nest
  <2> QED BY <2>3, <2>8 DEF C, l
<1>10. CASE l.type \notin Blocks /\ l.type # "end"
  <2>1. Delta(l) = 0 /\ C = B
    BY <1>10 DEF Delta, NestedBy
  <2>5. ASSUME NEW d \in 1..n
        PROVE  /\ lines[B[d]].type \in Blocks
               /\ Open(SubSeq(lines, B[d], k)) = n - d + 1
               /\ \A j \in B[d]..k : Open(SubSeq(lines, B[d], j)) > 0
    <3>1. Open(SubSeq(lines, B[d], k)) = n - d + 1 /\ n - d + 1 > 0
      BY <1>1, <1>2, <1>3, <2>1
    <3>2. \A j \in B[d]..k : j \in B[d]..(k - 1) \/ j = k
      BY <1>1, <1>3
    <3> QED BY <3>1, <3>2, <1>3
  <2>6. ASSUME NEW b \in 1..k, lines[b].type \in Blocks
        PROVE  (\E d \in 1..n : B[d] = b) \/ \E j \in b..k : Open(SubSeq(lines, b, j)) <= 0
    <3>1. b \in 1..(k - 1)
      <4>1. b = k \/ b \in 1..(k - 1)
        BY <1>1
      <4> QED BY <4>1, <2>6, <1>10 DEF l
    <3> QED BY <3>1, <2>6, <1>4
  <2>7. n = Open(SubSeq(lines, 1, k))
    BY <2>1, <1>1, <1>5
  <2>8. Nest(lines, k, B)
    BY <2>5, <2>6, <2>7, <1>6 DEF Nest, n
  <2> QED BY <2>1, <2>8, <1>10 DEF l
<1> QED BY <1>8, <1>9, <1>10

LEMMA AroundIs ==
  ASSUME NEW lines, Nested(lines), NEW k \in 1..Len(lines), NEW B, Nest(lines, k - 1, B)
  PROVE  Around(lines, k) = {B[d] : d \in 1..Len(B)}
<1>1. k \in Nat /\ B \in Seq(1..(k - 1)) /\ Len(B) \in Nat
  BY LenProperties DEF Nested, Nest
<1>2. ASSUME NEW d \in 1..Len(B) PROVE B[d] \in Around(lines, k)
  <2>1. B[d] \in 1..(k - 1)
    BY <1>1, ElementOfSeq
  <2> QED BY <2>1 DEF Nest, Around
<1>3. ASSUME NEW b \in Around(lines, k) PROVE \E d \in 1..Len(B) : B[d] = b
  <2>1. ~ \E j \in b..(k - 1) : Open(SubSeq(lines, b, j)) <= 0
    <3>1. ASSUME NEW j \in b..(k - 1) PROVE ~(Open(SubSeq(lines, b, j)) <= 0)
      <4>1. b \in 1..(k - 1) /\ Open(SubSeq(lines, b, j)) > 0
        BY DEF Around
      <4>2. j \in 1..Len(lines) /\ b \in 1..j
        BY <4>1, <1>1, LenProperties DEF Nested
      <4>3. Open(SubSeq(lines, b, j)) \in Int
        BY <4>2, PartGrows DEF Nested
      <4> QED BY <4>1, <4>3
    <3> QED BY <3>1
  <2> QED BY <2>1 DEF Nest, Around
<1> QED BY <1>2, <1>3

(* What is kept while lines are walked through.  The last of no contexts   *)
(* is a value too.                                                         *)
Contexts == [loop : BOOLEAN, foreach : BOOLEAN, while : BOOLEAN]
Acc == [stack : Seq(Contexts \cup {Last(<<>>)}), errors : SUBSET {"break", "undefined"},
        paths : SUBSET {"state"}, referenced : SUBSET {"state"}]

(* The context a line is in, with that of its own loop                     *)
Standing(a, l) == IF l.type = "while" THEN InWhile ELSE Current(a)

Stacked(stack, l) ==
  IF l.type = "foreach" THEN Append(stack, InForeach)
  ELSE IF l.type = "while" THEN Append(stack, InWhile)
  ELSE IF l.type = "if" THEN Append(stack, Last(stack))
  ELSE IF l.type = "end" THEN Front(stack) ELSE stack

(* A line makes b of a; the errors of a task that it calls are among more. *)
Walks(a, l, b, more) ==
  /\ b.stack = Stacked(a.stack, l)
  /\ "break" \in b.errors <=>
       "break" \in a.errors \/ "break" \in more \/ (l.type = "break" /\ ~Current(a).loop)
  /\ "undefined" \in b.errors <=>
       \/ "undefined" \in a.errors \/ "undefined" \in more
       \/ l.use = "item" /\ ~(Standing(a, l).loop /\ Standing(a, l).foreach)
       \/ l.use = "iteration" /\ ~(Standing(a, l).loop /\ Standing(a, l).while)
  /\ "state" \in b.paths <=> "state" \in a.paths \/ l.type = "update"
  /\ "state" \in b.referenced <=>
       \/ "state" \in a.referenced
       \/ l.use = "state" /\ (l.type \in {"while", "if"} \/ "state" \notin a.paths)

LEMMA CurrentIs == ASSUME NEW a \in Acc PROVE Current(a) \in Contexts \cup {Last(<<>>)}
<1> DEFINE S == Contexts \cup {Last(<<>>)}
<1>1. a.stack \in Seq(S)
  BY DEF Acc
<1> HIDE DEF S
<1>2. CASE a.stack = <<>>
  BY <1>2 DEF Current, S
<1>3. CASE a.stack # <<>>
  <2>1. Len(a.stack) \in Nat \ {0}
    BY <1>1, <1>3, EmptySeq
  <2>2. Len(a.stack) \in 1..Len(a.stack)
    BY <2>1
  <2>3. a.stack[Len(a.stack)] \in S
    BY <1>1, <2>2, ElementOfSeq
  <2> QED BY <2>3 DEF Current, Last, S
<1> QED BY <1>2, <1>3 DEF S

LEMMA StackedIs ==
  ASSUME NEW a \in Acc, NEW l
  PROVE  Stacked(a.stack, l) \in Seq(Contexts \cup {Last(<<>>)})
<1> DEFINE S == Contexts \cup {Last(<<>>)}
<1>1. a.stack \in Seq(S)
  BY DEF Acc
<1>2. Last(a.stack) \in S
  BY CurrentIs DEF Current
<1>3. InForeach \in S /\ InWhile \in S
  BY DEF InForeach, InWhile, Contexts
<1> HIDE DEF S
<1>4. Front(a.stack) \in Seq(S)
  <2>1. CASE a.stack = <<>>
    <3>1. Front(a.stack) = <<>>
      <4>1. Len(<<>>) - 1 \in Int /\ Len(<<>>) - 1 < 1 /\ 1 \in Int
        BY EmptySeq
      <4>2. SubSeq(<<>>, 1, Len(<<>>) - 1) = <<>>
        BY <4>1, SubSeqEmpty
      <4> QED BY <2>1, <4>2 DEF Front
    <3> QED BY <3>1, EmptySeq
  <2>2. CASE a.stack # <<>>
    BY <1>1, <2>2, FrontIs
  <2> QED BY <2>1, <2>2
<1>5. \A c \in S : Append(a.stack, c) \in Seq(S)
  BY <1>1, AppendProperties
<1>6. Stacked(a.stack, l) \in Seq(S)
  BY <1>1, <1>2, <1>3, <1>4, <1>5 DEF Stacked
<1> QED BY <1>6 DEF S

(* What is made of a reference in some context                             *)
Uses(a, v, b, within, how) ==
  /\ b.stack = a.stack /\ b.paths = a.paths
  /\ "break" \in b.errors <=> "break" \in a.errors
  /\ "undefined" \in b.errors <=>
       \/ "undefined" \in a.errors
       \/ v = "item" /\ ~(within.loop /\ within.foreach)
       \/ v = "iteration" /\ ~(within.loop /\ within.while)
  /\ "state" \in b.referenced <=>
       "state" \in a.referenced \/ (v = "state" /\ (how = "condition" \/ "state" \notin a.paths))

LEMMA ReferenceIs ==
  ASSUME ~CustomNames, NEW a \in Acc, NEW v \in Specific \cup {"state", Unused}, NEW within
  PROVE  /\ Referenced(a, v, within) \in Acc /\ Uses(a, v, Referenced(a, v, within), within, "reference")
         /\ ConditionReferenced(a, v, within) \in Acc
         /\ Uses(a, v, ConditionReferenced(a, v, within), within, "condition")
<1> DEFINE S == Seq(Contexts \cup {Last(<<>>)})
<1>0. Unused \notin {"item", "iteration", "state"}
  BY ValidatorAssumption
<1>1. /\ a.stack \in S /\ a.errors \in SUBSET {"break", "undefined"} /\ a.paths \in SUBSET {"state"}
      /\ a.referenced \in SUBSET {"state"}
      /\ Acc = [stack : S, errors : SUBSET {"break", "undefined"}, paths : SUBSET {"state"},
                referenced : SUBSET {"state"}]
  BY DEF Acc
<1>2. DEFINE r == Reported(a, "undefined")
             d == Deferred(a, v)
<1> HIDE DEF S
<1>3. /\ r \in Acc /\ r.stack = a.stack /\ r.paths = a.paths /\ r.referenced = a.referenced
      /\ r.errors = a.errors \cup {"undefined"}
  BY <1>1 DEF Reported
<1>4. v = "state" =>
        /\ d \in Acc /\ d.stack = a.stack /\ d.paths = a.paths /\ d.errors = a.errors
        /\ d.referenced = a.referenced \cup {"state"}
  BY <1>1 DEF Deferred
<1> HIDE DEF r, d
<1>5. CASE v = Unused
  <2>1. Referenced(a, v, within) = a /\ ConditionReferenced(a, v, within) = a
    BY <1>0, <1>5 DEF Referenced, ConditionReferenced, Specific
  <2> QED BY <2>1, <1>0, <1>5 DEF Uses
<1>6. CASE v = "item"
  <2>1. v # Unused /\ v \in Specific
    BY <1>0, <1>6 DEF Specific
  <2>2. Defined(v, within, a.paths) <=> within.loop /\ within.foreach
    BY <1>6 DEF Defined
  <2>3. /\ Referenced(a, v, within) = IF within.loop /\ within.foreach THEN a ELSE r
        /\ ConditionReferenced(a, v, within) = IF within.loop /\ within.foreach THEN a ELSE r
    BY <2>1, <2>2 DEF Referenced, ConditionReferenced, r
  <2> QED BY <2>3, <1>3, <1>6 DEF Uses
<1>7. CASE v = "iteration"
  <2>1. v # Unused /\ v \in Specific
    BY <1>0, <1>7 DEF Specific
  <2>2. Defined(v, within, a.paths) <=> within.loop /\ within.while
    BY <1>7 DEF Defined
  <2>3. /\ Referenced(a, v, within) = IF within.loop /\ within.while THEN a ELSE r
        /\ ConditionReferenced(a, v, within) = IF within.loop /\ within.while THEN a ELSE r
    BY <2>1, <2>2 DEF Referenced, ConditionReferenced, r
  <2> QED BY <2>3, <1>3, <1>7 DEF Uses
<1>8. CASE v = "state"
  <2>1. v # Unused /\ v \notin Specific
    BY <1>0, <1>8 DEF Specific
  <2>2. Defined(v, within, a.paths) <=> "state" \in a.paths
    BY <1>8 DEF Defined
  <2>3. /\ Referenced(a, v, within) = IF "state" \in a.paths THEN a ELSE d
        /\ ConditionReferenced(a, v, within) = d
    BY <2>1, <2>2 DEF Referenced, ConditionReferenced, d
  <2> QED BY <2>3, <1>4, <1>8 DEF Uses
<1> QED BY <1>5, <1>6, <1>7, <1>8 DEF Specific

LEMMA ValidatedIs ==
  ASSUME ~CustomNames, NEW a \in Acc, NEW l \in Line
  PROVE  Validated(a, l) \in Acc /\ Walks(a, l, Validated(a, l), {})
<1> DEFINE b == Validated(a, l)
           c == Current(a)
           t == l.type
           s == Stacked(a.stack, l)
           S == Seq(Contexts \cup {Last(<<>>)})
           Keeps(x) == [x EXCEPT !.stack = s]
<1> SUFFICES b \in Acc /\ Walks(a, l, b, {})
  OBVIOUS
<1>0. /\ t \in {"while", "foreach", "if", "step", "update", "break", "parallel", "end"}
      /\ l.use \in Specific \cup {"state", Unused}
      /\ t \in {"update", "break", "parallel", "end"} => l.use = Unused
  BY LineIs DEF Blocks
<1>1. Unused \notin {"item", "iteration", "state"}
  BY ValidatorAssumption
<1>2. s \in S /\ Acc = [stack : S, errors : SUBSET {"break", "undefined"}, paths : SUBSET {"state"},
                        referenced : SUBSET {"state"}]
  BY StackedIs DEF Acc
<1> HIDE DEF s, S
<1>3. ASSUME NEW x \in Acc
      PROVE  /\ Keeps(x) \in Acc /\ Keeps(x).stack = s /\ Keeps(x).errors = x.errors
             /\ Keeps(x).paths = x.paths /\ Keeps(x).referenced = x.referenced
  BY <1>2
<1>4. ASSUME NEW x \in Acc, NEW how, Uses(a, l.use, x, Standing(a, l), how),
             t \notin {"update", "break"}, how = "condition" <=> t \in {"while", "if"}, b = Keeps(x)
      PROVE  b \in Acc /\ Walks(a, l, b, {})
  <2>1. b \in Acc /\ b.stack = s /\ b.errors = x.errors /\ b.paths = x.paths /\ b.referenced = x.referenced
    BY <1>3, <1>4
  <2> HIDE DEF b
  <2> QED BY <2>1, <1>4 DEF Walks, Uses, s
<1>5. CASE t = "foreach"
  <2> DEFINE x == Referenced(a, l.use, c)
  <2>1. x \in Acc /\ Uses(a, l.use, x, c, "reference")
    BY <1>0, ReferenceIs
  <2>2. Standing(a, l) = c /\ s = Append(a.stack, InForeach)
    BY <1>5 DEF Standing, s, Stacked
  <2>3. b = Pushed(x, InForeach)
    BY <1>5 DEF Validated
  <2> HIDE DEF x, b, c
  <2>4. b = Keeps(x)
    BY <2>1, <2>2, <2>3 DEF Pushed, Uses
  <2> QED BY <2>1, <2>2, <2>4, <1>4, <1>5
<1>6. CASE t = "while"
  <2> DEFINE x == ConditionReferenced(a, l.use, InWhile)
  <2>1. x \in Acc /\ Uses(a, l.use, x, InWhile, "condition")
    BY <1>0, ReferenceIs
  <2>2. Standing(a, l) = InWhile /\ s = Append(a.stack, InWhile)
    BY <1>6 DEF Standing, s, Stacked
  <2>3. b = Pushed(x, InWhile)
    BY <1>6 DEF Validated
  <2> HIDE DEF x, b, c
  <2>4. b = Keeps(x)
    BY <2>1, <2>2, <2>3 DEF Pushed, Uses
  <2> QED BY <2>1, <2>2, <2>4, <1>4, <1>6
<1>7. CASE t = "if"
  <2> DEFINE y == Referenced(a, l.use, c)
             x == ConditionReferenced(y, l.use, c)
  <2>1. y \in Acc /\ Uses(a, l.use, y, c, "reference")
    BY <1>0, ReferenceIs
  <2>2. x \in Acc /\ Uses(y, l.use, x, c, "condition")
    <3> HIDE DEF y
    <3> QED BY <1>0, <2>1, ReferenceIs
  <2>3. Standing(a, l) = c /\ s = Append(a.stack, c)
    BY <1>7 DEF Standing, s, Stacked, Current
  <2>4. b = Pushed(x, c)
    BY <1>7 DEF Validated
  <2> HIDE DEF x, y, b, c
  <2>5. Uses(a, l.use, x, c, "condition")
    BY <2>1, <2>2 DEF Uses
  <2>6. b = Keeps(x)
    BY <2>3, <2>4, <2>5 DEF Pushed, Uses
  <2> QED BY <2>2, <2>3, <2>5, <2>6, <1>4, <1>7
<1>8. CASE t = "end"
  <2>1. b = Closed(a) /\ s = Front(a.stack)
    BY <1>8 DEF Validated, s, Stacked
  <2>2. b = Keeps(a)
    BY <2>1 DEF Closed
  <2>3. Uses(a, l.use, a, Standing(a, l), "reference")
    BY <1>0, <1>1, <1>8 DEF Uses
  <2> HIDE DEF b
  <2> QED BY <2>2, <2>3, <1>4, <1>8
<1>9. CASE t = "step"
  <2> DEFINE x == Referenced(a, l.use, c)
  <2>1. x \in Acc /\ Uses(a, l.use, x, c, "reference")
    BY <1>0, ReferenceIs
  <2>2. Standing(a, l) = c /\ s = a.stack
    BY <1>9 DEF Standing, s, Stacked
  <2>3. b = x
    BY <1>9 DEF Validated
  <2> HIDE DEF x, b, c
  <2>4. b = Keeps(x)
    BY <2>1, <2>2, <2>3, <1>2 DEF Uses
  <2> QED BY <2>1, <2>2, <2>4, <1>4, <1>9
<1>10. CASE t = "update"
  <2>1. b = [a EXCEPT !.paths = @ \cup {"state"}] /\ s = a.stack
    BY <1>10 DEF Validated, s, Stacked
  <2>2. /\ b \in Acc /\ b.stack = a.stack /\ b.errors = a.errors /\ b.referenced = a.referenced
        /\ b.paths = a.paths \cup {"state"}
    BY <2>1, <1>2
  <2> HIDE DEF b
  <2> QED BY <2>1, <2>2, <1>0, <1>1, <1>10 DEF Walks, s
<1>11. CASE t = "break"
  <2>1. b = (IF c.loop THEN a ELSE Reported(a, "break")) /\ s = a.stack
    BY <1>11 DEF Validated, s, Stacked
  <2>2. /\ b \in Acc /\ b.stack = a.stack /\ b.referenced = a.referenced /\ b.paths = a.paths
        /\ b.errors = IF c.loop THEN a.errors ELSE a.errors \cup {"break"}
    <3> HIDE DEF c, b
    <3> QED BY <2>1, <1>2 DEF Reported
  <2> HIDE DEF b
  <2> QED BY <2>1, <2>2, <1>0, <1>1, <1>11 DEF Walks, s
<1>12. CASE t = "parallel"
  <2>1. b = a /\ s = a.stack
    BY <1>12 DEF Validated, s, Stacked
  <2>2. b = Keeps(a)
    BY <2>1, <1>2
  <2>3. Uses(a, l.use, a, Standing(a, l), "reference")
    BY <1>0, <1>1, <1>12 DEF Uses
  <2> HIDE DEF b
  <2> QED BY <2>2, <2>3, <1>4, <1>12
<1> QED BY <1>0, <1>5, <1>6, <1>7, <1>8, <1>9, <1>10, <1>11, <1>12

(* Among the blocks before the d-th is one of the types.                   *)
Before(lines, B, d, types) == \E e \in 1..Len(B) : e < d /\ lines[B[e]].type \in types

(* The contexts that blocks make, inside a loop or not                     *)
Inside(lines, B, stack, loop) ==
  /\ stack \in Seq(Contexts) /\ Len(stack) = Len(B) + 1
  /\ \A d \in 1..Len(stack) :
       /\ stack[d].loop <=> loop \/ Before(lines, B, d, {"while", "foreach"})
       /\ ~loop /\ stack[d].foreach => Before(lines, B, d, {"foreach"})
       /\ ~loop /\ stack[d].while => Before(lines, B, d, {"while"})

LEMMA InsideStep ==
  ASSUME NEW lines, Nested(lines), NEW k \in 1..Len(lines), NEW B, Nest(lines, k - 1, B),
         NEW stack, NEW loop \in BOOLEAN, Inside(lines, B, stack, loop)
  PROVE  Inside(lines, NestedBy(lines[k], k, B), Stacked(stack, lines[k]), loop)
<1> DEFINE l == lines[k]
           n == Len(B)
           C == NestedBy(l, k, B)
           s == Stacked(stack, l)
           At(c, D, d) ==
             /\ c.loop <=> loop \/ Before(lines, D, d, {"while", "foreach"})
             /\ ~loop /\ c.foreach => Before(lines, D, d, {"foreach"})
             /\ ~loop /\ c.while => Before(lines, D, d, {"while"})
<1> SUFFICES Inside(lines, C, s, loop)
  OBVIOUS
<1>1. /\ k \in Nat /\ B \in Seq(1..(k - 1)) /\ n \in Nat
      /\ stack \in Seq(Contexts) /\ Len(stack) = n + 1
  BY LenProperties DEF Nested, Nest, Inside
<1>2. B \in Seq(1..k) /\ k \in 1..k
  <2>1. 1..(k - 1) \subseteq 1..k /\ k \in 1..k
    BY <1>1
  <2> QED BY <1>1, <2>1, SeqMonotonic
<1>3. stack # <<>> /\ n + 1 \in 1..Len(stack) /\ Last(stack) = stack[n + 1] /\ Last(stack) \in Contexts
  <2>1. n + 1 \in 1..Len(stack)
    BY <1>1
  <2>2. stack # <<>>
    BY <1>1, EmptySeq
  <2> QED BY <1>1, <2>1, <2>2, ElementOfSeq DEF Last
<1>4. ASSUME NEW d \in 1..(n + 1) PROVE At(stack[d], B, d)
  BY <1>1 DEF Inside
<1> HIDE DEF l, n
<1>5. ASSUME l.type \in Blocks, NEW c \in Contexts, s = Append(stack, c),
             c.loop <=> l.type \in {"while", "foreach"} \/ Last(stack).loop,
             ~loop /\ c.foreach => l.type = "foreach" \/ Last(stack).foreach,
             ~loop /\ c.while => l.type = "while" \/ Last(stack).while
      PROVE  Inside(lines, C, s, loop)
  <2>1. C = Append(B, k)
    BY <1>5 DEF NestedBy
  <2>2. C \in Seq(1..k) /\ Len(C) = n + 1 /\ C[n + 1] = k /\ \A e \in 1..n : C[e] = B[e]
    BY <2>1, <1>2, AppendProperties DEF n
  <2>3. /\ s \in Seq(Contexts) /\ Len(s) = n + 1 + 1 /\ s[n + 1 + 1] = c
        /\ \A d \in 1..(n + 1) : s[d] = stack[d]
    BY <1>1, <1>5, AppendProperties
  <2> HIDE DEF C, s
  <2>4. ASSUME NEW d \in 1..(n + 1), NEW types
        PROVE  Before(lines, C, d, types) <=> Before(lines, B, d, types)
    <3>1. \A e \in 1..Len(C) : e < d => e \in 1..n /\ C[e] = B[e]
      BY <2>2, <1>1
    <3>2. \A e \in 1..n : e \in 1..Len(C) /\ C[e] = B[e]
      BY <2>2, <1>1
    <3> QED BY <3>1, <3>2 DEF Before, n
  <2>5. ASSUME NEW d \in 1..(n + 1) PROVE At(s[d], C, d)
    BY <1>4, <2>3, <2>4
  <2>6. ASSUME NEW types
        PROVE  Before(lines, C, n + 1 + 1, types) <=>
                 l.type \in types \/ Before(lines, B, n + 1, types)
    <3>1. n + 1 \in 1..Len(C) /\ n + 1 < n + 1 + 1 /\ lines[C[n + 1]] = l
      BY <2>2, <1>1 DEF l
    <3>2. \A e \in 1..Len(C) : e < n + 1 + 1 => e = n + 1 \/ (e \in 1..n /\ e < n + 1 /\ C[e] = B[e])
      BY <2>2, <1>1
    <3>3. \A e \in 1..n : e \in 1..Len(C) /\ e < n + 1 + 1 /\ C[e] = B[e]
      BY <2>2, <1>1
    <3>4. ASSUME Before(lines, C, n + 1 + 1, types)
          PROVE  l.type \in types \/ Before(lines, B, n + 1, types)
      BY <3>1, <3>2, <3>4 DEF Before, n
    <3>5. ASSUME Before(lines, B, n + 1, types) PROVE Before(lines, C, n + 1 + 1, types)
      BY <3>3, <3>5 DEF Before, n
    <3>6. ASSUME l.type \in types PROVE Before(lines, C, n + 1 + 1, types)
      BY <3>1, <3>6 DEF Before
    <3> QED BY <3>4, <3>5, <3>6
  <2>7. At(c, C, n + 1 + 1)
    <3>1. At(Last(stack), B, n + 1)
      <4>1. n + 1 \in 1..(n + 1)
        BY <1>1
      <4> QED BY <4>1, <1>3, <1>4
    <3> QED BY <3>1, <2>6, <1>5
  <2>8. \A d \in 1..Len(s) : d \in 1..(n + 1) \/ d = n + 1 + 1
    BY <2>3, <1>1
  <2>9. Len(s) = Len(C) + 1
    BY <2>2, <2>3
  <2> QED BY <2>3, <2>5, <2>7, <2>8, <2>9 DEF Inside
<1>6. CASE l.type \in Blocks
  <2>1. l.type \in {"while", "foreach", "if"}
    BY <1>6 DEF Blocks
  <2>2. /\ InForeach \in Contexts /\ InForeach.loop /\ InForeach.foreach /\ ~InForeach.while
        /\ InWhile \in Contexts /\ InWhile.loop /\ ~InWhile.foreach /\ InWhile.while
    BY DEF InForeach, InWhile, Contexts
  <2>3. CASE l.type = "foreach"
    <3>1. s = Append(stack, InForeach)
      BY <2>3 DEF Stacked
    <3> HIDE DEF s, C
    <3> QED BY <3>1, <2>2, <2>3, <1>5, <1>6
  <2>4. CASE l.type = "while"
    <3>1. s = Append(stack, InWhile)
      BY <2>4 DEF Stacked
    <3> HIDE DEF s, C
    <3> QED BY <3>1, <2>2, <2>4, <1>5, <1>6
  <2>5. CASE l.type = "if"
    <3>1. s = Append(stack, Last(stack))
      BY <2>5 DEF Stacked
    <3> HIDE DEF s, C
    <3> QED BY <3>1, <2>5, <1>3, <1>5, <1>6
  <2> QED BY <2>1, <2>3, <2>4, <2>5
<1>7. CASE l.type = "end"
  <2>1. C = Front(B) /\ s = Front(stack) /\ B # <<>>
    <3>1. B # <<>>
      BY <1>7, NestStep DEF l
    <3> QED BY <3>1, <1>7 DEF NestedBy, Stacked, Blocks
  <2>2. n \in Nat \ {0} /\ Len(C) = n - 1 /\ \A e \in 1..(n - 1) : C[e] = B[e]
    <3>1. Front(B) \in Seq(1..(k - 1)) /\ n \in Nat \ {0} /\ Len(Front(B)) = n - 1 /\ \A e \in 1..(n - 1) : Front(B)[e] = B[e]
      BY <2>1, <1>1, FrontIs DEF n
    <3> QED BY <2>1, <3>1
  <2>3. s \in Seq(Contexts) /\ Len(s) = n /\ \A d \in 1..n : s[d] = stack[d]
    <3>1. /\ Front(stack) \in Seq(Contexts) /\ Len(Front(stack)) = Len(stack) - 1
          /\ \A d \in 1..(Len(stack) - 1) : Front(stack)[d] = stack[d]
      BY <1>1, <1>3, FrontIs
    <3>2. Len(stack) - 1 = n
      BY <1>1
    <3> QED BY <2>1, <3>1, <3>2
  <2> HIDE DEF C, s
  <2>4. ASSUME NEW d \in 1..n, NEW types
        PROVE  Before(lines, C, d, types) <=> Before(lines, B, d, types)
    <3>1. \A e \in 1..Len(C) : e \in 1..n /\ C[e] = B[e]
      BY <2>2
    <3>2. \A e \in 1..n : e < d => e \in 1..Len(C) /\ C[e] = B[e]
      BY <2>2
    <3> QED BY <3>1, <3>2 DEF Before, n
  <2>5. ASSUME NEW d \in 1..n PROVE At(s[d], C, d)
    <3>1. d \in 1..(n + 1) /\ s[d] = stack[d]
      BY <2>2, <2>3
    <3> QED BY <3>1, <2>4, <1>4
  <2>6. Len(s) = Len(C) + 1
    BY <2>2, <2>3
  <2> QED BY <2>3, <2>5, <2>6 DEF Inside
<1>8. CASE l.type \notin Blocks /\ l.type # "end"
  <2>1. C = B /\ s = stack
    BY <1>8 DEF NestedBy, Stacked, Blocks
  <2> QED BY <2>1
<1> QED BY <1>6, <1>7, <1>8

(* What is kept after each line                                            *)
Walk(lines, base, p, more) ==
  /\ p \in [0..Len(lines) -> Acc] /\ p[0] = base
  /\ \A i \in 1..Len(lines) :
       more[i] \subseteq {"break", "undefined"} /\ Walks(p[i - 1], lines[i], p[i], more[i])

LEMMA TaskWalk ==
  ASSUME ~CustomNames, NEW lines \in Seq(Line), NEW base \in Acc
  PROVE  \E p : /\ Walk(lines, base, p, [i \in 1..Len(lines) |-> {}])
                /\ p[Len(lines)] = FoldLeft(Validated, base, lines)
<1> DEFINE n == Len(lines)
           none == [i \in 1..n |-> {}]
           G == [i \in 1..n |-> [a \in Acc |-> Validated(a, lines[i])]]
           R(h) == h = [u \in SUBSET (1..n) |->
                          IF u = {} THEN base ELSE Validated(h[u \ {Max(u)}], lines[Max(u)])]
           f == CHOOSE h : R(h)
<1>0. n \in Nat /\ DOMAIN lines = 1..n
  BY LenProperties
<1>1. FoldLeft(Validated, base, lines) = f[1..n]
  <2> HIDE DEF n
  <2> QED BY <1>0 DEF FoldLeft, MapThenFoldSet
<1>2. ASSUME NEW i \in 1..n, NEW a \in Acc
      PROVE  Validated(a, lines[i]) \in Acc /\ Walks(a, lines[i], Validated(a, lines[i]), {})
  <2>1. lines[i] \in Line
    BY ElementOfSeq
  <2> QED BY <2>1, ValidatedIs
<1> HIDE DEF n
<1>3. G \in [1..n -> [Acc -> Acc]]
  BY <1>2
<1>4. PICK g : Folds(n, Acc, G, base, g)
  <2> HIDE DEF G
  <2> QED BY <1>0, <1>3, FoldExists
<1>5. R(g)
  <2> DEFINE again == [u \in SUBSET (1..n) |->
                     IF u = {} THEN base ELSE Validated(g[u \ {Max(u)}], lines[Max(u)])]
  <2>1. ASSUME NEW u \in SUBSET (1..n), u # {}
        PROVE  G[Max(u)][g[u \ {Max(u)}]] = Validated(g[u \ {Max(u)}], lines[Max(u)])
    <3>1. Max(u) \in 1..n
      BY <1>0, <2>1, Greatest
    <3>2. g[u \ {Max(u)}] \in Acc
      BY <1>4 DEF Folds
    <3> QED BY <3>1, <3>2
  <2>2. \A u \in SUBSET (1..n) : g[u] = again[u]
    <3> HIDE DEF G
    <3> QED BY <1>4, <2>1 DEF Folds
  <2>3. g = [u \in SUBSET (1..n) |-> g[u]]
    <3> HIDE DEF G
    <3> QED BY <1>4 DEF Folds
  <2>4. g = again
    BY <2>2, <2>3
  <2> QED BY <2>4
<1>6. R(f)
  BY <1>5
<1>7. PICK p : FoldRun(n, Acc, G, base, p, f[1..n])
  <2>1. f[{}] = base
    BY <1>6
  <2>2. ASSUME NEW u \in SUBSET (1..n), u # {}, f[u \ {Max(u)}] \in Acc
        PROVE  f[u] = G[Max(u)][f[u \ {Max(u)}]]
    <3>1. f[u] = Validated(f[u \ {Max(u)}], lines[Max(u)])
      BY <1>6, <2>2
    <3>2. Max(u) \in 1..n
      BY <1>0, <2>2, Greatest
    <3> HIDE DEF f
    <3> QED BY <3>1, <3>2, <2>2
  <2> HIDE DEF f, G
  <2> QED BY <1>0, <1>3, <2>1, <2>2, FoldResult
<1> HIDE DEF f
<1>8. ASSUME NEW i \in 1..n PROVE none[i] \subseteq {"break", "undefined"} /\ Walks(p[i - 1], lines[i], p[i], none[i])
  <2>1. i - 1 \in 0..n /\ i \in 0..n
    BY <1>0
  <2>2. p[i - 1] \in Acc /\ p[i] = G[i][p[i - 1]]
    <3> HIDE DEF G
    <3> QED BY <2>1, <1>7 DEF FoldRun
  <2>3. p[i] = Validated(p[i - 1], lines[i])
    BY <2>2
  <2> QED BY <2>2, <2>3, <1>2
<1>9. p \in [0..n -> Acc] /\ p[0] = base /\ p[n] = f[1..n]
  <2> HIDE DEF G
  <2> QED BY <1>7 DEF FoldRun
<1>10. Walk(lines, base, p, none)
  <2> HIDE DEF none
  <2> QED BY <1>8, <1>9 DEF Walk, n
<1> QED BY <1>1, <1>9, <1>10 DEF n

(* What was found in the lines so far                                      *)
LEMMA WalkFinds ==
  ASSUME NEW lines \in Seq(Line), NEW base \in Acc, NEW p, NEW more, Walk(lines, base, p, more),
         base.errors = {}, base.paths = {}, base.referenced = {}, NEW k \in 0..Len(lines)
  PROVE  /\ "break" \in p[k].errors <=>
              \E i \in 1..k : \/ "break" \in more[i]
                              \/ lines[i].type = "break" /\ ~Current(p[i - 1]).loop
         /\ "undefined" \in p[k].errors <=>
              \E i \in 1..k :
                LET c == Standing(p[i - 1], lines[i])
                IN  \/ "undefined" \in more[i]
                    \/ lines[i].use = "item" /\ ~(c.loop /\ c.foreach)
                    \/ lines[i].use = "iteration" /\ ~(c.loop /\ c.while)
         /\ "state" \in p[k].paths <=> \E i \in 1..k : lines[i].type = "update"
         /\ "state" \in p[k].referenced => \E i \in 1..k : lines[i].use = "state"
         /\ (\E i \in 1..k : lines[i].use = "state") =>
              "state" \in p[k].referenced \/ "state" \in p[k].paths
<1> DEFINE n == Len(lines)
           Breaks(i) == "break" \in more[i] \/ (lines[i].type = "break" /\ ~Current(p[i - 1]).loop)
           Undefined(i) ==
             LET c == Standing(p[i - 1], lines[i])
             IN  \/ "undefined" \in more[i]
                 \/ lines[i].use = "item" /\ ~(c.loop /\ c.foreach)
                 \/ lines[i].use = "iteration" /\ ~(c.loop /\ c.while)
           Found(j) ==
             /\ "break" \in p[j].errors <=> \E i \in 1..j : Breaks(i)
             /\ "undefined" \in p[j].errors <=> \E i \in 1..j : Undefined(i)
             /\ "state" \in p[j].paths <=> \E i \in 1..j : lines[i].type = "update"
             /\ "state" \in p[j].referenced => \E i \in 1..j : lines[i].use = "state"
             /\ (\E i \in 1..j : lines[i].use = "state") =>
                  "state" \in p[j].referenced \/ "state" \in p[j].paths
           Good == {j \in 0..n : Found(j)}
<1>0. n \in Nat
  BY LenProperties
<1>1. 0 \in Good
  <2>1. p[0] = base /\ \A i \in 1..0 : FALSE
    BY DEF Walk
  <2> HIDE DEF Breaks, Undefined
  <2> QED BY <2>1, <1>0
<1>2. ASSUME NEW j \in 1..n, j - 1 \in Good PROVE j \in Good
  <2>1. Found(j - 1) /\ j \in 0..n
    BY <1>0, <1>2
  <2>2. \A i \in 1..j : i \in 1..(j - 1) \/ i = j
    BY <1>0
  <2>3. j \in 1..j /\ \A i \in 1..(j - 1) : i \in 1..j
    BY <1>0
  <2>4. Walks(p[j - 1], lines[j], p[j], more[j])
    BY DEF Walk
  <2>5. /\ "break" \in p[j].errors <=> "break" \in p[j - 1].errors \/ Breaks(j)
        /\ "undefined" \in p[j].errors <=> "undefined" \in p[j - 1].errors \/ Undefined(j)
        /\ "state" \in p[j].paths <=> "state" \in p[j - 1].paths \/ lines[j].type = "update"
        /\ "state" \in p[j].referenced => "state" \in p[j - 1].referenced \/ lines[j].use = "state"
        /\ "state" \in p[j - 1].referenced => "state" \in p[j].referenced
        /\ lines[j].use = "state" => "state" \in p[j].referenced \/ "state" \in p[j - 1].paths
    BY <2>4 DEF Walks
  <2> HIDE DEF Breaks, Undefined
  <2>6. "break" \in p[j].errors <=> \E i \in 1..j : Breaks(i)
    BY <2>1, <2>2, <2>3, <2>5
  <2>7. "undefined" \in p[j].errors <=> \E i \in 1..j : Undefined(i)
    BY <2>1, <2>2, <2>3, <2>5
  <2>8. "state" \in p[j].paths <=> \E i \in 1..j : lines[i].type = "update"
    BY <2>1, <2>2, <2>3, <2>5
  <2>9. "state" \in p[j].referenced => \E i \in 1..j : lines[i].use = "state"
    BY <2>1, <2>2, <2>3, <2>5
  <2>10. (\E i \in 1..j : lines[i].use = "state") =>
           "state" \in p[j].referenced \/ "state" \in p[j].paths
    BY <2>1, <2>2, <2>3, <2>5
  <2> QED BY <2>1, <2>6, <2>7, <2>8, <2>9, <2>10
<1>3. \A j \in 0..n : j \in Good
  <2> HIDE DEF Good
  <2> QED BY <1>0, <1>1, <1>2, UpTo
<1>4. Found(k)
  BY <1>3
<1> QED BY <1>4

LEMMA WalkStacks ==
  ASSUME NEW lines, Nested(lines), NEW base \in Acc, NEW p, NEW more, Walk(lines, base, p, more),
         NEW loop \in BOOLEAN, Inside(lines, <<>>, base.stack, loop), NEW k \in 0..Len(lines)
  PROVE  \E B : Nest(lines, k, B) /\ Inside(lines, B, p[k].stack, loop)
<1> DEFINE n == Len(lines)
           Good == {j \in 0..n : \E B : Nest(lines, j, B) /\ Inside(lines, B, p[j].stack, loop)}
<1>0. n \in Nat
  BY LenProperties DEF Nested
<1>1. 0 \in Good
  BY <1>0, NestStart DEF Walk
<1>2. ASSUME NEW j \in 1..n, j - 1 \in Good PROVE j \in Good
  <2>1. PICK B : Nest(lines, j - 1, B) /\ Inside(lines, B, p[j - 1].stack, loop)
    BY <1>2
  <2>2. p[j].stack = Stacked(p[j - 1].stack, lines[j])
    BY DEF Walk, Walks
  <2>3. Nest(lines, j, NestedBy(lines[j], j, B)) /\ Inside(lines, NestedBy(lines[j], j, B), p[j].stack, loop)
    BY <2>1, <2>2, NestStep, InsideStep
  <2>4. j \in 0..n
    BY <1>0
  <2> QED BY <2>3, <2>4
<1>3. \A j \in 0..n : j \in Good
  <2> HIDE DEF Good
  <2> QED BY <1>0, <1>1, <1>2, UpTo
<1> QED BY <1>3

LEMMA ContextIs ==
  ASSUME NEW lines, NEW parent
  PROVE  /\ TaskContext(lines, parent) \in Contexts
         /\ HasLine(lines, {"while"}) \/ HasLine(lines, {"foreach"}) => TaskContext(lines, parent).loop
<1> DEFINE while == HasLine(lines, {"while"})
           foreach == HasLine(lines, {"foreach", "parallel"})
<1>1. while \in BOOLEAN /\ foreach \in BOOLEAN /\ (HasLine(lines, {"foreach"}) => foreach)
  BY DEF HasLine
<1>2. TaskContext(lines, parent) =
        [loop |-> parent.loop \/ while \/ foreach, foreach |-> parent.foreach \/ foreach,
         while |-> parent.while \/ while]
  BY DEF TaskContext
<1> HIDE DEF while, foreach
<1>3. /\ (parent.loop \/ while \/ foreach) \in BOOLEAN /\ (parent.foreach \/ foreach) \in BOOLEAN
      /\ (parent.while \/ while) \in BOOLEAN
  OBVIOUS
<1> QED BY <1>1, <1>2, <1>3 DEF Contexts, while

TaskBase(lines, parent) == [Started EXCEPT !.stack = <<TaskContext(lines, parent)>>]

LEMMA BaseIs ==
  ASSUME NEW lines, NEW parent
  PROVE  /\ TaskBase(lines, parent) \in Acc
         /\ TaskBase(lines, parent).stack = <<TaskContext(lines, parent)>>
         /\ TaskBase(lines, parent).errors = {} /\ TaskBase(lines, parent).paths = {}
         /\ TaskBase(lines, parent).referenced = {}
<1>1. <<TaskContext(lines, parent)>> \in Seq(Contexts \cup {Last(<<>>)})
  <2>1. TaskContext(lines, parent) \in Contexts \cup {Last(<<>>)}
    BY ContextIs
  <2> HIDE DEF Contexts
  <2> QED BY <2>1
<1> QED BY <1>1 DEF TaskBase, Started, Acc

LEMMA StartedIs ==
  /\ Started \in Acc /\ Started.stack = <<NoLoop>> /\ NoLoop \in Contexts
  /\ Started.errors = {} /\ Started.paths = {} /\ Started.referenced = {}
<1>1. NoLoop \in Contexts
  BY DEF NoLoop, Contexts
<1>2. <<NoLoop>> \in Seq(Contexts \cup {Last(<<>>)})
  BY <1>1
<1> QED BY <1>1, <1>2 DEF Started, Acc

LEMMA OneIs ==
  ASSUME NEW lines, NEW c \in Contexts, NEW loop \in BOOLEAN,
         (loop /\ c.loop) \/ (~loop /\ c = NoLoop)
  PROVE  Inside(lines, <<>>, <<c>>, loop)
<1>1. \A d, types : ~Before(lines, <<>>, d, types)
  BY EmptySeq DEF Before
<1>2. <<c>> \in Seq(Contexts) /\ Len(<<c>>) = 1 /\ <<c>>[1] = c /\ \A d \in 1..1 : d = 1
  OBVIOUS
<1>3. c = NoLoop => ~c.loop /\ ~c.foreach /\ ~c.while
  BY DEF NoLoop
<1>4. Len(<<>>) + 1 = 1
  BY EmptySeq
<1> QED BY <1>1, <1>2, <1>3, <1>4 DEF Inside

Undeclared(lines) == (\E i \in DOMAIN lines : lines[i].use = "state") /\ ~HasLine(lines, {"update"})
SpecificIn(lines) == \E i \in DOMAIN lines : lines[i].use \in Specific

LEMMA TaskErrorsAre ==
  ASSUME ~CustomNames, NEW lines, Nested(lines), NEW parent
  PROVE  /\ TaskErrors(lines, parent) \subseteq {"break", "undefined"}
         /\ "break" \in TaskErrors(lines, parent) =>
              \E i \in DOMAIN lines : lines[i].type = "break" /\ ~InLoop(lines, i)
         /\ ~SpecificIn(lines) =>
              ("undefined" \in TaskErrors(lines, parent) <=> Undeclared(lines))
<1> DEFINE n == Len(lines)
           base == TaskBase(lines, parent)
           within == TaskContext(lines, parent)
           none == [i \in 1..n |-> {}]
           end == FoldLeft(Validated, base, lines)
<1>0. lines \in Seq(Line) /\ n \in Nat /\ DOMAIN lines = 1..n
  BY LenProperties DEF Nested
<1>1. /\ base \in Acc /\ base.stack = <<within>> /\ base.errors = {} /\ base.paths = {}
      /\ base.referenced = {} /\ within \in Contexts
  BY BaseIs, ContextIs
<1>2. TaskErrors(lines, parent) =
        end.errors \cup {e \in {"undefined"} : \E v \in end.referenced : ~Defined(v, within, end.paths)}
  BY DEF TaskErrors, TaskBase
<1> HIDE DEF base, within
<1>3. PICK p : Walk(lines, base, p, none) /\ p[n] = end
  BY <1>0, <1>1, TaskWalk
<1> HIDE DEF end
<1>4. end \in Acc
  BY <1>0, <1>3 DEF Walk
<1>5. TaskErrors(lines, parent) \subseteq {"break", "undefined"}
  BY <1>2, <1>4 DEF Acc
<1>6. (\E v \in end.referenced : ~Defined(v, within, end.paths))
        <=> "state" \in end.referenced /\ "state" \notin end.paths
  <2>1. end.referenced \subseteq {"state"}
    BY <1>4 DEF Acc
  <2>2. Defined("state", within, end.paths) <=> "state" \in end.paths
    BY DEF Defined
  <2> QED BY <2>1, <2>2
<1>7. n \in 0..n
  BY <1>0
<1>8. \A i \in 1..n : none[i] = {}
  OBVIOUS
<1> HIDE DEF none
<1>9. /\ "break" \in end.errors =>
           \E i \in 1..n : lines[i].type = "break" /\ ~Current(p[i - 1]).loop
      /\ ~SpecificIn(lines) => "undefined" \notin end.errors
      /\ "state" \in end.paths <=> \E i \in 1..n : lines[i].type = "update"
      /\ "state" \in end.referenced => \E i \in 1..n : lines[i].use = "state"
      /\ (\E i \in 1..n : lines[i].use = "state") => "state" \in end.referenced \/ "state" \in end.paths
  <2>1. /\ "break" \in p[n].errors <=>
              \E i \in 1..n : \/ "break" \in none[i]
                              \/ lines[i].type = "break" /\ ~Current(p[i - 1]).loop
        /\ "undefined" \in p[n].errors <=>
              \E i \in 1..n :
                LET c == Standing(p[i - 1], lines[i])
                IN  \/ "undefined" \in none[i]
                    \/ lines[i].use = "item" /\ ~(c.loop /\ c.foreach)
                    \/ lines[i].use = "iteration" /\ ~(c.loop /\ c.while)
        /\ "state" \in p[n].paths <=> \E i \in 1..n : lines[i].type = "update"
        /\ "state" \in p[n].referenced => \E i \in 1..n : lines[i].use = "state"
        /\ (\E i \in 1..n : lines[i].use = "state") =>
              "state" \in p[n].referenced \/ "state" \in p[n].paths
    <3> HIDE DEF n
    <3> QED BY <1>0, <1>1, <1>3, <1>7, WalkFinds DEF n
  <2>2. ~SpecificIn(lines) => \A i \in 1..n : lines[i].use # "item" /\ lines[i].use # "iteration"
    BY <1>0 DEF SpecificIn, Specific
  <2> QED BY <2>1, <2>2, <1>3, <1>8
<1>10. ASSUME "break" \in TaskErrors(lines, parent)
       PROVE  \E i \in DOMAIN lines : lines[i].type = "break" /\ ~InLoop(lines, i)
  <2>1. PICK i \in 1..n : lines[i].type = "break" /\ ~Current(p[i - 1]).loop
    BY <1>2, <1>9, <1>10
  <2>2. ASSUME InLoop(lines, i) PROVE FALSE
    <3>1. PICK b \in Around(lines, i) : lines[b].type \in {"while", "foreach"}
      BY <2>2 DEF InLoop
    <3>2. b \in 1..n
      BY <1>0 DEF Around
    <3>3. within.loop
      BY <3>1, <3>2, <1>0, ContextIs DEF HasLine, within
    <3>4. Inside(lines, <<>>, base.stack, TRUE)
      BY <3>3, <1>1, OneIs
    <3>5. i - 1 \in 0..n
      BY <1>0
    <3>6. PICK B : Nest(lines, i - 1, B) /\ Inside(lines, B, p[i - 1].stack, TRUE)
      BY <3>4, <3>5, <1>1, <1>3, WalkStacks
    <3>7. Len(p[i - 1].stack) = Len(B) + 1 /\ Len(B) \in Nat
      BY <3>6, LenProperties DEF Inside, Nest
    <3>8. Len(p[i - 1].stack) \in 1..Len(p[i - 1].stack)
      BY <3>7
    <3>9. p[i - 1].stack[Len(p[i - 1].stack)].loop
      BY <3>6, <3>8 DEF Inside
    <3> QED BY <2>1, <3>9 DEF Current, Last
  <2> QED BY <2>1, <2>2, <1>0
<1>11. ASSUME ~SpecificIn(lines)
       PROVE  "undefined" \in TaskErrors(lines, parent) <=> Undeclared(lines)
  <2>1. "undefined" \in TaskErrors(lines, parent) <=>
          "undefined" \in end.errors \/ ("state" \in end.referenced /\ "state" \notin end.paths)
    BY <1>2, <1>6
  <2>2. Undeclared(lines) <=> /\ \E i \in 1..n : lines[i].use = "state"
                              /\ ~ \E i \in 1..n : lines[i].type = "update"
    BY <1>0 DEF Undeclared, HasLine
  <2> QED BY <2>1, <2>2, <1>9, <1>11
<1> QED BY <1>5, <1>10, <1>11

LEMMA ThroughIs ==
  ASSUME ~CustomNames, Nested(task), NEW a \in Acc, NEW l \in Line
  PROVE  /\ Through(a, l) \in Acc
         /\ \E more \in SUBSET {"break", "undefined"} :
              /\ Walks(a, l, Through(a, l), more)
              /\ more # {} => \E parent : more = TaskErrors(task, parent)
<1>1. Validated(a, l) \in Acc /\ Walks(a, l, Validated(a, l), {})
  BY ValidatedIs
<1>2. CASE l.type # "parallel"
  BY <1>1, <1>2 DEF Through
<1>3. CASE l.type = "parallel"
  <2> DEFINE parent == IF Current(a).loop THEN Current(a) ELSE NoLoop
             more == TaskErrors(task, parent)
  <2>1. more \in SUBSET {"break", "undefined"}
    BY TaskErrorsAre
  <2>2. Through(a, l) = [a EXCEPT !.errors = @ \cup more]
    BY <1>3 DEF Through
  <2>3. Validated(a, l) = a
    BY <1>3 DEF Validated
  <2> HIDE DEF more
  <2>4. /\ Through(a, l) \in Acc /\ Through(a, l).stack = a.stack /\ Through(a, l).paths = a.paths
        /\ Through(a, l).referenced = a.referenced /\ Through(a, l).errors = a.errors \cup more
    BY <2>1, <2>2 DEF Acc
  <2>5. Walks(a, l, a, {})
    BY <1>1, <2>3
  <2>6. Walks(a, l, Through(a, l), more)
    BY <2>4, <2>5 DEF Walks
  <2>7. more = TaskErrors(task, parent)
    BY DEF more
  <2> HIDE DEF parent
  <2> QED BY <2>1, <2>4, <2>6, <2>7
<1> QED BY <1>2, <1>3

LEMMA MainWalk ==
  ASSUME ~CustomNames, Nested(task), NEW lines \in Seq(Line), NEW base \in Acc
  PROVE  \E p, more :
           /\ Walk(lines, base, p, more) /\ p[Len(lines)] = FoldLeft(Through, base, lines)
           /\ \A i \in 1..Len(lines) : more[i] # {} => \E parent : more[i] = TaskErrors(task, parent)
<1> DEFINE n == Len(lines)
           G == [i \in 1..n |-> [a \in Acc |-> Through(a, lines[i])]]
           R(h) == h = [u \in SUBSET (1..n) |->
                          IF u = {} THEN base ELSE Through(h[u \ {Max(u)}], lines[Max(u)])]
           f == CHOOSE h : R(h)
<1>0. n \in Nat /\ DOMAIN lines = 1..n
  BY LenProperties
<1>1. FoldLeft(Through, base, lines) = f[1..n]
  <2> HIDE DEF n
  <2> QED BY <1>0 DEF FoldLeft, MapThenFoldSet
<1>2. ASSUME NEW i \in 1..n, NEW a \in Acc
      PROVE  /\ Through(a, lines[i]) \in Acc
             /\ \E m \in SUBSET {"break", "undefined"} :
                  /\ Walks(a, lines[i], Through(a, lines[i]), m)
                  /\ m # {} => \E parent : m = TaskErrors(task, parent)
  <2>1. lines[i] \in Line
    BY ElementOfSeq
  <2> QED BY <2>1, ThroughIs
<1> HIDE DEF n
<1>3. G \in [1..n -> [Acc -> Acc]]
  BY <1>2
<1>4. PICK g : Folds(n, Acc, G, base, g)
  <2> HIDE DEF G
  <2> QED BY <1>0, <1>3, FoldExists
<1>5. R(g)
  <2> DEFINE again == [u \in SUBSET (1..n) |->
                     IF u = {} THEN base ELSE Through(g[u \ {Max(u)}], lines[Max(u)])]
  <2>1. ASSUME NEW u \in SUBSET (1..n), u # {}
        PROVE  G[Max(u)][g[u \ {Max(u)}]] = Through(g[u \ {Max(u)}], lines[Max(u)])
    <3>1. Max(u) \in 1..n
      BY <1>0, <2>1, Greatest
    <3>2. g[u \ {Max(u)}] \in Acc
      BY <1>4 DEF Folds
    <3> QED BY <3>1, <3>2
  <2>2. \A u \in SUBSET (1..n) : g[u] = again[u]
    <3> HIDE DEF G
    <3> QED BY <1>4, <2>1 DEF Folds
  <2>3. g = [u \in SUBSET (1..n) |-> g[u]]
    <3> HIDE DEF G
    <3> QED BY <1>4 DEF Folds
  <2>4. g = again
    BY <2>2, <2>3
  <2> QED BY <2>4
<1>6. R(f)
  BY <1>5
<1>7. PICK p : FoldRun(n, Acc, G, base, p, f[1..n])
  <2>1. f[{}] = base
    BY <1>6
  <2>2. ASSUME NEW u \in SUBSET (1..n), u # {}, f[u \ {Max(u)}] \in Acc
        PROVE  f[u] = G[Max(u)][f[u \ {Max(u)}]]
    <3>1. f[u] = Through(f[u \ {Max(u)}], lines[Max(u)])
      BY <1>6, <2>2
    <3>2. Max(u) \in 1..n
      BY <1>0, <2>2, Greatest
    <3> HIDE DEF f
    <3> QED BY <3>1, <3>2, <2>2
  <2> HIDE DEF f, G
  <2> QED BY <1>0, <1>3, <2>1, <2>2, FoldResult
<1> HIDE DEF f
<1> DEFINE Among(i, m) ==
             /\ Walks(p[i - 1], lines[i], p[i], m)
             /\ m # {} => \E parent : m = TaskErrors(task, parent)
           more == [i \in 1..n |-> CHOOSE m \in SUBSET {"break", "undefined"} : Among(i, m)]
<1>8. ASSUME NEW i \in 1..n PROVE more[i] \in SUBSET {"break", "undefined"} /\ Among(i, more[i])
  <2>1. i - 1 \in 0..n /\ i \in 0..n
    BY <1>0
  <2>2. p[i - 1] \in Acc /\ p[i] = G[i][p[i - 1]]
    <3> HIDE DEF G
    <3> QED BY <2>1, <1>7 DEF FoldRun
  <2>3. p[i] = Through(p[i - 1], lines[i])
    BY <2>2
  <2>4. \E m \in SUBSET {"break", "undefined"} : Among(i, m)
    BY <2>2, <2>3, <1>2
  <2> HIDE DEF Among
  <2> QED BY <2>4
<1>9. p \in [0..n -> Acc] /\ p[0] = base /\ p[n] = f[1..n]
  <2> HIDE DEF G
  <2> QED BY <1>7 DEF FoldRun
<1>10. Walk(lines, base, p, more)
  <2> HIDE DEF more
  <2> QED BY <1>8, <1>9 DEF Walk, n
<1>11. \A i \in 1..n : more[i] # {} => \E parent : more[i] = TaskErrors(task, parent)
  <2> HIDE DEF more
  <2> QED BY <1>8
<1> HIDE DEF more
<1> QED BY <1>1, <1>9, <1>10, <1>11 DEF n


(* What the validator says of the steps of the workflow                    *)
LEMMA MainErrorsAre ==
  ASSUME ~CustomNames, Nested(main), Nested(task)
  PROVE  /\ "break" \in MainErrors =>
              \E lines \in {main, task} : \E i \in DOMAIN lines :
                lines[i].type = "break" /\ ~InLoop(lines, i)
         /\ ~SpecificIn(main) /\ ~SpecificIn(task) =>
              /\ "undefined" \in MainErrors => Undeclared(main) \/ Undeclared(task)
              /\ Undeclared(main) => "undefined" \in MainErrors
         /\ MainErrors = {} => \A i \in DOMAIN main :
              /\ main[i].type = "break" => InLoop(main, i)
              /\ main[i].use \in Specific => main[i].use \in Provided(main, i)
<1> DEFINE n == Len(main)
           end == FoldLeft(Through, Started, main)
<1>0. main \in Seq(Line) /\ n \in Nat /\ DOMAIN main = 1..n /\ n \in 0..n
  BY LenProperties DEF Nested
<1>1. MainErrors =
        end.errors \cup {e \in {"undefined"} :
                           \E v \in end.referenced \ {"custom"} : ~Defined(v, NoLoop, end.paths)}
  BY DEF MainErrors
<1>2. PICK p, more :
        /\ Walk(main, Started, p, more) /\ p[n] = end
        /\ \A i \in 1..n : more[i] # {} => \E parent : more[i] = TaskErrors(task, parent)
  BY <1>0, StartedIs, MainWalk
<1> HIDE DEF end
<1>3. end \in Acc
  BY <1>0, <1>2 DEF Walk
<1>4. (\E v \in end.referenced \ {"custom"} : ~Defined(v, NoLoop, end.paths))
        <=> "state" \in end.referenced /\ "state" \notin end.paths
  <2>1. end.referenced \subseteq {"state"}
    BY <1>3 DEF Acc
  <2>2. Defined("state", NoLoop, end.paths) <=> "state" \in end.paths
    BY DEF Defined
  <2> QED BY <2>1, <2>2
<1> DEFINE Unbroken(i) == "break" \in more[i] \/ (main[i].type = "break" /\ ~Current(p[i - 1]).loop)
           Context(i) == Standing(p[i - 1], main[i])
           Undefined(i) ==
             \/ "undefined" \in more[i]
             \/ main[i].use = "item" /\ ~(Context(i).loop /\ Context(i).foreach)
             \/ main[i].use = "iteration" /\ ~(Context(i).loop /\ Context(i).while)
<1>5. /\ "break" \in end.errors <=> \E i \in 1..n : Unbroken(i)
      /\ "undefined" \in end.errors <=> \E i \in 1..n : Undefined(i)
      /\ "state" \in end.paths <=> \E i \in 1..n : main[i].type = "update"
      /\ "state" \in end.referenced => \E i \in 1..n : main[i].use = "state"
      /\ (\E i \in 1..n : main[i].use = "state") => "state" \in end.referenced \/ "state" \in end.paths
  <2>1. /\ "break" \in p[n].errors <=>
              \E i \in 1..n : \/ "break" \in more[i]
                              \/ main[i].type = "break" /\ ~Current(p[i - 1]).loop
        /\ "undefined" \in p[n].errors <=>
              \E i \in 1..n :
                LET c == Standing(p[i - 1], main[i])
                IN  \/ "undefined" \in more[i]
                    \/ main[i].use = "item" /\ ~(c.loop /\ c.foreach)
                    \/ main[i].use = "iteration" /\ ~(c.loop /\ c.while)
        /\ "state" \in p[n].paths <=> \E i \in 1..n : main[i].type = "update"
        /\ "state" \in p[n].referenced => \E i \in 1..n : main[i].use = "state"
        /\ (\E i \in 1..n : main[i].use = "state") =>
              "state" \in p[n].referenced \/ "state" \in p[n].paths
    <3> HIDE DEF n
    <3> QED BY <1>0, <1>2, StartedIs, WalkFinds DEF n
  <2> QED BY <2>1, <1>2
<1>6. ASSUME NEW i \in 1..n
      PROVE  LET c == Current(p[i - 1])
             IN  /\ c.loop <=> InLoop(main, i)
                 /\ c.foreach => \E b \in Around(main, i) : main[b].type = "foreach"
                 /\ c.while => \E b \in Around(main, i) : main[b].type = "while"
  <2>1. Inside(main, <<>>, Started.stack, FALSE)
    BY StartedIs, OneIs
  <2>2. i - 1 \in 0..n /\ i \in 1..Len(main)
    BY <1>0
  <2>3. PICK B : Nest(main, i - 1, B) /\ Inside(main, B, p[i - 1].stack, FALSE)
    BY <2>1, <2>2, <1>2, StartedIs, WalkStacks
  <2> DEFINE stack == p[i - 1].stack
             d == Len(B) + 1
  <2>4. Len(B) \in Nat /\ Len(stack) = d /\ d \in 1..Len(stack) /\ Current(p[i - 1]) = stack[d]
    <3>1. Len(B) \in Nat /\ Len(stack) = Len(B) + 1
      BY <2>3, LenProperties DEF Inside, Nest
    <3> QED BY <3>1 DEF Current, Last
  <2>5. Around(main, i) = {B[e] : e \in 1..Len(B)}
    BY <2>2, <2>3, AroundIs
  <2>6. \A types : Before(main, B, d, types) <=> \E b \in Around(main, i) : main[b].type \in types
    <3>1. \A e \in 1..Len(B) : e < d
      BY <2>4
    <3> HIDE DEF d
    <3> QED BY <2>5, <3>1 DEF Before
  <2>7. /\ stack[d].loop <=> Before(main, B, d, {"while", "foreach"})
        /\ stack[d].foreach => Before(main, B, d, {"foreach"})
        /\ stack[d].while => Before(main, B, d, {"while"})
    BY <2>3, <2>4 DEF Inside
  <2> HIDE DEF stack, d
  <2> QED BY <2>4, <2>6, <2>7 DEF InLoop
<1>7. ASSUME "break" \in MainErrors
      PROVE  \E lines \in {main, task} : \E i \in DOMAIN lines :
               lines[i].type = "break" /\ ~InLoop(lines, i)
  <2>1. PICK i \in 1..n : Unbroken(i)
    BY <1>1, <1>5, <1>7
  <2>2. CASE "break" \in more[i]
    <3>1. PICK parent : more[i] = TaskErrors(task, parent)
      BY <2>2, <1>2
    <3>2. \E j \in DOMAIN task : task[j].type = "break" /\ ~InLoop(task, j)
      BY <2>2, <3>1, TaskErrorsAre
    <3> QED BY <3>2
  <2>3. CASE main[i].type = "break" /\ ~Current(p[i - 1]).loop
    <3>1. ~InLoop(main, i) /\ i \in DOMAIN main
      BY <2>3, <1>0, <1>6
    <3> QED BY <2>3, <3>1
  <2> QED BY <2>1, <2>2, <2>3
<1>8. ASSUME ~SpecificIn(main), ~SpecificIn(task)
      PROVE  /\ "undefined" \in MainErrors => Undeclared(main) \/ Undeclared(task)
             /\ Undeclared(main) => "undefined" \in MainErrors
  <2>1. Undeclared(main) <=> /\ \E i \in 1..n : main[i].use = "state"
                             /\ ~ \E i \in 1..n : main[i].type = "update"
    BY <1>0 DEF Undeclared, HasLine
  <2>2. "undefined" \in MainErrors <=>
          "undefined" \in end.errors \/ ("state" \in end.referenced /\ "state" \notin end.paths)
    BY <1>1, <1>4
  <2>3. ASSUME "undefined" \in end.errors PROVE Undeclared(task)
    <3>1. PICK i \in 1..n : Undefined(i)
      BY <1>5, <2>3
    <3>2. main[i].use # "item" /\ main[i].use # "iteration"
      BY <1>0, <1>8 DEF SpecificIn, Specific
    <3>3. "undefined" \in more[i]
      BY <3>1, <3>2
    <3>4. PICK parent : more[i] = TaskErrors(task, parent)
      BY <3>3, <1>2
    <3> QED BY <3>3, <3>4, <1>8, TaskErrorsAre
  <2> QED BY <2>1, <2>2, <2>3, <1>5
<1>9. ASSUME MainErrors = {}, NEW i \in DOMAIN main
      PROVE  /\ main[i].type = "break" => InLoop(main, i)
             /\ main[i].use \in Specific => main[i].use \in Provided(main, i)
  <2>1. i \in 1..n /\ ~Unbroken(i) /\ ~Undefined(i)
    BY <1>0, <1>1, <1>5, <1>9
  <2>2. main[i].type = "break" => InLoop(main, i)
    BY <2>1, <1>6
  <2>3. main[i] \in Line
    BY <1>0, <2>1, ElementOfSeq
  <2>4. \A b \in Around(main, i) : ~main[b].named
    <3>1. ASSUME NEW b \in Around(main, i) PROVE main[b] \in Line
      <4>1. b \in 1..n
        BY <2>1, <1>0 DEF Around
      <4> QED BY <4>1, <1>0, ElementOfSeq
    <3> QED BY <3>1, LineIs
  <2>5. ASSUME main[i].use = "item" PROVE "item" \in Provided(main, i)
    <3>1. Context(i).foreach
      BY <2>1, <2>5
    <3>2. main[i].type # "while"
      BY <3>1 DEF Standing, InWhile
    <3>3. \E b \in Around(main, i) : main[b].type = "foreach" /\ ~main[b].named
      BY <2>1, <2>4, <3>1, <3>2, <1>6 DEF Standing
    <3> QED BY <3>3 DEF Provided, Specific
  <2>6. ASSUME main[i].use = "iteration" PROVE "iteration" \in Provided(main, i)
    <3>1. CASE main[i].type = "while"
      BY <3>1 DEF Provided, Specific
    <3>2. CASE main[i].type # "while"
      <4>1. \E b \in Around(main, i) : main[b].type = "while"
        BY <2>1, <2>6, <3>2, <1>6 DEF Standing
      <4> QED BY <4>1 DEF Provided, Specific
    <3> QED BY <3>1, <3>2
  <2> QED BY <2>2, <2>5, <2>6 DEF Specific
<1> QED BY <1>7, <1>8, <1>9

LEMMA ScopedOK == ASSUME ~CustomNames, Nested(main), Nested(task) PROVE ReferencesScoped
<1>1. LoopsLexical
  <2>1. ASSUME "break" \in TaskErrors(task, NoLoop)
        PROVE  \E i \in DOMAIN task : task[i].type = "break" /\ ~InLoop(task, i)
    BY <2>1, TaskErrorsAre
  <2>2. "break" \in Errors =>
          \E lines \in {main, task} : \E i \in DOMAIN lines :
            lines[i].type = "break" /\ ~InLoop(lines, i)
    BY <2>1, MainErrorsAre DEF Errors
  <2>3. Accepted => MainErrors = {}
    BY DEF Accepted, Errors
  <2> QED BY <2>2, <2>3, MainErrorsAre DEF LoopsLexical
<1>2. TasksIsolated
  <2>1. ASSUME ~SpecificIn(main), ~SpecificIn(task)
        PROVE  "undefined" \in Errors <=> Undeclared(main) \/ Undeclared(task)
    <3>1. "undefined" \in TaskErrors(task, NoLoop) <=> Undeclared(task)
      BY <2>1, TaskErrorsAre
    <3> QED BY <2>1, <3>1, MainErrorsAre DEF Errors
  <2> QED BY <2>1 DEF TasksIsolated, SpecificIn, Undeclared
<1> QED BY <1>1, <1>2 DEF ReferencesScoped

(* Where foreach steps keep the names of their variables, and for any      *)
(* steps and any task: what is reported of a break, of loop.item and       *)
(* loop.iteration is right for the blocks that stand around the step, and  *)
(* a field of the state is missed if and only if no step of the same list  *)
(* sets it.                                                                *)
THEOREM ReferencesAreScoped ==
  ASSUME ~CustomNames
  PROVE  ValidatorSpec => []ReferencesScoped
<1> DEFINE LinesNested == Nested(main) /\ Nested(task)
<1>1. ValidatorInit => LinesNested
  BY ValidatorInitOK
<1>2. LinesNested /\ [ValidatorNext]_validatorVars => LinesNested'
  BY ValidatorStepOK
<1>3. LinesNested => ReferencesScoped
  BY ScopedOK
<1> QED BY <1>1, <1>2, <1>3, PTL DEF ValidatorSpec
=============================================================================
