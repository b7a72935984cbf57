--------------------------- MODULE AnalysisProofs ---------------------------
(***************************************************************************)
(* Theorems about the analysis of a project.                               *)
(*                                                                         *)
(* AnalysisCache, for any keys, levels' limits, threads and interleaving   *)
(* of calls for different keys: what a get returns is the value last set.  *)
(*                                                                         *)
(* IncrementalAnalysis, for any project: once all changes were seen, each  *)
(* file was analysed after all that it is known to import had changed.     *)
(*                                                                         *)
(* SourceSymbols with ParserCache, for any files, contents, requests and   *)
(* edits: an undisturbed call returns the symbols of its files as they     *)
(* are, and the cache of the parser knows its size and keeps to its limit. *)
(*                                                                         *)
(* Imports, for any files, statements and calls: a graph of fresh imports  *)
(* has the edges that the files make, and its circles are the files that   *)
(* reach each other.                                                       *)
(*                                                                         *)
(* Workspace, for any folders, configurations and texts: what is affected, *)
(* the build order and the symbols of a project follow them.               *)
(*                                                                         *)
(* FunctionDetails, for any functions, files, analyses and requests: what  *)
(* get_function_details answers is what single analyses would find.        *)
(*                                                                         *)
(* The folds are reasoned about with the lemmas of ServerProofs.           *)
(***************************************************************************)
EXTENDS AnalysisCache, IncrementalAnalysis, SourceSymbols, Imports, Workspace,
        FunctionDetails, ServerProofs

-----------------------------------------------------------------------------
(***************************************************************************)
(* The caches                                                              *)
(***************************************************************************)

(* The size of entries                                                     *)
LEMMA TotalIsNat ==
  ASSUME NEW s \in Seq(Entry)
  PROVE  Total(s) \in Nat
<1> DEFINE n == Len(s)
           Acc == Nat
           G == [i \in 1..n |-> [a \in Acc |-> a + s[i].size]]
           R(h) == h = [u \in SUBSET (1..n) |->
                          IF u = {} THEN 0 ELSE h[u \ {Max(u)}] + s[Max(u)].size]
           f == CHOOSE h : R(h)
<1>0. n \in Nat /\ DOMAIN s = 1..n
  BY LenProperties
<1>1. Total(s) = f[1..n]
  <2> HIDE DEF n
  <2> QED BY <1>0 DEF Total, FoldLeft, MapThenFoldSet
<1>2. G \in [1..n -> [Acc -> Acc]]
  <2>1. ASSUME NEW i \in 1..n, NEW a \in Acc PROVE a + s[i].size \in Acc
    <3>1. s[i] \in Entry
      BY ElementOfSeq
    <3>2. s[i].size \in Nat
      BY <3>1, CacheAssumption DEF Entry
    <3> QED BY <3>2
  <2> HIDE DEF Acc, n
  <2> QED BY <2>1
<1>3. 0 \in Acc
  OBVIOUS
<1> HIDE DEF n
<1>4. PICK g : Folds(n, Acc, G, 0, g)
  <2> HIDE DEF Acc, G
  <2> QED BY <1>0, <1>2, <1>3, FoldExists
<1>5. R(g)
  <2> DEFINE again == [u \in SUBSET (1..n) |->
                     IF u = {} THEN 0 ELSE g[u \ {Max(u)}] + s[Max(u)].size]
  <2>1. ASSUME NEW u \in SUBSET (1..n), u # {}
        PROVE  G[Max(u)][g[u \ {Max(u)}]] = g[u \ {Max(u)}] + s[Max(u)].size
    <3>1. Max(u) \in 1..n
      BY <1>0, <2>1, Greatest
    <3>2. g[u \ {Max(u)}] \in Acc
      BY <1>4 DEF Folds
    <3> HIDE DEF Acc
    <3> QED BY <3>1, <3>2
  <2>2. \A u \in SUBSET (1..n) : g[u] = again[u]
    <3> HIDE DEF Acc, G
    <3> QED BY <1>4, <2>1 DEF Folds
  <2>3. g = [u \in SUBSET (1..n) |-> g[u]]
    <3> HIDE DEF Acc, G
    <3> QED BY <1>4 DEF Folds
  <2>4. g = again
    BY <2>2, <2>3
  <2> QED BY <2>4
<1>6. R(f)
  BY <1>5
<1>7. \E p : Run(n, Acc, G, 0, p, f[1..n])
  <2>1. f[{}] = 0
    BY <1>6
  <2>2. ASSUME NEW u \in SUBSET (1..n), u # {}, f[u \ {Max(u)}] \in Acc
        PROVE  f[u] = G[Max(u)][f[u \ {Max(u)}]]
    <3>1. f[u] = f[u \ {Max(u)}] + s[Max(u)].size
      BY <1>6, <2>2
    <3>2. Max(u) \in 1..n
      BY <1>0, <2>2, Greatest
    <3> HIDE DEF f, Acc
    <3> QED BY <3>1, <3>2, <2>2
  <2> HIDE DEF f, G, Acc
  <2> QED BY <1>0, <1>2, <1>3, <2>1, <2>2, FoldResult
<1>8. f[1..n] \in Acc
  <2> HIDE DEF f, Acc
  <2> QED BY <1>0, <1>7 DEF Run
<1> QED BY <1>1, <1>8

(* The size of the entries of a key                                        *)
LEMMA FreedIsNat ==
  ASSUME NEW s \in Seq(Entry), NEW k
  PROVE  Freed(s, k) \in Nat
<1> DEFINE n == Len(s)
           Acc == Nat
           G == [i \in 1..n |-> [a \in Acc |-> (IF s[i].key = k THEN a + s[i].size ELSE a)]]
           R(h) == h = [u \in SUBSET (1..n) |->
                          IF u = {} THEN 0 ELSE (IF s[Max(u)].key = k THEN h[u \ {Max(u)}] + s[Max(u)].size ELSE h[u \ {Max(u)}])]
           f == CHOOSE h : R(h)
<1>0. n \in Nat /\ DOMAIN s = 1..n
  BY LenProperties
<1>1. Freed(s, k) = f[1..n]
  <2> HIDE DEF n
  <2> QED BY <1>0 DEF Freed, FoldLeft, MapThenFoldSet
<1>2. G \in [1..n -> [Acc -> Acc]]
  <2>1. ASSUME NEW i \in 1..n, NEW a \in Acc PROVE (IF s[i].key = k THEN a + s[i].size ELSE a) \in Acc
    <3>1. s[i] \in Entry
      BY ElementOfSeq
    <3>2. s[i].size \in Nat
      BY <3>1, CacheAssumption DEF Entry
    <3> QED BY <3>2
  <2> HIDE DEF Acc, n
  <2> QED BY <2>1
<1>3. 0 \in Acc
  OBVIOUS
<1> HIDE DEF n
<1>4. PICK g : Folds(n, Acc, G, 0, g)
  <2> HIDE DEF Acc, G
  <2> QED BY <1>0, <1>2, <1>3, FoldExists
<1>5. R(g)
  <2> DEFINE again == [u \in SUBSET (1..n) |->
                     IF u = {} THEN 0 ELSE (IF s[Max(u)].key = k THEN g[u \ {Max(u)}] + s[Max(u)].size ELSE g[u \ {Max(u)}])]
  <2>1. ASSUME NEW u \in SUBSET (1..n), u # {}
        PROVE  G[Max(u)][g[u \ {Max(u)}]] = (IF s[Max(u)].key = k THEN g[u \ {Max(u)}] + s[Max(u)].size ELSE g[u \ {Max(u)}])
    <3>1. Max(u) \in 1..n
      BY <1>0, <2>1, Greatest
    <3>2. g[u \ {Max(u)}] \in Acc
      BY <1>4 DEF Folds
    <3> HIDE DEF Acc
    <3> QED BY <3>1, <3>2
  <2>2. \A u \in SUBSET (1..n) : g[u] = again[u]
    <3> HIDE DEF Acc, G
    <3> QED BY <1>4, <2>1 DEF Folds
  <2>3. g = [u \in SUBSET (1..n) |-> g[u]]
    <3> HIDE DEF Acc, G
    <3> QED BY <1>4 DEF Folds
  <2>4. g = again
    BY <2>2, <2>3
  <2> QED BY <2>4
<1>6. R(f)
  BY <1>5
<1>7. \E p : Run(n, Acc, G, 0, p, f[1..n])
  <2>1. f[{}] = 0
    BY <1>6
  <2>2. ASSUME NEW u \in SUBSET (1..n), u # {}, f[u \ {Max(u)}] \in Acc
        PROVE  f[u] = G[Max(u)][f[u \ {Max(u)}]]
    <3>1. f[u] = (IF s[Max(u)].key = k THEN f[u \ {Max(u)}] + s[Max(u)].size ELSE f[u \ {Max(u)}])
      BY <1>6, <2>2
    <3>2. Max(u) \in 1..n
      BY <1>0, <2>2, Greatest
    <3> HIDE DEF f, Acc
    <3> QED BY <3>1, <3>2, <2>2
  <2> HIDE DEF f, G, Acc
  <2> QED BY <1>0, <1>2, <1>3, <2>1, <2>2, FoldResult
<1>8. f[1..n] \in Acc
  <2> HIDE DEF f, Acc
  <2> QED BY <1>0, <1>7 DEF Run
<1> QED BY <1>1, <1>8

(* The entries of other keys                                               *)
LEMMA WithoutHas ==
  ASSUME NEW P, NEW s \in Seq(P), NEW k
  PROVE  Without(s, k) \in Seq({e \in P : e.key # k})
<1> DEFINE n == Len(s)
           Acc == Seq({e \in P : e.key # k})
           G == [i \in 1..n |-> [a \in Acc |-> (IF s[i].key = k THEN a ELSE Append(a, s[i]))]]
           R(h) == h = [u \in SUBSET (1..n) |->
                          IF u = {} THEN <<>> ELSE (IF s[Max(u)].key = k THEN h[u \ {Max(u)}] ELSE Append(h[u \ {Max(u)}], s[Max(u)]))]
           f == CHOOSE h : R(h)
<1>0. n \in Nat /\ DOMAIN s = 1..n
  BY LenProperties
<1>1. Without(s, k) = f[1..n]
  <2> HIDE DEF n
  <2> QED BY <1>0 DEF Without, FoldLeft, MapThenFoldSet
<1>2. G \in [1..n -> [Acc -> Acc]]
  <2>1. ASSUME NEW i \in 1..n, NEW a \in Acc PROVE (IF s[i].key = k THEN a ELSE Append(a, s[i])) \in Acc
    <3>1. s[i] \in P
      BY ElementOfSeq
    <3> QED BY <3>1
  <2> HIDE DEF Acc, n
  <2> QED BY <2>1
<1>3. <<>> \in Acc
  BY EmptySeq
<1> HIDE DEF n
<1>4. PICK g : Folds(n, Acc, G, <<>>, g)
  <2> HIDE DEF Acc, G
  <2> QED BY <1>0, <1>2, <1>3, FoldExists
<1>5. R(g)
  <2> DEFINE again == [u \in SUBSET (1..n) |->
                     IF u = {} THEN <<>> ELSE (IF s[Max(u)].key = k THEN g[u \ {Max(u)}] ELSE Append(g[u \ {Max(u)}], s[Max(u)]))]
  <2>1. ASSUME NEW u \in SUBSET (1..n), u # {}
        PROVE  G[Max(u)][g[u \ {Max(u)}]] = (IF s[Max(u)].key = k THEN g[u \ {Max(u)}] ELSE Append(g[u \ {Max(u)}], s[Max(u)]))
    <3>1. Max(u) \in 1..n
      BY <1>0, <2>1, Greatest
    <3>2. g[u \ {Max(u)}] \in Acc
      BY <1>4 DEF Folds
    <3> HIDE DEF Acc
    <3> QED BY <3>1, <3>2
  <2>2. \A u \in SUBSET (1..n) : g[u] = again[u]
    <3> HIDE DEF Acc, G
    <3> QED BY <1>4, <2>1 DEF Folds
  <2>3. g = [u \in SUBSET (1..n) |-> g[u]]
    <3> HIDE DEF Acc, G
    <3> QED BY <1>4 DEF Folds
  <2>4. g = again
    BY <2>2, <2>3
  <2> QED BY <2>4
<1>6. R(f)
  BY <1>5
<1>7. \E p : Run(n, Acc, G, <<>>, p, f[1..n])
  <2>1. f[{}] = <<>>
    BY <1>6
  <2>2. ASSUME NEW u \in SUBSET (1..n), u # {}, f[u \ {Max(u)}] \in Acc
        PROVE  f[u] = G[Max(u)][f[u \ {Max(u)}]]
    <3>1. f[u] = (IF s[Max(u)].key = k THEN f[u \ {Max(u)}] ELSE Append(f[u \ {Max(u)}], s[Max(u)]))
      BY <1>6, <2>2
    <3>2. Max(u) \in 1..n
      BY <1>0, <2>2, Greatest
    <3> HIDE DEF f, Acc
    <3> QED BY <3>1, <3>2, <2>2
  <2> HIDE DEF f, G, Acc
  <2> QED BY <1>0, <1>2, <1>3, <2>1, <2>2, FoldResult
<1>8. f[1..n] \in Acc
  <2> HIDE DEF f, Acc
  <2> QED BY <1>0, <1>7 DEF Run
<1> QED BY <1>1, <1>8

LEMMA QuotientWithin == \A a \in Nat, b \in Nat \ {0} : a \div b \in 0..a
<1> SUFFICES ASSUME NEW a \in Nat, NEW b \in Nat \ {0} PROVE a \div b \in 0..a
  OBVIOUS
<1> DEFINE q == a \div b
<1>1. q \in Int /\ b * q <= a /\ a < b * q + b
  OBVIOUS
<1> QED BY SMT

-----------------------------------------------------------------------------
(* The caches whose entries on each level are among those of P             *)
LevelsType == [cache : [Level -> Seq(Entry)], size : [Level -> Int]]
Held(P) == {lv \in LevelsType : \A l \in Level : lv.cache[l] \in Seq(P[l])}

(* What may be on a level may be on those below it.                        *)
GoesDown(P) ==
  /\ P \in [Level -> SUBSET Entry]
  /\ P[Memory] \subseteq P[Symbol] /\ P[Symbol] \subseteq P[Files]

LEMMA ExcessWithin ==
  ASSUME NEW s \in Seq(Entry), NEW limit, NEW e
  PROVE  Excess(s, limit, e) \in 0..Len(s)
<1> DEFINE T == {n \in 0 .. Len(s) : n = Len(s) \/ Total(SubSeq(s, n + 1, Len(s))) + e.size <= limit}
<1>1. Len(s) \in T /\ T \subseteq Nat /\ T \subseteq 0..Len(s)
  <2>1. Len(s) \in Nat
    BY LenProperties
  <2> QED BY <2>1
<1>2. PICK m \in T : \A i \in T : m <= i
  <2> HIDE DEF T
  <2> QED BY <1>1, Least
<1>3. Min(T) \in T
  <2> HIDE DEF T
  <2> QED BY <1>2 DEF Min
<1> QED BY <1>1, <1>3 DEF Excess

LEMMA PartOfSeq ==
  ASSUME NEW P, NEW s \in Seq(P), NEW m \in 0..Len(s)
  PROVE  SubSeq(s, m + 1, Len(s)) \in Seq(P) /\ SubSeq(s, 1, m) \in Seq(P)
<1>1. Len(s) \in Nat /\ \A i \in 1..Len(s) : s[i] \in P
  BY LenProperties, ElementOfSeq
<1>2. m + 1 \in Int /\ m \in Int /\ Len(s) \in Int /\ 1 \in Int
  BY <1>1
<1>3. \A i \in m + 1 .. Len(s) : s[i] \in P
  BY <1>1
<1>4. \A i \in 1 .. m : s[i] \in P
  BY <1>1
<1>5. SubSeq(s, m + 1, Len(s)) \in Seq(P)
  BY <1>2, <1>3, SubSeqProperties
<1>6. SubSeq(s, 1, m) \in Seq(P)
  BY <1>2, <1>4, SubSeqProperties
<1> QED BY <1>5, <1>6

LEMMA PutFileHolds ==
  ASSUME NEW P, GoesDown(P), NEW lv \in LevelsType, NEW e \in P[Files],
         lv.cache[Memory] \in Seq(P[Memory]), lv.cache[Symbol] \in Seq(P[Symbol]),
         lv.cache[Files] \in Seq(P[Files] \cup {x \in Entry : x.key = e.key})
  PROVE  PutFile(lv, e) \in Held(P)
<1> DEFINE Q == P[Files] \cup {x \in Entry : x.key = e.key}
           others == Without(lv.cache[Files], e.key)
           files == Append(others, e)
           new == CleanedUp(files)
<1>0. Memory \in Level /\ Symbol \in Level /\ Files \in Level /\ Memory # Files /\ Symbol # Files
  BY DEF Level, Memory, Symbol, Files
<1>1. P[Files] \in SUBSET Entry
  BY <1>0 DEF GoesDown
<1>2. others \in Seq(P[Files])
  <2>1. others \in Seq({x \in Q : x.key # e.key})
    <3>1. lv.cache[Files] \in Seq(Q)
      OBVIOUS
    <3> HIDE DEF Q
    <3> QED BY <3>1, WithoutHas
  <2>2. {x \in Q : x.key # e.key} \subseteq P[Files]
    OBVIOUS
  <2> HIDE DEF others, Q
  <2> QED BY <2>1, <2>2, SeqMonotonic
<1>3. files \in Seq(P[Files])
  <2> HIDE DEF others
  <2> QED BY <1>2
<1>4. new \in Seq(P[Files])
  <2> DEFINE n == IF Total(files) > Limit[Files] THEN Len(files) \div Part ELSE 0
  <2>1. n \in 0..Len(files)
    <3>1. Len(files) \in Nat /\ Part \in Nat \ {0}
      BY <1>3, LenProperties, CacheAssumption
    <3> HIDE DEF files
    <3>2. Len(files) \div Part \in 0..Len(files)
      <4>1. \A a \in Nat, b \in Nat \ {0} : a \div b \in 0..a
        BY QuotientWithin
      <4> QED BY <3>1, <4>1
    <3> QED BY <3>1, <3>2
  <2>2. new = SubSeq(files, n + 1, Len(files))
    BY DEF CleanedUp
  <2> HIDE DEF files, n, new
  <2> QED BY <1>3, <2>1, <2>2, PartOfSeq
<1>5. PutFile(lv, e) = [lv EXCEPT !.cache[Files] = new]
  BY DEF PutFile
<1> HIDE DEF new, Q
<1>6. new \in Seq(Entry)
  BY <1>1, <1>4, SeqMonotonic
<1>7. PutFile(lv, e) \in LevelsType
  BY <1>0, <1>5, <1>6 DEF LevelsType
<1>8. PutFile(lv, e).cache = [lv.cache EXCEPT ![Files] = new]
  BY <1>5 DEF LevelsType
<1>9. \A l \in Level : PutFile(lv, e).cache[l] \in Seq(P[l])
  <2>1. lv.cache \in [Level -> Seq(Entry)]
    BY DEF LevelsType
  <2>2. \A l \in Level : l = Memory \/ l = Symbol \/ l = Files
    BY DEF Level
  <2> QED BY <1>0, <1>4, <1>8, <2>1, <2>2
<1> QED BY <1>7, <1>9 DEF Held

(* The others on a level in memory, and what is dropped from it            *)
LEMMA PutHolds ==
  ASSUME NEW P, GoesDown(P), NEW lv \in LevelsType, NEW l \in {Memory, Symbol}, NEW e \in P[l],
         \A j \in Level \ {l} : lv.cache[j] \in Seq(P[j]),
         lv.cache[l] \in Seq(P[l] \cup {x \in Entry : x.key = e.key})
  PROVE  Put(lv, l, e) \in Held(P) /\ Evicted(lv, l, e) \in Seq(P[l])
<1> DEFINE Q == P[l] \cup {x \in Entry : x.key = e.key}
           others == Without(lv.cache[l], e.key)
           n == Excess(others, Limit[l], e)
           new == Append(SubSeq(others, n + 1, Len(others)), e)
           now == lv.size[l] - Freed(lv.cache[l], e.key) - Total(SubSeq(others, 1, n)) + e.size
<1>0. Memory \in Level /\ Symbol \in Level /\ Files \in Level /\ l \in Level
  BY DEF Level
<1>1. P[l] \in SUBSET Entry
  BY <1>0 DEF GoesDown
<1>2. others \in Seq(P[l])
  <2>1. others \in Seq({x \in Q : x.key # e.key})
    <3>1. lv.cache[l] \in Seq(Q)
      OBVIOUS
    <3> HIDE DEF Q
    <3> QED BY <3>1, WithoutHas
  <2>2. {x \in Q : x.key # e.key} \subseteq P[l]
    OBVIOUS
  <2> HIDE DEF others, Q
  <2> QED BY <2>1, <2>2, SeqMonotonic
<1> HIDE DEF others, Q
<1>3. others \in Seq(Entry)
  BY <1>1, <1>2, SeqMonotonic
<1>4. n \in 0..Len(others)
  BY <1>3, ExcessWithin
<1> HIDE DEF n
<1>5. SubSeq(others, n + 1, Len(others)) \in Seq(P[l]) /\ SubSeq(others, 1, n) \in Seq(P[l])
  BY <1>2, <1>4, PartOfSeq
<1>6. new \in Seq(P[l])
  BY <1>5, AppendProperties
<1>7. now \in Int
  <2>1. SubSeq(others, 1, n) \in Seq(Entry) /\ lv.cache[l] \in Seq(Entry)
    BY <1>0, <1>1, <1>5, SeqMonotonic DEF LevelsType
  <2>2. Freed(lv.cache[l], e.key) \in Nat /\ Total(SubSeq(others, 1, n)) \in Nat
    BY <2>1, FreedIsNat, TotalIsNat
  <2>3. lv.size[l] \in Int /\ e.size \in Nat
    BY <1>0, <1>1, CacheAssumption DEF LevelsType, Entry
  <2> QED BY <2>2, <2>3
<1>8. Put(lv, l, e) = [lv EXCEPT !.cache[l] = new, !.size[l] = now]
  BY DEF Put, others, n
<1>9. Evicted(lv, l, e) = SubSeq(others, 1, n)
  BY DEF Evicted, others, n
<1> HIDE DEF new, now
<1>10. new \in Seq(Entry)
  BY <1>1, <1>6, SeqMonotonic
<1>11. Put(lv, l, e) = [cache |-> [lv.cache EXCEPT ![l] = new], size |-> [lv.size EXCEPT ![l] = now]]
  BY <1>8 DEF LevelsType
<1>12. lv.cache \in [Level -> Seq(Entry)] /\ lv.size \in [Level -> Int]
  BY DEF LevelsType
<1>13. Put(lv, l, e) \in LevelsType
  BY <1>0, <1>7, <1>10, <1>11, <1>12 DEF LevelsType
<1>14. \A j \in Level : Put(lv, l, e).cache[j] \in Seq(P[j])
  BY <1>0, <1>6, <1>11, <1>12
<1> QED BY <1>5, <1>9, <1>13, <1>14 DEF Held

LEMMA PutFileKeeps ==
  ASSUME NEW P, GoesDown(P), NEW lv \in Held(P), NEW e \in P[Files]
  PROVE  PutFile(lv, e) \in Held(P)
<1>1. lv \in LevelsType /\ \A l \in Level : lv.cache[l] \in Seq(P[l])
  BY DEF Held
<1>2. Memory \in Level /\ Symbol \in Level /\ Files \in Level
  BY DEF Level
<1>3. lv.cache[Files] \in Seq(P[Files] \cup {x \in Entry : x.key = e.key})
  <2> DEFINE Q == P[Files] \cup {x \in Entry : x.key = e.key}
  <2>1. P[Files] \subseteq Q
    OBVIOUS
  <2> HIDE DEF Q
  <2>2. lv.cache[Files] \in Seq(Q)
    BY <1>1, <1>2, <2>1, SeqMonotonic
  <2> QED BY <2>2 DEF Q
<1> QED BY <1>1, <1>2, <1>3, PutFileHolds

(* What is dropped from the symbols goes to the files.                     *)
LEMMA FilesTakeAll ==
  ASSUME NEW P, GoesDown(P), NEW lv \in Held(P), NEW s \in Seq(P[Files])
  PROVE  FoldLeft(PutFile, lv, s) \in Held(P)
<1> DEFINE n == Len(s)
           Acc == Held(P)
           G == [i \in 1..n |-> [a \in Acc |-> PutFile(a, s[i])]]
           R(h) == h = [u \in SUBSET (1..n) |->
                          IF u = {} THEN lv ELSE PutFile(h[u \ {Max(u)}], s[Max(u)])]
           f == CHOOSE h : R(h)
<1>0. n \in Nat /\ DOMAIN s = 1..n
  BY LenProperties
<1>1. FoldLeft(PutFile, lv, s) = f[1..n]
  <2> HIDE DEF n
  <2> QED BY <1>0 DEF FoldLeft, MapThenFoldSet
<1>2. G \in [1..n -> [Acc -> Acc]]
  <2>1. ASSUME NEW i \in 1..n, NEW a \in Acc PROVE PutFile(a, s[i]) \in Acc
    <3>1. s[i] \in P[Files]
      BY ElementOfSeq
    <3> QED BY <3>1, PutFileKeeps
  <2> HIDE DEF Acc, n
  <2> QED BY <2>1
<1>3. lv \in Acc
  OBVIOUS
<1> HIDE DEF n
<1>4. PICK g : Folds(n, Acc, G, lv, g)
  <2> HIDE DEF Acc, G
  <2> QED BY <1>0, <1>2, <1>3, FoldExists
<1>5. R(g)
  <2> DEFINE again == [u \in SUBSET (1..n) |->
                     IF u = {} THEN lv ELSE PutFile(g[u \ {Max(u)}], s[Max(u)])]
  <2>1. ASSUME NEW u \in SUBSET (1..n), u # {}
        PROVE  G[Max(u)][g[u \ {Max(u)}]] = PutFile(g[u \ {Max(u)}], s[Max(u)])
    <3>1. Max(u) \in 1..n
      BY <1>0, <2>1, Greatest
    <3>2. g[u \ {Max(u)}] \in Acc
      BY <1>4 DEF Folds
    <3> HIDE DEF Acc
    <3> QED BY <3>1, <3>2
  <2>2. \A u \in SUBSET (1..n) : g[u] = again[u]
    <3> HIDE DEF Acc, G
    <3> QED BY <1>4, <2>1 DEF Folds
  <2>3. g = [u \in SUBSET (1..n) |-> g[u]]
    <3> HIDE DEF Acc, G
    <3> QED BY <1>4 DEF Folds
  <2>4. g = again
    BY <2>2, <2>3
  <2> QED BY <2>4
<1>6. R(f)
  BY <1>5
<1>7. \E p : Run(n, Acc, G, lv, p, f[1..n])
  <2>1. f[{}] = lv
    BY <1>6
  <2>2. ASSUME NEW u \in SUBSET (1..n), u # {}, f[u \ {Max(u)}] \in Acc
        PROVE  f[u] = G[Max(u)][f[u \ {Max(u)}]]
    <3>1. f[u] = PutFile(f[u \ {Max(u)}], s[Max(u)])
      BY <1>6, <2>2
    <3>2. Max(u) \in 1..n
      BY <1>0, <2>2, Greatest
    <3> HIDE DEF f, Acc
    <3> QED BY <3>1, <3>2, <2>2
  <2> HIDE DEF f, G, Acc
  <2> QED BY <1>0, <1>2, <1>3, <2>1, <2>2, FoldResult
<1>8. f[1..n] \in Acc
  <2> HIDE DEF f, Acc
  <2> QED BY <1>0, <1>7 DEF Run
<1> QED BY <1>1, <1>8

LEMMA PutSymbolHolds ==
  ASSUME NEW P, GoesDown(P), NEW lv \in LevelsType, NEW e \in P[Symbol],
         \A j \in Level \ {Symbol} : lv.cache[j] \in Seq(P[j]),
         lv.cache[Symbol] \in Seq(P[Symbol] \cup {x \in Entry : x.key = e.key})
  PROVE  PutSymbol(lv, e) \in Held(P)
<1>1. Put(lv, Symbol, e) \in Held(P) /\ Evicted(lv, Symbol, e) \in Seq(P[Symbol])
  BY PutHolds
<1>2. Evicted(lv, Symbol, e) \in Seq(P[Files])
  BY <1>1, SeqMonotonic DEF GoesDown
<1>3. FoldLeft(PutFile, Put(lv, Symbol, e), Evicted(lv, Symbol, e)) \in Held(P)
  BY <1>1, <1>2, FilesTakeAll
<1> QED BY <1>3 DEF PutSymbol

LEMMA PutSymbolKeeps ==
  ASSUME NEW P, GoesDown(P), NEW lv \in Held(P), NEW e \in P[Symbol]
  PROVE  PutSymbol(lv, e) \in Held(P)
<1>1. lv \in LevelsType /\ \A l \in Level : lv.cache[l] \in Seq(P[l])
  BY DEF Held
<1>2. Symbol \in Level
  BY DEF Level
<1>3. lv.cache[Symbol] \in Seq(P[Symbol] \cup {x \in Entry : x.key = e.key})
  <2> DEFINE Q == P[Symbol] \cup {x \in Entry : x.key = e.key}
  <2>1. P[Symbol] \subseteq Q
    OBVIOUS
  <2> HIDE DEF Q
  <2>2. lv.cache[Symbol] \in Seq(Q)
    BY <1>1, <1>2, <2>1, SeqMonotonic
  <2> QED BY <2>2 DEF Q
<1> QED BY <1>1, <1>2, <1>3, PutSymbolHolds

(* What is dropped from memory goes to the symbols.                        *)
LEMMA SymbolsTakeAll ==
  ASSUME NEW P, GoesDown(P), NEW lv \in Held(P), NEW s \in Seq(P[Symbol])
  PROVE  FoldLeft(PutSymbol, lv, s) \in Held(P)
<1> DEFINE n == Len(s)
           Acc == Held(P)
           G == [i \in 1..n |-> [a \in Acc |-> PutSymbol(a, s[i])]]
           R(h) == h = [u \in SUBSET (1..n) |->
                          IF u = {} THEN lv ELSE PutSymbol(h[u \ {Max(u)}], s[Max(u)])]
           f == CHOOSE h : R(h)
<1>0. n \in Nat /\ DOMAIN s = 1..n
  BY LenProperties
<1>1. FoldLeft(PutSymbol, lv, s) = f[1..n]
  <2> HIDE DEF n
  <2> QED BY <1>0 DEF FoldLeft, MapThenFoldSet
<1>2. G \in [1..n -> [Acc -> Acc]]
  <2>1. ASSUME NEW i \in 1..n, NEW a \in Acc PROVE PutSymbol(a, s[i]) \in Acc
    <3>1. s[i] \in P[Symbol]
      BY ElementOfSeq
    <3> QED BY <3>1, PutSymbolKeeps
  <2> HIDE DEF Acc, n
  <2> QED BY <2>1
<1>3. lv \in Acc
  OBVIOUS
<1> HIDE DEF n
<1>4. PICK g : Folds(n, Acc, G, lv, g)
  <2> HIDE DEF Acc, G
  <2> QED BY <1>0, <1>2, <1>3, FoldExists
<1>5. R(g)
  <2> DEFINE again == [u \in SUBSET (1..n) |->
                     IF u = {} THEN lv ELSE PutSymbol(g[u \ {Max(u)}], s[Max(u)])]
  <2>1. ASSUME NEW u \in SUBSET (1..n), u # {}
        PROVE  G[Max(u)][g[u \ {Max(u)}]] = PutSymbol(g[u \ {Max(u)}], s[Max(u)])
    <3>1. Max(u) \in 1..n
      BY <1>0, <2>1, Greatest
    <3>2. g[u \ {Max(u)}] \in Acc
      BY <1>4 DEF Folds
    <3> HIDE DEF Acc
    <3> QED BY <3>1, <3>2
  <2>2. \A u \in SUBSET (1..n) : g[u] = again[u]
    <3> HIDE DEF Acc, G
    <3> QED BY <1>4, <2>1 DEF Folds
  <2>3. g = [u \in SUBSET (1..n) |-> g[u]]
    <3> HIDE DEF Acc, G
    <3> QED BY <1>4 DEF Folds
  <2>4. g = again
    BY <2>2, <2>3
  <2> QED BY <2>4
<1>6. R(f)
  BY <1>5
<1>7. \E p : Run(n, Acc, G, lv, p, f[1..n])
  <2>1. f[{}] = lv
    BY <1>6
  <2>2. ASSUME NEW u \in SUBSET (1..n), u # {}, f[u \ {Max(u)}] \in Acc
        PROVE  f[u] = G[Max(u)][f[u \ {Max(u)}]]
    <3>1. f[u] = PutSymbol(f[u \ {Max(u)}], s[Max(u)])
      BY <1>6, <2>2
    <3>2. Max(u) \in 1..n
      BY <1>0, <2>2, Greatest
    <3> HIDE DEF f, Acc
    <3> QED BY <3>1, <3>2, <2>2
  <2> HIDE DEF f, G, Acc
  <2> QED BY <1>0, <1>2, <1>3, <2>1, <2>2, FoldResult
<1>8. f[1..n] \in Acc
  <2> HIDE DEF f, Acc
  <2> QED BY <1>0, <1>7 DEF Run
<1> QED BY <1>1, <1>8

LEMMA PutMemoryHolds ==
  ASSUME NEW P, GoesDown(P), NEW lv \in LevelsType, NEW e \in P[Memory],
         \A j \in Level \ {Memory} : lv.cache[j] \in Seq(P[j]),
         lv.cache[Memory] \in Seq(P[Memory] \cup {x \in Entry : x.key = e.key})
  PROVE  PutMemory(lv, e) \in Held(P)
<1>1. Put(lv, Memory, e) \in Held(P) /\ Evicted(lv, Memory, e) \in Seq(P[Memory])
  BY PutHolds
<1>2. Evicted(lv, Memory, e) \in Seq(P[Symbol])
  BY <1>1, SeqMonotonic DEF GoesDown
<1>3. FoldLeft(PutSymbol, Put(lv, Memory, e), Evicted(lv, Memory, e)) \in Held(P)
  BY <1>1, <1>2, SymbolsTakeAll
<1> QED BY <1>3 DEF PutMemory

(* Whatever P says that each level may have, in which what is on a level   *)
(* may be below it too: a level that is set to an entry that it may have,  *)
(* and the levels below it, have nothing else.                             *)
LEMMA PutAtHolds ==
  ASSUME NEW P, GoesDown(P), NEW l \in Level, NEW e \in P[l], Levels \in LevelsType,
         \A j \in Level \ {l} : cache[j] \in Seq(P[j]),
         cache[l] \in Seq(P[l] \cup {x \in Entry : x.key = e.key}),
         PutAt(l, e)
  PROVE  /\ cache' \in [Level -> Seq(Entry)] /\ size' \in [Level -> Int]
         /\ \A j \in Level : cache'[j] \in Seq(P[j])
<1>0. Levels.cache = cache /\ Levels.size = size
  BY DEF Levels
<1>1. Memory # Symbol /\ Memory # Files /\ Symbol # Files /\ l \in {Memory, Symbol, Files}
      /\ Memory \in Level /\ Symbol \in Level /\ Files \in Level
  BY DEF Level, Memory, Symbol, Files
<1>2. \E lv \in Held(P) : Become(lv)
  <2>1. CASE l = Memory
    <3>1. PutMemory(Levels, e) \in Held(P)
      BY <1>0, <2>1, PutMemoryHolds
    <3> QED BY <1>1, <2>1, <3>1 DEF PutAt
  <2>2. CASE l = Symbol
    <3>1. PutSymbol(Levels, e) \in Held(P)
      BY <1>0, <2>2, PutSymbolHolds
    <3> QED BY <1>1, <2>2, <3>1 DEF PutAt
  <2>3. CASE l = Files
    <3>1. PutFile(Levels, e) \in Held(P)
      BY <1>0, <1>1, <2>3, PutFileHolds
    <3> QED BY <1>1, <2>3, <3>1 DEF PutAt
  <2> QED BY <1>1, <2>1, <2>2, <2>3
<1> QED BY <1>2 DEF Become, Held, LevelsType

-----------------------------------------------------------------------------
(* What depends on a key of M                                              *)
UsersOf(M, E) == {d \in Key : \E m \in M : <<d, m>> \in E}

(* The steps in which Affected collects what depends on k                  *)
Reaching(k, E, reach) ==
  /\ reach \in [0..Cardinality(Key) -> SUBSET Key]
  /\ reach[0] = {d \in Key : <<d, k>> \in E}
  /\ \A i \in 1..Cardinality(Key) : reach[i] = reach[i - 1] \cup UsersOf(reach[i - 1], E)
  /\ Affected(k, E) = reach[Cardinality(Key)]

LEMMA KeysCounted == IsFiniteSet(Key) /\ Cardinality(Key) \in Nat
  BY CacheAssumption, FS_CardinalityType

LEMMA ReachExists ==
  ASSUME NEW k \in Key, NEW E
  PROVE  \E reach : Reaching(k, E, reach)
<1> DEFINE N == Cardinality(Key)
           first == {d \in Key : <<d, k>> \in E}
           Acc == SUBSET Key
           G == [i \in 1..N |-> [a \in Acc |-> a \cup {d \in Key : \E m \in a : <<d, m>> \in E}]]
           R(h) == h = [n \in 0..N |->
                          IF n = 0 THEN {d \in Key : <<d, k>> \in E}
                          ELSE h[n - 1] \cup {d \in Key : \E m \in h[n - 1] : <<d, m>> \in E}]
           f == CHOOSE h : R(h)
<1>0. N \in Nat
  BY KeysCounted
<1>1. G \in [1..N -> [Acc -> Acc]] /\ first \in Acc
  OBVIOUS
<1>2. Affected(k, E) = f[N]
  BY DEF Affected
<1> HIDE DEF N, first
<1>3. PICK g : Folds(N, Acc, G, first, g)
  <2> HIDE DEF Acc, G
  <2> QED BY <1>0, <1>1, FoldExists
<1>4. PICK p : Run(N, Acc, G, first, p, g[1..N])
  <2>1. g[{}] = first
    <3> HIDE DEF Acc, G
    <3>1. {} \in SUBSET (1..N)
      OBVIOUS
    <3> QED BY <1>3, <3>1 DEF Folds
  <2>2. ASSUME NEW u \in SUBSET (1..N), u # {}, g[u \ {Max(u)}] \in Acc
        PROVE  g[u] = G[Max(u)][g[u \ {Max(u)}]]
    <3> HIDE DEF Acc, G
    <3> QED BY <1>3, <2>2 DEF Folds
  <2> HIDE DEF Acc, G
  <2> QED BY <1>0, <1>1, <2>1, <2>2, FoldResult
<1>5. p \in [0..N -> SUBSET Key] /\ p[0] = first
  BY <1>4 DEF Run
<1>6. ASSUME NEW i \in 1..N
      PROVE  p[i] = p[i - 1] \cup {d \in Key : \E m \in p[i - 1] : <<d, m>> \in E}
  <2>1. p[i] = G[i][p[i - 1]]
    <3> HIDE DEF Acc, G
    <3> QED BY <1>4 DEF Run
  <2>2. p[i - 1] \in SUBSET Key
    BY <1>0, <1>5
  <2> QED BY <2>1, <2>2
<1>7. R(p)
  <2> DEFINE again == [n \in 0..N |->
                          IF n = 0 THEN {d \in Key : <<d, k>> \in E}
                          ELSE p[n - 1] \cup {d \in Key : \E m \in p[n - 1] : <<d, m>> \in E}]
  <2>1. ASSUME NEW n \in 0..N PROVE p[n] = again[n]
    <3>1. n = 0 \/ n \in 1..N
      BY <1>0
    <3> QED BY <1>5, <1>6, <3>1 DEF first
  <2>2. p = [n \in 0..N |-> p[n]]
    BY <1>5
  <2>3. p = again
    BY <2>1, <2>2
  <2> QED BY <2>3
<1>8. R(f)
  BY <1>7
<1> HIDE DEF f
<1>9. f[0] = first
  <2>1. 0 \in 0..N
    BY <1>0
  <2> QED BY <1>8, <2>1 DEF first
<1>10. ASSUME NEW i \in 1..N
       PROVE  f[i] = f[i - 1] \cup {d \in Key : \E m \in f[i - 1] : <<d, m>> \in E}
  <2>1. i \in 0..N /\ i # 0
    BY <1>0
  <2> QED BY <1>8, <2>1
<1>11. \A i \in 0..N : f[i] \in SUBSET Key
  <2> DEFINE B == {i \in 0..N : f[i] \in SUBSET Key}
  <2>1. 0 \in B
    <3>1. 0 \in 0..N /\ first \in SUBSET Key
      BY <1>0 DEF first
    <3> QED BY <3>1, <1>9
  <2>2. ASSUME NEW i \in 1..N, i - 1 \in B PROVE i \in B
    <3>1. i \in 0..N
      BY <1>0
    <3> QED BY <3>1, <2>2, <1>10
  <2> HIDE DEF B
  <2>3. \A i \in 0..N : i \in B
    BY <1>0, <2>1, <2>2, UpTo
  <2> QED BY <2>3 DEF B
<1>12. f = [i \in 0..N |-> f[i]]
  BY <1>8
<1>13. f \in [0..N -> SUBSET Key]
  BY <1>11, <1>12
<1>14. Reaching(k, E, f)
  BY <1>2, <1>9, <1>10, <1>13 DEF Reaching, UsersOf, N, first
<1> QED BY <1>14

(* What Affected collects is all that depends on the key, directly or by   *)
(* way of other keys, and nothing else.                                    *)
LEMMA AffectedIsLeast ==
  ASSUME NEW k \in Key, NEW E
  PROVE  /\ Affected(k, E) \subseteq Key
         /\ UsersOf({k} \cup Affected(k, E), E) \subseteq Affected(k, E)
         /\ \A C \in SUBSET Key : UsersOf({k} \cup C, E) \subseteq C => Affected(k, E) \subseteq C
<1> DEFINE N == Cardinality(Key)
<1>0. N \in Nat /\ IsFiniteSet(Key)
  BY KeysCounted
<1>1. PICK reach : Reaching(k, E, reach)
  BY ReachExists
<1>2. /\ reach \in [0..N -> SUBSET Key]
      /\ reach[0] = UsersOf({k}, E)
      /\ \A i \in 1..N : reach[i] = reach[i - 1] \cup UsersOf(reach[i - 1], E)
      /\ Affected(k, E) = reach[N]
  BY <1>1 DEF Reaching, UsersOf
<1> HIDE DEF N
<1>3. N \in 0..N /\ 0 \in 0..N /\ \A i \in 1..N : i \in 0..N /\ i - 1 \in 0..N
  BY <1>0
<1>4. Affected(k, E) \subseteq Key
  BY <1>2, <1>3
<1>5. \A i \in 0..N : reach[0] \subseteq reach[i]
  <2> DEFINE B == {i \in 0..N : reach[0] \subseteq reach[i]}
  <2>1. 0 \in B
    BY <1>3
  <2>2. ASSUME NEW i \in 1..N, i - 1 \in B PROVE i \in B
    BY <2>2, <1>2, <1>3
  <2> HIDE DEF B
  <2>3. \A i \in 0..N : i \in B
    BY <1>0, <2>1, <2>2, UpTo
  <2> QED BY <2>3 DEF B
<1>6. UsersOf(reach[N], E) \subseteq reach[N]
  <2> DEFINE Complete(i) == UsersOf(reach[i], E) \subseteq reach[i]
             B == {i \in 0..N : Complete(i) \/ i <= Cardinality(reach[i])}
  <2>1. \A i \in 0..N : IsFiniteSet(reach[i]) /\ Cardinality(reach[i]) \in Nat
    <3>1. \A i \in 0..N : reach[i] \in SUBSET Key
      BY <1>2
    <3> QED BY <3>1, <1>0, FS_Subset, FS_CardinalityType
  <2>2. 0 \in B
    BY <1>3, <2>1
  <2>3. ASSUME NEW i \in 1..N, i - 1 \in B PROVE i \in B
    <3>0. reach[i] = reach[i - 1] \cup UsersOf(reach[i - 1], E) /\ i \in Nat
      BY <1>2
    <3>1. CASE Complete(i - 1)
      <4>1. reach[i] = reach[i - 1]
        BY <3>0, <3>1
      <4> QED BY <3>1, <4>1, <1>3
    <3>2. CASE ~ Complete(i - 1)
      <4>1. i - 1 <= Cardinality(reach[i - 1])
        BY <2>3, <3>2
      <4>2. reach[i - 1] \in SUBSET reach[i] /\ reach[i - 1] # reach[i]
        BY <3>0, <3>2
      <4>3. /\ Cardinality(reach[i - 1]) <= Cardinality(reach[i])
            /\ Cardinality(reach[i - 1]) # Cardinality(reach[i])
        BY <4>2, <2>1, <1>3, FS_Subset
      <4>4. Cardinality(reach[i - 1]) \in Nat /\ Cardinality(reach[i]) \in Nat
        BY <2>1, <1>3
      <4>5. i <= Cardinality(reach[i])
        BY <3>0, <4>1, <4>3, <4>4
      <4> QED BY <4>5, <1>3
    <3> QED BY <3>1, <3>2
  <2>4. N \in B
    <3> HIDE DEF B
    <3>1. \A i \in 0..N : i \in B
      BY <1>0, <2>2, <2>3, UpTo
    <3> QED BY <3>1, <1>3
  <2>5. CASE N <= Cardinality(reach[N])
    <3>1. reach[N] \in SUBSET Key
      BY <1>2, <1>3
    <3>2. Cardinality(reach[N]) <= Cardinality(Key) /\ (Cardinality(Key) = Cardinality(reach[N]) => Key = reach[N])
      BY <3>1, <1>0, FS_Subset
    <3>3. Cardinality(Key) = Cardinality(reach[N])
      BY <2>5, <3>2, <2>1, <1>0, <1>3 DEF N
    <3> QED BY <3>2, <3>3 DEF UsersOf
  <2> QED BY <2>4, <2>5
<1>7. UsersOf({k} \cup reach[N], E) \subseteq reach[N]
  BY <1>2, <1>3, <1>5, <1>6 DEF UsersOf
<1>8. ASSUME NEW C \in SUBSET Key, UsersOf({k} \cup C, E) \subseteq C
      PROVE  reach[N] \subseteq C
  <2> DEFINE B == {i \in 0..N : reach[i] \subseteq C}
  <2>1. 0 \in B
    <3>1. UsersOf({k}, E) \subseteq C
      BY <1>8 DEF UsersOf
    <3> QED BY <3>1, <1>2, <1>3
  <2>2. ASSUME NEW i \in 1..N, i - 1 \in B PROVE i \in B
    <3>1. reach[i - 1] \subseteq C
      BY <2>2
    <3>2. UsersOf(reach[i - 1], E) \subseteq C
      BY <3>1, <1>8 DEF UsersOf
    <3>3. reach[i] \subseteq C
      BY <3>1, <3>2, <1>2
    <3> QED BY <3>3, <1>3
  <2> HIDE DEF B
  <2>3. \A i \in 0..N : i \in B
    BY <1>0, <2>1, <2>2, UpTo
  <2> QED BY <2>3, <1>3 DEF B
<1>9. Affected(k, E) = reach[N]
  BY <1>2
<1> QED BY <1>4, <1>7, <1>8, <1>9

(* It does not change with dependencies on other keys.                     *)
LEMMA AffectedLocal ==
  ASSUME NEW k \in Key, NEW E, NEW F,
         \A d \in Key, m \in {k} \cup Affected(k, E) : <<d, m>> \in E <=> <<d, m>> \in F
  PROVE  Affected(k, F) = Affected(k, E)
<1>1. Affected(k, E) \in SUBSET Key /\ Affected(k, F) \in SUBSET Key
  BY AffectedIsLeast
<1>2. UsersOf({k} \cup Affected(k, E), F) \subseteq Affected(k, E)
  <2>1. UsersOf({k} \cup Affected(k, E), E) \subseteq Affected(k, E)
    BY AffectedIsLeast
  <2> QED BY <2>1 DEF UsersOf
<1>3. Affected(k, F) \subseteq Affected(k, E)
  BY <1>1, <1>2, AffectedIsLeast
<1>4. UsersOf({k} \cup Affected(k, F), E) \subseteq Affected(k, F)
  <2>1. UsersOf({k} \cup Affected(k, F), F) \subseteq Affected(k, F)
    BY AffectedIsLeast
  <2> QED BY <2>1, <1>3 DEF UsersOf
<1>5. Affected(k, E) \subseteq Affected(k, F)
  BY <1>1, <1>4, AffectedIsLeast
<1> QED BY <1>3, <1>5

(* The keys that are to be dropped are the key and what depends on it.     *)
LEMMA InvalidatedKeys ==
  ASSUME NEW k \in Key, NEW A \in SUBSET Key
  PROVE  <<k>> \o SetToSeq(A) \in Seq({k} \cup A) /\ {k} \cup A = Range(<<k>> \o SetToSeq(A))
<1> DEFINE s == SetToSeq(A)
           n == Cardinality(A)
           T == {k} \cup A
<1>1. IsFiniteSet(A) /\ n \in Nat
  BY CacheAssumption, FS_Subset, FS_CardinalityType
<1>2. ExistsBijection(1..n, A)
  BY <1>1, FS_CardinalityType
<1>3. s \in [1..n -> A] /\ IsInjective(s)
  <2>1. PICK g : g \in [1..n -> A] /\ IsInjective(g)
    BY <1>2 DEF ExistsBijection, Bijection, Injection
  <2> QED BY <2>1 DEF SetToSeq
<1> HIDE DEF s
<1>4. s \in Surjection(1..n, A)
  <2>1. s \in Injection(1..n, A)
    BY <1>3 DEF Injection
  <2>2. Cardinality(1..n) = n
    <3>1. Cardinality(1..n) = IF 1 > n THEN 0 ELSE n - 1 + 1
      BY <1>1, FS_Interval
    <3> HIDE DEF n
    <3> QED BY <1>1, <3>1
  <2> QED BY <2>1, <2>2, <1>1, FS_Injection
<1> HIDE DEF n
<1>5. s \in Seq(T) /\ Len(s) = n /\ <<k>> \in Seq(T) /\ Len(<<k>>) = 1 /\ <<k>>[1] = k
  BY <1>1, <1>3
<1> DEFINE w == <<k>> \o s
<1>6. /\ w \in Seq(T) /\ Len(w) = 1 + n
      /\ \A i \in 1 .. 1 + n : w[i] = IF i <= 1 THEN <<k>>[i] ELSE s[i - 1]
  <2> HIDE DEF T
  <2>1. /\ w \in Seq(T) /\ Len(w) = Len(<<k>>) + Len(s)
        /\ \A i \in 1 .. Len(<<k>>) + Len(s) : w[i] = IF i <= Len(<<k>>) THEN <<k>>[i] ELSE s[i - Len(<<k>>)]
    BY <1>5, ConcatProperties, Zenon
  <2> QED BY <2>1, <1>5
<1> HIDE DEF w
<1>7. DOMAIN w = 1 .. 1 + n
  BY <1>6, <1>1
<1>8. \A x \in T : x \in Range(w)
  <2>1. w[1] = k /\ 1 \in DOMAIN w
    BY <1>1, <1>5, <1>6, <1>7
  <2>2. ASSUME NEW x \in A PROVE x \in Range(w)
    <3>1. PICK i \in 1..n : s[i] = x
      BY <1>4 DEF Surjection
    <3>2. i + 1 \in DOMAIN w /\ w[i + 1] = s[i]
      <4>1. i + 1 \in 1 .. 1 + n /\ ~ (i + 1 <= 1) /\ (i + 1) - 1 = i
        BY <1>1
      <4> QED BY <4>1, <1>6, <1>7
    <3> QED BY <3>1, <3>2 DEF Range
  <2> QED BY <2>1, <2>2 DEF Range
<1>9. \A x \in Range(w) : x \in T
  <2> HIDE DEF T
  <2> QED BY <1>6, <1>7, ElementOfSeq DEF Range
<1>10. Range(w) = T
  BY <1>8, <1>9
<1> QED BY <1>6, <1>10 DEF w, s

-----------------------------------------------------------------------------
(* The calls there are                                                     *)
Looking == [op : {"get"}, key : Key, level : Level]
Promoting ==
  [op : {"get"}, key : Key, level : {Symbol, Files}, entry : Entry, next : {Memory, Symbol}]
Setting == [op : {"set"}, key : Key, at : 1..4, entry : Entry]
Invalidating ==
  [op : {"invalidate"}, key : Key, affected : SUBSET Key, keys : Seq(Key), at : Level]
CallType == {NoCall} \cup Looking \cup Promoting \cup Setting \cup Invalidating

CacheTypeOK ==
  /\ cache \in [Level -> Seq(Entry)] /\ size \in [Level -> Int]
  /\ edges \subseteq Key \X Key
  /\ call \in [Thread -> CallType]
  /\ latest \in [Key -> 0..MaxSets] /\ declared \in [Key -> SUBSET Key]
  /\ sets \in Nat

(* The tracker knows what was declared.                                    *)
DeclaredOK ==
  /\ edges = Declared
  /\ \A k \in Key : declared[k] = {} \/ declared[k] = Uses[k]

CallsApart == \A t, u \in Thread : t # u => Touched(call[t]) \cap Touched(call[u]) = {}

(* What a call holds on to is still so, by what was set last and by the    *)
(* dependencies.                                                           *)
CallOK(c, last, E) ==
  /\ c \in Promoting => c.entry.key = c.key /\ c.entry.version = last[c.key] /\ c.next < c.level
  /\ c \in Setting => c.entry.key = c.key
  /\ c \in Invalidating =>
       c.affected = Affected(c.key, E) /\ c.keys \in Seq({c.key} \cup c.affected)

(* The keys whose entries a call replaces or drops                         *)
Written(c) ==
  {k \in Key : \/ c \in Setting /\ k = c.key
               \/ c \in Invalidating /\ k \in {c.key} \cup c.affected}

(* What a call has left of the entry x on a level: a call to set has       *)
(* replaced it in the levels it has been to; a call to invalidate has      *)
(* dropped the keys that it has not before it any more, and the first of   *)
(* these in the levels it has been to.                                     *)
Leaves(c, x, l) ==
  /\ c \in Setting /\ x.key = c.key /\ l < c.at => x.version = c.entry.version
  /\ c \in Invalidating /\ x.key \in {c.key} \cup c.affected =>
       /\ x.key \in Range(c.keys)
       /\ x.key = c.keys[1] => l >= c.at

(* The entries that may be on a level: those the calls have left, and, of  *)
(* a key that no call is writing, only what was set last                   *)
May(x, l, threads, last) ==
  /\ \A t \in Thread : Leaves(threads[t], x, l)
  /\ (\A t \in Thread : x.key \notin Written(threads[t])) => x.version = last[x.key]

Left(threads, last) == [l \in Level |-> {x \in Entry : May(x, l, threads, last)}]

EntriesOK == \A l \in Level : cache[l] \in Seq(Left(call, latest)[l])

CacheInv ==
  /\ CacheTypeOK /\ DeclaredOK /\ CallsApart /\ EntriesOK
  /\ \A t \in Thread : CallOK(call[t], latest, edges)

LEMMA LevelNumbers ==
  /\ Level = {1, 2, 3} /\ Memory = 1 /\ Symbol = 2 /\ Files = 3
  /\ Len(FromMemory) = 3 /\ \A i \in Level : FromMemory[i] = i
<1>1. Level = {1, 2, 3} /\ Memory = 1 /\ Symbol = 2 /\ Files = 3
  BY DEF Level, Memory, Symbol, Files
<1>2. FromMemory = <<1, 2, 3>>
  BY <1>1 DEF FromMemory
<1>3. Len(FromMemory) = 3 /\ FromMemory[1] = 1 /\ FromMemory[2] = 2 /\ FromMemory[3] = 3
  BY <1>2
<1> QED BY <1>1, <1>3

LEMMA CallKinds ==
  ASSUME NEW c \in CallType
  PROVE  /\ c.op = "get" /\ "entry" \notin DOMAIN c => c \in Looking
         /\ c.op = "get" /\ "entry" \in DOMAIN c => c \in Promoting
         /\ c.op = "set" <=> c \in Setting
         /\ c.op = "invalidate" <=> c \in Invalidating
         /\ c = NoCall => c.op = "none"
         /\ c \in Looking \/ c \in Promoting => c.op = "get"
         /\ c \in Looking => c \notin Promoting
  BY DEF CallType, NoCall, Looking, Promoting, Setting, Invalidating

LEMMA TouchedBy ==
  ASSUME NEW c \in CallType
  PROVE  /\ Touched(NoCall) = {}
         /\ c.op = "get" => Touched(c) = {c.key}
         /\ c \in Setting => Touched(c) = {c.key} \cup Uses[c.key]
         /\ c \in Invalidating => Touched(c) = {c.key} \cup c.affected
         /\ Written(c) \subseteq Touched(c)
<1> USE CallKinds
<1> HIDE DEF CallType, Setting, Invalidating
<1>1. Touched(NoCall) = {}
  BY DEF NoCall, Touched
<1>2. c.op = "get" => Touched(c) = {c.key}
  BY DEF Touched
<1>3. c \in Setting => Touched(c) = {c.key} \cup Uses[c.key]
  BY DEF Touched
<1>4. c \in Invalidating => Touched(c) = {c.key} \cup c.affected
  BY DEF Touched
<1> QED BY <1>1, <1>2, <1>3, <1>4 DEF Written

LEMMA TouchedInKey == \A c \in CallType : Touched(c) \subseteq Key
<1> SUFFICES ASSUME NEW c \in CallType PROVE Touched(c) \subseteq Key
  OBVIOUS
<1>1. c = NoCall \/ c \in Looking \/ c \in Promoting \/ c \in Setting \/ c \in Invalidating
  BY DEF CallType
<1>2. c \in Looking \/ c \in Promoting => c.key \in Key /\ c.op = "get"
  BY DEF Looking, Promoting
<1>3. c \in Setting => c.key \in Key /\ Uses[c.key] \subseteq Key
  BY CacheAssumption DEF Setting
<1>4. c \in Invalidating => c.key \in Key /\ c.affected \subseteq Key
  BY DEF Invalidating
<1> HIDE DEF CallType
<1> QED BY <1>1, <1>2, <1>3, <1>4, TouchedBy

LEMMA LeavesBelow ==
  ASSUME NEW c \in CallType, NEW x, NEW i \in Level, NEW j \in Level, i <= j, Leaves(c, x, i)
  PROVE  Leaves(c, x, j)
<1>1. i \in Nat /\ j \in Nat
  BY LevelNumbers
<1>2. c \in Setting => c.at \in Nat
  BY DEF Setting
<1>3. c \in Invalidating => c.at \in Nat
  BY LevelNumbers DEF Invalidating
<1> QED BY <1>1, <1>2, <1>3 DEF Leaves

LEMMA LeftGoesDown ==
  ASSUME NEW threads \in [Thread -> CallType], NEW last
  PROVE  GoesDown(Left(threads, last))
<1>1. ASSUME NEW i \in Level, NEW j \in Level, i <= j
      PROVE  Left(threads, last)[i] \subseteq Left(threads, last)[j]
  BY <1>1, LeavesBelow DEF Left, May
<1> HIDE DEF CallType
<1>2. Left(threads, last) \in [Level -> SUBSET Entry]
  BY DEF Left
<1>3. Memory \in Level /\ Symbol \in Level /\ Files \in Level /\ Memory <= Symbol /\ Symbol <= Files
  BY LevelNumbers
<1> QED BY <1>1, <1>2, <1>3 DEF GoesDown

(* What may be on a level stays so when one call goes on.                  *)
LEMMA MayStay ==
  ASSUME NEW threads \in [Thread -> CallType], NEW t \in Thread, NEW c \in CallType, NEW last, NEW now,
         NEW x \in Entry, NEW l, May(x, l, threads, last), now[x.key] = last[x.key],
         Leaves(c, x, l), x.key \in Written(threads[t]) => x.key \in Written(c)
  PROVE  May(x, l, [threads EXCEPT ![t] = c], now)
<1> HIDE DEF CallType, Entry
<1> DEFINE then == [threads EXCEPT ![t] = c]
<1>1. then[t] = c /\ \A u \in Thread \ {t} : then[u] = threads[u]
  OBVIOUS
<1> HIDE DEF then
<1>2. \A u \in Thread : Leaves(then[u], x, l)
  BY <1>1 DEF May
<1>3. ASSUME \A u \in Thread : x.key \notin Written(then[u])
      PROVE  x.version = now[x.key]
  <2>1. \A u \in Thread : x.key \notin Written(threads[u])
    BY <1>1, <1>3
  <2> QED BY <2>1 DEF May
<1>4. May(x, l, then, now)
  BY <1>2, <1>3 DEF May
<1> QED BY <1>4 DEF then

(* A call is not disturbed by what is set, declared and forgotten about    *)
(* keys that it does not touch.                                            *)
LEMMA CallStays ==
  ASSUME NEW c \in CallType, NEW last, NEW now, NEW E, NEW F, CallOK(c, last, E),
         \A k \in Touched(c) : now[k] = last[k],
         c \in Invalidating => \A d \in Key, m \in Touched(c) : <<d, m>> \in E <=> <<d, m>> \in F
  PROVE  CallOK(c, now, F)
<1> USE CallKinds, TouchedBy
<1> HIDE DEF CallType
<1>1. c \in Promoting => now[c.key] = last[c.key]
  OBVIOUS
<1>2. c \in Invalidating => Affected(c.key, F) = Affected(c.key, E)
  <2> SUFFICES ASSUME c \in Invalidating PROVE Affected(c.key, F) = Affected(c.key, E)
    OBVIOUS
  <2>1. c.key \in Key
    BY DEF Invalidating
  <2>2. Touched(c) = {c.key} \cup Affected(c.key, E)
    BY DEF CallOK
  <2> HIDE DEF Invalidating
  <2> QED BY <2>1, <2>2, AffectedLocal
<1> QED BY <1>1, <1>2 DEF CallOK

(* A call that goes on touches no more than it did.                        *)
LEMMA ApartStay ==
  ASSUME CallsApart, NEW t \in Thread, NEW c, call \in [Thread -> CallType],
         call' = [call EXCEPT ![t] = c],
         \/ Touched(c) \subseteq Touched(call[t])
         \/ \A u \in Thread : Touched(call[u]) \cap Touched(c) = {}
  PROVE  CallsApart'
<1> HIDE DEF CallType
<1>1. call'[t] = c /\ \A u \in Thread \ {t} : call'[u] = call[u]
  OBVIOUS
<1> QED BY <1>1 DEF CallsApart

(* The entries of a level, when a call goes on                             *)
LEMMA EntriesStay ==
  ASSUME \A l \in Level : cache'[l] \in Seq(Left(call, latest)[l]),
         \A l \in Level, x \in Entry : May(x, l, call, latest) => May(x, l, call', latest')
  PROVE  EntriesOK'
<1>1. ASSUME NEW l \in Level PROVE cache'[l] \in Seq(Left(call', latest')[l])
  <2>1. Left(call, latest)[l] \subseteq Left(call', latest')[l]
    BY DEF Left
  <2>2. cache'[l] \in Seq(Left(call, latest)[l])
    OBVIOUS
  <2> QED BY <2>1, <2>2, SeqMonotonic
<1> QED BY <1>1 DEF EntriesOK
-----------------------------------------------------------------------------
LEMMA CacheInitOK == Init => CacheInv
<1> SUFFICES ASSUME Init PROVE CacheInv
  OBVIOUS
<1> USE DEF Init
<1>1. CacheTypeOK
  <2>1. NoCall \in CallType
    BY DEF CallType
  <2>2. 0 \in 0..MaxSets
    BY CacheAssumption
  <2>3. cache \in [Level -> Seq(Entry)]
    <3> HIDE DEF Entry
    <3> QED OBVIOUS
  <2> HIDE DEF CallType, Entry
  <2> QED BY <2>1, <2>2, <2>3 DEF CacheTypeOK
<1>2. DeclaredOK
  BY DEF DeclaredOK, Declared
<1>3. CallsApart
  <2>1. Touched(NoCall) = {}
    BY DEF Touched, NoCall
  <2> QED BY <2>1 DEF CallsApart
<1>4. EntriesOK
  BY EmptySeq DEF EntriesOK
<1>5. \A t \in Thread : CallOK(call[t], latest, edges)
  <2>1. CallOK(NoCall, latest, edges)
    BY DEF CallOK, NoCall, Promoting, Setting, Invalidating
  <2> QED BY <2>1
<1> QED BY <1>1, <1>2, <1>3, <1>4, <1>5 DEF CacheInv

(* A call begins that replaces and drops nothing yet.                      *)
LEMMA BeginOK ==
  ASSUME CacheInv, ~ Overlap, NEW t \in Thread, NEW c \in CallType, Begin(t, c),
         CallOK(c, latest, edges), sets' \in Nat,
         UNCHANGED <<cache, size, edges, latest, declared>>,
         \A x \in Entry, l \in Level : Leaves(c, x, l)
  PROVE  CacheInv'
<1> HIDE DEF CallType, Entry
<1>1. call[t] = NoCall /\ call' = [call EXCEPT ![t] = c]
      /\ \A u \in Thread : Touched(call[u]) \cap Touched(c) = {}
  BY DEF Begin
<1>2. call \in [Thread -> CallType]
  BY DEF CacheInv, CacheTypeOK
<1>3. CacheTypeOK'
  BY <1>1 DEF CacheInv, CacheTypeOK
<1>4. DeclaredOK'
  BY DEF CacheInv, DeclaredOK, Declared
<1>5. CallsApart'
  BY <1>1, <1>2, ApartStay DEF CacheInv
<1>6. EntriesOK'
  <2>1. Written(NoCall) = {}
    BY DEF Written, Setting, Invalidating, NoCall
  <2>2. ASSUME NEW l \in Level, NEW x \in Entry, May(x, l, call, latest)
        PROVE  May(x, l, call', latest')
    BY <1>1, <1>2, <2>1, <2>2, MayStay
  <2>3. \A l \in Level : cache'[l] \in Seq(Left(call, latest)[l])
    BY DEF CacheInv, EntriesOK
  <2> QED BY <2>2, <2>3, EntriesStay
<1>7. \A u \in Thread : CallOK(call'[u], latest', edges')
  BY <1>1, <1>2 DEF CacheInv
<1> QED BY <1>3, <1>4, <1>5, <1>6, <1>7 DEF CacheInv

(* A call goes on without setting or forgetting anything in the tracker.   *)
LEMMA ContinueOK ==
  ASSUME CacheInv, NEW t \in Thread, NEW c \in CallType, Continue(t, c), CallOK(c, latest, edges),
         UNCHANGED <<edges, history>>, Touched(c) \subseteq Touched(call[t]),
         cache' \in [Level -> Seq(Entry)], size' \in [Level -> Int], EntriesOK'
  PROVE  CacheInv'
<1> HIDE DEF CallType, Entry
<1>1. call' = [call EXCEPT ![t] = c] /\ UNCHANGED <<latest, declared, sets>>
  BY DEF Continue, history
<1>2. call \in [Thread -> CallType]
  BY DEF CacheInv, CacheTypeOK
<1>3. CacheTypeOK'
  BY <1>1 DEF CacheInv, CacheTypeOK
<1>4. DeclaredOK'
  BY <1>1 DEF CacheInv, DeclaredOK, Declared
<1>5. CallsApart'
  BY <1>1, <1>2, ApartStay DEF CacheInv
<1>6. \A u \in Thread : CallOK(call'[u], latest', edges')
  BY <1>1, <1>2 DEF CacheInv
<1> QED BY <1>3, <1>4, <1>5, <1>6 DEF CacheInv

LEMMA GetOK ==
  ASSUME CacheInv, ~ Overlap, NEW t \in Thread, NEW k \in Key, Get(t, k)
  PROVE  CacheInv'
<1> DEFINE c == [op |-> "get", key |-> k, level |-> Memory]
<1>1. Memory \in Level
  BY LevelNumbers
<1>2. c \in Looking /\ c \in CallType
  BY <1>1 DEF Looking, CallType
<1>3. c \notin Promoting /\ c \notin Setting /\ c \notin Invalidating
  BY DEF Promoting, Setting, Invalidating
<1>4. Begin(t, c) /\ UNCHANGED <<cache, size, edges, latest, declared, sets>>
  BY DEF Get
<1> HIDE DEF c
<1>5. CallOK(c, latest, edges) /\ \A x \in Entry, l \in Level : Leaves(c, x, l)
  BY <1>3 DEF CallOK, Leaves
<1>6. sets' \in Nat
  BY <1>4 DEF CacheInv, CacheTypeOK
<1> QED BY <1>2, <1>4, <1>5, <1>6, BeginOK

LEMMA SetOK ==
  ASSUME CacheInv, ~ Overlap, NEW t \in Thread, NEW k \in Key, NEW s \in Size, Set(t, k, s)
  PROVE  CacheInv'
<1> DEFINE e == [key |-> k, version |-> sets', size |-> s]
           c == [op |-> "set", key |-> k, at |-> 1, entry |-> e]
<1>1. sets \in Nat /\ sets' = sets + 1 /\ sets < MaxSets /\ MaxSets \in Nat
  BY CacheAssumption DEF CacheInv, CacheTypeOK, Set
<1>2. e \in Entry
  BY <1>1 DEF Entry
<1>3. Begin(t, c) /\ UNCHANGED <<cache, size, edges, latest, declared>>
  BY DEF Set
<1>4. c.entry.key = c.key /\ c.at = 1
  OBVIOUS
<1> HIDE DEF e
<1>5. c \in Setting
  BY <1>2 DEF Setting
<1>6. c \in CallType
  BY <1>5 DEF CallType
<1>7. c \notin Promoting /\ c \notin Invalidating
  BY DEF Promoting, Invalidating
<1> HIDE DEF c
<1>8. CallOK(c, latest, edges)
  BY <1>4, <1>7 DEF CallOK
<1>9. \A x \in Entry, l \in Level : Leaves(c, x, l)
  <2>1. \A l \in Level : ~ (l < 1)
    BY LevelNumbers
  <2> QED BY <1>4, <1>7, <2>1 DEF Leaves
<1> QED BY <1>1, <1>3, <1>6, <1>8, <1>9, BeginOK

LEMMA InvalidateOK ==
  ASSUME CacheInv, ~ Overlap, NEW t \in Thread, NEW k \in Key, Invalidate(t, k)
  PROVE  CacheInv'
<1> DEFINE A == Affected(k, edges)
           keys == <<k>> \o SetToSeq(A)
           c == [op |-> "invalidate", key |-> k, affected |-> A, keys |-> keys, at |-> 1]
<1>1. A \in SUBSET Key
  BY AffectedIsLeast
<1>2. Begin(t, c) /\ UNCHANGED <<cache, size, edges, latest, declared, sets>>
  BY DEF Invalidate
<1> HIDE DEF A
<1>3. keys \in Seq({k} \cup A) /\ {k} \cup A = Range(keys)
  BY <1>1, InvalidatedKeys
<1>4. keys \in Seq(Key)
  <2> HIDE DEF keys
  <2>1. {k} \cup A \subseteq Key
    BY <1>1
  <2> QED BY <1>3, <2>1, SeqMonotonic
<1>5. 1 \in Level
  BY LevelNumbers
<1>6. c.key = k /\ c.affected = A /\ c.keys = keys /\ c.at = 1
  OBVIOUS
<1> HIDE DEF keys
<1>7. c \in Invalidating
  BY <1>1, <1>4, <1>5 DEF Invalidating
<1>8. c \in CallType
  BY <1>7 DEF CallType
<1>9. c \notin Promoting /\ c \notin Setting
  BY DEF Promoting, Setting
<1> HIDE DEF c
<1>10. CallOK(c, latest, edges)
  BY <1>3, <1>6, <1>9 DEF CallOK, A
<1>11. \A x \in Entry, l \in Level : Leaves(c, x, l)
  <2>1. \A l \in Level : l >= 1
    BY LevelNumbers
  <2> QED BY <1>3, <1>6, <1>9, <2>1 DEF Leaves
<1>12. sets' \in Nat
  BY <1>2 DEF CacheInv, CacheTypeOK
<1> QED BY <1>2, <1>8, <1>10, <1>11, <1>12, BeginOK

LEMMA InLevel ==
  ASSUME CacheInv
  PROVE  /\ call \in [Thread -> CallType] /\ Levels \in LevelsType
         /\ GoesDown(Left(call, latest))
         /\ \A l \in Level : cache[l] \in Seq(Left(call, latest)[l])
         /\ \A l \in Level, k \in Key :
              Entries(cache[l], k) = {e \in Range(cache[l]) : e.key = k}
<1> HIDE DEF CallType, Entry
<1>1. call \in [Thread -> CallType] /\ Levels \in LevelsType
  BY DEF CacheInv, CacheTypeOK, Levels, LevelsType
<1>2. GoesDown(Left(call, latest))
  BY <1>1, LeftGoesDown
<1>3. \A l \in Level : cache[l] \in Seq(Left(call, latest)[l])
  BY DEF CacheInv, EntriesOK
<1>4. \A l \in Level, k \in Key : Entries(cache[l], k) = {e \in Range(cache[l]) : e.key = k}
  BY DEF Entries, Range
<1> QED BY <1>1, <1>2, <1>3, <1>4

(* A call that writes nothing goes on as another.                          *)
LEMMA MayReading ==
  ASSUME NEW threads \in [Thread -> CallType], NEW t \in Thread, NEW c \in CallType, NEW last,
         NEW x \in Entry, NEW l, May(x, l, threads, last),
         c = NoCall \/ c \in Looking \/ c \in Promoting,
         threads[t] \in Looking \/ threads[t] \in Promoting
  PROVE  May(x, l, [threads EXCEPT ![t] = c], last)
<1>1. threads[t] \in CallType
  OBVIOUS
<1>2. c \notin Setting /\ c \notin Invalidating
  BY CallKinds
<1>3. threads[t] \notin Setting /\ threads[t] \notin Invalidating
  BY <1>1, CallKinds
<1> HIDE DEF CallType, Entry, Looking, Promoting, Setting, Invalidating
<1>4. Leaves(c, x, l) /\ x.key \notin Written(threads[t])
  BY <1>2, <1>3 DEF Leaves, Written
<1> QED BY <1>4, MayStay

LEMMA LookOK ==
  ASSUME CacheInv, NEW t \in Thread, Look(t)
  PROVE  CacheInv'
<1> DEFINE c == call[t]
           found == Entries(cache[c.level], c.key)
           P == Left(call, latest)
<1>0. call \in [Thread -> CallType] /\ GoesDown(P) /\ \A l \in Level : cache[l] \in Seq(P[l])
  BY InLevel
<1>1. c \in CallType /\ c \in Looking
  <2>1. c \in CallType
    BY <1>0
  <2>2. c.op = "get" /\ "entry" \notin DOMAIN c
    BY DEF Look
  <2> QED BY <2>1, <2>2, CallKinds
<1>2. c.key \in Key /\ c.level \in Level /\ c.op = "get"
  BY <1>1 DEF Looking
<1>3. UNCHANGED <<size, edges, history>>
  BY DEF Look
<1>4. cache \in [Level -> Seq(Entry)] /\ size' \in [Level -> Int]
  BY <1>3 DEF CacheInv, CacheTypeOK
<1>5. latest' = latest
  BY <1>3 DEF history
<1>6. ASSUME NEW d \in CallType, Continue(t, d), d = NoCall \/ d \in Looking \/ d \in Promoting,
             d = NoCall \/ Touched(d) = {c.key}, CallOK(d, latest, edges),
             cache' \in [Level -> Seq(Entry)], \A l \in Level : cache'[l] \in Seq(P[l])
      PROVE  CacheInv'
  <2>1. Touched(d) \subseteq Touched(call[t])
    BY <1>1, <1>2, <1>6, TouchedBy
  <2>2. ASSUME NEW l \in Level, NEW x \in Entry, May(x, l, call, latest)
        PROVE  May(x, l, call', latest')
    BY <1>0, <1>1, <1>5, <1>6, <2>2, MayReading DEF Continue
  <2>3. EntriesOK'
    BY <1>6, <2>2, EntriesStay
  <2> HIDE DEF c, P
  <2> QED BY <1>3, <1>4, <1>6, <2>1, <2>3, ContinueOK
<1>7. NoCall \in CallType /\ CallOK(NoCall, latest, edges)
  BY DEF CallType, CallOK, NoCall, Promoting, Setting, Invalidating
<1>8. CASE found = {}
  <2> DEFINE d == IF c.level = Files THEN NoCall ELSE [c EXCEPT !.level = @ + 1]
  <2>1. Continue(t, d) /\ UNCHANGED cache
    BY <1>8 DEF Look
  <2>2. CASE c.level = Files
    BY <1>0, <1>4, <1>6, <1>7, <2>1, <2>2
  <2>3. CASE c.level # Files
    <3>1. c.level + 1 \in Level
      BY <1>2, <2>3, LevelNumbers
    <3>2. d \in Looking /\ d.key = c.key
      BY <1>1, <2>3, <3>1 DEF Looking
    <3>3. d \in CallType
      BY <3>2 DEF CallType
    <3> HIDE DEF d, c
    <3>4. Touched(d) = {c.key}
      BY <3>2, <3>3, TouchedBy, CallKinds
    <3>5. CallOK(d, latest, edges)
      BY <3>2, <3>3, CallKinds DEF CallOK
    <3> QED BY <1>0, <1>4, <1>6, <2>1, <3>2, <3>3, <3>4, <3>5
  <2> QED BY <2>2, <2>3
<1>9. CASE found # {}
  <2> DEFINE e == CHOOSE e \in found : TRUE
             d == IF c.level = Memory THEN NoCall
                  ELSE [op |-> "get", key |-> c.key, level |-> c.level, entry |-> e, next |-> Memory]
             s == Append(Without(cache[c.level], c.key), e)
  <2>1. Continue(t, d) /\ cache' = IF c.level = Files THEN cache ELSE [cache EXCEPT ![c.level] = s]
    BY <1>9 DEF Look
  <2>2. e \in found
    BY <1>9
  <2> HIDE DEF e
  <2>3. e \in Range(cache[c.level]) /\ e.key = c.key
    BY <1>2, <2>2, InLevel
  <2>4. e \in P[c.level]
    <3>1. cache[c.level] \in Seq(P[c.level])
      BY <1>0, <1>2
    <3> HIDE DEF P
    <3> QED BY <2>3, <3>1, LenProperties DEF Range
  <2>5. e \in Entry /\ May(e, c.level, call, latest)
    BY <1>2, <2>4 DEF Left
  <2>6. s \in Seq(P[c.level])
    <3>1. cache[c.level] \in Seq(P[c.level])
      BY <1>0, <1>2
    <3>2. Without(cache[c.level], c.key) \in Seq({x \in P[c.level] : x.key # c.key})
      <4> HIDE DEF P
      <4> QED BY <3>1, WithoutHas
    <3>3. Without(cache[c.level], c.key) \in Seq(P[c.level])
      <4>1. {x \in P[c.level] : x.key # c.key} \subseteq P[c.level]
        OBVIOUS
      <4> QED BY <3>2, <4>1, SeqMonotonic
    <3> HIDE DEF P
    <3> QED BY <2>4, <3>3, AppendProperties
  <2>7. s \in Seq(Entry)
    <3>1. P[c.level] \subseteq Entry
      BY <1>2 DEF Left
    <3> HIDE DEF s, P
    <3> QED BY <2>6, <3>1, SeqMonotonic
  <2> HIDE DEF s
  <2>8. cache' \in [Level -> Seq(Entry)] /\ \A l \in Level : cache'[l] \in Seq(P[l])
    <3> HIDE DEF P
    <3> QED BY <1>0, <1>2, <1>4, <2>1, <2>6, <2>7
  <2>9. CASE c.level = Memory
    BY <1>6, <1>7, <2>1, <2>8, <2>9
  <2>10. CASE c.level # Memory
    <3>1. c.level \in {Symbol, Files} /\ Memory < c.level /\ Memory \in {Memory, Symbol}
      BY <1>2, <2>10, LevelNumbers
    <3>2. /\ d \in Promoting /\ d.key = c.key /\ d.entry = e
          /\ d.next = Memory /\ d.level = c.level
      BY <1>2, <2>5, <2>10, <3>1 DEF Promoting
    <3>3. d \in CallType
      BY <3>2 DEF CallType
    <3> HIDE DEF d
    <3>4. Touched(d) = {c.key}
      BY <3>2, <3>3, TouchedBy, CallKinds
    <3>5. \A u \in Thread : c.key \notin Written(call[u])
      <4>1. \A u \in Thread : Written(call[u]) \subseteq Touched(call[u])
        BY <1>0, TouchedBy
      <4>2. Touched(c) = {c.key}
        BY <1>1, <1>2, TouchedBy
      <4>3. \A u \in Thread \ {t} : c.key \notin Touched(call[u])
        BY <4>2 DEF CacheInv, CallsApart
      <4>4. Written(c) = {}
        BY <1>1, CallKinds DEF Written
      <4> HIDE DEF CallType
      <4> QED BY <4>1, <4>3, <4>4
    <3>6. e.version = latest[c.key]
      BY <2>3, <2>5, <3>5 DEF May
    <3>7. CallOK(d, latest, edges)
      BY <2>3, <3>1, <3>2, <3>3, <3>6, CallKinds DEF CallOK
    <3> QED BY <1>6, <2>1, <2>8, <3>2, <3>3, <3>4, <3>7
  <2> QED BY <2>9, <2>10
<1> QED BY <1>8, <1>9

(* A call that sets an entry on a level goes on.                           *)
LEMMA PutStays ==
  ASSUME CacheInv, NEW t \in Thread, NEW c \in CallType, Continue(t, c), CallOK(c, latest, edges),
         UNCHANGED <<edges, history>>, Touched(c) \subseteq Touched(call[t]),
         NEW l \in Level, NEW e \in Entry, PutAt(l, e), May(e, l, call', latest),
         \A j \in Level, x \in Entry :
           May(x, j, call, latest) /\ (j # l \/ x.key # e.key) => May(x, j, call', latest)
  PROVE  CacheInv'
<1> DEFINE P == Left(call', latest)
<1> HIDE DEF CallType, Entry
<1>0. latest' = latest /\ call' \in [Thread -> CallType]
  BY DEF Continue, history, CacheInv, CacheTypeOK
<1>1. GoesDown(P) /\ Levels \in LevelsType
  BY <1>0, LeftGoesDown, InLevel
<1>2. e \in P[l]
  BY DEF Left
<1>3. ASSUME NEW j \in Level \ {l} PROVE cache[j] \in Seq(P[j])
  <2>1. cache[j] \in Seq(Left(call, latest)[j])
    BY InLevel
  <2>2. Left(call, latest)[j] \subseteq P[j]
    BY DEF Left
  <2> QED BY <2>1, <2>2, SeqMonotonic
<1>4. cache[l] \in Seq(P[l] \cup {x \in Entry : x.key = e.key})
  <2>1. cache[l] \in Seq(Left(call, latest)[l])
    BY InLevel
  <2>2. Left(call, latest)[l] \subseteq P[l] \cup {x \in Entry : x.key = e.key}
    BY DEF Left
  <2> QED BY <2>1, <2>2, SeqMonotonic
<1>5. /\ cache' \in [Level -> Seq(Entry)] /\ size' \in [Level -> Int]
      /\ \A j \in Level : cache'[j] \in Seq(P[j])
  <2> HIDE DEF P
  <2> QED BY <1>1, <1>2, <1>3, <1>4, PutAtHolds
<1>6. EntriesOK'
  BY <1>0, <1>5 DEF EntriesOK
<1> QED BY <1>5, <1>6, ContinueOK

(* No other call writes or waits for what a call touches.                  *)
LEMMA OthersApart ==
  ASSUME CacheInv, NEW t \in Thread, NEW u \in Thread, u # t, NEW k \in Touched(call[t])
  PROVE  k \notin Touched(call[u]) /\ k \notin Written(call[u])
<1> HIDE DEF CallType
<1>1. call[u] \in CallType
  BY InLevel
<1>2. Touched(call[t]) \cap Touched(call[u]) = {}
  BY DEF CacheInv, CallsApart
<1>3. Written(call[u]) \subseteq Touched(call[u])
  BY <1>1, TouchedBy
<1> QED BY <1>2, <1>3

LEMMA PromoteOK ==
  ASSUME CacheInv, NEW t \in Thread, Promote(t)
  PROVE  CacheInv'
<1> DEFINE c == call[t]
           d == IF c.next + 1 = c.level THEN NoCall ELSE [c EXCEPT !.next = @ + 1]
<1>0. call \in [Thread -> CallType] /\ c \in CallType
  BY InLevel
<1>1. c \in Promoting
  <2>1. c.op = "get" /\ "entry" \in DOMAIN c
    BY DEF Promote
  <2> QED BY <2>1, <1>0, CallKinds
<1>2. /\ c.key \in Key /\ c.entry \in Entry /\ c.next \in {1, 2} /\ c.level \in {2, 3} /\ c.next \in Level
      /\ Symbol = 2 /\ Memory = 1
  BY <1>1, LevelNumbers DEF Promoting
<1>3. c.entry.key = c.key /\ c.entry.version = latest[c.key] /\ c.next < c.level
  BY <1>1 DEF CacheInv, CallOK
<1>4. PutAt(c.next, c.entry) /\ Continue(t, d) /\ UNCHANGED <<edges, history>>
  BY DEF Promote
<1>5. \/ d = NoCall
      \/ d \in Promoting /\ d.key = c.key /\ d.entry = c.entry /\ d.next < d.level
  <2>1. CASE c.next + 1 = c.level
    BY <2>1
  <2>2. CASE c.next + 1 # c.level
    <3>1. c.next = 1 /\ c.level = 3
      BY <1>2, <1>3, <2>2
    <3>2. d = [c EXCEPT !.next = 2]
      BY <2>2, <3>1
    <3>3. d \in Promoting /\ d.key = c.key /\ d.entry = c.entry /\ d.next = 2 /\ d.level = 3
      BY <1>1, <1>2, <3>1, <3>2 DEF Promoting
    <3> QED BY <3>3
  <2> QED BY <2>1, <2>2
<1> HIDE DEF d, c
<1>6. d \in CallType
  BY <1>5 DEF CallType
<1>7. CallOK(d, latest, edges)
  <2>1. d \notin Setting /\ d \notin Invalidating /\ (d = NoCall => d \notin Promoting)
    BY <1>5, <1>6, CallKinds
  <2> QED BY <1>3, <1>5, <2>1 DEF CallOK
<1>8. Touched(d) \subseteq Touched(c)
  BY <1>0, <1>1, <1>5, <1>6, TouchedBy, CallKinds
<1>9. ASSUME NEW j \in Level, NEW x \in Entry, May(x, j, call, latest) PROVE May(x, j, call', latest)
  BY <1>0, <1>1, <1>4, <1>5, <1>6, <1>9, MayReading DEF Continue, c
<1>10. May(c.entry, c.next, call, latest)
  <2>0. c.key \in Touched(c)
    BY <1>0, <1>1, TouchedBy, CallKinds
  <2>1. \A u \in Thread : c.key \notin Written(call[u])
    <3>1. \A u \in Thread \ {t} : c.key \notin Written(call[u])
      BY <2>0, OthersApart DEF c
    <3>2. Written(c) = {}
      BY <1>0, <1>1, CallKinds DEF Written
    <3> QED BY <3>1, <3>2 DEF c
  <2>2. ASSUME NEW u \in Thread PROVE Leaves(call[u], c.entry, c.next)
    <3> HIDE DEF CallType
    <3>1. c.entry.key \notin Written(call[u])
      BY <1>3, <2>1
    <3> QED BY <1>2, <1>3, <3>1 DEF Leaves, Written
  <2> QED BY <1>3, <2>1, <2>2 DEF May
<1>11. May(c.entry, c.next, call', latest)
  BY <1>2, <1>9, <1>10
<1> HIDE DEF CallType, Entry
<1> QED BY <1>2, <1>4, <1>6, <1>7, <1>8, <1>9, <1>11, PutStays DEF c

LEMMA SetLevelOK ==
  ASSUME CacheInv, NEW t \in Thread, SetLevel(t)
  PROVE  CacheInv'
<1> DEFINE c == call[t]
           d == [c EXCEPT !.at = @ + 1]
<1>0. call \in [Thread -> CallType] /\ c \in CallType
  BY InLevel
<1>1. c \in Setting /\ c.at <= 3
  <2>1. c.op = "set" /\ c.at <= Len(FromMemory)
    BY DEF SetLevel
  <2> QED BY <2>1, <1>0, CallKinds, LevelNumbers
<1>2. c.key \in Key /\ c.entry \in Entry /\ c.at \in 1..3 /\ c.at \in Level /\ FromMemory[c.at] = c.at
  BY <1>1, LevelNumbers DEF Setting
<1>3. c.entry.key = c.key
  BY <1>1 DEF CacheInv, CallOK
<1>4. PutAt(c.at, c.entry) /\ Continue(t, d) /\ UNCHANGED <<edges, history>>
  BY <1>2 DEF SetLevel
<1>5. d \in Setting /\ d.key = c.key /\ d.entry = c.entry /\ d.at = c.at + 1
  BY <1>1, <1>2 DEF Setting
<1>6. d \in CallType
  BY <1>5 DEF CallType
<1>7. d \notin Promoting /\ d \notin Invalidating
  BY <1>5, <1>6, CallKinds
<1>8. call' = [call EXCEPT ![t] = d]
  BY <1>4 DEF Continue
<1> HIDE DEF d, c, CallType, Entry
<1>9. CallOK(d, latest, edges)
  BY <1>3, <1>5, <1>7 DEF CallOK
<1>10. Touched(d) \subseteq Touched(c)
  BY <1>0, <1>1, <1>5, <1>6, TouchedBy
<1>11. Written(c) \subseteq {c.key} /\ c.key \in Written(d)
  BY <1>0, <1>1, <1>2, <1>5, CallKinds DEF Written
<1>12. ASSUME NEW j \in Level, NEW x \in Entry, May(x, j, call, latest),
              j # c.at \/ x.key # c.entry.key
       PROVE  May(x, j, call', latest)
  <2>1. Leaves(c, x, j)
    BY <1>12 DEF May, c
  <2>2. j \in Nat /\ c.at \in Nat
    BY <1>2, LevelNumbers
  <2>3. Leaves(d, x, j)
    BY <1>1, <1>3, <1>5, <1>7, <1>12, <2>1, <2>2 DEF Leaves
  <2>4. x.key \in Written(call[t]) => x.key \in Written(d)
    BY <1>11 DEF c
  <2> QED BY <1>0, <1>6, <1>8, <1>12, <2>3, <2>4, MayStay
<1>13. May(c.entry, c.at, call', latest)
  <2>1. call'[t] = d /\ \A u \in Thread \ {t} : call'[u] = call[u]
    BY <1>0, <1>8
  <2>2. c.key \in Touched(c)
    BY <1>0, <1>1, TouchedBy
  <2>3. ASSUME NEW u \in Thread PROVE Leaves(call'[u], c.entry, c.at)
    <3>1. CASE u = t
      BY <1>5, <1>7, <2>1, <3>1 DEF Leaves
    <3>2. CASE u # t
      <4>1. c.key \notin Written(call[u])
        BY <2>2, <3>2, OthersApart DEF c
      <4> QED BY <1>2, <1>3, <2>1, <3>2, <4>1 DEF Leaves, Written
    <3> QED BY <3>1, <3>2
  <2> QED BY <1>3, <1>11, <2>1, <2>3 DEF May
<1> QED BY <1>2, <1>4, <1>6, <1>9, <1>10, <1>12, <1>13, PutStays DEF c

(* What a call has dropped from a level is gone from it.                   *)
LEMMA DropLevelOK ==
  ASSUME CacheInv, NEW t \in Thread, DropLevel(t)
  PROVE  CacheInv'
<1> DEFINE c == call[t]
           d == IF c.at < Len(FromMemory) THEN [c EXCEPT !.at = @ + 1]
                ELSE [c EXCEPT !.at = 1, !.keys = Tail(@)]
<1>0. call \in [Thread -> CallType] /\ c \in CallType
  BY InLevel
<1>1. c \in Invalidating /\ c.keys # <<>>
  <2>1. c.op = "invalidate" /\ c.keys # <<>>
    BY DEF DropLevel
  <2> QED BY <2>1, <1>0, CallKinds
<1>2. /\ c.key \in Key /\ c.keys \in Seq(Key) /\ c.at \in Level /\ c.affected \in SUBSET Key
      /\ FromMemory[c.at] = c.at /\ Len(FromMemory) = 3 /\ Level = {1, 2, 3} /\ Files = 3
  BY <1>1, LevelNumbers DEF Invalidating
<1>3. c.affected = Affected(c.key, edges) /\ c.keys \in Seq({c.key} \cup c.affected)
  BY <1>1 DEF CacheInv, CallOK
<1>4. DropAt(c.at, Head(c.keys)) /\ Continue(t, d) /\ UNCHANGED <<edges, history>>
  BY <1>2 DEF DropLevel
<1> DEFINE k == c.keys[1]
<1>5. /\ Head(c.keys) = k /\ Len(c.keys) \in Nat \ {0} /\ Tail(c.keys) \in Seq({c.key} \cup c.affected)
      /\ Tail(c.keys) \in Seq(Key)
      /\ \A i \in 2..Len(c.keys) : i - 1 \in DOMAIN Tail(c.keys) /\ Tail(c.keys)[i - 1] = c.keys[i]
  <2>1. Len(c.keys) \in Nat \ {0} /\ Head(c.keys) = k
    BY <1>1, <1>2, EmptySeq
  <2>2. Tail(c.keys) \in Seq({c.key} \cup c.affected) /\ Tail(c.keys) \in Seq(Key)
    BY <1>1, <1>2, <1>3, HeadTailProperties
  <2>3. \A i \in 2..Len(c.keys) : i - 1 \in DOMAIN Tail(c.keys) /\ Tail(c.keys)[i - 1] = c.keys[i]
    BY <1>2, <2>1
  <2> QED BY <2>1, <2>2, <2>3
<1>6. /\ d \in Invalidating /\ d.key = c.key /\ d.affected = c.affected
      /\ \/ d.keys = c.keys /\ c.at < 3 /\ d.at = c.at + 1
         \/ d.keys = Tail(c.keys) /\ c.at = 3 /\ d.at = 1
  <2>1. CASE c.at < 3
    <3>1. d = [c EXCEPT !.at = @ + 1]
      BY <1>2, <2>1
    <3>2. c.at + 1 \in Level
      BY <1>2, <2>1
    <3> QED BY <1>1, <2>1, <3>1, <3>2 DEF Invalidating
  <2>2. CASE c.at = 3
    <3>1. d = [c EXCEPT !.at = 1, !.keys = Tail(@)]
      BY <1>2, <2>2
    <3>2. 1 \in Level
      BY <1>2
    <3> QED BY <1>1, <1>5, <2>2, <3>1, <3>2 DEF Invalidating
  <2> QED BY <1>2, <2>1, <2>2
<1>7. d \in CallType
  BY <1>6 DEF CallType
<1>8. d \notin Promoting /\ d \notin Setting
  BY <1>6, <1>7, CallKinds
<1>9. call' = [call EXCEPT ![t] = d] /\ latest' = latest
  BY <1>4 DEF Continue, history
<1> HIDE DEF d, c, CallType, Entry
<1>10. CallOK(d, latest, edges)
  BY <1>3, <1>5, <1>6, <1>8 DEF CallOK
<1>11. Touched(d) \subseteq Touched(c) /\ Written(c) \subseteq Written(d)
  BY <1>0, <1>1, <1>6, <1>7, TouchedBy, CallKinds DEF Written
<1>12. ASSUME NEW j \in Level, NEW x \in Entry, May(x, j, call, latest), j # c.at \/ x.key # k
       PROVE  May(x, j, call', latest)
  <2>1. Leaves(c, x, j)
    BY <1>12 DEF May, c
  <2>2. j \in Level /\ j \in Nat /\ c.at \in Nat /\ j >= 1 /\ j <= 3
    BY <1>2
  <2>3. ASSUME x.key \in {c.key} \cup c.affected
        PROVE  x.key \in Range(d.keys) /\ (x.key = d.keys[1] => j >= d.at)
    <3>1. x.key \in Range(c.keys) /\ (x.key = c.keys[1] => j >= c.at)
      BY <1>1, <2>1, <2>3 DEF Leaves
    <3>2. CASE d.keys = c.keys /\ d.at = c.at + 1
      BY <1>12, <2>2, <3>1, <3>2
    <3>3. CASE d.keys = Tail(c.keys) /\ c.at = 3 /\ d.at = 1
      <4>1. x.key # k
        BY <1>12, <2>2, <3>1, <3>3
      <4>2. PICK i \in DOMAIN c.keys : c.keys[i] = x.key
        BY <3>1 DEF Range
      <4>3. i \in 2..Len(c.keys)
        <5>1. i \in 1..Len(c.keys) /\ i # 1
          BY <1>2, <4>1, <4>2, LenProperties
        <5> QED BY <5>1
      <4>4. x.key \in Range(Tail(c.keys))
        BY <1>5, <4>2, <4>3 DEF Range
      <4> QED BY <2>2, <3>3, <4>4
    <3> QED BY <1>6, <3>2, <3>3
  <2>4. Leaves(d, x, j)
    BY <1>6, <1>8, <2>3 DEF Leaves
  <2>5. x.key \in Written(call[t]) => x.key \in Written(d)
    BY <1>11 DEF c
  <2> QED BY <1>0, <1>7, <1>9, <1>12, <2>4, <2>5, MayStay
<1> DEFINE w == Without(cache[c.at], k)
           P == Left(call, latest)
           Q == Left(call', latest')
<1>13. cache \in [Level -> Seq(Entry)] /\ size \in [Level -> Int] /\ \A l \in Level : cache[l] \in Seq(P[l])
  BY InLevel DEF CacheInv, CacheTypeOK
<1>14. w \in Seq({x \in P[c.at] : x.key # k}) /\ w \in Seq({x \in Entry : x.key # k})
  <2>1. cache[c.at] \in Seq(P[c.at]) /\ cache[c.at] \in Seq(Entry)
    BY <1>2, <1>13
  <2> HIDE DEF P
  <2> QED BY <2>1, WithoutHas
<1>15. cache' = [cache EXCEPT ![c.at] = w]
  BY <1>4, <1>5 DEF DropAt
<1>16. size' \in [Level -> Int]
  <2>1. Freed(cache[c.at], k) \in Nat
    BY <1>2, <1>13, FreedIsNat
  <2>2. size' = size \/ size' = [size EXCEPT ![c.at] = @ - Freed(cache[c.at], k)]
    BY <1>4, <1>5 DEF DropAt
  <2> QED BY <1>2, <1>13, <2>1, <2>2
<1> HIDE DEF w, k
<1>17. cache' \in [Level -> Seq(Entry)]
  <2>1. {x \in Entry : x.key # k} \subseteq Entry
    OBVIOUS
  <2>2. w \in Seq(Entry)
    BY <1>14, <2>1, SeqMonotonic
  <2> QED BY <1>2, <1>13, <1>15, <2>2
<1>18. ASSUME NEW l \in Level PROVE cache'[l] \in Seq(Q[l])
  <2>1. CASE l = c.at
    <3>1. {x \in P[l] : x.key # k} \subseteq Q[l]
      BY <1>9, <1>12 DEF Left
    <3>2. cache'[l] = w /\ w \in Seq({x \in P[l] : x.key # k})
      BY <1>13, <1>14, <1>15, <2>1
    <3> HIDE DEF P, Q
    <3> QED BY <3>1, <3>2, SeqMonotonic
  <2>2. CASE l # c.at
    <3>1. P[l] \subseteq Q[l]
      BY <1>9, <1>12, <2>2 DEF Left
    <3>2. cache'[l] = cache[l]
      BY <1>13, <1>15, <2>2
    <3> HIDE DEF P, Q
    <3> QED BY <1>13, <3>1, <3>2, SeqMonotonic
  <2> QED BY <2>1, <2>2
<1>19. EntriesOK'
  BY <1>18 DEF EntriesOK
<1> HIDE DEF P, Q
<1> QED BY <1>4, <1>7, <1>10, <1>11, <1>16, <1>17, <1>19, ContinueOK DEF c

(* A call that is done gives back what it touched, having changed nothing  *)
(* else in the tracker.                                                    *)
LEMMA DoneOK ==
  ASSUME CacheInv, NEW t \in Thread, Continue(t, NoCall), UNCHANGED <<cache, size, sets, calls>>,
         edges' \subseteq Key \X Key, latest' \in [Key -> 0..MaxSets],
         declared' \in [Key -> SUBSET Key], DeclaredOK',
         \A k \in Key \ Touched(call[t]) : latest'[k] = latest[k],
         \A u \in Thread \ {t} : call[u] \in Invalidating =>
           \A d \in Key, m \in Touched(call[u]) : <<d, m>> \in edges <=> <<d, m>> \in edges',
         \A l \in Level, x \in Entry : May(x, l, call, latest) => May(x, l, call', latest')
  PROVE  CacheInv'
<1> HIDE DEF CallType, Entry
<1>1. call' = [call EXCEPT ![t] = NoCall]
  BY DEF Continue
<1>2. call \in [Thread -> CallType]
  BY InLevel
<1>3. NoCall \in CallType
  BY DEF CallType
<1>4. CacheTypeOK'
  BY <1>1, <1>3 DEF CacheInv, CacheTypeOK
<1>5. CallsApart'
  <2>1. Touched(NoCall) = {}
    BY <1>3, TouchedBy
  <2> QED BY <1>1, <1>2, <2>1, ApartStay DEF CacheInv
<1>6. EntriesOK'
  <2>1. \A l \in Level : cache'[l] \in Seq(Left(call, latest)[l])
    BY InLevel
  <2> QED BY <2>1, EntriesStay
<1>7. ASSUME NEW u \in Thread PROVE CallOK(call'[u], latest', edges')
  <2>1. CASE u = t
    <3>1. call'[u] = NoCall
      BY <1>1, <1>2, <2>1
    <3>2. CallOK(NoCall, latest', edges')
      BY DEF CallOK, NoCall, Promoting, Setting, Invalidating
    <3> QED BY <3>1, <3>2
  <2>2. CASE u # t
    <3>1. call'[u] = call[u] /\ call[u] \in CallType /\ CallOK(call[u], latest, edges)
      BY <1>1, <1>2, <2>2 DEF CacheInv
    <3>2. \A k \in Touched(call[u]) : k \in Key \ Touched(call[t])
      <4>1. Touched(call[u]) \subseteq Key
        BY <3>1, TouchedInKey
      <4> QED BY <2>2, <4>1, OthersApart
    <3>3. \A k \in Touched(call[u]) : latest'[k] = latest[k]
      BY <3>2
    <3>4. call[u] \in Invalidating => \A d \in Key, m \in Touched(call[u]) : <<d, m>> \in edges <=> <<d, m>> \in edges'
      BY <2>2
    <3> QED BY <3>1, <3>3, <3>4, CallStays
  <2> QED BY <2>1, <2>2
<1> QED BY <1>4, <1>5, <1>6, <1>7 DEF CacheInv

LEMMA SetDependenciesOK ==
  ASSUME CacheInv, NEW t \in Thread, SetDependencies(t)
  PROVE  CacheInv'
<1> DEFINE c == call[t]
           v == c.entry.version
<1>0. call \in [Thread -> CallType] /\ c \in CallType
  BY InLevel
<1>1. c \in Setting /\ c.at > 3
  <2>1. c.op = "set" /\ c.at > Len(FromMemory)
    BY DEF SetDependencies
  <2> QED BY <2>1, <1>0, CallKinds, LevelNumbers
<1>2. c.key \in Key /\ c.entry \in Entry /\ c.at = 4 /\ v \in 0..MaxSets
  BY <1>1 DEF Setting, Entry
<1>3. /\ edges' = edges \cup ({c.key} \X Uses[c.key])
      /\ latest' = [latest EXCEPT ![c.key] = v]
      /\ declared' = [declared EXCEPT ![c.key] = Uses[c.key]]
      /\ Continue(t, NoCall) /\ UNCHANGED <<cache, size, sets, calls>>
  BY DEF SetDependencies
<1>4. /\ edges \subseteq Key \X Key /\ latest \in [Key -> 0..MaxSets]
      /\ declared \in [Key -> SUBSET Key] /\ Uses \in [Key -> SUBSET Key]
  BY CacheAssumption DEF CacheInv, CacheTypeOK
<1>5. edges = Declared /\ \A k \in Key : declared[k] = {} \/ declared[k] = Uses[k]
  BY DEF CacheInv, DeclaredOK
<1>6. call' = [call EXCEPT ![t] = NoCall] /\ NoCall \in CallType
  BY <1>3 DEF Continue, CallType
<1>7. Touched(c) = {c.key} \cup Uses[c.key]
  BY <1>0, <1>1, TouchedBy
<1> HIDE DEF c, v, CallType, Entry
<1>8. /\ edges' \subseteq Key \X Key /\ latest' \in [Key -> 0..MaxSets]
      /\ declared' \in [Key -> SUBSET Key]
  BY <1>2, <1>3, <1>4
<1>9. DeclaredOK'
  <2>1. ASSUME NEW a \in Key, NEW b \in Key
        PROVE  <<a, b>> \in edges' <=> b \in declared'[a]
    <3>1. <<a, b>> \in edges <=> b \in declared[a]
      BY <1>5 DEF Declared
    <3> QED BY <1>2, <1>3, <1>4, <1>5, <3>1
  <2>2. edges' = {p \in Key \X Key : p[2] \in declared'[p[1]]}
    BY <1>8, <2>1
  <2>3. \A k \in Key : declared'[k] = {} \/ declared'[k] = Uses[k]
    BY <1>2, <1>3, <1>4, <1>5
  <2> QED BY <2>2, <2>3 DEF DeclaredOK, Declared
<1>10. \A k \in Key \ Touched(call[t]) : latest'[k] = latest[k]
  BY <1>3, <1>4, <1>7 DEF c
<1>11. ASSUME NEW u \in Thread \ {t}, NEW d \in Key, NEW m \in Touched(call[u])
       PROVE  <<d, m>> \in edges <=> <<d, m>> \in edges'
  <2>1. m \notin Touched(c)
    BY OthersApart DEF c
  <2> QED BY <1>3, <1>7, <2>1
<1>12. ASSUME NEW l \in Level, NEW x \in Entry, May(x, l, call, latest)
       PROVE  May(x, l, call', latest')
  <2>0. NoCall \notin Setting /\ NoCall \notin Invalidating
    BY <1>6, CallKinds
  <2>1. Leaves(NoCall, x, l) /\ Written(c) = {c.key}
    BY <1>0, <1>1, <1>2, <2>0, CallKinds DEF Leaves, Written
  <2>2. CASE x.key # c.key
    <3>1. latest'[x.key] = latest[x.key]
      <4>1. x.key \in Key
        BY DEF Entry
      <4> QED BY <1>3, <1>4, <2>2, <4>1
    <3>2. x.key \notin Written(call[t])
      BY <2>1, <2>2 DEF c
    <3> QED BY <1>0, <1>6, <1>12, <2>1, <3>1, <3>2, MayStay
  <2>3. CASE x.key = c.key
    <3>1. x.version = v
      <4>1. Leaves(c, x, l)
        BY <1>12 DEF May, c
      <4>2. l < c.at
        BY <1>2, LevelNumbers
      <4> QED BY <1>1, <2>3, <4>1, <4>2 DEF Leaves, v
    <3>2. latest'[x.key] = v
      BY <1>2, <1>3, <1>4, <2>3
    <3>3. call'[t] = NoCall /\ \A u \in Thread \ {t} : call'[u] = call[u]
      BY <1>0, <1>6
    <3>4. \A u \in Thread : Leaves(call'[u], x, l)
      BY <1>12, <2>1, <3>3 DEF May
    <3> QED BY <3>1, <3>2, <3>4 DEF May
  <2> QED BY <2>2, <2>3
<1> QED BY <1>3, <1>8, <1>9, <1>10, <1>11, <1>12, DoneOK

LEMMA ForgetOK ==
  ASSUME CacheInv, NEW t \in Thread, Forget(t)
  PROVE  CacheInv'
<1> DEFINE c == call[t]
           gone == {c.key} \cup c.affected
           forgotten == {c.key} \cup Affected(c.key, Declared)
<1>0. call \in [Thread -> CallType] /\ c \in CallType
  BY InLevel
<1>1. c \in Invalidating /\ c.keys = <<>>
  <2>1. c.op = "invalidate" /\ c.keys = <<>>
    BY DEF Forget
  <2> QED BY <2>1, <1>0, CallKinds
<1>2. c.key \in Key /\ c.affected \in SUBSET Key
  BY <1>1 DEF Invalidating
<1>3. /\ edges' = {e \in edges : e[1] \notin gone /\ e[2] \notin gone}
      /\ latest' = [k \in Key |-> IF k \in forgotten THEN 0 ELSE latest[k]]
      /\ declared' = [k \in Key |-> IF k \in forgotten THEN {} ELSE declared[k]]
      /\ Continue(t, NoCall) /\ UNCHANGED <<cache, size, sets, calls>>
  BY DEF Forget
<1>4. /\ edges \subseteq Key \X Key /\ latest \in [Key -> 0..MaxSets] /\ MaxSets \in Nat
      /\ declared \in [Key -> SUBSET Key]
  BY CacheAssumption DEF CacheInv, CacheTypeOK
<1>5. edges = Declared /\ \A k \in Key : declared[k] = {} \/ declared[k] = Uses[k]
  BY DEF CacheInv, DeclaredOK
<1>6. call' = [call EXCEPT ![t] = NoCall] /\ NoCall \in CallType
  BY <1>3 DEF Continue, CallType
<1>7. Touched(c) = gone
  BY <1>0, <1>1, TouchedBy
<1>8. forgotten = gone /\ UsersOf(gone, edges) \subseteq gone
  <2>1. c.affected = Affected(c.key, edges)
    BY <1>1 DEF CacheInv, CallOK
  <2>2. UsersOf({c.key} \cup Affected(c.key, edges), edges) \subseteq Affected(c.key, edges)
    BY <1>2, AffectedIsLeast
  <2> HIDE DEF c
  <2> QED BY <1>5, <2>1, <2>2
<1>9. gone \subseteq Key
  BY <1>2
<1> HIDE DEF c, gone, forgotten, CallType, Entry
<1>10. /\ edges' \subseteq Key \X Key /\ latest' \in [Key -> 0..MaxSets]
       /\ declared' \in [Key -> SUBSET Key]
  BY <1>3, <1>4
<1>11. ASSUME NEW a \in Key, NEW b \in gone, <<a, b>> \in edges PROVE a \in gone
  BY <1>8, <1>11 DEF UsersOf
<1>12. ASSUME NEW a \in Key, NEW b \in Key
       PROVE  <<a, b>> \in edges' <=> <<a, b>> \in edges /\ a \notin gone
  BY <1>3, <1>11
<1>13. DeclaredOK'
  <2>1. ASSUME NEW a \in Key, NEW b \in Key
        PROVE  <<a, b>> \in edges' <=> b \in declared'[a]
    <3>1. <<a, b>> \in edges <=> b \in declared[a]
      BY <1>5 DEF Declared
    <3> QED BY <1>3, <1>8, <1>12, <3>1
  <2>2. edges' = {p \in Key \X Key : p[2] \in declared'[p[1]]}
    BY <1>10, <2>1
  <2>3. \A k \in Key : declared'[k] = {} \/ declared'[k] = Uses[k]
    BY <1>3, <1>5
  <2> QED BY <2>2, <2>3 DEF DeclaredOK, Declared
<1>14. \A k \in Key \ Touched(call[t]) : latest'[k] = latest[k]
  BY <1>3, <1>7, <1>8 DEF c
<1>15. ASSUME NEW u \in Thread \ {t}, call[u] \in Invalidating, NEW d \in Key, NEW m \in Touched(call[u])
       PROVE  <<d, m>> \in edges <=> <<d, m>> \in edges'
  <2>1. m \in Key /\ m \notin gone
    <3>1. call[u] \in CallType
      BY <1>0
    <3> QED BY <3>1, <1>7, OthersApart, TouchedInKey DEF c
  <2>2. CASE d \notin gone
    BY <1>12, <2>1, <2>2
  <2>3. CASE d \in gone
    <3>1. call[u] \in CallType /\ call[u].key \in Key
      BY <1>0, <1>15 DEF Invalidating
    <3>2. Touched(call[u]) = {call[u].key} \cup Affected(call[u].key, edges)
      <4>1. call[u].affected = Affected(call[u].key, edges)
        BY <1>15 DEF CacheInv, CallOK
      <4> QED BY <1>15, <3>1, <4>1, TouchedBy
    <3>3. UsersOf(Touched(call[u]), edges) \subseteq Touched(call[u])
      BY <3>1, <3>2, AffectedIsLeast
    <3>4. d \notin Touched(call[u])
      BY <1>7, <2>3, OthersApart DEF c
    <3>5. <<d, m>> \notin edges
      BY <1>15, <3>3, <3>4 DEF UsersOf
    <3> QED BY <1>12, <2>1, <2>3, <3>5
  <2> QED BY <2>2, <2>3
<1>16. ASSUME NEW l \in Level, NEW x \in Entry, May(x, l, call, latest)
       PROVE  May(x, l, call', latest')
  <2>0. NoCall \notin Setting /\ NoCall \notin Invalidating
    BY <1>6, CallKinds
  <2>1. Leaves(NoCall, x, l)
    BY <2>0 DEF Leaves
  <2>2. x.key \notin gone
    <3>1. Leaves(c, x, l)
      BY <1>16 DEF May, c
    <3>2. Range(c.keys) = {}
      BY <1>1 DEF Range
    <3> QED BY <1>1, <3>1, <3>2 DEF Leaves, gone
  <2>3. x.key \in Key
    BY DEF Entry
  <2>4. latest'[x.key] = latest[x.key]
    BY <1>3, <1>8, <2>2, <2>3
  <2>5. x.key \notin Written(call[t])
    BY <1>0, <1>7, <2>2, TouchedBy DEF c
  <2> QED BY <1>0, <1>6, <1>16, <2>1, <2>4, <2>5, MayStay
<1> QED BY <1>3, <1>10, <1>13, <1>14, <1>15, <1>16, DoneOK

LEMMA CleanupMemoryOK ==
  ASSUME CacheInv, CleanupMemory
  PROVE  CacheInv'
<1> DEFINE s == cache[Symbol]
           n == Len(s) \div Part
           w == SubSeq(s, n + 1, Len(s))
           P == Left(call, latest)
<1>0. Symbol \in Level
  BY DEF Level
<1>1. /\ cache \in [Level -> Seq(Entry)] /\ size \in [Level -> Int]
      /\ \A l \in Level : cache[l] \in Seq(P[l])
  BY InLevel DEF CacheInv, CacheTypeOK
<1>2. /\ cache' = [cache EXCEPT ![Symbol] = w]
      /\ size' = [size EXCEPT ![Symbol] = @ - Total(SubSeq(s, 1, n))]
      /\ UNCHANGED <<edges, call, history>>
  BY DEF CleanupMemory
<1>3. s \in Seq(Entry) /\ s \in Seq(P[Symbol]) /\ Len(s) \in Nat
  BY <1>0, <1>1, LenProperties
<1>4. n \in 0..Len(s)
  <2>1. Part \in Nat \ {0}
    BY CacheAssumption
  <2> HIDE DEF s
  <2> QED BY <1>3, <2>1, QuotientWithin
<1> HIDE DEF n, P, Entry, CallType
<1>5. w \in Seq(Entry) /\ w \in Seq(P[Symbol]) /\ SubSeq(s, 1, n) \in Seq(Entry)
  BY <1>3, <1>4, PartOfSeq
<1>6. Total(SubSeq(s, 1, n)) \in Nat
  BY <1>5, TotalIsNat
<1> HIDE DEF w, s
<1>7. cache' \in [Level -> Seq(Entry)] /\ size' \in [Level -> Int] /\ \A l \in Level : cache'[l] \in Seq(P[l])
  BY <1>0, <1>1, <1>2, <1>5, <1>6
<1>8. call' = call /\ latest' = latest /\ edges' = edges /\ declared' = declared /\ sets' = sets
  BY <1>2 DEF history
<1>9. CacheTypeOK' /\ DeclaredOK' /\ CallsApart'
  BY <1>7, <1>8 DEF CacheInv, CacheTypeOK, DeclaredOK, Declared, CallsApart
<1>10. EntriesOK'
  BY <1>7, <1>8 DEF EntriesOK, P
<1>11. \A u \in Thread : CallOK(call'[u], latest', edges')
  BY <1>8 DEF CacheInv
<1> QED BY <1>9, <1>10, <1>11 DEF CacheInv

LEMMA CacheStuttersOK == CacheInv /\ UNCHANGED vars => CacheInv'
<1> SUFFICES ASSUME CacheInv, UNCHANGED vars PROVE CacheInv'
  OBVIOUS
<1>1. /\ cache' = cache /\ size' = size /\ edges' = edges /\ call' = call
      /\ latest' = latest /\ declared' = declared /\ sets' = sets
  BY DEF vars
<1>2. CacheTypeOK' /\ DeclaredOK' /\ CallsApart' /\ EntriesOK'
  BY <1>1 DEF CacheInv, CacheTypeOK, DeclaredOK, Declared, CallsApart, EntriesOK
<1>3. \A u \in Thread : CallOK(call'[u], latest', edges')
  BY <1>1 DEF CacheInv
<1> QED BY <1>2, <1>3 DEF CacheInv

LEMMA CacheStepsOK == ~ Overlap /\ CacheInv /\ [Next]_vars => CacheInv'
<1> SUFFICES ASSUME ~ Overlap, CacheInv, [Next]_vars PROVE CacheInv'
  OBVIOUS
<1>1. CASE CleanupMemory
  BY <1>1, CleanupMemoryOK
<1>2. ASSUME NEW t \in Thread, Look(t) PROVE CacheInv'
  BY <1>2, LookOK
<1>3. ASSUME NEW t \in Thread, Promote(t) PROVE CacheInv'
  BY <1>3, PromoteOK
<1>4. ASSUME NEW t \in Thread, SetLevel(t) PROVE CacheInv'
  BY <1>4, SetLevelOK
<1>5. ASSUME NEW t \in Thread, SetDependencies(t) PROVE CacheInv'
  BY <1>5, SetDependenciesOK
<1>6. ASSUME NEW t \in Thread, DropLevel(t) PROVE CacheInv'
  BY <1>6, DropLevelOK
<1>7. ASSUME NEW t \in Thread, Forget(t) PROVE CacheInv'
  BY <1>7, ForgetOK
<1>8. ASSUME NEW t \in Thread, NEW k \in Key, Get(t, k) PROVE CacheInv'
  BY <1>8, GetOK
<1>9. ASSUME NEW t \in Thread, NEW k \in Key, Invalidate(t, k) PROVE CacheInv'
  BY <1>9, InvalidateOK
<1>10. ASSUME NEW t \in Thread, NEW k \in Key, NEW s \in Size, Set(t, k, s) PROVE CacheInv'
  BY <1>10, SetOK
<1>11. CASE UNCHANGED vars
  BY <1>11, CacheStuttersOK
<1> QED
  BY <1>1, <1>2, <1>3, <1>4, <1>5, <1>6, <1>7, <1>8, <1>9, <1>10, <1>11 DEF Next

LEMMA CacheInvCoherent == CacheInv => Coherent /\ TypeOK
<1> SUFFICES ASSUME CacheInv PROVE Coherent /\ TypeOK
  OBVIOUS
<1>1. TypeOK
  <2>1. \A l \in Level : \A e \in Range(cache[l]) : e \in Entry
    <3> HIDE DEF Entry
    <3> QED BY LenProperties DEF CacheInv, CacheTypeOK, Range
  <2> HIDE DEF CallType, Entry
  <2> QED BY <2>1 DEF TypeOK, CacheInv, CacheTypeOK
<1>2. ASSUME NEW k \in Key, \A t \in Thread : k \notin Touched(call[t]),
             NEW l \in Level, NEW e \in Entries(cache[l], k)
      PROVE  e.version = latest[k]
  <2>1. e \in Range(cache[l]) /\ e.key = k
    BY InLevel
  <2>2. cache[l] \in Seq(Left(call, latest)[l])
    BY InLevel
  <2>3. e \in Left(call, latest)[l]
    BY <2>1, <2>2, LenProperties DEF Range
  <2>4. May(e, l, call, latest)
    BY <2>3 DEF Left
  <2>5. \A t \in Thread : e.key \notin Written(call[t])
    <3>1. \A t \in Thread : call[t] \in CallType
      BY InLevel
    <3> QED BY <1>2, <2>1, <3>1, TouchedBy
  <2> QED BY <2>1, <2>4, <2>5 DEF May
<1> QED BY <1>1, <1>2 DEF Coherent

(* As long as no two calls that are under way touch a common key, whatever *)
(* else the threads do at once: of a key that no call is about, every copy *)
(* that promotions, demotions and clean-ups have left in any of the caches *)
(* is of the value that CacheManager.set set last, and none is left when   *)
(* the key has been invalidated since, or one it depends on.               *)
THEOREM CacheCoherent == ASSUME ~ Overlap PROVE Spec => []Coherent
<1>1. Init => CacheInv
  BY CacheInitOK
<1>2. CacheInv /\ [Next]_vars => CacheInv'
  BY CacheStepsOK
<1>3. CacheInv => Coherent
  BY CacheInvCoherent
<1> QED BY <1>1, <1>2, <1>3, PTL DEF Spec

-----------------------------------------------------------------------------
(***************************************************************************)
(* The incremental analyzer                                                *)
(***************************************************************************)

Edges == SUBSET (File \X File)

IncrementalTypeOK ==
  /\ disk \in Disks /\ edits \in FileVersion
  /\ tracked \in [File -> FileVersion \cup {None}]
  /\ symbols \in [File -> FileVersion \cup {None}]
  /\ imports \in [File -> [names : SUBSET File, found : SUBSET File] \cup {None}]
  /\ against \in [File -> Disks \cup {None}]
  /\ graph \in Edges /\ known \in Edges
  /\ cached \in SUBSET File /\ todo \in SUBSET File /\ analyzed \in SUBSET File
  /\ unseen \in SUBSET File /\ revived \in SUBSET File
  /\ stage \in {"new", "full", "idle", "incremental"}

(* The last scan saw what has not changed since, and what has is newer.    *)
ScanOK ==
  /\ \A f \in File : Exists(f) => disk[f].version <= edits
  /\ \A f \in Tracked : tracked[f] <= edits
  /\ \A f \in unseen \cap Tracked : Exists(f) => tracked[f] < disk[f].version
  /\ IF stage = "new" THEN Tracked = {} /\ unseen = {}
     ELSE \A f \in File \ unseen : tracked[f] = (IF Exists(f) THEN disk[f].version ELSE None)

(* Before the end of the first pass nothing is known.                      *)
FirstOK ==
  /\ stage \in {"new", "full"} =>
       /\ known = {} /\ graph = {} /\ imports = [f \in File |-> None]
       /\ cached = analyzed /\ todo \cap analyzed = {} /\ todo \subseteq Tracked
       /\ \A f \in File \ analyzed : symbols[f] = None
  /\ stage = "new" => analyzed = {}
  /\ stage \in {"new", "idle"} => todo = {}

(* Cached symbols are those of the file, but for files that are to be      *)
(* analysed still, and what is in the cache is not one of these, save what *)
(* was parsed while it was not tracked.                                    *)
SymbolsOK ==
  /\ cached \ Tracked \subseteq revived
  /\ todo \cap cached \cap Tracked \subseteq revived
  /\ \A g \in Tracked \ (unseen \cup revived \cup todo) :
       Parses(g) => symbols[g] = disk[g].version

(* Whether g was analysed after the last change of f                       *)
Sees(g, f, seen, files) == seen[g] # None /\ seen[g][f] = files[f]

AnalyzedOK == \A g \in analyzed, f \in File \ unseen : Sees(g, f, against, disk)

AllSeen(E, from, to, seen, files) ==
  \A g \in to, f \in from : g \in Reachable(E, f) => Sees(g, f, seen, files)

(* Between passes, each file was analysed after all it is known to import. *)
(* Where the graph lacks an edge that is known, a change is yet to be seen.*)
IdleOK ==
  /\ AllSeen(known, Tracked \ unseen, Tracked \ unseen, against, disk)
  /\ \A e \in known : e \in graph \/ e[2] \in unseen \/ e[2] \notin Tracked

(* During a pass the files in D are those that it takes in hand, has had   *)
(* in hand, or no longer needs to; they contain all that is known to       *)
(* import them.                                                            *)
PassOK(D) ==
  /\ todo \cup analyzed \cup (File \ Tracked) \subseteq D
  /\ D \subseteq todo \cup analyzed \cup (File \ Tracked) \cup unseen
  /\ Closed(known, D)
  /\ \A e \in known : e \in graph \/ e[2] \in D
  /\ AllSeen(known, Tracked \ unseen, Tracked \ D, against, disk)

IncrementalInv ==
  /\ IncrementalTypeOK /\ ScanOK /\ FirstOK /\ SymbolsOK /\ AnalyzedOK
  /\ \A e \in known : e[1] \in Tracked
  /\ stage = "idle" => IdleOK
  /\ stage \in {"full", "incremental"} => \E D \in SUBSET File : PassOK(D)

-----------------------------------------------------------------------------
(* What can be reached                                                     *)

LEMMA ReachSteps ==
  ASSUME NEW edges_ \in Edges, NEW f
  PROVE  \A e \in edges_ : e[1] = f \/ e[1] \in Reachable(edges_, f) => e[2] \in Reachable(edges_, f)
<1> SUFFICES ASSUME NEW e \in edges_, e[1] = f \/ e[1] \in Reachable(edges_, f)
             PROVE  e[2] \in Reachable(edges_, f)
  OBVIOUS
<1>1. e[2] \in File
  BY DEF Edges
<1>2. ASSUME NEW files \in SUBSET File, Closed(edges_, files),
             \A d \in edges_ : d[1] = f => d[2] \in files
      PROVE  e[2] \in files
  BY <1>2 DEF Reachable, Closed
<1> QED BY <1>1, <1>2 DEF Reachable

(* More edges reach no more, besides what is in a closed set that they all *)
(* lead into.                                                              *)
LEMMA ReachWithin ==
  ASSUME NEW edges_ \in Edges, NEW more, NEW D \in SUBSET File, NEW f, Closed(edges_, D),
         \A e \in more : e \in edges_ \/ e[2] \in D
  PROVE  /\ Reachable(more, f) \subseteq D \cup Reachable(edges_, f)
         /\ f \in D => Reachable(more, f) \subseteq D
<1>1. Reachable(edges_, f) \subseteq File
  BY DEF Reachable
<1>2. ASSUME NEW files \in SUBSET File, Closed(more, files),
             \A e \in more : e[1] = f => e[2] \in files
      PROVE  Reachable(more, f) \subseteq files
  BY <1>2 DEF Reachable
<1> DEFINE S == D \cup Reachable(edges_, f)
<1>3. S \in SUBSET File /\ Closed(more, S) /\ \A e \in more : e[1] = f => e[2] \in S
  BY <1>1, ReachSteps DEF Closed
<1>4. Reachable(more, f) \subseteq S
  BY <1>2, <1>3
<1>5. ASSUME f \in D PROVE Reachable(more, f) \subseteq D
  <2>1. Closed(more, D) /\ \A e \in more : e[1] = f => e[2] \in D
    BY <1>5 DEF Closed
  <2> QED BY <1>2, <2>1
<1> QED BY <1>4, <1>5

-----------------------------------------------------------------------------
(* Types                                                                   *)

LEMMA DiskTyped ==
  ASSUME disk \in Disks, NEW f \in File
  PROVE  /\ Exists(f) => /\ disk[f] \in FileContent /\ disk[f].version \in FileVersion
                         /\ disk[f].imports \in SUBSET File /\ disk[f].ok \in BOOLEAN
         /\ ~ Exists(f) => disk[f] = None
<1>1. Exists(f) => disk[f] \in FileContent
  BY DEF Disks, Exists
<1> QED BY <1>1 DEF FileContent, Exists, Absent

LEMMA ReadTyped ==
  ASSUME disk \in Disks, NEW f \in File
  PROVE  /\ ReadImports(f) \in [names : SUBSET File, found : SUBSET File] \cup {None}
         /\ ReadImports(f) # None => ReadImports(f) = [names |-> disk[f].imports,
                                        found |-> {g \in disk[f].imports : Exists(g)}]
<1>1. CASE Parses(f)
  <2> DEFINE n == disk[f].imports
             m == {g \in n : Exists(g)}
  <2>1. n \in SUBSET File /\ m \in SUBSET File
    BY <1>1, DiskTyped DEF Parses
  <2>2. ReadImports(f) = [names |-> n, found |-> m]
    BY <1>1 DEF ReadImports
  <2> HIDE DEF n, m
  <2>3. ReadImports(f) \in [names : SUBSET File, found : SUBSET File]
    BY <2>1, <2>2
  <2> QED BY <2>2, <2>3 DEF n, m
<1>2. CASE ~ Parses(f)
  BY <1>2 DEF ReadImports
<1> QED BY <1>1, <1>2

LEMMA LoadedTyped ==
  ASSUME IncrementalTypeOK, NEW f \in File
  PROVE  Loaded(f) \in FileVersion \cup {None} /\ Reanalyzed(f) \in FileVersion \cup {None}
BY DiskTyped DEF IncrementalTypeOK, Loaded, Reanalyzed, Parses

LEMMA FoundTyped ==
  ASSUME IncrementalTypeOK, NEW files \in SUBSET File
  PROVE  Found(files) \in Edges /\ \A e \in Found(files) : e[1] \in Tracked /\ e[2] \in files
BY DEF Found, EdgesInto, Edges, Tracked

LEMMA IncrementalTypes ==
  IncrementalTypeOK /\ [IncrementalNext]_incrementalVars => IncrementalTypeOK'
<1> SUFFICES ASSUME IncrementalTypeOK, [IncrementalNext]_incrementalVars
             PROVE  IncrementalTypeOK'
  OBVIOUS
<1> USE IncrementalAssumption
<1>1. CASE UNCHANGED incrementalVars
  BY <1>1 DEF incrementalVars, analyzerVars, IncrementalTypeOK
<1>2. ASSUME NEW f \in File, Change(f) PROVE IncrementalTypeOK'
  <2>1. PICK c \in Content(f, edits + 1) \cup {Absent} : disk' = [disk EXCEPT ![f] = c]
    BY <1>2 DEF Change
  <2>2. edits + 1 \in FileVersion
    BY <1>2 DEF Change, FileVersion, IncrementalTypeOK
  <2>3. Imports[f] \in SUBSET SUBSET File
    OBVIOUS
  <2>4. c \in FileContent \cup {Absent}
    BY <2>1, <2>2, <2>3 DEF Content, FileContent
  <2>5. disk' \in Disks
    BY <2>1, <2>4 DEF Disks, IncrementalTypeOK
  <2> QED BY <1>2, <2>2, <2>5 DEF Change, IncrementalTypeOK, analyzerVars
<1>3. ASSUME NEW f \in File, AnalyzeFirst(f) PROVE IncrementalTypeOK'
  BY <1>3, LoadedTyped DEF AnalyzeFirst, IncrementalTypeOK
<1>4. ASSUME NEW f \in File, AnalyzeAgain(f) PROVE IncrementalTypeOK'
  <2>1. CASE Exists(f)
    BY <1>4, <2>1, LoadedTyped DEF AnalyzeAgain, IncrementalTypeOK
  <2>2. CASE ~ Exists(f)
    BY <1>4, <2>2 DEF AnalyzeAgain, IncrementalTypeOK
  <2> QED BY <2>1, <2>2
<1>5. ASSUME NEW f \in File, GetSymbols(f) PROVE IncrementalTypeOK'
  BY <1>5, LoadedTyped DEF GetSymbols, IncrementalTypeOK
<1>6. CASE ScanProject
  <2>1. tracked' \in [File -> FileVersion \cup {None}]
    BY <1>6, DiskTyped DEF ScanProject, IncrementalTypeOK
  <2> QED BY <1>6, <2>1 DEF ScanProject, IncrementalTypeOK
<1>7. CASE BuildGraph
  <2>1. imports' \in [File -> [names : SUBSET File, found : SUBSET File] \cup {None}]
    BY <1>7, ReadTyped DEF BuildGraph, IncrementalTypeOK
  <2>2. UNION {EdgesInto(f, imports'[f]) : f \in analyzed} \in Edges
    BY DEF EdgesInto, Edges, Tracked, IncrementalTypeOK
  <2>3. Found(analyzed) \in Edges
    BY FoundTyped DEF IncrementalTypeOK
  <2>4. graph' \in Edges /\ known' \in Edges
    BY <1>7, <2>2, <2>3 DEF BuildGraph, Learns, Edges, IncrementalTypeOK
  <2> QED BY <1>7, <2>1, <2>4 DEF BuildGraph, IncrementalTypeOK
<1>8. CASE DetectChanges
  <2>1. tracked' \in [File -> FileVersion \cup {None}]
    BY <1>8, DiskTyped DEF DetectChanges, IncrementalTypeOK
  <2>2. graph' \in Edges /\ known' \in Edges
    BY <1>8 DEF DetectChanges, Edges, IncrementalTypeOK
  <2>3. Modified \cup New \cup Dependents \in SUBSET File
    BY DEF Modified, New, Dependents, Reachable, Tracked
  <2> QED BY <1>8, <2>1, <2>2, <2>3 DEF DetectChanges, IncrementalTypeOK
<1>9. CASE UpdateGraph
  <2>1. imports' \in [File -> [names : SUBSET File, found : SUBSET File] \cup {None}]
    BY <1>9, ReadTyped DEF UpdateGraph, IncrementalTypeOK
  <2>3. Found(analyzed) \in Edges
    BY FoundTyped DEF IncrementalTypeOK
  <2>4. graph' \in Edges /\ known' \in Edges
    BY <1>9, <2>3 DEF UpdateGraph, Learns, Edges, IncrementalTypeOK
  <2> QED BY <1>9, <2>1, <2>4 DEF UpdateGraph, IncrementalTypeOK
<1> QED BY <1>1, <1>2, <1>3, <1>4, <1>5, <1>6, <1>7, <1>8, <1>9 DEF IncrementalNext

-----------------------------------------------------------------------------
(* Changes                                                                 *)

LEMMA IncrementalInitOK == IncrementalInit => IncrementalInv
<1> SUFFICES ASSUME IncrementalInit PROVE IncrementalInv
  OBVIOUS
<1> USE IncrementalAssumption
<1>1. \A f \in File : disk[f] \in FileContent \cup {Absent} /\ (Exists(f) => disk[f].version = 0)
  <2> SUFFICES ASSUME NEW f \in File PROVE disk[f] \in FileContent \cup {Absent} /\ (Exists(f) => disk[f].version = 0)
    OBVIOUS
  <2>1. Imports[f] \in SUBSET SUBSET File /\ 0 \in FileVersion
    BY DEF FileVersion
  <2>2. disk[f] \in Content(f, 0) \cup {Absent}
    BY DEF IncrementalInit
  <2> QED BY <2>1, <2>2 DEF Content, FileContent, Exists
<1>2. disk \in Disks
  <2>1. DOMAIN disk = File /\ disk = [f \in File |-> disk[f]]
    BY DEF IncrementalInit
  <2> QED BY <1>1, <2>1 DEF Disks
<1>3. edits = 0 /\ 0 \in FileVersion
  BY DEF IncrementalInit, FileVersion
<1>4. IncrementalTypeOK
  BY <1>2, <1>3 DEF IncrementalInit, IncrementalTypeOK, Edges
<1>5. Tracked = {}
  BY DEF IncrementalInit, Tracked
<1>6. ScanOK
  BY <1>1, <1>3, <1>5 DEF IncrementalInit, ScanOK
<1>7. FirstOK /\ SymbolsOK /\ AnalyzedOK
  BY <1>5 DEF IncrementalInit, FirstOK, SymbolsOK, AnalyzedOK
<1>8. stage = "new" /\ known = {}
  BY DEF IncrementalInit
<1> QED BY <1>4, <1>6, <1>7, <1>8 DEF IncrementalInv

(* What a change of a file leaves alone                                    *)
LEMMA AllSeenStays ==
  ASSUME NEW edges_, NEW from, NEW to, NEW seen, NEW files, NEW from_, NEW to_, NEW files_,
         from_ \subseteq from, to_ \subseteq to, \A f \in from_ : files_[f] = files[f],
         AllSeen(edges_, from, to, seen, files)
  PROVE  AllSeen(edges_, from_, to_, seen, files_)
BY DEF AllSeen, Sees

LEMMA ChangeOK ==
  ASSUME IncrementalInv, NEW f \in File, Change(f), IncrementalTypeOK'
  PROVE  IncrementalInv'
<1> USE IncrementalAssumption
<1>1. PICK c \in Content(f, edits + 1) \cup {Absent} : disk' = [disk EXCEPT ![f] = c]
  BY DEF Change
<1>2. /\ edits' = edits + 1 /\ unseen' = unseen \cup {f} /\ stage # "new"
      /\ tracked' = tracked /\ graph' = graph /\ symbols' = symbols /\ imports' = imports
      /\ cached' = cached /\ stage' = stage /\ todo' = todo /\ analyzed' = analyzed
      /\ against' = against /\ revived' = revived /\ known' = known
  BY DEF Change, analyzerVars
<1>3. Tracked' = Tracked
  BY <1>2 DEF Tracked
<1>4. \A g \in File \ unseen' : g \in File \ unseen /\ disk'[g] = disk[g]
  BY <1>1, <1>2 DEF IncrementalInv, IncrementalTypeOK, Disks
<1>5. \A g \in File : g # f => disk'[g] = disk[g]
  BY <1>1 DEF IncrementalInv, IncrementalTypeOK, Disks
<1>6. disk'[f] # Absent => disk'[f].version = edits + 1
  BY <1>1 DEF IncrementalInv, IncrementalTypeOK, Disks, Content
<1>7. edits \in Nat /\ \A g \in Tracked : tracked[g] \in Nat
  BY DEF IncrementalInv, IncrementalTypeOK, FileVersion, Tracked
<1>8. \A g \in File : Exists(g) => disk[g].version \in Nat
  BY DiskTyped DEF IncrementalInv, IncrementalTypeOK, FileVersion
<1>9. ScanOK'
  <2>1. \A g \in File : Exists(g)' => disk'[g].version <= edits'
    BY <1>2, <1>5, <1>6, <1>7, <1>8 DEF IncrementalInv, ScanOK, Exists
  <2>2. \A g \in Tracked' : tracked'[g] <= edits'
    BY <1>2, <1>3, <1>7 DEF IncrementalInv, ScanOK
  <2>3. \A g \in unseen' \cap Tracked' : Exists(g)' => tracked'[g] < disk'[g].version
    BY <1>2, <1>3, <1>5, <1>6, <1>7, <1>8 DEF IncrementalInv, ScanOK, Exists, Tracked
  <2>4. \A g \in File \ unseen' : tracked'[g] = (IF Exists(g)' THEN disk'[g].version ELSE None)
    BY <1>2, <1>4 DEF IncrementalInv, ScanOK, Exists
  <2> QED BY <1>2, <2>1, <2>2, <2>3, <2>4 DEF ScanOK
<1>10. FirstOK'
  BY <1>2, <1>3 DEF IncrementalInv, FirstOK
<1>11. SymbolsOK'
  <2>1. \A g \in (Tracked \ (unseen \cup revived \cup todo))' : g \in Tracked \ (unseen \cup revived \cup todo) /\ disk'[g] = disk[g]
    BY <1>2, <1>3, <1>4 DEF Tracked
  <2> QED BY <1>2, <1>3, <2>1 DEF IncrementalInv, SymbolsOK, Parses, Exists
<1>12. AnalyzedOK'
  BY <1>2, <1>4 DEF IncrementalInv, AnalyzedOK, Sees
<1> DEFINE Still == Tracked \ unseen
<1>13. /\ Tracked' \ unseen' \subseteq Tracked \ unseen
       /\ \A g \in Tracked' \ unseen' : disk'[g] = disk[g]
  BY <1>2, <1>3, <1>4 DEF Tracked
<1>14. stage' = "idle" => IdleOK'
  BY <1>2, <1>3, <1>13, AllSeenStays DEF IncrementalInv, IdleOK
<1>15. ASSUME NEW D \in SUBSET File, PassOK(D) PROVE PassOK(D)'
  BY <1>2, <1>3, <1>13, <1>15, AllSeenStays DEF PassOK
<1>16. stage' \in {"full", "incremental"} => \E D \in SUBSET File : PassOK(D)'
  BY <1>2, <1>15 DEF IncrementalInv
<1> QED BY <1>2, <1>3, <1>9, <1>10, <1>11, <1>12, <1>14, <1>16 DEF IncrementalInv

-----------------------------------------------------------------------------
(* Passes                                                                  *)

LEMMA ScanProjectOK ==
  ASSUME ~ Again, IncrementalInv, ScanProject, IncrementalTypeOK'
  PROVE  IncrementalInv'
<1> USE IncrementalAssumption
<1>1. /\ stage = "new" /\ stage' = "full" /\ todo' = Tracked'
      /\ analyzed' = {} /\ unseen' = {}
      /\ tracked' = [f \in File |-> IF Exists(f) THEN disk[f].version ELSE tracked[f]]
      /\ disk' = disk /\ edits' = edits /\ graph' = graph /\ symbols' = symbols /\ imports' = imports
      /\ cached' = cached /\ against' = against /\ revived' = revived /\ known' = known
  BY DEF ScanProject, Tracked
<1>2. Tracked = {} /\ cached = {} /\ known = {}
  BY <1>1 DEF IncrementalInv, ScanOK, FirstOK
<1>3. \A f \in File : tracked[f] = None
  BY <1>2 DEF Tracked
<1>4. \A f \in File : tracked'[f] = IF Exists(f) THEN disk[f].version ELSE None
  BY <1>1, <1>3
<1>5. \A f \in File : Exists(f)' <=> Exists(f)
  BY <1>1 DEF Exists
<1>6. ScanOK'
  BY <1>1, <1>4, <1>5 DEF IncrementalInv, ScanOK, Tracked
<1>7. FirstOK' /\ SymbolsOK' /\ AnalyzedOK'
  BY <1>1, <1>2 DEF IncrementalInv, FirstOK, SymbolsOK, AnalyzedOK
<1>8. PassOK(File)'
  <2>1. Tracked' \subseteq File /\ Tracked' \ File = {} /\ todo' \cup analyzed' \cup (File \ Tracked') = File
    BY <1>1 DEF Tracked
  <2>2. unseen' = {} /\ known' = {}
    BY <1>1, <1>2
  <2>3. AllSeen(known', Tracked' \ unseen', Tracked' \ File, against', disk')
    BY <2>1 DEF AllSeen
  <2>4. Closed(known', File) /\ \A e \in known' : e \in graph' \/ e[2] \in File
    BY <2>2 DEF Closed
  <2> QED BY <2>1, <2>2, <2>3, <2>4 DEF PassOK
<1> QED BY <1>1, <1>2, <1>6, <1>7, <1>8 DEF IncrementalInv

(* A file that the pass takes in hand                                      *)
LEMMA TakenInHand ==
  ASSUME IncrementalInv, NEW f \in todo, disk' = disk, tracked' = tracked, unseen' = unseen,
         graph' = graph, known' = known, todo' = todo \ {f},
         \/ analyzed' = analyzed \cup {f} /\ against' = [against EXCEPT ![f] = disk]
         \/ ~ Exists(f) /\ analyzed' = analyzed /\ against' = against
  PROVE  /\ AnalyzedOK'
         /\ \A D \in SUBSET File : PassOK(D) => PassOK(D)'
<1> USE IncrementalAssumption
<1>1. f \in File /\ Tracked' = Tracked
  BY DEF IncrementalInv, IncrementalTypeOK, Tracked
<1>2. \A g \in File : g # f => against'[g] = against[g]
  BY DEF IncrementalInv, IncrementalTypeOK
<1>3. disk # None /\ analyzed \in SUBSET File /\ f \in DOMAIN against
  BY <1>1 DEF IncrementalInv, IncrementalTypeOK
<1>4. \/ analyzed' = analyzed \cup {f} /\ against'[f] = disk
      \/ ~ Exists(f) /\ analyzed' = analyzed /\ against' = against
  BY <1>3
<1>5. AnalyzedOK'
  <2>1. \A g \in analyzed, h \in File \ unseen : Sees(g, h, against, disk)
    BY DEF IncrementalInv, AnalyzedOK
  <2>2. ASSUME NEW g \in analyzed', NEW h \in File \ unseen' PROVE Sees(g, h, against', disk')
    BY <1>1, <1>2, <1>3, <1>4, <2>1, <2>2 DEF Sees
  <2> QED BY <2>2 DEF AnalyzedOK
<1>6. ASSUME NEW D \in SUBSET File, PassOK(D) PROVE PassOK(D)'
  <2>1. f \in D
    BY <1>6 DEF PassOK
  <2>2. ~ Exists(f) => f \in unseen \/ f \in File \ Tracked
    <3>1. stage # "new"
      BY DEF IncrementalInv, FirstOK
    <3> QED BY <1>1, <3>1 DEF IncrementalInv, ScanOK, Tracked
  <2>3. /\ (todo \cup analyzed \cup (File \ Tracked))' \subseteq D
        /\ D \subseteq (todo \cup analyzed \cup (File \ Tracked) \cup unseen)'
    BY <1>1, <1>4, <1>6, <2>1, <2>2 DEF PassOK
  <2>4. AllSeen(known, Tracked \ unseen, Tracked \ D, against', disk)
    BY <1>2, <1>6, <2>1 DEF PassOK, AllSeen, Sees, Tracked
  <2> QED BY <1>1, <1>6, <2>3, <2>4 DEF PassOK
<1> QED BY <1>5, <1>6

LEMMA AnalyzeFirstOK ==
  ASSUME IncrementalInv, NEW f \in File, AnalyzeFirst(f), IncrementalTypeOK'
  PROVE  IncrementalInv'
<1> USE IncrementalAssumption
<1>1. /\ stage = "full" /\ f \in todo /\ todo' = todo \ {f} /\ analyzed' = analyzed \cup {f}
      /\ symbols' = [symbols EXCEPT ![f] = Loaded(f)] /\ against' = [against EXCEPT ![f] = disk]
      /\ cached' = cached \cup {f}
      /\ disk' = disk /\ edits' = edits /\ tracked' = tracked /\ graph' = graph /\ imports' = imports
      /\ stage' = stage /\ unseen' = unseen /\ revived' = revived /\ known' = known
  BY DEF AnalyzeFirst
<1>2. Tracked' = Tracked
  BY <1>1 DEF Tracked
<1>3. f \in Tracked /\ f \notin analyzed /\ symbols[f] = None /\ cached = analyzed
  BY <1>1 DEF IncrementalInv, FirstOK
<1>4. symbols'[f] = Loaded(f) /\ \A g \in File : g # f => symbols'[g] = symbols[g]
  BY <1>1 DEF IncrementalInv, IncrementalTypeOK
<1>5. Parses(f) => Loaded(f) = disk[f].version
  BY <1>3 DEF Loaded
<1>6. ScanOK'
  BY <1>1, <1>2 DEF IncrementalInv, ScanOK, Exists
<1>7. FirstOK'
  BY <1>1, <1>2, <1>3, <1>4 DEF IncrementalInv, FirstOK
<1>8. SymbolsOK'
  <2>1. \A g \in File : Parses(g)' <=> Parses(g)
    BY <1>1 DEF Parses, Exists
  <2>2. ASSUME NEW g \in (Tracked \ (unseen \cup revived \cup todo))', Parses(g)'
        PROVE  symbols'[g] = disk'[g].version
    <3>1. g \in File
      BY <1>2 DEF Tracked
    <3>2. CASE g = f
      BY <1>1, <1>4, <1>5, <2>1, <2>2, <3>1, <3>2
    <3>3. CASE g # f
      BY <1>1, <1>2, <1>4, <2>1, <2>2, <3>1, <3>3 DEF IncrementalInv, SymbolsOK
    <3> QED BY <3>2, <3>3
  <2>3. (cached \ Tracked)' \subseteq revived' /\ (todo \cap cached \cap Tracked)' \subseteq revived'
    BY <1>1, <1>2, <1>3 DEF IncrementalInv, SymbolsOK, FirstOK
  <2> QED BY <2>2, <2>3 DEF SymbolsOK
<1>9. AnalyzedOK' /\ \A D \in SUBSET File : PassOK(D) => PassOK(D)'
  BY <1>1, TakenInHand
<1>10. \E D \in SUBSET File : PassOK(D)'
  BY <1>1, <1>9 DEF IncrementalInv
<1> QED BY <1>1, <1>2, <1>6, <1>7, <1>8, <1>9, <1>10 DEF IncrementalInv

LEMMA AnalyzeAgainOK ==
  ASSUME IncrementalInv, NEW f \in File, AnalyzeAgain(f), IncrementalTypeOK'
  PROVE  IncrementalInv'
<1> USE IncrementalAssumption
<1>1. /\ stage = "incremental" /\ f \in todo /\ todo' = todo \ {f}
      /\ disk' = disk /\ edits' = edits /\ tracked' = tracked /\ graph' = graph /\ imports' = imports
      /\ stage' = stage /\ unseen' = unseen /\ known' = known
  BY DEF AnalyzeAgain
<1>2. Tracked' = Tracked /\ \A g \in File : (Exists(g)' <=> Exists(g)) /\ (Parses(g)' <=> Parses(g))
  BY <1>1 DEF Tracked, Exists, Parses
<1>3. ScanOK' /\ FirstOK'
  <2>1. ScanOK'
    BY <1>1, <1>2 DEF IncrementalInv, ScanOK, Exists
  <2>2. FirstOK'
    BY <1>1, <1>2 DEF IncrementalInv, FirstOK
  <2> QED BY <2>1, <2>2
<1>4. AnalyzedOK' /\ \A D \in SUBSET File : PassOK(D) => PassOK(D)'
  BY <1>1, TakenInHand DEF AnalyzeAgain
<1>5. \E D \in SUBSET File : PassOK(D)'
  BY <1>1, <1>4 DEF IncrementalInv
<1>6. SymbolsOK'
  <2>1. CASE ~ Exists(f)
    <3>1. symbols' = symbols /\ cached' = cached /\ revived' = revived
      BY <1>1, <2>1 DEF AnalyzeAgain
    <3>2. \A g \in (Tracked \ (unseen \cup revived \cup todo))' :
            g = f \/ g \in Tracked \ (unseen \cup revived \cup todo)
      BY <1>1, <1>2, <3>1
    <3> QED BY <1>1, <1>2, <2>1, <3>1, <3>2 DEF IncrementalInv, SymbolsOK, Parses, Tracked
  <2>2. CASE Exists(f)
    <3>1. /\ symbols' = [symbols EXCEPT ![f] = IF f \in cached THEN Loaded(f) ELSE Reanalyzed(f)]
          /\ cached' = cached \cup {f}
          /\ revived' = (IF f \in cached THEN revived ELSE revived \ {f})
                          \cup (IF f \in Tracked THEN {} ELSE {f})
      BY <1>1, <2>2 DEF AnalyzeAgain
    <3>2. \A g \in File : g # f => symbols'[g] = symbols[g] /\ (g \in revived' <=> g \in revived)
      BY <3>1 DEF IncrementalInv, IncrementalTypeOK
    <3>3. symbols'[f] = IF f \in cached THEN Loaded(f) ELSE Reanalyzed(f)
      BY <3>1 DEF IncrementalInv, IncrementalTypeOK
    <3>4. (f \in Tracked /\ f \in cached => f \in revived) /\ (f \notin Tracked => f \in revived')
      BY <1>1, <3>1 DEF IncrementalInv, SymbolsOK
    <3>5. (cached \ Tracked)' \subseteq revived' /\ (todo \cap cached \cap Tracked)' \subseteq revived'
      BY <1>1, <1>2, <3>1, <3>2, <3>4 DEF IncrementalInv, SymbolsOK, IncrementalTypeOK
    <3>6. ASSUME NEW g \in (Tracked \ (unseen \cup revived \cup todo))', Parses(g)'
          PROVE  symbols'[g] = disk'[g].version
      <4>1. g \in File
        BY <1>2 DEF Tracked
      <4>2. CASE g = f
        <5>1. f \notin cached
          BY <1>2, <3>1, <3>4, <3>6, <4>2
        <5> QED BY <1>1, <1>2, <3>3, <3>6, <4>1, <4>2, <5>1 DEF Reanalyzed
      <4>3. CASE g # f
        BY <1>1, <1>2, <3>2, <3>6, <4>1, <4>3 DEF IncrementalInv, SymbolsOK
      <4> QED BY <4>2, <4>3
    <3> QED BY <3>5, <3>6 DEF SymbolsOK
  <2> QED BY <2>1, <2>2
<1> QED BY <1>1, <1>2, <1>3, <1>4, <1>5, <1>6 DEF IncrementalInv

LEMMA GetSymbolsOK ==
  ASSUME IncrementalInv, NEW f \in File, GetSymbols(f), IncrementalTypeOK'
  PROVE  IncrementalInv'
<1> USE IncrementalAssumption
<1>1. /\ stage = "idle" /\ symbols' = [symbols EXCEPT ![f] = Loaded(f)]
      /\ disk' = disk /\ edits' = edits /\ tracked' = tracked /\ graph' = graph /\ imports' = imports
      /\ cached' = cached /\ stage' = stage /\ todo' = todo /\ analyzed' = analyzed
      /\ unseen' = unseen /\ against' = against /\ revived' = revived /\ known' = known
  BY DEF GetSymbols
<1>2. Tracked' = Tracked /\ \A g \in File : (Exists(g)' <=> Exists(g)) /\ (Parses(g)' <=> Parses(g))
  BY <1>1 DEF Tracked, Exists, Parses
<1>3. ScanOK' /\ FirstOK' /\ AnalyzedOK'
  <2>1. ScanOK'
    BY <1>1, <1>2 DEF IncrementalInv, ScanOK, Exists
  <2>2. FirstOK' /\ AnalyzedOK'
    BY <1>1, <1>2 DEF IncrementalInv, FirstOK, AnalyzedOK
  <2> QED BY <2>1, <2>2
<1>4. IdleOK'
  BY <1>1, <1>2 DEF IncrementalInv, IdleOK
<1>5. \A g \in File : symbols'[g] = IF g = f THEN Loaded(f) ELSE symbols[g]
  BY <1>1 DEF IncrementalInv, IncrementalTypeOK
<1>6. \A g \in Tracked : g \in File
  BY DEF Tracked
<1>7. SymbolsOK'
  BY <1>1, <1>2, <1>5, <1>6 DEF IncrementalInv, SymbolsOK, Loaded
<1> QED BY <1>1, <1>2, <1>3, <1>4, <1>7 DEF IncrementalInv

(* The end of a pass: the graph and what is known are brought up to date   *)
(* for the files analysed.                                                 *)
LEMMA LearnsOK ==
  ASSUME IncrementalInv, NEW D \in SUBSET File, PassOK(D), todo = {}, Learns(analyzed),
         \A e \in Found(analyzed) : e \in graph',
         \A e \in graph : e[1] \notin analyzed => e \in graph',
         disk' = disk, tracked' = tracked, unseen' = unseen, against' = against
  PROVE  IdleOK' /\ \A e \in known' : e[1] \in Tracked'
<1>1. Tracked' = Tracked
  BY DEF Tracked
<1>2. known' = {e \in known : e[2] \notin analyzed} \cup Found(analyzed)
  BY DEF Learns
<1>3. \A e \in Found(analyzed) : e[1] \in Tracked /\ e[2] \in analyzed
  BY FoundTyped DEF IncrementalInv, IncrementalTypeOK
<1>4. analyzed \subseteq D /\ D \subseteq analyzed \cup (File \ Tracked) \cup unseen
  BY DEF PassOK
<1>5. \A e \in known' : e[1] \in Tracked'
  BY <1>1, <1>2, <1>3 DEF IncrementalInv
<1>6. ASSUME NEW e \in known' PROVE e \in graph' \/ e[2] \in unseen \/ e[2] \notin Tracked
  <2>1. CASE e \in Found(analyzed)
    BY <2>1
  <2>2. CASE e \in known /\ e[2] \notin analyzed
    <3>1. e \in graph \/ e[2] \in D
      BY <2>2 DEF PassOK
    <3>2. e[1] \in analyzed => e[2] \in D
      BY <1>4, <2>2 DEF PassOK, Closed
    <3>3. e[2] \in D => e[2] \in unseen \/ e[2] \notin Tracked
      BY <1>4, <2>2
    <3> QED BY <3>1, <3>2, <3>3
  <2> QED BY <1>2, <2>1, <2>2
<1>7. ASSUME NEW g \in Tracked \ unseen, NEW f \in Tracked \ unseen, g \in Reachable(known', f)
      PROVE  Sees(g, f, against, disk)
  <2>1. g \in File /\ f \in File
    BY DEF Tracked
  <2>2. CASE g \in D
    <3>1. g \in analyzed
      BY <1>4, <2>2
    <3> QED BY <2>1, <3>1 DEF IncrementalInv, AnalyzedOK
  <2>3. CASE g \notin D
    <3>1. known \in Edges /\ Closed(known, D) /\ \A e \in known' : e \in known \/ e[2] \in D
      BY <1>2, <1>3, <1>4 DEF IncrementalInv, IncrementalTypeOK, PassOK
    <3>2. g \in Reachable(known, f)
      BY <1>7, <2>3, <3>1, ReachWithin
    <3> QED BY <2>3, <3>2 DEF PassOK, AllSeen
  <2> QED BY <2>2, <2>3
<1>8. AllSeen(known', Tracked \ unseen, Tracked \ unseen, against, disk)
  BY <1>7 DEF AllSeen
<1> QED BY <1>1, <1>5, <1>6, <1>8 DEF IdleOK

LEMMA PassEnds ==
  ASSUME IncrementalInv, stage' = "idle", stage \in {"full", "incremental"}, todo = {},
         IncrementalTypeOK', Learns(analyzed),
         \A e \in Found(analyzed) : e \in graph',
         \A e \in graph : e[1] \notin analyzed => e \in graph',
         disk' = disk, edits' = edits, tracked' = tracked, symbols' = symbols, cached' = cached,
         todo' = todo, analyzed' = analyzed, unseen' = unseen, against' = against, revived' = revived
  PROVE  IncrementalInv'
<1>1. Tracked' = Tracked /\ \A g \in File : (Exists(g)' <=> Exists(g)) /\ (Parses(g)' <=> Parses(g))
  BY DEF Tracked, Exists, Parses
<1>2. ScanOK' /\ FirstOK' /\ AnalyzedOK'
  <2>1. ScanOK'
    BY <1>1 DEF IncrementalInv, ScanOK, Exists
  <2>2. FirstOK' /\ AnalyzedOK'
    BY <1>1 DEF IncrementalInv, FirstOK, AnalyzedOK
  <2> QED BY <2>1, <2>2
<1>3. SymbolsOK'
  BY <1>1 DEF IncrementalInv, SymbolsOK, Tracked
<1>4. PICK D \in SUBSET File : PassOK(D)
  BY DEF IncrementalInv
<1>5. IdleOK' /\ \A e \in known' : e[1] \in Tracked'
  BY <1>4, LearnsOK
<1> QED BY <1>2, <1>3, <1>5 DEF IncrementalInv

LEMMA BuildGraphOK ==
  ASSUME IncrementalInv, BuildGraph, IncrementalTypeOK'
  PROVE  IncrementalInv'
<1>1. \A f \in File : imports[f] = None
  BY DEF IncrementalInv, FirstOK, BuildGraph
<1>2. \A f \in analyzed : imports'[f] = ReadImports(f)
  BY <1>1 DEF BuildGraph, IncrementalInv, IncrementalTypeOK
<1>3. \A e \in Found(analyzed) : e \in graph'
  BY <1>2 DEF Found, BuildGraph
<1> QED BY <1>3, PassEnds DEF BuildGraph

LEMMA UpdateGraphOK ==
  ASSUME IncrementalInv, UpdateGraph, IncrementalTypeOK'
  PROVE  IncrementalInv'
<1>1. \A e \in Found(analyzed) : e \in graph'
  BY DEF UpdateGraph
<1> QED BY <1>1, PassEnds DEF UpdateGraph

LEMMA DetectChangesOK ==
  ASSUME IncrementalInv, DetectChanges, IncrementalTypeOK'
  PROVE  IncrementalInv'
<1> USE IncrementalAssumption
<1> DEFINE D == todo' \cup (File \ Tracked')
<1>1. /\ stage = "idle" /\ stage' = "incremental" /\ unseen' = {} /\ analyzed' = {}
      /\ tracked' = [f \in File |-> IF Exists(f) THEN disk[f].version ELSE None]
      /\ todo' = Modified \cup New \cup Dependents
      /\ cached' = cached \ (Modified \cup Dependents \cup Deleted)
      /\ graph' = {e \in graph : e[1] \notin Deleted /\ e[2] \notin Deleted}
      /\ known' = {e \in known : e[1] \notin Deleted /\ e[2] \notin Deleted}
      /\ disk' = disk /\ edits' = edits /\ symbols' = symbols /\ imports' = imports
      /\ against' = against /\ revived' = revived
  BY DEF DetectChanges
<1>2. \A f \in File : tracked'[f] = IF Exists(f) THEN disk[f].version ELSE None
  BY <1>1
<1>3. \A f \in File : Exists(f) => disk[f].version \in FileVersion /\ disk[f].version \in Nat
  BY DiskTyped DEF IncrementalInv, IncrementalTypeOK, FileVersion
<1>4. \A f \in File : f \in Tracked' <=> Exists(f)
  BY <1>2, <1>3 DEF Tracked
<1>5. \A f \in Tracked : f \in File /\ tracked[f] \in Nat
  BY DEF IncrementalInv, IncrementalTypeOK, Tracked, FileVersion
<1>6. \A f \in File : f \in unseen \/ f \notin Tracked => f \in D
  <2> SUFFICES ASSUME NEW f \in File, f \in unseen \/ f \notin Tracked, Exists(f) PROVE f \in todo'
    BY <1>4
  <2>1. CASE f \notin Tracked
    BY <1>1, <2>1 DEF New
  <2>2. CASE f \in unseen /\ f \in Tracked
    <3>1. tracked[f] < disk[f].version
      BY <2>2 DEF IncrementalInv, ScanOK
    <3>2. disk[f].version # tracked[f]
      BY <1>3, <1>5, <2>2, <3>1
    <3> QED BY <1>1, <2>2, <3>2 DEF Modified
  <2> QED BY <2>1, <2>2
<1>7. D \in SUBSET File /\ Tracked' \subseteq File
  <2>1. todo' \in SUBSET File
    BY DEF IncrementalTypeOK
  <2> QED BY <2>1 DEF Tracked
<1>8. graph \in Edges /\ known \in Edges /\ known' \in Edges
  BY DEF IncrementalInv, IncrementalTypeOK
<1>9. \A e \in known' : e \in known /\ e[1] \in Tracked /\ e[1] \in Tracked' /\ e[2] \in File
  BY <1>1, <1>4, <1>5, <1>8 DEF IncrementalInv, Deleted, Edges
<1>10. \A e \in known' : e \in graph' \/ e[2] \in D
  BY <1>1, <1>6, <1>9 DEF IncrementalInv, IdleOK
<1>11. Closed(known', D)
  <2> SUFFICES ASSUME NEW e \in known', e[1] \in D, e \in graph PROVE e[2] \in D
    BY <1>1, <1>10 DEF Closed
  <2>1. e[1] \in Modified \cup Dependents
    BY <1>1, <1>9 DEF New
  <2>2. PICK f \in Modified : e[1] = f \/ e[1] \in Reachable(graph, f)
    BY <2>1 DEF Dependents
  <2>3. e[2] \in Reachable(graph, f)
    BY <1>8, <2>2, ReachSteps
  <2> QED BY <1>1, <2>3 DEF Dependents
<1>12. \A g \in Tracked' \ D : g \in Tracked \ unseen
  BY <1>6, <1>7
<1>13. ASSUME NEW g \in Tracked' \ D, NEW f \in Tracked', g \in Reachable(known', f)
       PROVE  Sees(g, f, against, disk)
  <2>1. f \notin D
    <3> SUFFICES ASSUME f \in D PROVE FALSE
      OBVIOUS
    <3>1. Reachable(known', f) \subseteq D
      BY <1>7, <1>8, <1>11, ReachWithin
    <3> QED BY <1>13, <3>1
  <2>2. g \in Reachable(known, f)
    <3>1. {} \in SUBSET File /\ Closed(known, {}) /\ \A e \in known' : e \in known \/ e[2] \in {}
      BY <1>9 DEF Closed
    <3>2. Reachable(known', f) \subseteq {} \cup Reachable(known, f)
      BY <1>8, <3>1, ReachWithin
    <3> QED BY <1>13, <3>2
  <2>3. g \in Tracked \ unseen /\ f \in Tracked \ unseen
    BY <1>12, <2>1
  <2> QED BY <1>1, <2>2, <2>3 DEF IncrementalInv, IdleOK, AllSeen
<1>14. PICK E \in SUBSET File : E = D
  BY <1>7
<1>15. PassOK(E)'
  <2>1. Closed(known', E) /\ \A e \in known' : e \in graph' \/ e[2] \in E
    BY <1>10, <1>11, <1>14
  <2>2. AllSeen(known', Tracked' \ unseen', Tracked' \ E, against', disk')
    BY <1>1, <1>13, <1>14 DEF AllSeen
  <2>3. todo' \cup analyzed' \cup (File \ Tracked') = E
    BY <1>1, <1>14
  <2> QED BY <2>1, <2>2, <2>3 DEF PassOK
<1>16. ScanOK'
  <2>1. \A f \in File : Exists(f)' <=> Exists(f)
    BY <1>1 DEF Exists
  <2> QED BY <1>1, <1>2, <1>4, <1>7, <2>1 DEF IncrementalInv, ScanOK
<1>17. FirstOK' /\ AnalyzedOK'
  BY <1>1 DEF FirstOK, AnalyzedOK
<1>18. SymbolsOK'
  <2>1. todo = {} /\ cached \in SUBSET File
    BY <1>1 DEF IncrementalInv, FirstOK, IncrementalTypeOK
  <2>2. (cached \ Tracked)' \subseteq revived'
    BY <1>1, <1>4, <2>1 DEF IncrementalInv, SymbolsOK, Deleted
  <2>3. (todo \cap cached \cap Tracked)' \subseteq revived'
    BY <1>1, <2>1 DEF IncrementalInv, SymbolsOK, New
  <2>4. \A g \in (Tracked \ (unseen \cup revived \cup todo))' :
          g \in Tracked \ (unseen \cup revived \cup todo)
    BY <1>1, <1>7, <1>12, <2>1
  <2> QED BY <1>1, <2>2, <2>3, <2>4 DEF IncrementalInv, SymbolsOK, Parses, Exists
<1> QED BY <1>1, <1>9, <1>15, <1>16, <1>17, <1>18 DEF IncrementalInv

-----------------------------------------------------------------------------
LEMMA IncrementalStepsOK ==
  ~ Again /\ IncrementalInv /\ [IncrementalNext]_incrementalVars => IncrementalInv'
<1> SUFFICES ASSUME ~ Again, IncrementalInv, [IncrementalNext]_incrementalVars
             PROVE  IncrementalInv'
  OBVIOUS
<1>1. IncrementalTypeOK'
  BY IncrementalTypes DEF IncrementalInv
<1>2. CASE UNCHANGED incrementalVars
  <2>1. Tracked' = Tracked
    BY <1>2 DEF Tracked, incrementalVars, analyzerVars
  <2>2. ScanOK' /\ FirstOK' /\ SymbolsOK' /\ AnalyzedOK'
    <3>1. ScanOK' /\ FirstOK'
      BY <1>2, <2>1 DEF incrementalVars, analyzerVars, IncrementalInv, ScanOK, FirstOK, Exists
    <3>2. SymbolsOK' /\ AnalyzedOK'
      BY <1>2, <2>1 DEF incrementalVars, analyzerVars, IncrementalInv, SymbolsOK, AnalyzedOK, Parses, Exists
    <3> QED BY <3>1, <3>2
  <2>3. IdleOK => IdleOK'
    BY <1>2, <2>1 DEF incrementalVars, analyzerVars, IdleOK
  <2>4. \A D \in SUBSET File : PassOK(D) => PassOK(D)'
    BY <1>2, <2>1 DEF incrementalVars, analyzerVars, PassOK
  <2>5. known' = known /\ stage' = stage
    BY <1>2 DEF incrementalVars, analyzerVars
  <2> QED BY <1>1, <2>1, <2>2, <2>3, <2>4, <2>5 DEF IncrementalInv
<1>3. CASE IncrementalNext
  BY <1>1, <1>3, ChangeOK, AnalyzeFirstOK, AnalyzeAgainOK, GetSymbolsOK, ScanProjectOK, BuildGraphOK,
     DetectChangesOK, UpdateGraphOK DEF IncrementalNext
<1> QED BY <1>2, <1>3

LEMMA IncrementalInvCurrent == IncrementalInv => AnalysisCurrent
<1> SUFFICES ASSUME IncrementalInv, Settled, NEW g \in Tracked
             PROVE  /\ Parses(g) /\ g \notin revived => symbols[g] = disk[g].version
                    /\ \A f \in {h \in Tracked : g \in Reachable(known, h)} :
                         against[g] # None /\ against[g][f] = disk[f]
  BY DEF AnalysisCurrent
<1>1. stage = "idle" /\ unseen = {} /\ todo = {} /\ IdleOK
  BY DEF IncrementalInv, Settled, FirstOK
<1> QED BY <1>1 DEF IncrementalInv, SymbolsOK, IdleOK, AllSeen, Sees

(* Whatever a project's files import, and whenever they are changed, made  *)
(* and deleted, also during a pass: once all changes were seen, no file    *)
(* has symbols of another content than its own, and each was analysed      *)
(* after all that it was found to import, directly or not, had its present *)
(* content.                                                                *)
THEOREM AnalysisIsCurrent ==
  ASSUME ~ Again
  PROVE  IncrementalSpec => []AnalysisCurrent
<1>1. IncrementalInit => IncrementalInv
  BY IncrementalInitOK
<1>2. IncrementalInv /\ [IncrementalNext]_incrementalVars => IncrementalInv'
  BY IncrementalStepsOK
<1>3. IncrementalInv => AnalysisCurrent
  BY IncrementalInvCurrent
<1> QED BY <1>1, <1>2, <1>3, PTL DEF IncrementalSpec

-----------------------------------------------------------------------------
(* SourceSymbols                                                           *)

Tree == UNION {Contents[f] : f \in SourceFile}
Ast == [file : SourceFile, tree : Tree, mtime : Nat]

LEMMA SizesAreNat == \A e \in Ast : SizeRemoved(e) \in Nat
<1> TAKE e \in Ast
<1>1. e.tree \in Tree
  BY DEF Ast
<1>2. IsFiniteSet(e.tree)
  BY <1>1, ParserAssumption DEF Tree
<1>3. Cardinality(e.tree) \in Nat
  BY <1>2, FS_CardinalityType
<1> QED BY <1>3 DEF SizeRemoved

(* The sizes of the first entries, one more after the other                *)
Sizes(s, p) ==
  /\ p \in [0..Len(s) -> Int] /\ p[0] = 0
  /\ \A i \in 1..Len(s) : p[i] = p[i - 1] + SizeRemoved(s[i])

LEMMA SizeOfAsSizes ==
  ASSUME NEW s \in Seq(Ast)
  PROVE  SizeOf(s) \in Nat /\ \E p : Sizes(s, p) /\ p[Len(s)] = SizeOf(s)
<1> DEFINE n == Len(s)
           Acc == Nat
           G == [i \in 1..n |-> [a \in Acc |-> a + SizeRemoved(s[i])]]
           R(h) == h = [u \in SUBSET (1..n) |->
                          IF u = {} THEN 0 ELSE h[u \ {Max(u)}] + SizeRemoved(s[Max(u)])]
           f == CHOOSE h : R(h)
<1>0. n \in Nat /\ DOMAIN s = 1..n
  BY LenProperties
<1>1. SizeOf(s) = f[1..n]
  <2> HIDE DEF n
  <2> QED BY <1>0 DEF SizeOf, FoldLeft, MapThenFoldSet
<1>2. G \in [1..n -> [Acc -> Acc]]
  <2>1. ASSUME NEW i \in 1..n, NEW a \in Acc PROVE a + SizeRemoved(s[i]) \in Acc
    <3>1. s[i] \in Ast
      BY ElementOfSeq
    <3>2. SizeRemoved(s[i]) \in Nat
      BY <3>1, SizesAreNat
    <3> QED BY <3>2
  <2> HIDE DEF Acc, n
  <2> QED BY <2>1
<1>3. 0 \in Acc
  OBVIOUS
<1> HIDE DEF n
<1>4. PICK g : Folds(n, Acc, G, 0, g)
  <2> HIDE DEF Acc, G
  <2> QED BY <1>0, <1>2, <1>3, FoldExists
<1>5. R(g)
  <2> DEFINE again == [u \in SUBSET (1..n) |->
                     IF u = {} THEN 0 ELSE g[u \ {Max(u)}] + SizeRemoved(s[Max(u)])]
  <2>1. ASSUME NEW u \in SUBSET (1..n), u # {}
        PROVE  G[Max(u)][g[u \ {Max(u)}]] = g[u \ {Max(u)}] + SizeRemoved(s[Max(u)])
    <3>1. Max(u) \in 1..n
      BY <1>0, <2>1, Greatest
    <3>2. g[u \ {Max(u)}] \in Acc
      BY <1>4 DEF Folds
    <3> HIDE DEF Acc
    <3> QED BY <3>1, <3>2
  <2>2. \A u \in SUBSET (1..n) : g[u] = again[u]
    <3> HIDE DEF Acc, G
    <3> QED BY <1>4, <2>1 DEF Folds
  <2>3. g = [u \in SUBSET (1..n) |-> g[u]]
    <3> HIDE DEF Acc, G
    <3> QED BY <1>4 DEF Folds
  <2>4. g = again
    BY <2>2, <2>3
  <2> QED BY <2>4
<1>6. R(f)
  BY <1>5
<1>7. PICK p : Run(n, Acc, G, 0, p, f[1..n])
  <2>1. f[{}] = 0
    BY <1>6
  <2>2. ASSUME NEW u \in SUBSET (1..n), u # {}, f[u \ {Max(u)}] \in Acc
        PROVE  f[u] = G[Max(u)][f[u \ {Max(u)}]]
    <3>1. f[u] = f[u \ {Max(u)}] + SizeRemoved(s[Max(u)])
      BY <1>6, <2>2
    <3>2. Max(u) \in 1..n
      BY <1>0, <2>2, Greatest
    <3> HIDE DEF f, Acc
    <3> QED BY <3>1, <3>2, <2>2
  <2> HIDE DEF f, G, Acc
  <2> QED BY <1>0, <1>2, <1>3, <2>1, <2>2, FoldResult
<1>8. /\ p \in [0..n -> Acc] /\ p[0] = 0 /\ p[n] = f[1..n]
      /\ \A i \in 1..n : p[i] = G[i][p[i - 1]]
  <2> HIDE DEF f, Acc, G
  <2> QED BY <1>7 DEF Run
<1>9. \A i \in 1..n : p[i] = p[i - 1] + SizeRemoved(s[i])
  <2> TAKE i \in 1..n
  <2>1. p[i - 1] \in Acc
    <3> HIDE DEF Acc, G
    <3>1. i - 1 \in 0..n
      BY <1>0
    <3> QED BY <3>1, <1>8
  <2> HIDE DEF Acc
  <2> QED BY <1>8, <2>1
<1>10. p \in [0..n -> Int]
  BY <1>8
<1>11. n \in 0..n
  BY <1>0
<1> HIDE DEF f, Acc, G
<1>12. f[1..n] \in Nat
  BY <1>8, <1>11 DEF Acc
<1> QED BY <1>1, <1>8, <1>9, <1>10, <1>12 DEF Sizes, n

LEMMA SizesAgree ==
  ASSUME NEW s \in Seq(Ast), NEW p, NEW q, Sizes(s, p), Sizes(s, q)
  PROVE  p[Len(s)] = q[Len(s)]
<1> DEFINE B == {i \in 0..Len(s) : p[i] = q[i]}
<1>0. Len(s) \in Nat
  BY LenProperties
<1>1. 0 \in B
  BY <1>0 DEF Sizes
<1>2. \A i \in 1..Len(s) : i - 1 \in B => i \in B
  BY <1>0 DEF Sizes
<1>3. \A i \in 0..Len(s) : i \in B
  <2> HIDE DEF B
  <2> QED BY <1>0, <1>1, <1>2, UpTo
<1> QED BY <1>0, <1>3

LEMMA SizeJoined ==
  ASSUME NEW s \in Seq(Ast), NEW t \in Seq(Ast)
  PROVE  SizeOf(s \o t) = SizeOf(s) + SizeOf(t)
<1> DEFINE m == Len(s)
           n == Len(t)
<1>0. /\ m \in Nat /\ n \in Nat /\ s \o t \in Seq(Ast) /\ Len(s \o t) = m + n
      /\ \A i \in 1..m : (s \o t)[i] = s[i]
      /\ \A i \in 1..n : (s \o t)[m + i] = t[i]
  <2>1. m \in Nat /\ n \in Nat
    BY LenProperties
  <2>2. /\ s \o t \in Seq(Ast) /\ Len(s \o t) = m + n
        /\ \A i \in 1 .. m + n : (s \o t)[i] = IF i <= m THEN s[i] ELSE t[i - m]
    BY ConcatProperties
  <2> HIDE DEF m, n
  <2>3. \A i \in 1..m : i \in 1 .. m + n /\ i <= m
    BY <2>1
  <2>4. \A i \in 1..n : m + i \in 1 .. m + n /\ ~ (m + i <= m) /\ (m + i) - m = i
    BY <2>1
  <2> QED BY <2>1, <2>2, <2>3, <2>4
<1> HIDE DEF m, n
<1>1. PICK p : Sizes(s \o t, p) /\ p[m + n] = SizeOf(s \o t)
  BY <1>0, SizeOfAsSizes
<1>2. /\ p \in [0..(m + n) -> Int] /\ p[0] = 0
      /\ \A i \in 1..(m + n) : p[i] = p[i - 1] + SizeRemoved((s \o t)[i])
  BY <1>0, <1>1 DEF Sizes
<1> DEFINE ps == [i \in 0..m |-> p[i]]
           pt == [i \in 0..n |-> p[m + i] - p[m]]
<1>3. Sizes(s, ps)
  <2>1. ps \in [0..m -> Int] /\ ps[0] = 0
    BY <1>0, <1>2
  <2>2. ASSUME NEW i \in 1..m PROVE ps[i] = ps[i - 1] + SizeRemoved(s[i])
    <3>1. i \in 1..(m + n) /\ i \in 0..m /\ i - 1 \in 0..m
      BY <1>0
    <3> QED BY <3>1, <1>0, <1>2
  <2> HIDE DEF ps
  <2> QED BY <2>1, <2>2 DEF Sizes, m
<1>4. Sizes(t, pt)
  <2>1. pt \in [0..n -> Int] /\ pt[0] = 0
    <3>1. \A i \in 0..n : m + i \in 0..(m + n)
      BY <1>0
    <3>2. m \in 0..(m + n) /\ m + 0 = m /\ 0 \in 0..n
      BY <1>0
    <3> QED BY <3>1, <3>2, <1>2
  <2>2. ASSUME NEW i \in 1..n PROVE pt[i] = pt[i - 1] + SizeRemoved(t[i])
    <3>1. m + i \in 1..(m + n) /\ i \in 0..n /\ i - 1 \in 0..n /\ (m + i) - 1 = m + (i - 1)
      BY <1>0
    <3>2. p[m + i] = p[m + (i - 1)] + SizeRemoved(t[i])
      BY <3>1, <1>0, <1>2
    <3>3. SizeRemoved(t[i]) \in Nat
      BY ElementOfSeq, SizesAreNat DEF n
    <3>4. p[m + (i - 1)] \in Int /\ p[m] \in Int
      <4>1. m + (i - 1) \in 0..(m + n) /\ m \in 0..(m + n)
        BY <1>0
      <4> HIDE DEF m, n
      <4> QED BY <4>1, <1>2
    <3> QED BY <3>1, <3>2, <3>3, <3>4
  <2> HIDE DEF pt
  <2> QED BY <2>1, <2>2 DEF Sizes, n
<1>5. ps[m] = SizeOf(s)
  <2>1. PICK q : Sizes(s, q) /\ q[m] = SizeOf(s)
    BY SizeOfAsSizes DEF m
  <2> HIDE DEF ps
  <2> QED BY <2>1, <1>3, SizesAgree DEF m
<1>6. pt[n] = SizeOf(t)
  <2>1. PICK q : Sizes(t, q) /\ q[n] = SizeOf(t)
    BY SizeOfAsSizes DEF n
  <2> HIDE DEF pt
  <2> QED BY <2>1, <1>4, SizesAgree DEF n
<1>7. ps[m] = p[m] /\ pt[n] = p[m + n] - p[m] /\ p[m] \in Int /\ p[m + n] \in Int
  BY <1>0, <1>2
<1> QED BY <1>1, <1>5, <1>6, <1>7

LEMMA SizeOfOne ==
  ASSUME NEW e \in Ast
  PROVE  SizeOf(<<e>>) = SizeRemoved(e)
<1>0. <<e>> \in Seq(Ast) /\ Len(<<e>>) = 1
  OBVIOUS
<1>1. PICK p : Sizes(<<e>>, p) /\ p[1] = SizeOf(<<e>>)
  BY <1>0, SizeOfAsSizes
<1>2. SizeRemoved(e) \in Nat
  BY SizesAreNat
<1> QED BY <1>0, <1>1, <1>2 DEF Sizes

LEMMA JoinedAt ==
  ASSUME NEW S, NEW a \in Seq(S), NEW b \in Seq(S), NEW m, NEW n, m = Len(a), n = Len(b)
  PROVE  /\ m \in Nat /\ n \in Nat /\ a \o b \in Seq(S) /\ Len(a \o b) = m + n
         /\ \A i \in 1 .. m + n : (a \o b)[i] = IF i <= m THEN a[i] ELSE b[i - m]
<1>1. m \in Nat /\ n \in Nat
  BY LenProperties
<1>2. /\ a \o b \in Seq(S) /\ Len(a \o b) = Len(a) + Len(b)
      /\ \A i \in 1 .. Len(a) + Len(b) : (a \o b)[i] = IF i <= Len(a) THEN a[i] ELSE b[i - Len(a)]
  BY ConcatProperties
<1> QED BY <1>1, <1>2

(* What is left of a cache without one entry                               *)
LEMMA WithoutOne ==
  ASSUME NEW E \in SUBSET Ast, NEW s \in Seq(E), NEW i \in 1..Len(s)
  PROVE  /\ RemoveAt(s, i) \in Seq(E) /\ Len(RemoveAt(s, i)) = Len(s) - 1
         /\ \A j \in 1 .. Len(s) - 1 : RemoveAt(s, i)[j] = s[IF j < i THEN j ELSE j + 1]
         /\ SizeOf(RemoveAt(s, i)) = SizeOf(s) - SizeRemoved(s[i])
<1> DEFINE n == Len(s)
           a == SubSeq(s, 1, i - 1)
           b == SubSeq(s, i + 1, n)
<1>0. n \in Nat /\ (\A j \in 1..n : s[j] \in E) /\ s[i] \in Ast /\ s \in Seq(Ast)
  BY LenProperties, ElementOfSeq, SeqMonotonic
<1>1. /\ a \in Seq(E) /\ Len(a) = i - 1
      /\ \A j \in 1 .. i - 1 : a[j] = s[j]
  <2>1. 1 \in Int /\ i - 1 \in Int /\ \A j \in 1 .. i - 1 : s[j] \in E
    BY <1>0
  <2>2. /\ a \in Seq(E) /\ Len(a) = IF 1 <= i - 1 THEN (i - 1) - 1 + 1 ELSE 0
        /\ \A j \in 1 .. (i - 1) - 1 + 1 : a[j] = s[1 + j - 1]
    BY <2>1, SubSeqProperties
  <2> HIDE DEF a
  <2> QED BY <2>2, <1>0
<1>2. /\ b \in Seq(E) /\ Len(b) = n - i
      /\ \A j \in 1 .. n - i : b[j] = s[i + j]
  <2>1. i + 1 \in Int /\ n \in Int /\ \A j \in i + 1 .. n : s[j] \in E
    BY <1>0
  <2>2. /\ b \in Seq(E) /\ Len(b) = IF i + 1 <= n THEN n - (i + 1) + 1 ELSE 0
        /\ \A j \in 1 .. n - (i + 1) + 1 : b[j] = s[(i + 1) + j - 1]
    BY <2>1, SubSeqProperties
  <2> HIDE DEF b
  <2> QED BY <2>2, <1>0
<1> HIDE DEF a, b
<1>3. /\ a \o b \in Seq(E) /\ Len(a \o b) = n - 1
      /\ \A j \in 1 .. n - 1 : (a \o b)[j] = IF j <= i - 1 THEN a[j] ELSE b[j - (i - 1)]
  <2>1. i - 1 = Len(a) /\ n - i = Len(b)
    BY <1>1, <1>2
  <2>2. PICK p, q : p = Len(a) /\ q = Len(b)
    OBVIOUS
  <2>3. /\ a \o b \in Seq(E) /\ Len(a \o b) = p + q
        /\ \A j \in 1 .. p + q : (a \o b)[j] = IF j <= p THEN a[j] ELSE b[j - p]
    <3>1. a \in Seq(E) /\ b \in Seq(E)
      BY <1>1, <1>2
    <3> QED BY <3>1, <2>2, JoinedAt
  <2>4. p = i - 1 /\ p + q = n - 1
    BY <1>0, <2>1, <2>2
  <2> QED BY <2>3, <2>4
<1>4. RemoveAt(s, i) = a \o b
  BY DEF RemoveAt, a, b, n
<1>5. ASSUME NEW j \in 1 .. n - 1 PROVE (a \o b)[j] = s[IF j < i THEN j ELSE j + 1]
  <2>1. CASE j < i
    <3>1. j \in 1 .. i - 1 /\ j <= i - 1
      BY <1>0, <2>1
    <3> QED BY <3>1, <2>1, <1>1, <1>3
  <2>2. CASE ~ (j < i)
    <3>1. ~ (j <= i - 1) /\ j - (i - 1) \in 1 .. n - i /\ i + (j - (i - 1)) = j + 1
      BY <1>0, <2>2
    <3> QED BY <3>1, <2>2, <1>2, <1>3
  <2> QED BY <2>1, <2>2
<1>6. SizeOf(s) = SizeOf(a) + SizeRemoved(s[i]) + SizeOf(b)
  <2> DEFINE o == <<s[i]>>
  <2>1. o \in Seq(Ast) /\ Len(o) = 1 /\ o[1] = s[i] /\ SizeOf(o) = SizeRemoved(s[i])
    BY <1>0, SizeOfOne
  <2> HIDE DEF o
  <2>2. a \in Seq(Ast) /\ b \in Seq(Ast)
    BY <1>1, <1>2, SeqMonotonic
  <2>3. /\ a \o o \in Seq(Ast) /\ Len(a \o o) = i
        /\ \A j \in 1..i : (a \o o)[j] = IF j <= i - 1 THEN a[j] ELSE o[j - (i - 1)]
    <3>1. i - 1 = Len(a) /\ 1 = Len(o)
      BY <1>1, <2>1
    <3>2. PICK p, q : p = Len(a) /\ q = Len(o)
      OBVIOUS
    <3>3. /\ a \o o \in Seq(Ast) /\ Len(a \o o) = p + q
          /\ \A j \in 1 .. p + q : (a \o o)[j] = IF j <= p THEN a[j] ELSE o[j - p]
      <4>1. a \in Seq(Ast) /\ o \in Seq(Ast)
        BY <2>1, <2>2
      <4> QED BY <4>1, <3>2, JoinedAt
    <3>4. p = i - 1 /\ p + q = i
      BY <1>0, <3>1, <3>2
    <3> QED BY <3>3, <3>4
  <2>4. \A j \in 1..i : (a \o o)[j] = s[j]
    <3> TAKE j \in 1..i
    <3>1. CASE j <= i - 1
      BY <3>1, <2>3, <1>1
    <3>2. CASE ~ (j <= i - 1)
      <4>1. j = i /\ j - (i - 1) = 1
        BY <3>2
      <4> QED BY <4>1, <3>2, <2>3, <2>1
    <3> QED BY <3>1, <3>2
  <2>5. /\ (a \o o) \o b \in Seq(Ast) /\ Len((a \o o) \o b) = n
        /\ \A j \in 1..n : ((a \o o) \o b)[j] = IF j <= i THEN (a \o o)[j] ELSE b[j - i]
    <3> DEFINE ao == a \o o
    <3>1. ao \in Seq(Ast) /\ Len(ao) = i
      BY <2>3
    <3>2. n - i = Len(b) /\ i + (n - i) = n
      BY <1>0, <1>2
    <3> HIDE DEF ao
    <3>3. PICK q : q = Len(b)
      OBVIOUS
    <3>4. /\ ao \o b \in Seq(Ast) /\ Len(ao \o b) = i + q
          /\ \A j \in 1 .. i + q : (ao \o b)[j] = IF j <= i THEN ao[j] ELSE b[j - i]
      <4>1. ao \in Seq(Ast) /\ b \in Seq(Ast) /\ i = Len(ao)
        BY <3>1, <2>2
      <4> QED BY <4>1, <3>3, JoinedAt
    <3> QED BY <3>2, <3>3, <3>4 DEF ao
  <2>6. \A j \in 1..n : ((a \o o) \o b)[j] = s[j]
    <3> TAKE j \in 1..n
    <3>1. CASE j <= i
      <4>1. j \in 1..i
        BY <3>1
      <4> QED BY <4>1, <3>1, <2>4, <2>5
    <3>2. CASE ~ (j <= i)
      <4>1. j - i \in 1 .. n - i /\ i + (j - i) = j
        BY <3>2, <1>0
      <4> QED BY <4>1, <3>2, <2>5, <1>2
    <3> QED BY <3>1, <3>2
  <2>7. s = (a \o o) \o b
    <3> DEFINE w == (a \o o) \o b
    <3>1. w \in Seq(Ast) /\ Len(w) = Len(s) /\ \A j \in 1..Len(s) : s[j] = w[j]
      BY <2>5, <2>6
    <3> HIDE DEF w
    <3>2. s = w
      BY <3>1, <1>0, SeqEqual
    <3> QED BY <3>2 DEF w
  <2>8. SizeOf((a \o o) \o b) = SizeOf(a \o o) + SizeOf(b)
    BY <2>2, <2>3, SizeJoined
  <2>9. SizeOf(a \o o) = SizeOf(a) + SizeOf(o)
    BY <2>1, <2>2, SizeJoined
  <2> QED BY <2>1, <2>7, <2>8, <2>9
<1>7. SizeOf(a \o b) = SizeOf(a) + SizeOf(b)
  <2>1. a \in Seq(Ast) /\ b \in Seq(Ast)
    BY <1>1, <1>2, SeqMonotonic
  <2> QED BY <2>1, SizeJoined
<1>8. SizeOf(a) \in Nat /\ SizeOf(b) \in Nat /\ SizeRemoved(s[i]) \in Nat
  <2>1. a \in Seq(Ast) /\ b \in Seq(Ast)
    BY <1>1, <1>2, SeqMonotonic
  <2> QED BY <2>1, <1>0, SizeOfAsSizes, SizesAreNat
<1> QED BY <1>3, <1>4, <1>5, <1>6, <1>7, <1>8

Suffix(t, s) == \E k \in 0..Len(s) : t = SubSeq(s, k + 1, Len(s))

LEMMA SuffixIs ==
  ASSUME NEW E \in SUBSET Ast, NEW s \in Seq(E), NEW k \in 0..Len(s)
  PROVE  LET t == SubSeq(s, k + 1, Len(s))
         IN  /\ t \in Seq(E) /\ Len(t) = Len(s) - k
             /\ \A i \in 1 .. Len(s) - k : t[i] = s[k + i]
             /\ SizeOf(t) = SizeOf(s) - SizeOf(SubSeq(s, 1, k)) /\ SizeOf(t) <= SizeOf(s)
<1> DEFINE n == Len(s)
           a == SubSeq(s, 1, k)
           t == SubSeq(s, k + 1, n)
<1>0. n \in Nat /\ (\A j \in 1..n : s[j] \in E) /\ s \in Seq(Ast)
  BY LenProperties, ElementOfSeq, SeqMonotonic
<1>1. /\ a \in Seq(E) /\ Len(a) = k
      /\ \A j \in 1 .. k : a[j] = s[j]
  <2>1. 1 \in Int /\ k \in Int /\ \A j \in 1 .. k : s[j] \in E
    BY <1>0
  <2>2. /\ a \in Seq(E) /\ Len(a) = IF 1 <= k THEN k - 1 + 1 ELSE 0
        /\ \A j \in 1 .. k - 1 + 1 : a[j] = s[1 + j - 1]
    BY <2>1, SubSeqProperties
  <2> HIDE DEF a
  <2> QED BY <2>2, <1>0
<1>2. /\ t \in Seq(E) /\ Len(t) = n - k
      /\ \A j \in 1 .. n - k : t[j] = s[k + j]
  <2>1. k + 1 \in Int /\ n \in Int /\ \A j \in k + 1 .. n : s[j] \in E
    BY <1>0
  <2>2. /\ t \in Seq(E) /\ Len(t) = IF k + 1 <= n THEN n - (k + 1) + 1 ELSE 0
        /\ \A j \in 1 .. n - (k + 1) + 1 : t[j] = s[(k + 1) + j - 1]
    BY <2>1, SubSeqProperties
  <2> HIDE DEF t
  <2> QED BY <2>2, <1>0
<1> HIDE DEF a, t
<1>3. a \in Seq(Ast) /\ t \in Seq(Ast)
  BY <1>1, <1>2, SeqMonotonic
<1>4. s = a \o t
  <2>1. /\ a \o t \in Seq(Ast) /\ Len(a \o t) = n
        /\ \A j \in 1..n : (a \o t)[j] = IF j <= k THEN a[j] ELSE t[j - k]
    <3>1. k = Len(a) /\ n - k = Len(t) /\ k + (n - k) = n
      BY <1>0, <1>1, <1>2
    <3>2. /\ a \o t \in Seq(Ast) /\ Len(a \o t) = k + (n - k)
          /\ \A j \in 1 .. k + (n - k) : (a \o t)[j] = IF j <= k THEN a[j] ELSE t[j - k]
      BY <3>1, <1>3, JoinedAt
    <3> QED BY <3>1, <3>2
  <2>2. \A j \in 1..n : (a \o t)[j] = s[j]
    <3> TAKE j \in 1..n
    <3>1. CASE j <= k
      BY <3>1, <2>1, <1>1
    <3>2. CASE ~ (j <= k)
      <4>1. j - k \in 1 .. n - k /\ k + (j - k) = j
        BY <3>2, <1>0
      <4> QED BY <4>1, <3>2, <2>1, <1>2
    <3> QED BY <3>1, <3>2
  <2> QED BY <2>1, <2>2, <1>0, SeqEqual
<1>5. SizeOf(a \o t) = SizeOf(a) + SizeOf(t)
  BY <1>3, SizeJoined
<1>6. SizeOf(a) \in Nat /\ SizeOf(t) \in Nat
  BY <1>3, SizeOfAsSizes
<1>7. SizeOf(t) = SizeOf(s) - SizeOf(a) /\ SizeOf(t) <= SizeOf(s)
  BY <1>4, <1>5, <1>6
<1> QED BY <1>2, <1>7 DEF a, t, n

OneEach(s) == \A i, j \in 1..Len(s) : s[i].file = s[j].file => i = j
FilesIn(s) == {s[i].file : i \in 1..Len(s)}

LEMMA SuffixKeeps ==
  ASSUME NEW E \in SUBSET Ast, NEW s \in Seq(E), NEW t, Suffix(t, s)
  PROVE  /\ t \in Seq(E) /\ Len(t) <= Len(s) /\ FilesIn(t) \subseteq FilesIn(s)
         /\ OneEach(s) => OneEach(t)
<1>1. PICK k \in 0..Len(s) : t = SubSeq(s, k + 1, Len(s))
  BY DEF Suffix
<1>2. /\ t \in Seq(E) /\ Len(t) = Len(s) - k
      /\ \A i \in 1 .. Len(s) - k : t[i] = s[k + i]
  BY <1>1, SuffixIs
<1>3. Len(s) \in Nat /\ \A i \in 1 .. Len(s) - k : k + i \in 1..Len(s)
  BY LenProperties
<1>4. FilesIn(t) \subseteq FilesIn(s)
  BY <1>2, <1>3 DEF FilesIn
<1>5. ASSUME OneEach(s) PROVE OneEach(t)
  <2>1. SUFFICES ASSUME NEW i \in 1..Len(t), NEW j \in 1..Len(t), t[i].file = t[j].file PROVE i = j
    BY DEF OneEach
  <2>2. k + i = k + j
    BY <2>1, <1>2, <1>3, <1>5 DEF OneEach
  <2> QED BY <2>2, <1>2, <1>3
<1> QED BY <1>2, <1>3, <1>4, <1>5

LEMMA SuffixOfSuffix ==
  ASSUME NEW s \in Seq(Ast), NEW t, NEW u, Suffix(t, s), Suffix(u, t)
  PROVE  Suffix(u, s)
<1>1. PICK k \in 0..Len(s) : t = SubSeq(s, k + 1, Len(s))
  BY DEF Suffix
<1>2. /\ t \in Seq(Ast) /\ Len(t) = Len(s) - k
      /\ \A i \in 1 .. Len(s) - k : t[i] = s[k + i]
  BY <1>1, SuffixIs
<1>3. PICK l \in 0..Len(t) : u = SubSeq(t, l + 1, Len(t))
  BY DEF Suffix
<1>4. /\ u \in Seq(Ast) /\ Len(u) = Len(t) - l
      /\ \A i \in 1 .. Len(t) - l : u[i] = t[l + i]
  BY <1>2, <1>3, SuffixIs
<1>5. Len(s) \in Nat /\ k + l \in 0..Len(s)
  BY <1>2, LenProperties
<1> DEFINE v == SubSeq(s, (k + l) + 1, Len(s))
<1>6. /\ v \in Seq(Ast) /\ Len(v) = Len(s) - (k + l)
      /\ \A i \in 1 .. Len(s) - (k + l) : v[i] = s[(k + l) + i]
  BY <1>5, SuffixIs
<1>7. \A i \in 1..Len(u) : u[i] = v[i]
  <2> TAKE i \in 1..Len(u)
  <2>1. i \in 1 .. Len(t) - l /\ l + i \in 1 .. Len(s) - k /\ k + (l + i) = (k + l) + i
        /\ i \in 1 .. Len(s) - (k + l)
    BY <1>2, <1>4, <1>5
  <2> HIDE DEF v
  <2> QED BY <2>1, <1>2, <1>4, <1>6
<1>8. Len(u) = Len(v)
  <2> HIDE DEF v
  <2> QED BY <1>2, <1>4, <1>5, <1>6
<1>9. u = v
  <2> HIDE DEF v
  <2> QED BY <1>4, <1>6, <1>7, <1>8, SeqEqual
<1> QED BY <1>5, <1>9 DEF Suffix

LEMMA LeftOut ==
  ASSUME NEW E \in SUBSET Ast, NEW s \in Seq(E), NEW i \in 1..Len(s), OneEach(s)
  PROVE  OneEach(RemoveAt(s, i)) /\ FilesIn(RemoveAt(s, i)) \subseteq FilesIn(s) \ {s[i].file}
<1> DEFINE n == Len(s)
           t == RemoveAt(s, i)
           At(j) == IF j < i THEN j ELSE j + 1
<1>1. n \in Nat /\ Len(t) = n - 1 /\ \A j \in 1 .. n - 1 : t[j] = s[At(j)]
  BY WithoutOne, LenProperties
<1>2. \A j \in 1 .. n - 1 : At(j) \in 1..n /\ At(j) # i
  BY <1>1
<1>3. \A j, k \in 1 .. n - 1 : At(j) = At(k) => j = k
  BY <1>1
<1> HIDE DEF t, At
<1>4. OneEach(t)
  <2>1. SUFFICES ASSUME NEW j \in 1 .. n - 1, NEW k \in 1 .. n - 1, t[j].file = t[k].file PROVE j = k
    BY <1>1 DEF OneEach
  <2>2. s[At(j)].file = s[At(k)].file
    BY <2>1, <1>1
  <2>3. At(j) = At(k)
    BY <2>2, <1>2 DEF OneEach
  <2> QED BY <2>3, <1>3
<1>5. ASSUME NEW j \in 1 .. n - 1 PROVE t[j].file \in FilesIn(s) \ {s[i].file}
  <2>1. t[j].file = s[At(j)].file /\ At(j) \in 1..n /\ At(j) # i
    BY <1>1, <1>2
  <2>2. t[j].file # s[i].file
    BY <2>1 DEF OneEach
  <2> QED BY <2>1, <2>2 DEF FilesIn
<1> QED BY <1>1, <1>4, <1>5 DEF FilesIn, t

LEMMA LatestAdded ==
  ASSUME NEW E \in SUBSET Ast, NEW s \in Seq(E), NEW e \in E
  PROVE  /\ Append(s, e) \in Seq(E) /\ Len(Append(s, e)) = Len(s) + 1
         /\ SizeOf(Append(s, e)) = SizeOf(s) + SizeRemoved(e)
         /\ FilesIn(Append(s, e)) \subseteq FilesIn(s) \cup {e.file}
         /\ OneEach(s) /\ e.file \notin FilesIn(s) => OneEach(Append(s, e))
<1> DEFINE n == Len(s)
           t == Append(s, e)
<1>1. /\ n \in Nat /\ t \in Seq(E) /\ Len(t) = n + 1 /\ t[n + 1] = e
      /\ \A i \in 1..n : t[i] = s[i]
  BY AppendProperties, LenProperties
<1>2. SizeOf(t) = SizeOf(s) + SizeRemoved(e)
  <2>1. s \in Seq(Ast) /\ e \in Ast /\ <<e>> \in Seq(Ast)
    BY SeqMonotonic
  <2>2. t = s \o <<e>>
    BY AppendIsConcat
  <2> HIDE DEF t
  <2> QED BY <2>1, <2>2, SizeJoined, SizeOfOne
<1> HIDE DEF t
<1>3. FilesIn(t) \subseteq FilesIn(s) \cup {e.file}
  <2>1. ASSUME NEW i \in 1 .. n + 1 PROVE t[i].file \in FilesIn(s) \cup {e.file}
    <3>1. CASE i = n + 1
      BY <3>1, <1>1
    <3>2. CASE i # n + 1
      <4>1. i \in 1..n
        BY <3>2, <1>1
      <4> QED BY <4>1, <1>1 DEF FilesIn
    <3> QED BY <3>1, <3>2
  <2> QED BY <2>1, <1>1 DEF FilesIn
<1>4. ASSUME OneEach(s), e.file \notin FilesIn(s) PROVE OneEach(t)
  <2>1. \A i \in 1..n : t[i].file = s[i].file /\ s[i].file \in FilesIn(s) /\ s[i].file # e.file
    BY <1>1, <1>4 DEF FilesIn
  <2>2. SUFFICES ASSUME NEW i \in 1 .. n + 1, NEW j \in 1 .. n + 1, t[i].file = t[j].file PROVE i = j
    BY <1>1 DEF OneEach
  <2>3. (i \in 1..n \/ i = n + 1) /\ (j \in 1..n \/ j = n + 1)
    BY <1>1
  <2>4. CASE i \in 1..n /\ j \in 1..n
    <3>1. s[i].file = s[j].file
      BY <2>1, <2>2, <2>4
    <3> QED BY <3>1, <2>4, <1>4 DEF OneEach
  <2>5. CASE ~ (i \in 1..n /\ j \in 1..n)
    BY <2>1, <2>2, <2>3, <2>5, <1>1
  <2> QED BY <2>4, <2>5
<1> QED BY <1>1, <1>2, <1>3, <1>4 DEF t

-----------------------------------------------------------------------------
(* The callbacks and the eviction                                          *)

Accounts(s, kept) == kept = SizeOf(s) /\ (Len(s) > 1 => kept <= CacheLimit)

(* The cache d is c without its oldest entries                             *)
Less(d, c) ==
  Suffix(d.entries, c.entries) /\ (Accounts(c.entries, c.size) => Accounts(d.entries, d.size))

LEMMA SuffixAll == ASSUME NEW s \in Seq(Ast) PROVE Suffix(s, s)
<1>1. Len(s) \in Nat /\ 0 \in 0..Len(s)
  BY LenProperties
<1> DEFINE t == SubSeq(s, 0 + 1, Len(s))
<1>2. t \in Seq(Ast) /\ Len(t) = Len(s) - 0 /\ \A i \in 1 .. Len(s) - 0 : t[i] = s[0 + i]
  BY <1>1, SuffixIs
<1> HIDE DEF t
<1>3. \A i \in 1..Len(s) : 0 + i = i
  OBVIOUS
<1>4. Len(t) = Len(s) /\ \A i \in 1..Len(s) : t[i] = s[i]
  BY <1>1, <1>2, <1>3
<1>5. s = t
  BY <1>2, <1>4, SeqEqual
<1> QED BY <1>1, <1>5 DEF Suffix, t

LEMMA LessAll == ASSUME NEW c, c.entries \in Seq(Ast) PROVE Less(c, c)
BY SuffixAll DEF Less

LEMMA LessOfLess ==
  ASSUME NEW c, NEW d, NEW e, c.entries \in Seq(Ast), Less(d, c), Less(e, d)
  PROVE  Less(e, c)
BY SuffixOfSuffix DEF Less

LEMMA LessIsCache ==
  ASSUME NEW c, NEW d, c.entries \in Seq(Ast), Less(d, c)
  PROVE  d.entries \in Seq(Ast)
BY SuffixKeeps DEF Less

LEMMA Between ==
  ASSUME NEW n \in Int, NEW l \in Nat
  PROVE  LET k == Max({0, Min({n, l})}) IN k \in 0..l /\ (n \in 0..l => k = n)
<1> DEFINE m == Min({n, l})
<1>1. m \in {n, l} /\ m <= n /\ m <= l
  <2>1. \E x \in {n, l} : \A y \in {n, l} : x <= y
    OBVIOUS
  <2> QED BY <2>1 DEF Min
<1> HIDE DEF m
<1> DEFINE k == Max({0, m})
<1>2. k \in {0, m} /\ k >= 0 /\ k >= m
  <2>1. \E x \in {0, m} : \A y \in {0, m} : x >= y
    BY <1>1
  <2> QED BY <2>1 DEF Max
<1> HIDE DEF k
<1> QED BY <1>1, <1>2 DEF m, k

LEMMA DropOldestIsLess ==
  ASSUME NEW c, c.entries \in Seq(Ast), NEW n \in Int
  PROVE  /\ Less(DropOldest(c, n), c)
         /\ n \in 0..Len(c.entries) => Len(DropOldest(c, n).entries) = Len(c.entries) - n
<1> DEFINE s == c.entries
           k == Max({0, Min({n, Len(s)})})
           t == SubSeq(s, k + 1, Len(s))
           a == SubSeq(s, 1, k)
           d == DropOldest(c, n)
<1>1. Len(s) \in Nat
  BY LenProperties
<1>2. k \in 0..Len(s) /\ (n \in 0..Len(s) => k = n)
  BY <1>1, Between
<1>3. d.entries = t /\ d.size = c.size - SizeOf(a)
  BY DEF DropOldest
<1> HIDE DEF k, d
<1>4. /\ t \in Seq(Ast) /\ Len(t) = Len(s) - k
      /\ SizeOf(t) = SizeOf(s) - SizeOf(a) /\ SizeOf(t) <= SizeOf(s)
  BY <1>2, SuffixIs
<1>5. Suffix(t, s)
  BY <1>2 DEF Suffix
<1>6. SizeOf(s) \in Nat /\ SizeOf(t) \in Nat
  BY <1>4, SizeOfAsSizes
<1> HIDE DEF t, a, s
<1>7. ASSUME Accounts(s, c.size) PROVE Accounts(t, d.size)
  <2>1. d.size = SizeOf(t)
    BY <1>3, <1>4, <1>7 DEF Accounts
  <2>2. ASSUME Len(t) > 1 PROVE d.size <= CacheLimit
    <3>1. Len(s) > 1
      BY <2>2, <1>1, <1>2, <1>4
    <3>2. SizeOf(s) <= CacheLimit
      BY <3>1, <1>7 DEF Accounts
    <3> QED BY <3>2, <2>1, <1>4, <1>6, ParserAssumption
  <2> QED BY <2>1, <2>2 DEF Accounts
<1>8. n \in 0..Len(s) => Len(d.entries) = Len(s) - n
  BY <1>2, <1>3, <1>4
<1>9. Less(d, c)
  BY <1>3, <1>5, <1>7 DEF Less, s
<1> QED BY <1>8, <1>9 DEF s, d

LEMMA GreaterIsInt == ASSUME NEW n \in Int PROVE Max({1, n}) \in Int
<1>1. \E x \in {1, n} : \A y \in {1, n} : x >= y
  OBVIOUS
<1>2. Max({1, n}) \in {1, n}
  BY <1>1 DEF Max
<1> QED BY <1>2

LEMMA LightenIsLess ==
  ASSUME NEW c, c.entries \in Seq(Ast)
  PROVE  Less(Lighten(c), c) /\ Less(KeepLatest(c), c)
<1> DEFINE n == Len(c.entries)
           p == Max({1, n \div 10})
           q == Max({1, n \div 20})
<1>1. n \in Nat
  BY LenProperties
<1> HIDE DEF n
<1>2. n \div 10 \in Int /\ n \div 20 \in Int
  BY <1>1
<1>3. p \in Int /\ q \in Int
  BY <1>2, GreaterIsInt
<1> HIDE DEF p, q
<1>4. n - q \in Int
  BY <1>1, <1>3
<1>5. Less(DropOldest(c, p), c)
  BY <1>3, DropOldestIsLess
<1>6. Less(DropOldest(c, n - q), c)
  BY <1>4, DropOldestIsLess
<1> QED BY <1>5, <1>6 DEF Lighten, KeepLatest, n, p, q

LEMMA RelievedIsLess ==
  ASSUME NEW c, c.entries \in Seq(Ast), NEW d \in Relieved(c)
  PROVE  Less(d, c)
<1> DEFINE Fine(x) == x.entries \in Seq(Ast) /\ Less(x, c)
<1>1. Fine(c)
  BY LessAll
<1>2. ASSUME NEW x, Fine(x) PROVE Fine(Lighten(x)) /\ Fine(KeepLatest(x))
  BY <1>2, LightenIsLess, LessOfLess, LessIsCache
<1> HIDE DEF Fine
<1>3. ASSUME NEW x, Fine(x), NEW s \in BOOLEAN PROVE Fine(HighPressure(x, s))
  BY <1>2, <1>3 DEF HighPressure
<1>4. ASSUME NEW x, Fine(x) PROVE Fine(Emergency(x))
  BY <1>2, <1>4 DEF Emergency
<1>5. CASE d = c
  BY <1>5, <1>1 DEF Fine
<1>6. CASE \E s, t \in BOOLEAN : d = HighPressure(HighPressure(c, s), t)
  BY <1>6, <1>1, <1>3 DEF Fine
<1>7. CASE \E s \in BOOLEAN : d = Emergency(IF s THEN KeepLatest(Emergency(c)) ELSE Emergency(c))
  <2>1. PICK s \in BOOLEAN : d = Emergency(IF s THEN KeepLatest(Emergency(c)) ELSE Emergency(c))
    BY <1>7
  <2>2. Fine(Emergency(c)) /\ Fine(KeepLatest(Emergency(c)))
    BY <1>1, <1>2, <1>4
  <2>3. Fine(IF s THEN KeepLatest(Emergency(c)) ELSE Emergency(c))
    BY <2>2
  <2>4. Fine(d)
    BY <2>1, <2>3, <1>4
  <2> QED BY <2>4 DEF Fine
<1> QED BY <1>5, <1>6, <1>7 DEF Relieved

LEMMA MadeRoomIsLess ==
  ASSUME NEW c, c.entries \in Seq(Ast), NEW added \in Nat
  PROVE  LET d == MadeRoom(c, added)
         IN  Less(d, c) /\ (Len(d.entries) = 0 \/ d.size + added <= CacheLimit)
<1> DEFINE l == Len(c.entries)
           Fits(k) == k = l \/ DropOldest(c, k).size + added <= CacheLimit
           S == {k \in 0..l : Fits(k)}
           n == Min(S)
<1>1. l \in Nat
  BY LenProperties
<1> HIDE DEF l
<1>2. l \in S /\ S \subseteq Nat /\ S # {}
  <2>1. Fits(l)
    OBVIOUS
  <2>2. l \in 0..l /\ 0..l \subseteq Nat
    BY <1>1
  <2> HIDE DEF Fits
  <2> QED BY <2>1, <2>2
<1> HIDE DEF S
<1>3. n \in S
  <2>1. \E m \in S : \A k \in S : m <= k
    BY <1>2, Least
  <2> QED BY <2>1 DEF Min
<1> HIDE DEF n
<1>4. n \in 0..l /\ (n = l \/ DropOldest(c, n).size + added <= CacheLimit)
  BY <1>3 DEF S, Fits
<1>5. n \in Int /\ n \in 0..Len(c.entries)
  BY <1>1, <1>4 DEF l
<1>6. Less(DropOldest(c, n), c) /\ Len(DropOldest(c, n).entries) = l - n
  BY <1>5, DropOldestIsLess DEF l
<1>7. MadeRoom(c, added) = DropOldest(c, n)
  BY DEF MadeRoom, n, S, Fits, l
<1> QED BY <1>1, <1>4, <1>6, <1>7

-----------------------------------------------------------------------------
(* The symbols that are asked for                                          *)

KeysIn(src, f, r) == IF src[f].content # Gone THEN WantedOf(src[f].content, r) ELSE {}

(* The symbols of the first m files, each at the last file that has it     *)
FirstWanted(src, r, m) ==
  UNION {{[key |-> k, file |-> r.files[i]] :
            k \in KeysIn(src, r.files[i], r)
                   \ UNION {KeysIn(src, r.files[j], r) : j \in i + 1 .. m}} :
           i \in 1..m}

LEMMA WantedAsFirst ==
  ASSUME NEW r, r.files \in Seq(SourceFile)
  PROVE  Wanted(r) = FirstWanted(sources, r, Len(r.files))
<1>1. DOMAIN r.files = 1..Len(r.files)
  BY LenProperties
<1> QED BY <1>1 DEF Wanted, FirstWanted, WantedKeys, KeysIn, Present

LEMMA IsFirst ==
  ASSUME NEW src, NEW r, NEW m, NEW x
  PROVE  x \in FirstWanted(src, r, m)
           <=> \E i \in 1..m : \E k \in KeysIn(src, r.files[i], r) :
                 /\ x = [key |-> k, file |-> r.files[i]]
                 /\ \A j \in i + 1 .. m : k \notin KeysIn(src, r.files[j], r)
<1> DEFINE Later(i) == UNION {KeysIn(src, r.files[j], r) : j \in i + 1 .. m}
           Of(i) == {[key |-> k, file |-> r.files[i]] : k \in KeysIn(src, r.files[i], r) \ Later(i)}
<1>1. x \in FirstWanted(src, r, m) <=> \E i \in 1..m : x \in Of(i)
  <2>1. FirstWanted(src, r, m) = UNION {Of(i) : i \in 1..m}
    BY DEF FirstWanted
  <2> HIDE DEF Of
  <2> QED BY <2>1
<1>2. \A i : x \in Of(i) <=> \E k \in KeysIn(src, r.files[i], r) :
                                k \notin Later(i) /\ x = [key |-> k, file |-> r.files[i]]
  <2> HIDE DEF Later
  <2> QED OBVIOUS
<1>3. \A i : \A k : k \notin Later(i) <=> \A j \in i + 1 .. m : k \notin KeysIn(src, r.files[j], r)
  OBVIOUS
<1> HIDE DEF Of, Later
<1> QED BY <1>1, <1>2, <1>3, Zenon

LEMMA NextWanted ==
  ASSUME NEW src, NEW r, NEW m \in Nat
  PROVE  FirstWanted(src, r, m + 1)
           = Replace(FirstWanted(src, r, m), r.files[m + 1], KeysIn(src, r.files[m + 1], r))
<1> DEFINE W(i) == KeysIn(src, r.files[i], r)
           At(k, i) == [key |-> k, file |-> r.files[i]]
           A == FirstWanted(src, r, m)
           B == FirstWanted(src, r, m + 1)
           C == Replace(A, r.files[m + 1], W(m + 1))
<1>1. \A x : x \in A <=> \E i \in 1..m : \E k \in W(i) : x = At(k, i) /\ \A j \in i + 1 .. m : k \notin W(j)
  BY IsFirst
<1>2. \A x : x \in B <=> \E i \in 1..(m + 1) : \E k \in W(i) :
                            x = At(k, i) /\ \A j \in i + 1 .. (m + 1) : k \notin W(j)
  BY IsFirst
<1>3. \A x : x \in C <=> \/ x \in A /\ x.key \notin W(m + 1)
                         \/ \E k \in W(m + 1) : x = At(k, m + 1)
  BY DEF Replace
<1>4. \A k, i : At(k, i).key = k
  OBVIOUS
<1> HIDE DEF W, At, A, B, C
<1>5. ASSUME NEW x \in B PROVE x \in C
  <2>1. PICK i \in 1..(m + 1) : \E k \in W(i) : x = At(k, i) /\ \A j \in i + 1 .. (m + 1) : k \notin W(j)
    BY <1>2, <1>5
  <2>2. PICK k \in W(i) : x = At(k, i) /\ \A j \in i + 1 .. (m + 1) : k \notin W(j)
    BY <2>1
  <2>3. CASE i = m + 1
    BY <2>2, <2>3, <1>3
  <2>4. CASE i # m + 1
    <3>1. i \in 1..m /\ m + 1 \in i + 1 .. (m + 1) /\ i + 1 .. m \subseteq i + 1 .. (m + 1)
      BY <2>4
    <3>2. x \in A
      BY <3>1, <2>2, <1>1
    <3>3. x.key \notin W(m + 1)
      BY <3>1, <2>2, <1>4
    <3> QED BY <3>2, <3>3, <1>3
  <2> QED BY <2>3, <2>4
<1>6. ASSUME NEW x \in C PROVE x \in B
  <2>1. CASE \E k \in W(m + 1) : x = At(k, m + 1)
    <3>1. m + 1 \in 1..(m + 1) /\ ((m + 1) + 1 .. (m + 1)) = {}
      OBVIOUS
    <3> QED BY <3>1, <2>1, <1>2
  <2>2. CASE x \in A /\ x.key \notin W(m + 1)
    <3>1. PICK i \in 1..m : \E k \in W(i) : x = At(k, i) /\ \A j \in i + 1 .. m : k \notin W(j)
      BY <1>1, <2>2
    <3>2. PICK k \in W(i) : x = At(k, i) /\ \A j \in i + 1 .. m : k \notin W(j)
      BY <3>1
    <3>3. k \notin W(m + 1)
      BY <3>2, <2>2, <1>4
    <3>4. i \in 1..(m + 1) /\ \A j \in i + 1 .. (m + 1) : j \in i + 1 .. m \/ j = m + 1
      OBVIOUS
    <3>5. \A j \in i + 1 .. (m + 1) : k \notin W(j)
      BY <3>2, <3>3, <3>4
    <3> QED BY <3>2, <3>4, <3>5, <1>2
  <2> QED BY <2>1, <2>2, <1>3, <1>6
<1>7. B = C
  BY <1>5, <1>6
<1> QED BY <1>7 DEF A, B, C, W

LEMMA FirstWantedNone == ASSUME NEW src, NEW r PROVE FirstWanted(src, r, 0) = {}
<1>1. 1..0 = {}
  OBVIOUS
<1> QED BY <1>1, IsFirst, Zenon

(* They depend on the files that are asked for, and on what of them        *)
LEMMA SameWanted ==
  ASSUME NEW a, NEW b, NEW q, NEW r, r.files \in Seq(SourceFile),
         q.files = r.files, q.kinds = r.kinds, q.target = r.target,
         \A f \in ToSet(r.files) : a[f] = b[f], NEW n \in 0..Len(r.files)
  PROVE  FirstWanted(a, q, n) = FirstWanted(b, r, n)
<1>1. \A c : WantedOf(c, q) = WantedOf(c, r)
  BY DEF WantedOf, OfKind
<1>2. \A i \in 1..Len(r.files) : r.files[i] \in ToSet(r.files)
  BY LenProperties DEF ToSet
<1>3. \A i \in 1..Len(r.files) : KeysIn(a, q.files[i], q) = KeysIn(b, r.files[i], r)
  BY <1>1, <1>2 DEF KeysIn
<1>4. /\ \A i \in 1..n : i \in 1..Len(r.files)
      /\ \A i \in 1..n : \A j \in i + 1 .. n : j \in 1..Len(r.files)
  <2>1. Len(r.files) \in Nat
    BY LenProperties
  <2> QED BY <2>1
<1>5. ASSUME NEW x PROVE x \in FirstWanted(a, q, n) <=> x \in FirstWanted(b, r, n)
  <2>1. x \in FirstWanted(a, q, n)
           <=> \E i \in 1..n : \E k \in KeysIn(a, q.files[i], q) :
                 /\ x = [key |-> k, file |-> q.files[i]]
                 /\ \A j \in i + 1 .. n : k \notin KeysIn(a, q.files[j], q)
    BY IsFirst
  <2>2. x \in FirstWanted(b, r, n)
           <=> \E i \in 1..n : \E k \in KeysIn(b, r.files[i], r) :
                 /\ x = [key |-> k, file |-> r.files[i]]
                 /\ \A j \in i + 1 .. n : k \notin KeysIn(b, r.files[j], r)
    BY IsFirst
  <2>3. ASSUME NEW i \in 1..n, NEW k
        PROVE  (\A j \in i + 1 .. n : k \notin KeysIn(a, q.files[j], q))
                 <=> (\A j \in i + 1 .. n : k \notin KeysIn(b, r.files[j], r))
    BY <1>3, <1>4
  <2> QED BY <2>1, <2>2, <2>3, <1>3, <1>4
<1> QED BY <1>5

(* The traversal of a tree                                                 *)
LEMMA AllFound ==
  ASSUME TargetsReached, NEW r \in Requests, NEW c \in Tree
  PROVE  SymbolsOf(c, r) = WantedOf(c, r)
<1>1. CASE r.target # Gone
  BY <1>1 DEF TargetsReached, Tree
<1>2. CASE r.target = Gone
  <2>1. \A class, name : MethodAsked(class, name, r)
    BY <1>2 DEF MethodAsked
  <2>2. \A d : ~Blocked(d, r)
    BY <2>1 DEF Blocked
  <2>3. \A d : r.target \in {Gone, <<d.name>>}
    BY <1>2
  <2>4. Extracted(c, r) = {d \in c : d.kind \notin Unnamed /\ OfKind(d, r)}
    BY <2>1, <2>2, <2>3, Zenon DEF Extracted
  <2>5. {e \in Extracted(c, r) : r.target = Gone \/ KeyOf(e) = r.target}
           = {e \in c : e.kind \notin Unnamed /\ OfKind(e, r) /\ (r.target = Gone \/ KeyOf(e) = r.target)}
    BY <2>4, <1>2
  <2> QED BY <2>5 DEF SymbolsOf, WantedOf
<1> QED BY <1>1, <1>2

(* The files that are left                                                 *)
LEMMA LeftToDo ==
  ASSUME NEW s \in Seq(SourceFile), NEW k \in 0..Len(s)
  PROVE  LET t == SubSeq(s, k + 1, Len(s))
         IN  /\ t \in Seq(SourceFile) /\ Len(t) = Len(s) - k
             /\ t = <<>> <=> k = Len(s)
             /\ k < Len(s) => Head(t) = s[k + 1] /\ Tail(t) = SubSeq(s, (k + 1) + 1, Len(s))
<1> DEFINE n == Len(s)
           t == SubSeq(s, k + 1, n)
<1>0. n \in Nat /\ \A i \in 1..n : s[i] \in SourceFile
  BY LenProperties, ElementOfSeq
<1>1. t \in Seq(SourceFile) /\ Len(t) = IF k + 1 <= n THEN n - (k + 1) + 1 ELSE 0
  <2>1. k + 1 \in Int /\ n \in Int /\ \A i \in k + 1 .. n : s[i] \in SourceFile
    BY <1>0
  <2> QED BY <2>1, SubSeqProperties
<1>2. k < n => Head(t) = s[k + 1] /\ Tail(t) = SubSeq(s, (k + 1) + 1, n)
  <2> HAVE k < n
  <2>1. k + 1 \in 1..Len(s) /\ n \in k + 1 .. Len(s)
    BY <1>0
  <2> QED BY <2>1, HeadTailOfSubSeq
<1> HIDE DEF t
<1>3. t = <<>> <=> Len(t) = 0
  BY <1>1, EmptySeq
<1>4. Len(t) = n - k
  BY <1>0, <1>1
<1>5. t = <<>> <=> k = n
  BY <1>0, <1>3, <1>4
<1> QED BY <1>1, <1>2, <1>4, <1>5 DEF t, n

-----------------------------------------------------------------------------
(* The files and the trees of the parser                                   *)

Source == [content : Tree \cup {Gone}, mtime : Nat]
SourcesOK(src, clk) ==
  /\ src \in [SourceFile -> Source] /\ clk \in Nat
  /\ \A f \in SourceFile : 1 <= src[f].mtime /\ src[f].mtime <= clk

(* An entry that is as old as its file has its tree, unless the file       *)
(* changed between being read and asked for its time.                      *)
Sound(src, t) ==
  {e \in Ast : /\ e.mtime <= src[e.file].mtime
               /\ e.mtime = src[e.file].mtime /\ e.file \notin t => e.tree = src[e.file].content}

TreesOK(src, t, trees, p) ==
  /\ trees \in Seq(Sound(src, t)) /\ OneEach(trees)
  /\ p.stage \in {"missed", "parsed"} => p.file \notin FilesIn(trees)

ParsingOK(src, ch, t, p) ==
  /\ p = [stage |-> p.stage, file |-> p.file, tree |-> p.tree]
  /\ p.stage \in {"none", "missed", "parsed", "done"}
  /\ p.stage = "none" => p = NoParse
  /\ p.stage # "none" => p.file \in SourceFile
  /\ p.stage = "parsed" => p.tree \in Tree /\ (p.file \notin t => p.tree = src[p.file].content)
  /\ p.stage = "done" /\ src[p.file].content # Gone /\ p.file \notin ch \cup t =>
       p.tree = src[p.file].content

(* The call: k files were handled                                          *)
Handled(j) == Len(j.request.files) - Len(j.todo)
JobOK(j, p, ans) ==
  /\ j = [stage |-> j.stage, request |-> j.request, key |-> j.key, todo |-> j.todo,
          symbols |-> j.symbols, references |-> j.references, errors |-> j.errors]
  /\ j.stage \in {"none", "parse", "references", "done"}
  /\ j.stage \in {"none", "done"} => p = NoParse
  /\ j.stage # "none" =>
       /\ j.request \in Requests /\ ans = Gone
       /\ \E k \in 0..Len(j.request.files) :
            j.todo = SubSeq(j.request.files, k + 1, Len(j.request.files))
  /\ j.stage \in {"parse", "references"} => j.todo # <<>>
  /\ j.stage = "parse" /\ p.stage # "none" => p.file = Head(j.todo)
  /\ j.stage = "references" => p.stage = "done" /\ p.file = Head(j.todo)

Ready(src, t, r) == \A f \in ToSet(r.files) : src[f].content # Gone /\ f \notin t
Calm(src, ch, t, r) == Ready(src, t, r) /\ \A f \in ToSet(r.files) : f \notin ch

FoundOK(src, ch, t, j) ==
  j.stage # "none" /\ Calm(src, ch, t, j.request) =>
    /\ j.errors = {}
    /\ j.stage = "done" => j.todo = <<>>
    /\ j.symbols = FirstWanted(src, j.request,
                               IF j.stage = "references" THEN Handled(j) + 1 ELSE Handled(j))

(* A key of the results has the files and their times at some moment.      *)
Stamps(src, key, r) ==
  /\ key = [files |-> key.files, kinds |-> r.kinds, target |-> r.target]
  /\ \A s \in key.files : s[1] \in ToSet(r.files) /\ s[2] <= src[s[1]].mtime /\ s[2] \in Nat
  /\ \A f \in ToSet(r.files) : \E s \in key.files : s[1] = f

TimeIn(src, f) == IF src[f].content # Gone THEN src[f].mtime ELSE 0
KeyOK(src, ch, j) ==
  j.stage # "none" =>
    /\ Stamps(src, j.key, j.request)
    /\ \A s \in j.key.files : IF s[1] \in ch THEN s[2] < src[s[1]].mtime
                              ELSE s[2] = TimeIn(src, s[1])

Fresh(src, key) == \A s \in key.files : s[2] = src[s[1]].mtime
Right(src, e) ==
  e.symbols = FirstWanted(src, e.request, Len(e.request.files)) /\ e.errors = {}
IsAnswer(e) ==
  /\ e = [request |-> e.request, symbols |-> e.symbols, references |-> e.references,
          errors |-> e.errors]
  /\ e.request \in Requests

(* A result is right when its key is that of the files as they are.        *)
ResultsOK(src, t, res) ==
  \A k \in DOMAIN res :
    /\ IsAnswer(res[k]) /\ Stamps(src, k, res[k].request)
    /\ Ready(src, t, res[k].request) /\ Fresh(src, k) => Right(src, res[k])

AnswerOK(src, ch, t, ans) ==
  ans # Gone => IsAnswer(ans) /\ (Calm(src, ch, t, ans.request) => Right(src, ans))

SymbolsInv ==
  /\ SourcesOK(sources, clock)
  /\ TreesOK(sources, tainted, astCache, parsing)
  /\ ParsingOK(sources, changed, tainted, parsing)
  /\ JobOK(job, parsing, answer)
  /\ FoundOK(sources, changed, tainted, job)
  /\ KeyOK(sources, changed, job)
  /\ ResultsOK(sources, tainted, results)
  /\ AnswerOK(sources, changed, tainted, answer)

LEMMA SymbolsInvInit == SymbolsInit => SymbolsInv
<1> HAVE SymbolsInit
<1> USE DEF SymbolsInit, ParserInit
<1>1. SourcesOK(sources, clock)
  <2>1. PICK c : /\ \A f \in SourceFile : c[f] \in Contents[f]
                 /\ sources = [f \in SourceFile |-> [content |-> c[f], mtime |-> 1]]
    OBVIOUS
  <2>2. \A f \in SourceFile : c[f] \in Tree
    BY <2>1 DEF Tree
  <2>3. sources \in [SourceFile -> Source]
    BY <2>1, <2>2 DEF Source
  <2> QED BY <2>1, <2>3 DEF SourcesOK
<1>2. parsing.stage = "none" /\ parsing = NoParse
  BY DEF NoParse
<1>3. TreesOK(sources, tainted, astCache, parsing)
  <2>1. astCache \in Seq(Sound(sources, tainted)) /\ Len(astCache) = 0
    OBVIOUS
  <2> QED BY <2>1, <1>2 DEF TreesOK, OneEach
<1>4. ParsingOK(sources, changed, tainted, parsing)
  BY <1>2 DEF ParsingOK, NoParse
<1>5. job.stage = "none" /\ JobOK(job, parsing, answer)
  BY <1>2 DEF JobOK, NoJob
<1>6. ResultsOK(sources, tainted, results)
  <2>1. DOMAIN results = {}
    OBVIOUS
  <2> QED BY <2>1 DEF ResultsOK
<1> QED BY <1>1, <1>3, <1>4, <1>5, <1>6 DEF SymbolsInv, FoundOK, KeyOK, AnswerOK

-----------------------------------------------------------------------------
(* The parser                                                              *)

LEMMA SoundAreAst == ASSUME NEW src, NEW t PROVE Sound(src, t) \in SUBSET Ast
BY DEF Sound

LEMMA ParsedIsIn ==
  ASSUME NEW f \in SourceFile, astCache \in Seq(Ast)
  PROVE  /\ Parsed(f) => IndexOf(f) \in 1..Len(astCache) /\ EntryOf(f).file = f
         /\ ~Parsed(f) => f \notin FilesIn(astCache)
<1>1. DOMAIN astCache = 1..Len(astCache)
  BY LenProperties
<1>2. ASSUME Parsed(f) PROVE IndexOf(f) \in 1..Len(astCache) /\ EntryOf(f).file = f
  BY <1>1, <1>2 DEF Parsed, IndexOf, EntryOf
<1>3. ASSUME ~Parsed(f) PROVE f \notin FilesIn(astCache)
  BY <1>1, <1>3 DEF Parsed, FilesIn
<1> QED BY <1>2, <1>3

LEMMA Invalidated ==
  ASSUME SymbolsInv, NEW f \in SourceFile, InvalidateTree(f)
  PROVE  /\ astCache' \in Seq(Sound(sources, tainted)) /\ OneEach(astCache')
         /\ f \notin FilesIn(astCache')
<1> DEFINE E == Sound(sources, tainted)
<1>1. E \in SUBSET Ast /\ astCache \in Seq(E) /\ astCache \in Seq(Ast) /\ OneEach(astCache)
  BY SoundAreAst, SeqMonotonic DEF SymbolsInv, TreesOK
<1> HIDE DEF E
<1>2. CASE Parsed(f)
  <2>1. IndexOf(f) \in 1..Len(astCache) /\ astCache[IndexOf(f)].file = f
    BY <1>1, <1>2, ParsedIsIn DEF EntryOf
  <2>2. astCache' = RemoveAt(astCache, IndexOf(f))
    BY <1>2 DEF InvalidateTree, Others
  <2>3. RemoveAt(astCache, IndexOf(f)) \in Seq(E)
    BY <1>1, <2>1, WithoutOne
  <2>4. /\ OneEach(RemoveAt(astCache, IndexOf(f)))
        /\ FilesIn(RemoveAt(astCache, IndexOf(f))) \subseteq FilesIn(astCache) \ {f}
    BY <1>1, <2>1, LeftOut
  <2> QED BY <2>2, <2>3, <2>4 DEF E
<1>3. CASE ~Parsed(f)
  <2>1. astCache' = astCache
    BY <1>3 DEF InvalidateTree
  <2> QED BY <2>1, <1>1, <1>3, ParsedIsIn DEF E
<1> QED BY <1>2, <1>3

LEMMA ParserStepKeeps ==
  ASSUME SymbolsInv, UNCHANGED <<sources, clock, tainted, changed, job, results, answer>>,
         TreesOK(sources, tainted, astCache', parsing'), ParsingOK(sources, changed, tainted, parsing'),
         JobOK(job, parsing', answer)
  PROVE  SymbolsInv'
BY DEF SymbolsInv

LEMMA StartParseOK == ASSUME SymbolsInv, StartParse PROVE SymbolsInv'
<1> DEFINE f == AskedFile
           E == Sound(sources, tainted)
<1>1. /\ job.stage = "parse" /\ parsing.stage = "none"
      /\ IF Parsed(f) /\ Present(f) /\ sources[f].mtime <= EntryOf(f).mtime
         THEN /\ parsing' = [stage |-> "done", file |-> f, tree |-> EntryOf(f).tree]
              /\ astCache' = Append(Others(f), EntryOf(f))
         ELSE /\ parsing' = [stage |-> "missed", file |-> f, tree |-> Gone]
              /\ InvalidateTree(f)
      /\ UNCHANGED <<sources, clock, tainted, job, results, answer, changed>>
  BY DEF StartParse, ParseFile
<1>2. f \in SourceFile
  <2>1. /\ job.request.files \in Seq(SourceFile) /\ job.todo # <<>>
        /\ \E k \in 0..Len(job.request.files) :
             job.todo = SubSeq(job.request.files, k + 1, Len(job.request.files))
    BY <1>1, SymbolsAssumption DEF SymbolsInv, JobOK
  <2>2. job.todo \in Seq(SourceFile)
    BY <2>1, LeftToDo
  <2> QED BY <2>1, <2>2 DEF AskedFile
<1>3. E \in SUBSET Ast /\ astCache \in Seq(E) /\ astCache \in Seq(Ast) /\ OneEach(astCache)
  BY SoundAreAst, SeqMonotonic DEF SymbolsInv, TreesOK
<1>4. JobOK(job, parsing', answer)
  <2>1. parsing'.file = f
    BY <1>1
  <2> QED BY <2>1, <1>1 DEF SymbolsInv, JobOK, AskedFile
<1>5. CASE Parsed(f) /\ Present(f) /\ sources[f].mtime <= EntryOf(f).mtime
  <2> DEFINE i == IndexOf(f)
             o == RemoveAt(astCache, i)
             e == astCache[i]
  <2>1. i \in 1..Len(astCache) /\ e.file = f
    BY <1>2, <1>3, <1>5, ParsedIsIn DEF EntryOf
  <2>2. e \in E /\ e = EntryOf(f) /\ o = Others(f)
    BY <2>1, <1>3, ElementOfSeq DEF EntryOf, Others
  <2> HIDE DEF i, o, e
  <2>3. o \in Seq(E)
    BY <1>3, <2>1, WithoutOne DEF o, e
  <2>4. OneEach(o) /\ FilesIn(o) \subseteq FilesIn(astCache) \ {f}
    BY <1>3, <2>1, LeftOut DEF o, e
  <2>5. Append(o, e) \in Seq(E) /\ OneEach(Append(o, e))
    BY <1>3, <2>1, <2>2, <2>3, <2>4, LatestAdded
  <2>6. parsing' = [stage |-> "done", file |-> f, tree |-> e.tree] /\ astCache' = Append(o, e)
    BY <1>1, <1>5, <2>2
  <2>7. TreesOK(sources, tainted, astCache', parsing')
    BY <2>5, <2>6 DEF TreesOK, E
  <2>8. f \notin tainted => e.tree = sources[f].content
    <3>1. e.mtime \in Nat /\ sources[f].mtime \in Nat /\ e.mtime <= sources[f].mtime
      BY <1>2, <2>1, <2>2 DEF E, Sound, Ast, SymbolsInv, SourcesOK, Source
    <3>2. e.mtime = sources[f].mtime
      BY <3>1, <1>5, <2>2
    <3> QED BY <3>2, <2>1, <2>2 DEF E, Sound
  <2> HIDE DEF f
  <2>9. ParsingOK(sources, changed, tainted, parsing')
    BY <1>2, <2>6, <2>8 DEF ParsingOK
  <2> QED BY <1>1, <1>4, <2>7, <2>9, ParserStepKeeps
<1>6. CASE ~ (Parsed(f) /\ Present(f) /\ sources[f].mtime <= EntryOf(f).mtime)
  <2>1. parsing' = [stage |-> "missed", file |-> f, tree |-> Gone] /\ InvalidateTree(f)
    BY <1>1, <1>6
  <2>2. TreesOK(sources, tainted, astCache', parsing')
    BY <1>2, <2>1, Invalidated DEF TreesOK
  <2> HIDE DEF f
  <2>3. ParsingOK(sources, changed, tainted, parsing')
    BY <1>2, <2>1 DEF ParsingOK
  <2> QED BY <1>1, <1>4, <2>2, <2>3, ParserStepKeeps
<1> QED BY <1>5, <1>6

LEMMA ReadSourceOK ==
  ASSUME SymbolsInv, ReadSource, UNCHANGED <<job, results, answer, changed>>
  PROVE  SymbolsInv'
<1> DEFINE f == parsing.file
<1>1. /\ parsing.stage = "missed"
      /\ parsing' = [stage |-> IF Present(f) THEN "parsed" ELSE "done", file |-> f,
                     tree |-> sources[f].content]
      /\ UNCHANGED <<sources, clock, astCache, tainted>>
  BY DEF ReadSource, SymbolsInv, ParsingOK
<1>2. f \in SourceFile /\ sources[f].content \in Tree \cup {Gone}
  BY <1>1 DEF SymbolsInv, ParsingOK, SourcesOK, Source
<1>3. TreesOK(sources, tainted, astCache', parsing')
  BY <1>1 DEF SymbolsInv, TreesOK
<1>4. ParsingOK(sources, changed, tainted, parsing')
  <2> HIDE DEF f
  <2> QED BY <1>1, <1>2 DEF ParsingOK, Present
<1>5. JobOK(job, parsing', answer)
  BY <1>1 DEF SymbolsInv, JobOK, NoParse
<1> QED BY <1>1, <1>3, <1>4, <1>5, ParserStepKeeps

LEMMA StoreTreeOK ==
  ASSUME SymbolsInv, StoreTree, UNCHANGED <<job, results, answer, changed>>
  PROVE  SymbolsInv'
<1> DEFINE f == parsing.file
           E == Sound(sources, tainted)
           added == SizeAdded(parsing.tree)
           old == [entries |-> astCache, size |-> cacheSize]
           e == [file |-> f, tree |-> parsing.tree, mtime |-> sources[f].mtime]
<1>1. PICK c \in Relieved(old) :
        /\ IF Present(f)
           THEN /\ astCache' = Append(MadeRoom(c, added).entries, e)
                /\ parsing' = [parsing EXCEPT !.stage = "done"]
           ELSE /\ astCache' = c.entries
                /\ parsing' = [parsing EXCEPT !.stage = "done", !.tree = Gone]
  BY DEF StoreTree
<1>2. parsing.stage = "parsed" /\ UNCHANGED <<sources, clock, tainted>>
  BY DEF StoreTree
<1>3. /\ f \in SourceFile /\ parsing.tree \in Tree /\ f \notin FilesIn(astCache)
      /\ f \notin tainted => parsing.tree = sources[f].content
      /\ sources[f].mtime \in Nat
      /\ parsing = [stage |-> "parsed", file |-> f, tree |-> parsing.tree]
  BY <1>2 DEF SymbolsInv, ParsingOK, TreesOK, SourcesOK, Source
<1>4. E \in SUBSET Ast /\ astCache \in Seq(E) /\ astCache \in Seq(Ast) /\ OneEach(astCache)
  BY SoundAreAst, SeqMonotonic DEF SymbolsInv, TreesOK
<1>5. added \in Nat
  BY <1>3, ParserAssumption, FS_CardinalityType DEF Tree, SizeAdded
<1>6. old.entries = astCache
  OBVIOUS
<1> HIDE DEF E, added, old
<1>7. Less(c, old) /\ c.entries \in Seq(Ast)
  BY <1>4, <1>6, RelievedIsLess, LessIsCache
<1>8. Suffix(c.entries, astCache)
  BY <1>6, <1>7 DEF Less
<1>9. Suffix(MadeRoom(c, added).entries, astCache)
  <2>1. Less(MadeRoom(c, added), c)
    BY <1>5, <1>7, MadeRoomIsLess
  <2> QED BY <2>1, <1>4, <1>8, SuffixOfSuffix DEF Less
<1>10. CASE Present(f)
  <2> DEFINE s == MadeRoom(c, added).entries
  <2>1. s \in Seq(E) /\ OneEach(s) /\ FilesIn(s) \subseteq FilesIn(astCache)
    BY <1>4, <1>9, SuffixKeeps
  <2>2. e \in E
    BY <1>3 DEF E, Sound, Ast
  <2>3. e.file \notin FilesIn(s)
    BY <1>3, <2>1
  <2>4. astCache' = Append(s, e) /\ parsing' = [stage |-> "done", file |-> f, tree |-> parsing.tree]
    BY <1>1, <1>3, <1>10
  <2> HIDE DEF s, e
  <2>5. Append(s, e) \in Seq(E) /\ OneEach(Append(s, e))
    BY <1>4, <2>1, <2>2, <2>3, LatestAdded
  <2>6. TreesOK(sources, tainted, astCache', parsing')
    BY <2>4, <2>5 DEF TreesOK, E
  <2>7. ParsingOK(sources, changed, tainted, parsing')
    <3> HIDE DEF f
    <3> QED BY <1>3, <2>4 DEF ParsingOK
  <2>8. JobOK(job, parsing', answer)
    BY <1>2, <2>4 DEF SymbolsInv, JobOK, NoParse
  <2> QED BY <1>2, <2>6, <2>7, <2>8, ParserStepKeeps
<1>11. CASE ~Present(f)
  <2>1. c.entries \in Seq(E) /\ OneEach(c.entries)
    BY <1>4, <1>8, SuffixKeeps
  <2>2. astCache' = c.entries /\ parsing' = [stage |-> "done", file |-> f, tree |-> Gone]
    BY <1>1, <1>3, <1>11
  <2>3. TreesOK(sources, tainted, astCache', parsing')
    BY <2>1, <2>2 DEF TreesOK, E
  <2>4. ParsingOK(sources, changed, tainted, parsing')
    <3> HIDE DEF f
    <3> QED BY <1>3, <1>11, <2>2 DEF ParsingOK, Present
  <2>5. JobOK(job, parsing', answer)
    BY <1>2, <2>2 DEF SymbolsInv, JobOK, NoParse
  <2> QED BY <1>2, <2>3, <2>4, <2>5, ParserStepKeeps
<1> QED BY <1>10, <1>11

-----------------------------------------------------------------------------
(* The calls                                                               *)

LEMMA StampsOfKey ==
  ASSUME NEW r \in Requests, SourcesOK(sources, clock)
  PROVE  /\ Stamps(sources, CacheKey(r), r)
         /\ \A s \in CacheKey(r).files : s[2] = TimeIn(sources, s[1])
<1> DEFINE F == {<<f, TimeOf(f)>> : f \in ToSet(r.files)}
<1>1. CacheKey(r) = [files |-> F, kinds |-> r.kinds, target |-> r.target]
  BY DEF CacheKey
<1>2. \A f \in ToSet(r.files) : f \in SourceFile
  <2>1. r.files \in Seq(SourceFile)
    BY SymbolsAssumption
  <2> QED BY <2>1, LenProperties, ElementOfSeq DEF ToSet
<1>3. \A f : TimeOf(f) = TimeIn(sources, f)
  BY DEF TimeOf, TimeIn, Present
<1>4. ASSUME NEW s \in F
      PROVE  /\ s[1] \in ToSet(r.files) /\ s[2] = TimeIn(sources, s[1])
             /\ s[2] <= sources[s[1]].mtime /\ s[2] \in Nat
  <2>1. PICK f \in ToSet(r.files) : s = <<f, TimeOf(f)>>
    OBVIOUS
  <2>2. sources[f].mtime \in Nat
    BY <1>2 DEF SourcesOK, Source
  <2>3. TimeIn(sources, f) \in Nat /\ TimeIn(sources, f) <= sources[f].mtime
    BY <2>2 DEF TimeIn
  <2>4. s[1] = f /\ s[2] = TimeIn(sources, f)
    BY <2>1, <1>3
  <2> QED BY <2>3, <2>4
<1>5. ASSUME NEW f \in ToSet(r.files) PROVE \E s \in F : s[1] = f
  <2>1. <<f, TimeOf(f)>> \in F /\ <<f, TimeOf(f)>>[1] = f
    OBVIOUS
  <2> QED BY <2>1
<1> HIDE DEF F
<1> QED BY <1>1, <1>4, <1>5 DEF Stamps

LEMMA ResolveSymbolsOK ==
  ASSUME SymbolsInv, OrdersAgree, NEW r \in Requests, ResolveSymbols(r)
  PROVE  SymbolsInv'
<1>1. /\ job.stage = "none" /\ changed' = {} /\ UNCHANGED <<parserVars, results>>
      /\ parsing = NoParse /\ SourcesOK(sources, clock)
  BY DEF ResolveSymbols, SymbolsInv, JobOK
<1>2. UNCHANGED <<sources, clock, tainted, astCache, parsing>>
  BY <1>1 DEF parserVars
<1>3. r.files \in Seq(SourceFile)
  BY SymbolsAssumption
<1>4. /\ SourcesOK(sources, clock)' /\ TreesOK(sources, tainted, astCache, parsing)'
      /\ ParsingOK(sources, changed, tainted, parsing)' /\ ResultsOK(sources, tainted, results)'
  <2>1. ParsingOK(sources, {}, tainted, NoParse)
    BY DEF ParsingOK, NoParse
  <2> QED BY <1>1, <1>2, <2>1 DEF SymbolsInv
<1>5. CASE CacheKey(r) \in DOMAIN results
  <2> DEFINE k == CacheKey(r)
             q == results[k].request
             a == [request |-> r, symbols |-> results[k].symbols,
                   references |-> results[k].references, errors |-> results[k].errors]
  <2>1. /\ IsAnswer(results[k]) /\ Stamps(sources, k, q)
        /\ Ready(sources, tainted, q) /\ Fresh(sources, k) => Right(sources, results[k])
    BY <1>5 DEF SymbolsInv, ResultsOK
  <2>2. answer' = a /\ job' = job
    BY <1>5, <2>1 DEF ResolveSymbols, IsAnswer
  <2>3. Stamps(sources, k, r) /\ \A s \in k.files : s[2] = TimeIn(sources, s[1])
    BY <1>1, StampsOfKey
  <2>4. q \in Requests
    BY <2>1 DEF IsAnswer
  <2>5. a.request = r /\ a.symbols = results[k].symbols /\ a.errors = results[k].errors /\ IsAnswer(a)
    BY DEF IsAnswer
  <2> HIDE DEF k, q, a
  <2>6. q.kinds = r.kinds /\ q.target = r.target /\ ToSet(q.files) = ToSet(r.files)
    <3>1. k.kinds = q.kinds /\ k.kinds = r.kinds /\ k.target = q.target /\ k.target = r.target
      BY <2>1, <2>3 DEF Stamps
    <3>2. \A f : f \in ToSet(q.files) <=> \E s \in k.files : s[1] = f
      BY <2>1 DEF Stamps
    <3>3. \A f : f \in ToSet(r.files) <=> \E s \in k.files : s[1] = f
      BY <2>3 DEF Stamps
    <3> QED BY <3>1, <3>2, <3>3
  <2>7. q.files = r.files
    BY <2>4, <2>6 DEF OrdersAgree
  <2>8. ASSUME Calm(sources, {}, tainted, r) PROVE Right(sources, a)
    <3>1. Ready(sources, tainted, q)
      BY <2>7, <2>8 DEF Calm, Ready
    <3>2. Fresh(sources, k)
      BY <2>3, <2>8 DEF Fresh, Stamps, Calm, Ready, TimeIn
    <3>3. results[k].symbols = FirstWanted(sources, q, Len(r.files)) /\ results[k].errors = {}
      BY <2>1, <2>7, <3>1, <3>2 DEF Right, q
    <3>4. FirstWanted(sources, q, Len(r.files)) = FirstWanted(sources, r, Len(r.files))
      <4>1. Len(r.files) \in 0..Len(r.files)
        BY <1>3, LenProperties
      <4> QED BY <4>1, <1>3, <2>6, <2>7, SameWanted
    <3> QED BY <2>5, <3>3, <3>4 DEF Right
  <2>9. AnswerOK(sources, changed, tainted, answer)'
    BY <1>1, <1>2, <2>2, <2>5, <2>8 DEF AnswerOK
  <2>10. /\ FoundOK(sources, changed, tainted, job)' /\ KeyOK(sources, changed, job)'
         /\ JobOK(job, parsing, answer)'
    BY <1>1, <1>2, <2>2 DEF FoundOK, KeyOK, SymbolsInv, JobOK
  <2> QED BY <1>4, <2>9, <2>10 DEF SymbolsInv
<1>6. CASE CacheKey(r) \notin DOMAIN results
  <2> DEFINE k == CacheKey(r)
             st == IF r.files = <<>> THEN "done" ELSE "parse"
             j == [stage |-> st, request |-> r, key |-> k, todo |-> r.files,
                   symbols |-> {}, references |-> {}, errors |-> {}]
  <2>1. job' = j /\ answer' = Gone
    BY <1>6 DEF ResolveSymbols, NoJob
  <2>2. Stamps(sources, k, r) /\ \A s \in k.files : s[2] = TimeIn(sources, s[1])
    BY <1>1, StampsOfKey
  <2>3. /\ j.stage = st /\ j.request = r /\ j.key = k /\ j.todo = r.files /\ j.symbols = {}
        /\ j.errors = {}
        /\ j = [stage |-> j.stage, request |-> j.request, key |-> j.key, todo |-> j.todo,
                symbols |-> j.symbols, references |-> j.references, errors |-> j.errors]
    OBVIOUS
  <2>4. /\ st \in {"parse", "done"} /\ (st = "done" <=> r.files = <<>>)
    OBVIOUS
  <2>5. Len(r.files) \in Nat /\ r.files = SubSeq(r.files, 0 + 1, Len(r.files))
    BY <1>3, SubSeqFull, LenProperties
  <2>6. \E i \in 0..Len(r.files) : r.files = SubSeq(r.files, i + 1, Len(r.files))
    <3>1. 0 \in 0..Len(r.files)
      BY <2>5
    <3> QED BY <2>5, <3>1
  <2> HIDE DEF k, st, j
  <2>7. JobOK(j, NoParse, Gone)
    BY <2>3, <2>4, <2>6 DEF JobOK, NoParse
  <2>8. KeyOK(sources, {}, j)
    BY <2>2, <2>3 DEF KeyOK
  <2>9. Handled(j) = 0
    BY <2>3, <2>5 DEF Handled
  <2>10. FoundOK(sources, {}, tainted, j)
    BY <2>3, <2>4, <2>9, FirstWantedNone DEF FoundOK
  <2>11. AnswerOK(sources, {}, tainted, Gone)
    BY DEF AnswerOK
  <2> QED BY <1>1, <1>2, <1>4, <2>1, <2>7, <2>8, <2>10, <2>11 DEF SymbolsInv
<1> QED BY <1>5, <1>6

(* What is left alone while the files are looked through                   *)
LEMMA JobStepKeeps ==
  ASSUME SymbolsInv, UNCHANGED <<sources, clock, astCache, tainted, changed, results, answer>>,
         job.stage # "none", job'.request = job.request, job'.key = job.key,
         \/ parsing' = parsing
         \/ parsing' = NoParse,
         JobOK(job', parsing', answer), FoundOK(sources, changed, tainted, job')
  PROVE  SymbolsInv'
<1>1. TreesOK(sources, tainted, astCache, parsing') /\ ParsingOK(sources, changed, tainted, parsing')
  BY DEF SymbolsInv, TreesOK, ParsingOK, NoParse
<1>2. KeyOK(sources, changed, job')
  BY DEF SymbolsInv, KeyOK
<1> QED BY <1>1, <1>2 DEF SymbolsInv

(* The file that is looked through                                         *)
LEMMA Asked ==
  ASSUME SymbolsInv, job.stage \in {"parse", "references"}
  PROVE  LET s == job.request.files
             k == Handled(job)
         IN  /\ s \in Seq(SourceFile) /\ Len(s) \in Nat /\ k \in 0 .. Len(s) - 1
             /\ job.request \in Requests /\ answer = Gone
             /\ AskedFile = s[k + 1] /\ AskedFile \in SourceFile /\ AskedFile \in ToSet(s)
             /\ Tail(job.todo) = SubSeq(s, (k + 1) + 1, Len(s))
             /\ Len(job.todo) = Len(s) - k /\ Len(Tail(job.todo)) = Len(s) - (k + 1)
             /\ Tail(job.todo) = <<>> <=> k + 1 = Len(s)
<1> DEFINE s == job.request.files
<1>1. job.request \in Requests /\ answer = Gone /\ job.todo # <<>>
  BY DEF SymbolsInv, JobOK
<1>2. PICK k \in 0..Len(s) : job.todo = SubSeq(s, k + 1, Len(s))
  BY DEF SymbolsInv, JobOK
<1>3. s \in Seq(SourceFile) /\ Len(s) \in Nat
  BY <1>1, SymbolsAssumption, LenProperties
<1>4. /\ job.todo = <<>> <=> k = Len(s)
      /\ Len(job.todo) = Len(s) - k
      /\ k < Len(s) => Head(job.todo) = s[k + 1] /\ Tail(job.todo) = SubSeq(s, (k + 1) + 1, Len(s))
  <2> HIDE DEF s
  <2> QED BY <1>2, <1>3, LeftToDo
<1>5. k < Len(s) /\ k \in 0 .. Len(s) - 1 /\ k + 1 \in 0..Len(s) /\ k + 1 \in 1..Len(s)
  BY <1>1, <1>3, <1>4
<1> DEFINE u == SubSeq(s, (k + 1) + 1, Len(s))
<1>6. Len(u) = Len(s) - (k + 1) /\ (u = <<>> <=> k + 1 = Len(s))
  BY <1>3, <1>5, LeftToDo
<1> HIDE DEF u
<1>7. Handled(job) = k
  BY <1>3, <1>4, <1>5 DEF Handled
<1>8. s[k + 1] \in SourceFile /\ s[k + 1] \in ToSet(s)
  BY <1>3, <1>5, ElementOfSeq, LenProperties DEF ToSet
<1>9. Tail(job.todo) = u /\ AskedFile = s[k + 1]
  BY <1>4, <1>5 DEF u, AskedFile
<1> HIDE DEF s
<1>10. /\ s \in Seq(SourceFile) /\ Len(s) \in Nat /\ k \in 0 .. Len(s) - 1
       /\ AskedFile = s[k + 1] /\ AskedFile \in SourceFile /\ AskedFile \in ToSet(s)
       /\ Tail(job.todo) = u /\ Len(job.todo) = Len(s) - k /\ Len(u) = Len(s) - (k + 1)
       /\ u = <<>> <=> k + 1 = Len(s)
  BY <1>3, <1>4, <1>5, <1>6, <1>8, <1>9
<1> QED BY <1>1, <1>7, <1>10 DEF s, u

LEMMA ExtractSymbolsOK ==
  ASSUME SymbolsInv, TargetsReached, ExtractSymbols
  PROVE  SymbolsInv'
<1> DEFINE r == job.request
           s == r.files
           k == Handled(job)
           f == AskedFile
<1>1. /\ job.stage = "parse" /\ parsing.stage = "done" /\ parsing.file = f
      /\ UNCHANGED <<sources, clock, astCache, tainted, changed, results, answer>>
  BY DEF ExtractSymbols, SymbolsInv, JobOK, AskedFile
<1>2. /\ s \in Seq(SourceFile) /\ Len(s) \in Nat /\ k \in 0 .. Len(s) - 1
      /\ r \in Requests /\ answer = Gone
      /\ f = s[k + 1] /\ f \in SourceFile /\ f \in ToSet(s)
      /\ Tail(job.todo) = SubSeq(s, (k + 1) + 1, Len(s))
      /\ Len(job.todo) = Len(s) - k /\ Len(Tail(job.todo)) = Len(s) - (k + 1)
      /\ Tail(job.todo) = <<>> <=> k + 1 = Len(s)
  BY <1>1, Asked
<1>3. /\ job = [stage |-> "parse", request |-> r, key |-> job.key, todo |-> job.todo,
                symbols |-> job.symbols, references |-> job.references, errors |-> job.errors]
      /\ job.todo # <<>> /\ Head(job.todo) = f
      /\ \E i \in 0..Len(s) : job.todo = SubSeq(s, i + 1, Len(s))
  BY <1>1 DEF SymbolsInv, JobOK, AskedFile
<1>4. ASSUME Calm(sources, changed, tainted, r)
      PROVE  /\ sources[f].content # Gone /\ parsing.tree = sources[f].content
             /\ job.errors = {} /\ job.symbols = FirstWanted(sources, r, k)
  <2>1. sources[f].content # Gone /\ f \notin tainted /\ f \notin changed
    BY <1>2, <1>4 DEF Calm, Ready
  <2>2. parsing.tree = sources[f].content
    BY <1>1, <2>1 DEF SymbolsInv, ParsingOK
  <2> QED BY <2>1, <2>2, <1>1, <1>4 DEF SymbolsInv, FoundOK
<1>5. CASE parsing.tree = Gone
  <2> DEFINE st == IF r.carryOn THEN NextFile ELSE "done"
             j == [stage |-> st, request |-> r, key |-> job.key, todo |-> Tail(job.todo),
                   symbols |-> job.symbols, references |-> job.references,
                   errors |-> job.errors \cup {f}]
  <2>1. job' = j /\ parsing' = NoParse
    BY <1>3, <1>5 DEF ExtractSymbols
  <2>2. st \in {"parse", "done"} /\ (st = "parse" => Tail(job.todo) # <<>>)
    BY <1>2 DEF NextFile
  <2>3. /\ j.stage = st /\ j.request = r /\ j.key = job.key /\ j.todo = Tail(job.todo)
        /\ j = [stage |-> j.stage, request |-> j.request, key |-> j.key, todo |-> j.todo,
                symbols |-> j.symbols, references |-> j.references, errors |-> j.errors]
    OBVIOUS
  <2>4. \E i \in 0..Len(s) : Tail(job.todo) = SubSeq(s, i + 1, Len(s))
    <3>1. k + 1 \in 0..Len(s)
      BY <1>2
    <3> QED BY <3>1, <1>2
  <2> HIDE DEF st, j
  <2>5. JobOK(j, NoParse, answer)
    BY <1>2, <2>2, <2>3, <2>4 DEF JobOK, NoParse
  <2>6. ~Calm(sources, changed, tainted, r)
    BY <1>4, <1>5
  <2>7. FoundOK(sources, changed, tainted, j)
    BY <2>3, <2>6 DEF FoundOK
  <2> QED BY <1>1, <2>1, <2>3, <2>5, <2>7, JobStepKeeps
<1>6. CASE parsing.tree # Gone
  <2> DEFINE w == Replace(job.symbols, f, Cut(f, parsing.tree, SymbolsOf(parsing.tree, r)))
             j == [stage |-> "references", request |-> r, key |-> job.key, todo |-> job.todo,
                   symbols |-> w, references |-> job.references, errors |-> job.errors]
  <2>1. job' = j /\ parsing' = parsing
    BY <1>3, <1>6 DEF ExtractSymbols
  <2>2. /\ j.stage = "references" /\ j.request = r /\ j.key = job.key /\ j.todo = job.todo
        /\ j.symbols = w /\ j.errors = job.errors
        /\ j = [stage |-> j.stage, request |-> j.request, key |-> j.key, todo |-> j.todo,
                symbols |-> j.symbols, references |-> j.references, errors |-> j.errors]
    OBVIOUS
  <2> HIDE DEF w, j
  <2>3. JobOK(j, parsing, answer)
    BY <1>1, <1>2, <1>3, <2>2 DEF JobOK
  <2>4. ASSUME Calm(sources, changed, tainted, r)
        PROVE  w = FirstWanted(sources, r, k + 1)
    <3>1. sources[f].content \in Tree
      BY <1>2, <1>4, <2>4 DEF SymbolsInv, SourcesOK, Source
    <3>2. Cut(f, parsing.tree, SymbolsOf(parsing.tree, r)) = KeysIn(sources, f, r)
      BY <1>2, <1>4, <2>4, <3>1, AllFound DEF Cut, KeysIn, Present
    <3>3. w = Replace(FirstWanted(sources, r, k), s[k + 1], KeysIn(sources, s[k + 1], r))
      BY <1>2, <1>4, <2>4, <3>2 DEF w
    <3>4. k \in Nat
      BY <1>2
    <3> QED BY <3>3, <3>4, NextWanted
  <2>5. Handled(j) = k
    BY <2>2 DEF Handled
  <2>6. FoundOK(sources, changed, tainted, j)
    BY <1>4, <2>2, <2>4, <2>5 DEF FoundOK
  <2> QED BY <1>1, <2>1, <2>2, <2>3, <2>6, JobStepKeeps
<1> QED BY <1>5, <1>6

LEMMA ExtractReferencesOK ==
  ASSUME SymbolsInv, ExtractReferences
  PROVE  SymbolsInv'
<1> DEFINE r == job.request
           s == r.files
           k == Handled(job)
           x == job'.references
           j == [stage |-> NextFile, request |-> r, key |-> job.key, todo |-> Tail(job.todo),
                 symbols |-> job.symbols, references |-> x, errors |-> job.errors]
<1>1. /\ job.stage = "references" /\ parsing' = NoParse
      /\ UNCHANGED <<sources, clock, astCache, tainted, changed, results, answer>>
  BY DEF ExtractReferences
<1>2. /\ s \in Seq(SourceFile) /\ Len(s) \in Nat /\ k \in 0 .. Len(s) - 1
      /\ r \in Requests /\ answer = Gone
      /\ Tail(job.todo) = SubSeq(s, (k + 1) + 1, Len(s))
      /\ Len(job.todo) = Len(s) - k /\ Len(Tail(job.todo)) = Len(s) - (k + 1)
      /\ Tail(job.todo) = <<>> <=> k + 1 = Len(s)
  BY <1>1, Asked
<1>3. job' = j
  <2>1. job = [stage |-> job.stage, request |-> r, key |-> job.key, todo |-> job.todo,
               symbols |-> job.symbols, references |-> job.references, errors |-> job.errors]
    BY DEF SymbolsInv, JobOK
  <2> QED BY <2>1 DEF ExtractReferences
<1>4. /\ NextFile \in {"parse", "done"} /\ (NextFile = "parse" <=> Tail(job.todo) # <<>>)
  BY <1>2 DEF NextFile
<1>5. /\ j.stage = NextFile /\ j.request = r /\ j.key = job.key /\ j.todo = Tail(job.todo)
      /\ j.symbols = job.symbols /\ j.errors = job.errors
      /\ j = [stage |-> j.stage, request |-> j.request, key |-> j.key, todo |-> j.todo,
              symbols |-> j.symbols, references |-> j.references, errors |-> j.errors]
  OBVIOUS
<1>6. \E i \in 0..Len(s) : Tail(job.todo) = SubSeq(s, i + 1, Len(s))
  <2>1. k + 1 \in 0..Len(s)
    BY <1>2
  <2> QED BY <2>1, <1>2
<1> HIDE DEF j, x
<1>7. JobOK(j, NoParse, answer)
  BY <1>2, <1>4, <1>5, <1>6 DEF JobOK, NoParse
<1>8. Handled(j) = k + 1
  <2>1. Handled(j) = Len(s) - (Len(s) - (k + 1))
    BY <1>2, <1>5 DEF Handled
  <2>2. Len(s) \in Nat /\ k \in Int
    BY <1>2
  <2> HIDE DEF s, k
  <2> QED BY <2>1, <2>2
<1>9. FoundOK(sources, changed, tainted, j)
  <2>1. ASSUME Calm(sources, changed, tainted, r)
        PROVE  job.errors = {} /\ job.symbols = FirstWanted(sources, r, k + 1)
    BY <1>1, <2>1 DEF SymbolsInv, FoundOK
  <2> QED BY <2>1, <1>4, <1>5, <1>8 DEF FoundOK
<1> QED BY <1>1, <1>3, <1>5, <1>7, <1>9, JobStepKeeps

LEMMA CacheResultOK ==
  ASSUME SymbolsInv, CacheResult
  PROVE  SymbolsInv'
<1> DEFINE r == job.request
           e == [request |-> r, symbols |-> job.symbols, references |-> job.references,
                 errors |-> job.errors]
<1>1. /\ job.stage = "done" /\ job' = NoJob /\ answer' = e
      /\ results' = [k \in DOMAIN results \cup {job.key} |-> IF k = job.key THEN e ELSE results[k]]
      /\ UNCHANGED <<parserVars, changed>>
  BY DEF CacheResult
<1>2. UNCHANGED <<sources, clock, tainted, astCache, parsing, changed>>
  BY <1>1 DEF parserVars
<1>3. r \in Requests /\ parsing = NoParse /\ r.files \in Seq(SourceFile)
  BY <1>1, SymbolsAssumption DEF SymbolsInv, JobOK
<1>4. IsAnswer(e) /\ e.request = r /\ e.symbols = job.symbols /\ e.errors = job.errors
  BY <1>3 DEF IsAnswer
<1> HIDE DEF e
<1>5. ASSUME Calm(sources, changed, tainted, r) PROVE Right(sources, e)
  <2>1. job.errors = {} /\ job.todo = <<>> /\ job.symbols = FirstWanted(sources, r, Handled(job))
    BY <1>1, <1>5 DEF SymbolsInv, FoundOK
  <2>2. Handled(job) = Len(r.files)
    <3>1. Len(r.files) \in Nat /\ Len(job.todo) = 0
      BY <1>3, <2>1, LenProperties
    <3> QED BY <3>1 DEF Handled
  <2> QED BY <2>1, <2>2, <1>4 DEF Right
<1>6. /\ Stamps(sources, job.key, r)
      /\ \A s \in job.key.files : s[1] \in changed => s[2] < sources[s[1]].mtime
  BY <1>1 DEF SymbolsInv, KeyOK
<1>7. ASSUME Ready(sources, tainted, r), Fresh(sources, job.key) PROVE Right(sources, e)
  <2>1. ASSUME NEW f \in ToSet(r.files) PROVE f \notin changed
    <3>1. PICK s \in job.key.files : s[1] = f
      BY <1>6 DEF Stamps
    <3>2. s[2] = sources[f].mtime /\ s[2] \in Nat
      BY <3>1, <1>6, <1>7 DEF Fresh, Stamps
    <3> QED BY <3>1, <3>2, <1>6
  <2> QED BY <2>1, <1>5, <1>7 DEF Calm
<1>8. ResultsOK(sources, tainted, results')
  <2> SUFFICES ASSUME NEW k \in DOMAIN results'
               PROVE  /\ IsAnswer(results'[k]) /\ Stamps(sources, k, results'[k].request)
                      /\ Ready(sources, tainted, results'[k].request) /\ Fresh(sources, k)
                           => Right(sources, results'[k])
    BY DEF ResultsOK
  <2>1. CASE k = job.key
    <3>1. results'[k] = e
      BY <1>1, <2>1
    <3> QED BY <3>1, <2>1, <1>4, <1>6, <1>7
  <2>2. CASE k # job.key
    <3>1. k \in DOMAIN results /\ results'[k] = results[k]
      BY <1>1, <2>2
    <3> QED BY <3>1 DEF SymbolsInv, ResultsOK
  <2> QED BY <2>1, <2>2
<1>9. AnswerOK(sources, changed, tainted, answer')
  BY <1>1, <1>4, <1>5 DEF AnswerOK
<1>10. /\ JobOK(NoJob, NoParse, answer') /\ FoundOK(sources, changed, tainted, NoJob)
       /\ KeyOK(sources, changed, NoJob)
  BY DEF JobOK, NoJob, FoundOK, KeyOK
<1> QED BY <1>1, <1>2, <1>3, <1>8, <1>9, <1>10 DEF SymbolsInv

LEMMA ReanalyzeFileOK ==
  ASSUME SymbolsInv, NEW f \in SourceFile, ReanalyzeFile(f)
  PROVE  SymbolsInv'
<1>1. /\ job.stage = "none" /\ InvalidateTree(f) /\ parsing = NoParse
      /\ UNCHANGED <<sources, clock, parsing, tainted, job, results, answer, changed>>
  BY DEF ReanalyzeFile, SymbolsInv, JobOK
<1>2. astCache' \in Seq(Sound(sources, tainted)) /\ OneEach(astCache')
  BY <1>1, Invalidated
<1>3. TreesOK(sources, tainted, astCache', parsing')
  BY <1>1, <1>2 DEF TreesOK, NoParse
<1> QED BY <1>1, <1>3 DEF SymbolsInv

LEMMA StampsStay ==
  ASSUME NEW a, NEW b, NEW k, NEW r \in Requests, Stamps(a, k, r),
         \A f \in SourceFile : a[f].mtime \in Nat /\ b[f].mtime \in Nat /\ a[f].mtime <= b[f].mtime
  PROVE  Stamps(b, k, r)
<1>1. \A f \in ToSet(r.files) : f \in SourceFile
  <2>1. r.files \in Seq(SourceFile)
    BY SymbolsAssumption
  <2> QED BY <2>1, LenProperties, ElementOfSeq DEF ToSet
<1>2. ASSUME NEW s \in k.files PROVE s[1] \in ToSet(r.files) /\ s[2] <= b[s[1]].mtime /\ s[2] \in Nat
  <2>1. s[1] \in ToSet(r.files) /\ s[2] <= a[s[1]].mtime /\ s[2] \in Nat
    BY DEF Stamps
  <2>2. a[s[1]].mtime \in Nat /\ b[s[1]].mtime \in Nat /\ a[s[1]].mtime <= b[s[1]].mtime
    BY <2>1, <1>1
  <2> QED BY <2>1, <2>2
<1> QED BY <1>2 DEF Stamps

LEMMA RightStays ==
  ASSUME NEW a, NEW b, NEW e, IsAnswer(e), Right(a, e),
         \A f \in ToSet(e.request.files) : b[f] = a[f]
  PROVE  Right(b, e)
<1> DEFINE r == e.request
           n == Len(r.files)
<1>1. r.files \in Seq(SourceFile) /\ \A f \in ToSet(r.files) : b[f] = a[f]
  BY SymbolsAssumption DEF IsAnswer
<1>2. n \in 0..Len(r.files)
  BY <1>1, LenProperties
<1>3. Right(a, e) <=> e.symbols = FirstWanted(a, r, n) /\ e.errors = {}
  BY DEF Right
<1>4. Right(b, e) <=> e.symbols = FirstWanted(b, r, n) /\ e.errors = {}
  BY DEF Right
<1> HIDE DEF r, n
<1>5. FirstWanted(b, r, n) = FirstWanted(a, r, n)
  BY <1>1, <1>2, SameWanted
<1> QED BY <1>3, <1>4, <1>5

LEMMA EditFileOK ==
  ASSUME SymbolsInv, NEW f \in SourceFile, EditFile(f)
  PROVE  SymbolsInv'
<1> DEFINE hit == parsing.stage = "parsed" /\ parsing.file = f
<1>1. PICK c \in Contents[f] \cup {Gone} :
        sources' = [sources EXCEPT ![f] = [content |-> c, mtime |-> clock + 1]]
  BY DEF EditFile, Edit
<1>2. /\ clock' = clock + 1 /\ changed' = changed \cup {f}
      /\ tainted' = IF hit THEN tainted \cup {f} ELSE tainted \ {f}
      /\ UNCHANGED <<astCache, parsing, job, results, answer>>
  BY DEF EditFile, Edit
<1>3. /\ sources \in [SourceFile -> Source] /\ clock \in Nat
      /\ \A g \in SourceFile : /\ sources[g].mtime \in Nat
                               /\ 1 <= sources[g].mtime /\ sources[g].mtime <= clock
  BY DEF SymbolsInv, SourcesOK, Source
<1>4. /\ sources'[f].mtime = clock + 1 /\ sources' \in [SourceFile -> Source]
      /\ \A g : g # f => sources'[g] = sources[g]
  <2>1. [content |-> c, mtime |-> clock + 1] \in Source
    BY <1>3 DEF Source, Tree
  <2>2. \A g : g # f => [sources EXCEPT ![f] = [content |-> c, mtime |-> clock + 1]][g] = sources[g]
    OBVIOUS
  <2> QED BY <1>1, <1>3, <2>1
<1>5. \A g : g # f => (g \in tainted' <=> g \in tainted) /\ (g \in changed' <=> g \in changed)
  BY <1>2
<1>6. /\ f \in changed'
      /\ \A g \in SourceFile : /\ sources[g].mtime \in Nat /\ sources'[g].mtime \in Nat
                               /\ sources[g].mtime <= sources'[g].mtime
  BY <1>2, <1>3, <1>4
<1>7. sources[f].mtime < sources'[f].mtime
  BY <1>3, <1>4
<1>8. SourcesOK(sources', clock')
  BY <1>2, <1>3, <1>4 DEF SourcesOK
<1>9. TreesOK(sources', tainted', astCache', parsing')
  <2>1. ASSUME NEW e \in Sound(sources, tainted) PROVE e \in Sound(sources', tainted')
    <3>1. e \in Ast /\ e.file \in SourceFile /\ e.mtime \in Nat /\ e.mtime <= sources[e.file].mtime
      BY DEF Sound, Ast
    <3>2. CASE e.file = f
      <4>1. e.mtime <= clock /\ sources'[e.file].mtime = clock + 1
        BY <3>1, <3>2, <1>3, <1>4
      <4>2. e.mtime <= sources'[e.file].mtime /\ e.mtime # sources'[e.file].mtime
        BY <4>1, <3>1, <1>3
      <4> QED BY <3>1, <4>2 DEF Sound
    <3>3. CASE e.file # f
      BY <3>1, <3>3, <1>4, <1>5 DEF Sound
    <3> QED BY <3>2, <3>3
  <2>2. astCache \in Seq(Sound(sources', tainted'))
    BY <2>1, SeqMonotonic DEF SymbolsInv, TreesOK
  <2> QED BY <1>2, <2>2 DEF SymbolsInv, TreesOK
<1>10. ParsingOK(sources', changed', tainted', parsing')
  <2>1. ParsingOK(sources, changed, tainted, parsing)
    BY DEF SymbolsInv
  <2>2. CASE parsing.file = f
    BY <2>1, <2>2, <1>2 DEF ParsingOK
  <2>3. CASE parsing.file # f
    BY <2>1, <2>3, <1>2, <1>4, <1>5 DEF ParsingOK
  <2> QED BY <2>2, <2>3
<1>11. \A r : Calm(sources', changed', tainted', r) => f \notin ToSet(r.files)
  BY <1>6 DEF Calm
<1>12. \A r : f \notin ToSet(r.files) => /\ \A g \in ToSet(r.files) : sources'[g] = sources[g]
                                         /\ Ready(sources', tainted', r) => Ready(sources, tainted, r)
  BY <1>4, <1>5 DEF Ready
<1>13. \A r : Calm(sources', changed', tainted', r) => Calm(sources, changed, tainted, r)
  BY <1>2, <1>11, <1>12 DEF Calm
<1>14. FoundOK(sources', changed', tainted', job')
  <2> DEFINE r == job.request
             m == IF job.stage = "references" THEN Handled(job) + 1 ELSE Handled(job)
  <2>1. SUFFICES ASSUME job.stage # "none", Calm(sources', changed', tainted', r)
                 PROVE  /\ job.errors = {}
                        /\ job.stage = "done" => job.todo = <<>>
                        /\ job.symbols = FirstWanted(sources', r, m)
    BY <1>2 DEF FoundOK
  <2>2. /\ job.errors = {}
        /\ job.stage = "done" => job.todo = <<>>
        /\ job.symbols = FirstWanted(sources, r, m)
    BY <2>1, <1>13 DEF SymbolsInv, FoundOK
  <2>3. r \in Requests /\ r.files \in Seq(SourceFile)
    BY <2>1, SymbolsAssumption DEF SymbolsInv, JobOK
  <2>4. m \in 0..Len(r.files)
    <3>1. CASE job.stage \in {"parse", "references"}
      <4>1. Handled(job) \in 0 .. Len(r.files) - 1 /\ Len(r.files) \in Nat
        BY <3>1, Asked
      <4> QED BY <4>1
    <3>2. CASE job.stage = "done"
      <4>1. Len(job.todo) = 0 /\ Len(r.files) \in Nat
        BY <3>2, <2>2, <2>3, LenProperties
      <4> QED BY <4>1, <3>2 DEF Handled
    <3> QED BY <3>1, <3>2, <2>1 DEF SymbolsInv, JobOK
  <2>5. \A g \in ToSet(r.files) : sources'[g] = sources[g]
    BY <2>1, <1>11, <1>12
  <2> HIDE DEF m, r
  <2>6. FirstWanted(sources', r, m) = FirstWanted(sources, r, m)
    BY <2>3, <2>4, <2>5, SameWanted
  <2> QED BY <2>2, <2>6
<1>15. KeyOK(sources', changed', job')
  <2>1. SUFFICES ASSUME job.stage # "none"
                 PROVE  /\ Stamps(sources', job.key, job.request)
                        /\ \A s \in job.key.files : IF s[1] \in changed' THEN s[2] < sources'[s[1]].mtime
                                                    ELSE s[2] = TimeIn(sources', s[1])
    BY <1>2 DEF KeyOK
  <2>2. /\ Stamps(sources, job.key, job.request) /\ job.request \in Requests
        /\ \A s \in job.key.files : IF s[1] \in changed THEN s[2] < sources[s[1]].mtime
                                    ELSE s[2] = TimeIn(sources, s[1])
    BY <2>1 DEF SymbolsInv, KeyOK, JobOK
  <2>3. Stamps(sources', job.key, job.request)
    BY <2>2, <1>6, StampsStay
  <2>4. ASSUME NEW s \in job.key.files
        PROVE  IF s[1] \in changed' THEN s[2] < sources'[s[1]].mtime ELSE s[2] = TimeIn(sources', s[1])
    <3>1. s[2] <= sources[s[1]].mtime /\ s[2] \in Nat
      BY <2>2 DEF Stamps
    <3>2. CASE s[1] = f
      BY <3>1, <3>2, <1>3, <1>4, <1>6
    <3>3. CASE s[1] # f
      BY <3>3, <2>2, <1>4, <1>5 DEF TimeIn
    <3> QED BY <3>2, <3>3
  <2> QED BY <2>3, <2>4
<1>16. ResultsOK(sources', tainted', results')
  <2> SUFFICES ASSUME NEW k \in DOMAIN results
               PROVE  /\ IsAnswer(results[k]) /\ Stamps(sources', k, results[k].request)
                      /\ Ready(sources', tainted', results[k].request) /\ Fresh(sources', k)
                           => Right(sources', results[k])
    BY <1>2 DEF ResultsOK
  <2> DEFINE e == results[k]
             r == e.request
  <2>1. /\ IsAnswer(e) /\ Stamps(sources, k, r) /\ r \in Requests
        /\ Ready(sources, tainted, r) /\ Fresh(sources, k) => Right(sources, e)
    BY DEF SymbolsInv, ResultsOK, IsAnswer
  <2> HIDE DEF e
  <2>2. Stamps(sources', k, r)
    BY <2>1, <1>6, StampsStay
  <2>3. ASSUME Ready(sources', tainted', r), Fresh(sources', k) PROVE Right(sources', e)
    <3>1. f \notin ToSet(r.files)
      <4>1. SUFFICES ASSUME f \in ToSet(r.files) PROVE FALSE
        OBVIOUS
      <4>2. PICK s \in k.files : s[1] = f
        BY <4>1, <2>1 DEF Stamps
      <4>3. s[2] <= sources[f].mtime /\ s[2] = sources'[f].mtime
        BY <4>2, <2>1, <2>3 DEF Stamps, Fresh
      <4> QED BY <4>3, <1>3, <1>4
    <3>2. Ready(sources, tainted, r) /\ \A g \in ToSet(r.files) : sources'[g] = sources[g]
      BY <3>1, <2>3, <1>12
    <3>3. Fresh(sources, k)
      BY <3>2, <2>1, <2>3 DEF Fresh, Stamps
    <3> QED BY <3>2, <3>3, <2>1, RightStays
  <2> QED BY <2>1, <2>2, <2>3 DEF e
<1>17. AnswerOK(sources', changed', tainted', answer')
  <2>1. SUFFICES ASSUME answer # Gone
                 PROVE  /\ IsAnswer(answer)
                        /\ Calm(sources', changed', tainted', answer.request) => Right(sources', answer)
    BY <1>2 DEF AnswerOK
  <2>2. /\ IsAnswer(answer) /\ answer.request \in Requests
        /\ Calm(sources, changed, tainted, answer.request) => Right(sources, answer)
    BY <2>1 DEF SymbolsInv, AnswerOK, IsAnswer
  <2>3. ASSUME Calm(sources', changed', tainted', answer.request) PROVE Right(sources', answer)
    BY <2>2, <2>3, <1>11, <1>12, <1>13, RightStays
  <2> QED BY <2>2, <2>3
<1>18. JobOK(job', parsing', answer')
  BY <1>2 DEF SymbolsInv
<1> QED BY <1>8, <1>9, <1>10, <1>14, <1>15, <1>16, <1>17, <1>18 DEF SymbolsInv

LEMMA SymbolsStep ==
  ASSUME TargetsReached, OrdersAgree, SymbolsInv, [SymbolsNext]_symbolVars
  PROVE  SymbolsInv'
<1>1. ASSUME NEW r \in Requests, ResolveSymbols(r) PROVE SymbolsInv'
  BY <1>1, ResolveSymbolsOK
<1>2. CASE StartParse
  BY <1>2, StartParseOK
<1>3. CASE GoOnParse
  <2>1. (ReadSource \/ StoreTree) /\ UNCHANGED <<job, results, answer, changed>>
    BY <1>3 DEF GoOnParse, ParseStep
  <2> QED BY <2>1, ReadSourceOK, StoreTreeOK
<1>4. CASE ExtractSymbols
  BY <1>4, ExtractSymbolsOK
<1>5. CASE ExtractReferences
  BY <1>5, ExtractReferencesOK
<1>6. CASE CacheResult
  BY <1>6, CacheResultOK
<1>7. ASSUME NEW f \in SourceFile, EditFile(f) PROVE SymbolsInv'
  BY <1>7, EditFileOK
<1>8. ASSUME NEW f \in SourceFile, ReanalyzeFile(f) PROVE SymbolsInv'
  BY <1>8, ReanalyzeFileOK
<1>9. CASE UNCHANGED symbolVars
  BY <1>9 DEF symbolVars, parserVars, SymbolsInv
<1> QED BY <1>1, <1>2, <1>3, <1>4, <1>5, <1>6, <1>7, <1>8, <1>9 DEF SymbolsNext

LEMMA InvIsCurrent == SymbolsInv => ResultsCurrent
<1> SUFFICES ASSUME SymbolsInv, Undisturbed, \A f \in ToSet(answer.request.files) : Present(f)
             PROVE  answer.symbols = Wanted(answer.request) /\ answer.errors = {}
  BY DEF ResultsCurrent
<1> DEFINE r == answer.request
<1>1. answer # Gone /\ r \in Requests /\ r.files \in Seq(SourceFile)
  BY SymbolsAssumption DEF Undisturbed, SymbolsInv, AnswerOK, IsAnswer
<1>2. Calm(sources, changed, tainted, r)
  BY DEF Undisturbed, Calm, Ready, Present
<1>3. answer.symbols = FirstWanted(sources, r, Len(r.files)) /\ answer.errors = {}
  BY <1>1, <1>2 DEF SymbolsInv, AnswerOK, Right
<1> QED BY <1>1, <1>3, WantedAsFirst

(* A call returns the symbols of its files as they are, whatever an editor *)
(* did before, whatever earlier calls cached and whatever memory pressure  *)
(* took out of the cache of the parser: resolve_symbols, parse_file and    *)
(* _cache_result, however many files, contents, requests and edits.        *)
THEOREM ResultsAreCurrent ==
  ASSUME TargetsReached, OrdersAgree
  PROVE  SymbolsSpec => []ResultsCurrent
<1>1. SymbolsInit => SymbolsInv
  BY SymbolsInvInit
<1>2. SymbolsInv /\ [SymbolsNext]_symbolVars => SymbolsInv'
  BY SymbolsStep
<1>3. SymbolsInv => ResultsCurrent
  BY InvIsCurrent
<1> QED BY <1>1, <1>2, <1>3, PTL DEF SymbolsSpec

-----------------------------------------------------------------------------
(* The size that is kept of the cache                                      *)

SizesInv == SymbolsInv /\ Accounts(astCache, cacheSize)

LEMMA InvalidatedSize ==
  ASSUME SizesInv, NEW f \in SourceFile, InvalidateTree(f)
  PROVE  Accounts(astCache', cacheSize')
<1>1. astCache \in Seq(Ast) /\ Accounts(astCache, cacheSize)
  BY SoundAreAst, SeqMonotonic DEF SizesInv, SymbolsInv, TreesOK
<1>2. CASE Parsed(f)
  <2> DEFINE i == IndexOf(f)
             o == RemoveAt(astCache, i)
             e == astCache[i]
  <2>1. i \in 1..Len(astCache)
    BY <1>1, <1>2, ParsedIsIn
  <2>2. astCache' = o /\ cacheSize' = cacheSize - SizeRemoved(e)
    BY <1>2 DEF InvalidateTree, Others, EntryOf
  <2>3. e \in Ast /\ Len(astCache) \in Nat
    BY <1>1, <2>1, ElementOfSeq, LenProperties
  <2> HIDE DEF i
  <2>4. o \in Seq(Ast) /\ Len(o) = Len(astCache) - 1 /\ SizeOf(o) = SizeOf(astCache) - SizeRemoved(e)
    BY <1>1, <2>1, WithoutOne
  <2> HIDE DEF o, e
  <2>5. SizeRemoved(e) \in Nat /\ SizeOf(astCache) \in Nat
    BY <1>1, <2>3, SizesAreNat, SizeOfAsSizes
  <2>6. cacheSize' = SizeOf(o)
    BY <1>1, <2>2, <2>4 DEF Accounts
  <2>7. ASSUME Len(o) > 1 PROVE cacheSize' <= CacheLimit
    <3>1. SizeOf(astCache) <= CacheLimit
      BY <1>1, <2>3, <2>4, <2>7 DEF Accounts
    <3> QED BY <3>1, <2>4, <2>5, <2>6, ParserAssumption
  <2> QED BY <2>2, <2>6, <2>7 DEF Accounts
<1>3. CASE ~Parsed(f)
  <2>1. astCache' = astCache /\ cacheSize' = cacheSize - 0
    BY <1>3 DEF InvalidateTree
  <2>2. cacheSize \in Nat
    BY <1>1, SizeOfAsSizes DEF Accounts
  <2>3. cacheSize' = cacheSize
    BY <2>1, <2>2
  <2> QED BY <1>1, <2>1, <2>3
<1> QED BY <1>2, <1>3

LEMMA StartParseSize == ASSUME SizesInv, StartParse PROVE Accounts(astCache', cacheSize')
<1> DEFINE f == AskedFile
<1>1. astCache \in Seq(Ast) /\ Accounts(astCache, cacheSize)
  BY SoundAreAst, SeqMonotonic DEF SizesInv, SymbolsInv, TreesOK
<1>2. f \in SourceFile
  BY Asked DEF SizesInv, StartParse
<1> HIDE DEF f
<1>3. \/ InvalidateTree(f)
      \/ Parsed(f) /\ astCache' = Append(Others(f), EntryOf(f)) /\ cacheSize' = cacheSize
  BY DEF StartParse, ParseFile, f
<1>4. CASE InvalidateTree(f)
  BY <1>2, <1>4, InvalidatedSize
<1>5. CASE Parsed(f) /\ astCache' = Append(Others(f), EntryOf(f)) /\ cacheSize' = cacheSize
  <2> DEFINE i == IndexOf(f)
             o == RemoveAt(astCache, i)
             e == astCache[i]
  <2>1. i \in 1..Len(astCache)
    BY <1>1, <1>2, <1>5, ParsedIsIn
  <2>2. o = Others(f) /\ e = EntryOf(f) /\ e \in Ast /\ Len(astCache) \in Nat
    BY <1>1, <2>1, ElementOfSeq, LenProperties DEF Others, EntryOf
  <2> HIDE DEF i
  <2>3. o \in Seq(Ast) /\ Len(o) = Len(astCache) - 1 /\ SizeOf(o) = SizeOf(astCache) - SizeRemoved(e)
    BY <1>1, <2>1, WithoutOne
  <2> HIDE DEF o, e
  <2>4. Len(Append(o, e)) = Len(o) + 1 /\ SizeOf(Append(o, e)) = SizeOf(o) + SizeRemoved(e)
    BY <2>2, <2>3, LatestAdded
  <2>5. SizeRemoved(e) \in Nat /\ SizeOf(astCache) \in Nat
    BY <1>1, <2>2, SizesAreNat, SizeOfAsSizes
  <2>6. Len(Append(o, e)) = Len(astCache) /\ SizeOf(Append(o, e)) = SizeOf(astCache)
    BY <2>2, <2>3, <2>4, <2>5
  <2> QED BY <2>2, <2>6, <1>1, <1>5 DEF Accounts
<1> QED BY <1>3, <1>4, <1>5

LEMMA StoreTreeSize == ASSUME SizesInv, Wide = {}, StoreTree PROVE Accounts(astCache', cacheSize')
<1> DEFINE f == parsing.file
           added == SizeAdded(parsing.tree)
           old == [entries |-> astCache, size |-> cacheSize]
           e == [file |-> f, tree |-> parsing.tree, mtime |-> sources[f].mtime]
<1>1. PICK c \in Relieved(old) :
        IF Present(f)
        THEN /\ astCache' = Append(MadeRoom(c, added).entries, e)
             /\ cacheSize' = MadeRoom(c, added).size + added
        ELSE astCache' = c.entries /\ cacheSize' = c.size
  BY DEF StoreTree
<1>2. parsing.stage = "parsed"
  BY DEF StoreTree
<1>3. f \in SourceFile /\ parsing.tree \in Tree /\ sources[f].mtime \in Nat
  BY <1>2 DEF SizesInv, SymbolsInv, ParsingOK, TreesOK, SourcesOK, Source
<1>4. astCache \in Seq(Ast) /\ Accounts(astCache, cacheSize)
  BY SoundAreAst, SeqMonotonic DEF SizesInv, SymbolsInv, TreesOK
<1>5. e \in Ast
  BY <1>3 DEF Ast
<1>6. added = SizeRemoved(e) /\ SizeRemoved(e) \in Nat
  <2>1. SizeRemoved(e) = added + 0
    BY DEF SizeRemoved, SizeAdded
  <2>2. added \in Nat
    BY <1>3, ParserAssumption, FS_CardinalityType DEF Tree, SizeAdded
  <2> QED BY <2>1, <2>2
<1>7. old.entries = astCache /\ old.size = cacheSize
  OBVIOUS
<1> HIDE DEF added, old, e
<1>8. Less(c, old) /\ c.entries \in Seq(Ast)
  BY <1>4, <1>7, RelievedIsLess, LessIsCache
<1>9. Accounts(c.entries, c.size)
  BY <1>4, <1>7, <1>8 DEF Less
<1>10. CASE Present(f)
  <2> DEFINE room == MadeRoom(c, added)
  <2>1. Less(room, c) /\ (Len(room.entries) = 0 \/ room.size + added <= CacheLimit)
    BY <1>6, <1>8, MadeRoomIsLess
  <2> HIDE DEF room
  <2>2. room.entries \in Seq(Ast) /\ Accounts(room.entries, room.size)
    BY <1>8, <1>9, <2>1, LessIsCache DEF Less
  <2>3. /\ Len(Append(room.entries, e)) = Len(room.entries) + 1
        /\ SizeOf(Append(room.entries, e)) = SizeOf(room.entries) + SizeRemoved(e)
    BY <1>5, <2>2, LatestAdded
  <2>4. astCache' = Append(room.entries, e) /\ cacheSize' = room.size + added
    BY <1>1, <1>10 DEF room
  <2>5. Len(astCache') = Len(room.entries) + 1 /\ cacheSize' = SizeOf(astCache')
    BY <1>6, <2>2, <2>3, <2>4 DEF Accounts
  <2>6. Len(astCache') > 1 => cacheSize' <= CacheLimit
    BY <2>1, <2>4, <2>5
  <2> QED BY <2>5, <2>6 DEF Accounts
<1>11. CASE ~Present(f)
  BY <1>1, <1>9, <1>11
<1> QED BY <1>10, <1>11

LEMMA SizesStep ==
  ASSUME TargetsReached, OrdersAgree, Wide = {}, SizesInv, [SymbolsNext]_symbolVars
  PROVE  SizesInv'
<1>1. SymbolsInv'
  BY SymbolsStep DEF SizesInv
<1>2. CASE StartParse
  BY <1>1, <1>2, StartParseSize DEF SizesInv
<1>3. CASE GoOnParse
  <2>1. CASE ReadSource
    BY <1>1, <2>1 DEF ReadSource, SizesInv
  <2>2. CASE StoreTree
    BY <1>1, <2>2, StoreTreeSize DEF SizesInv
  <2> QED BY <1>3, <2>1, <2>2 DEF GoOnParse, ParseStep
<1>4. ASSUME NEW f \in SourceFile, ReanalyzeFile(f) PROVE SizesInv'
  <2>1. InvalidateTree(f)
    BY <1>4 DEF ReanalyzeFile
  <2> QED BY <1>1, <2>1, InvalidatedSize DEF SizesInv
<1>5. CASE UNCHANGED <<astCache, cacheSize>>
  BY <1>1, <1>5 DEF SizesInv
<1>6. ASSUME NEW r \in Requests, ResolveSymbols(r) PROVE UNCHANGED <<astCache, cacheSize>>
  BY <1>6 DEF ResolveSymbols, parserVars
<1>7. ASSUME ExtractSymbols \/ ExtractReferences \/ CacheResult \/ UNCHANGED symbolVars
      PROVE  UNCHANGED <<astCache, cacheSize>>
  BY <1>7 DEF ExtractSymbols, ExtractReferences, CacheResult, symbolVars, parserVars
<1>8. ASSUME NEW f \in SourceFile, EditFile(f) PROVE UNCHANGED <<astCache, cacheSize>>
  BY <1>8 DEF EditFile, Edit
<1> QED BY <1>2, <1>3, <1>4, <1>5, <1>6, <1>7, <1>8 DEF SymbolsNext

(* Both caches are right: what a call returns, and the size that the cache *)
(* of the parser keeps of itself, which is that of its entries and within  *)
(* the limit, but for one tree that is larger than it.  It is as many      *)
(* characters that an entry adds and as many bytes that it takes away, so  *)
(* this holds if no content has characters of more than one byte.          *)
THEOREM SymbolsAreCurrent ==
  ASSUME TargetsReached, OrdersAgree, Wide = {}
  PROVE  SymbolsSpec => []SymbolsCurrent
<1>1. SymbolsInit => SizesInv
  <2> SUFFICES ASSUME SymbolsInit PROVE SizesInv
    OBVIOUS
  <2>1. astCache = <<>> /\ cacheSize = 0
    BY DEF SymbolsInit, ParserInit
  <2>2. SizeOf(<<>>) = 0
    <3>1. <<>> \in Seq(Ast) /\ Len(<<>>) = 0
      OBVIOUS
    <3>2. PICK p : Sizes(<<>>, p) /\ p[0] = SizeOf(<<>>)
      BY <3>1, SizeOfAsSizes
    <3> QED BY <3>2 DEF Sizes
  <2>3. Accounts(astCache, cacheSize)
    BY <2>1, <2>2 DEF Accounts
  <2> QED BY <2>3, SymbolsInvInit DEF SizesInv
<1>2. SizesInv /\ [SymbolsNext]_symbolVars => SizesInv'
  BY SizesStep
<1>3. SizesInv => SymbolsCurrent
  BY InvIsCurrent DEF SizesInv, SymbolsCurrent, SizeKept, Accounts
<1> QED BY <1>1, <1>2, <1>3, PTL DEF SymbolsSpec

-----------------------------------------------------------------------------
(* Paths in a graph E of the files                                         *)
IsPath(E, f, g, n, w) ==
  /\ w \in [0..n -> ScriptFile]
  /\ w[0] = f /\ w[n] = g
  /\ \A i \in 1..n : <<w[i - 1], w[i]>> \in E
Path(E, f, g, n) == \E w : IsPath(E, f, g, n, w)

(* An edge is a path, and so are two, one after the other.                 *)
LEMMA EdgeIsPath ==
  ASSUME NEW E, NEW f \in ScriptFile, NEW g \in ScriptFile, <<f, g>> \in E
  PROVE  Path(E, f, g, 1)
<1> DEFINE w == [i \in 0..1 |-> IF i = 0 THEN f ELSE g]
<1>1. w \in [0..1 -> ScriptFile] /\ w[0] = f /\ w[1] = g
  OBVIOUS
<1>2. ASSUME NEW i \in 1..1 PROVE <<w[i - 1], w[i]>> \in E
  <2>1. i = 1 /\ i - 1 = 0
    OBVIOUS
  <2> HIDE DEF w
  <2> QED BY <1>1, <2>1
<1> HIDE DEF w
<1>3. IsPath(E, f, g, 1, w)
  BY <1>1, <1>2 DEF IsPath
<1> QED BY <1>3 DEF Path

Chained(u, a, v, b) == [k \in 0..a + b |-> IF k <= a THEN u[k] ELSE v[k - a]]

LEMMA PathsJoin ==
  ASSUME NEW E, NEW f, NEW g, NEW h, NEW a \in Nat, NEW b \in Nat,
         NEW u, IsPath(E, f, g, a, u), NEW v, IsPath(E, g, h, b, v)
  PROVE  IsPath(E, f, h, a + b, Chained(u, a, v, b)) /\ Chained(u, a, v, b)[a] = g
<1> DEFINE w == [k \in 0..a + b |-> IF k <= a THEN u[k] ELSE v[k - a]]
<1>1. /\ u \in [0..a -> ScriptFile] /\ u[0] = f /\ u[a] = g
      /\ v \in [0..b -> ScriptFile] /\ v[0] = g /\ v[b] = h
      /\ \A i \in 1..a : <<u[i - 1], u[i]>> \in E
      /\ \A i \in 1..b : <<v[i - 1], v[i]>> \in E
  BY DEF IsPath
<1>2. ASSUME NEW k \in 0..a + b PROVE w[k] \in ScriptFile
  BY <1>1
<1>3. \A k \in 0..a : w[k] = u[k]
  OBVIOUS
<1>4. \A k \in 0..b : w[a + k] = v[k]
  <2> SUFFICES ASSUME NEW k \in 0..b PROVE w[a + k] = v[k]
    OBVIOUS
  <2>1. a + k \in 0..a + b /\ (a + k) - a = k /\ (a + k <= a <=> k = 0)
    OBVIOUS
  <2>2. CASE k = 0
    BY <2>1, <2>2, <1>1, <1>3
  <2>3. CASE k # 0
    BY <2>1, <2>3
  <2> QED BY <2>2, <2>3
<1>5. w \in [0..a + b -> ScriptFile]
  BY <1>2
<1> HIDE DEF w
<1>6. w[0] = f /\ w[a + b] = h
  BY <1>1, <1>3, <1>4
<1>7. ASSUME NEW i \in 1..a + b PROVE <<w[i - 1], w[i]>> \in E
  <2>1. CASE i <= a
    <3>1. i \in 1..a /\ i - 1 \in 0..a /\ i \in 0..a
      BY <2>1
    <3> QED BY <3>1, <1>1, <1>3
  <2>2. CASE i > a
    <3>1. i - a \in 1..b /\ i - a \in 0..b /\ (i - a) - 1 \in 0..b
      BY <2>2
    <3>2. a + (i - a) = i /\ a + ((i - a) - 1) = i - 1
      OBVIOUS
    <3>3. w[i] = v[i - a] /\ w[i - 1] = v[(i - a) - 1]
      BY <3>1, <3>2, <1>4
    <3> QED BY <3>1, <3>3, <1>1
  <2> QED BY <2>1, <2>2
<1>8. IsPath(E, f, h, a + b, w)
  BY <1>5, <1>6, <1>7 DEF IsPath
<1>9. w[a] = g
  BY <1>1, <1>3
<1> QED BY <1>8, <1>9 DEF w, Chained

(* The part of a path between two of its files                             *)
LEMMA PathPart ==
  ASSUME NEW E, NEW f, NEW g, NEW n \in Nat, NEW w, IsPath(E, f, g, n, w),
         NEW i \in 0..n, NEW j \in i..n
  PROVE  IsPath(E, w[i], w[j], j - i, [k \in 0..j - i |-> w[i + k]])
<1> DEFINE m == j - i
           v == [k \in 0..m |-> w[i + k]]
<1>1. /\ w \in [0..n -> ScriptFile]
      /\ \A k \in 1..n : <<w[k - 1], w[k]>> \in E
  BY DEF IsPath
<1>2. m \in Nat /\ i + m = j /\ i + 0 = i /\ \A k \in 0..m : i + k \in 0..n
  OBVIOUS
<1> HIDE DEF m
<1>3. v \in [0..m -> ScriptFile] /\ v[0] = w[i] /\ v[m] = w[j]
  BY <1>1, <1>2
<1>4. ASSUME NEW k \in 1..m PROVE <<v[k - 1], v[k]>> \in E
  <2>1. i + k \in 1..n /\ (i + k) - 1 = i + (k - 1) /\ k - 1 \in 0..m /\ k \in 0..m
    BY <1>2
  <2> QED BY <1>1, <2>1
<1> HIDE DEF v
<1>5. IsPath(E, w[i], w[j], m, v)
  BY <1>3, <1>4 DEF IsPath
<1> QED BY <1>5 DEF v, m

(* What ReachesScript computes                                             *)
LEMMA ReachesMeans ==
  ASSUME NEW E, NEW f \in ScriptFile, NEW g
  PROVE  ReachesScript(E, f, g) <=>
           g \in ScriptFile /\ \E k \in 1..Cardinality(ScriptFile) + 1 : Path(E, f, g, k)
<1> DEFINE N == Cardinality(ScriptFile)
           R(h) == h = [n \in Nat |->
                     IF n = 0 THEN {b \in ScriptFile : <<f, b>> \in E}
                     ELSE h[n - 1] \cup {b \in ScriptFile : \E a \in h[n - 1] : <<a, b>> \in E}]
           reach == CHOOSE h : R(h)
           Far(n) == {b \in ScriptFile : \E k \in 1..n + 1 : Path(E, f, b, k)}
           far == [n \in Nat |-> Far(n)]
<1>1. N \in Nat
  BY ImportsAssumption, FS_CardinalityType
<1>2. ReachesScript(E, f, g) <=> g \in reach[N]
  BY DEF ReachesScript
<1>3. Far(0) = {b \in ScriptFile : <<f, b>> \in E}
  <2>1. ASSUME NEW b \in ScriptFile, NEW k \in 1..0 + 1, Path(E, f, b, k) PROVE <<f, b>> \in E
    <3>1. k = 1 /\ 1 \in 1..1 /\ 1 - 1 = 0
      OBVIOUS
    <3>2. PICK w : IsPath(E, f, b, 1, w)
      BY <2>1, <3>1 DEF Path
    <3> QED BY <3>1, <3>2 DEF IsPath
  <2>2. ASSUME NEW b \in ScriptFile, <<f, b>> \in E PROVE Path(E, f, b, 1) /\ 1 \in 1..0 + 1
    BY <2>2, EdgeIsPath
  <2> QED BY <2>1, <2>2
<1>4. ASSUME NEW n \in Nat, n # 0
      PROVE  Far(n) = Far(n - 1) \cup {b \in ScriptFile : \E a \in Far(n - 1) : <<a, b>> \in E}
  <2>1. ASSUME NEW b \in ScriptFile, NEW k \in 1..n + 1, Path(E, f, b, k)
        PROVE  b \in Far(n - 1) \/ \E a \in Far(n - 1) : <<a, b>> \in E
    <3>1. CASE k <= n
      <4>1. k \in 1..(n - 1) + 1
        BY <3>1
      <4> QED BY <4>1, <2>1
    <3>2. CASE k > n
      <4>1. k = n + 1 /\ n \in 0..k /\ 0 \in 0..k /\ n \in 0..n /\ n \in 1..(n - 1) + 1 /\ n - 0 = n
        BY <3>2, <1>4
      <4>2. PICK w : IsPath(E, f, b, k, w)
        BY <2>1 DEF Path
      <4>3. w[0] = f /\ w[k] = b /\ w[n] \in ScriptFile
        BY <4>1, <4>2 DEF IsPath
      <4>4. <<w[n], b>> \in E
        <5>1. k \in 1..k /\ k - 1 = n
          BY <4>1
        <5> QED BY <5>1, <4>2, <4>3 DEF IsPath
      <4>5. Path(E, f, w[n], n)
        <5>1. k \in Nat /\ n \in 0..k /\ 0 \in 0..k
          BY <4>1
        <5>2. IsPath(E, w[0], w[n], n - 0, [i \in 0..n - 0 |-> w[0 + i]])
          BY <5>1, <4>2, PathPart
        <5> DEFINE v == [i \in 0..n - 0 |-> w[0 + i]]
        <5> HIDE DEF v
        <5>3. IsPath(E, f, w[n], n, v)
          BY <5>2, <4>1, <4>3 DEF v
        <5> QED BY <5>3 DEF Path
      <4>6. w[n] \in Far(n - 1)
        BY <4>1, <4>3, <4>5
      <4> HIDE DEF Far
      <4> QED BY <4>4, <4>6
    <3>3. k <= n \/ k > n
      BY <1>4
    <3> HIDE DEF Far
    <3> QED BY <3>1, <3>2, <3>3
  <2>2. ASSUME NEW b \in ScriptFile, b \in Far(n - 1) PROVE b \in Far(n)
    <3>1. 1..(n - 1) + 1 \subseteq 1..n + 1
      BY <1>4
    <3> QED BY <3>1, <2>2
  <2>3. ASSUME NEW b \in ScriptFile, NEW a \in Far(n - 1), <<a, b>> \in E PROVE b \in Far(n)
    <3>1. PICK k \in 1..(n - 1) + 1 : Path(E, f, a, k)
      OBVIOUS
    <3>2. PICK u : IsPath(E, f, a, k, u)
      BY <3>1 DEF Path
    <3>3. PICK v : IsPath(E, a, b, 1, v)
      BY <2>3, EdgeIsPath DEF Path
    <3>4. k \in Nat /\ k + 1 \in 1..n + 1
      BY <1>4
    <3>5. Path(E, f, b, k + 1)
      <4>1. IsPath(E, f, b, k + 1, Chained(u, k, v, 1))
        BY <3>2, <3>3, <3>4, PathsJoin
      <4> QED BY <4>1 DEF Path
    <3> QED BY <3>4, <3>5
  <2> HIDE DEF Far
  <2>4. Far(n) \subseteq ScriptFile /\ Far(n - 1) \subseteq ScriptFile
    BY DEF Far
  <2>5. \A b \in Far(n) : \E k \in 1..n + 1 : Path(E, f, b, k)
    BY DEF Far
  <2>6. \A b \in Far(n) : b \in Far(n - 1) \/ \E a \in Far(n - 1) : <<a, b>> \in E
    BY <2>1, <2>4, <2>5
  <2> QED BY <2>2, <2>3, <2>4, <2>6
<1> HIDE DEF Far
<1>5. R(far)
  <2> DEFINE r == [n \in Nat |->
                     IF n = 0 THEN {b \in ScriptFile : <<f, b>> \in E}
                     ELSE far[n - 1] \cup {b \in ScriptFile : \E a \in far[n - 1] : <<a, b>> \in E}]
  <2>1. ASSUME NEW n \in Nat PROVE far[n] = r[n]
    <3>1. CASE n = 0
      BY <3>1, <1>3
    <3>2. CASE n # 0
      <4>1. n - 1 \in Nat
        BY <3>2
      <4>2. far[n] = Far(n) /\ far[n - 1] = Far(n - 1)
        BY <4>1
      <4>3. r[n] = far[n - 1] \cup {b \in ScriptFile : \E a \in far[n - 1] : <<a, b>> \in E}
        BY <3>2
      <4> HIDE DEF far, r
      <4> QED BY <1>4, <3>2, <4>2, <4>3
    <3> QED BY <3>1, <3>2
  <2> QED BY <2>1
<1>6. R(reach)
  BY <1>5
<1>7. \A n \in 0..N : n \in {i \in Nat : reach[i] = Far(i)}
  <2> DEFINE B == {i \in Nat : reach[i] = Far(i)}
  <2>1. reach[0] = {b \in ScriptFile : <<f, b>> \in E}
    BY <1>6
  <2>2. ASSUME NEW i \in 1..N, i - 1 \in B PROVE i \in B
    <3>1. i \in Nat /\ i # 0 /\ reach[i - 1] = Far(i - 1)
      BY <2>2
    <3>2. reach[i] = reach[i - 1] \cup {b \in ScriptFile : \E a \in reach[i - 1] : <<a, b>> \in E}
      BY <1>6, <3>1
    <3>3. Far(i) = Far(i - 1) \cup {b \in ScriptFile : \E a \in Far(i - 1) : <<a, b>> \in E}
      BY <1>4, <3>1
    <3> HIDE DEF reach
    <3>4. reach[i] = Far(i)
      BY <3>1, <3>2, <3>3
    <3> QED BY <3>1, <3>4
  <2>3. 0 \in B
    <3> HIDE DEF reach
    <3> QED BY <2>1, <1>3
  <2> HIDE DEF B
  <2>4. \A n \in 0..N : n \in B
    BY <1>1, <2>2, <2>3, UpTo
  <2> QED BY <2>4 DEF B
<1>8. reach[N] = Far(N)
  <2> HIDE DEF reach
  <2> QED BY <1>1, <1>7
<1> HIDE DEF reach
<1> QED BY <1>2, <1>8 DEF Far

(* The files of a path from f back to f, one of which is not f             *)
Loop(E, f, n) ==
  \E w : IsPath(E, f, f, n, w) /\ \E x \in 0..n : w[x] # f

(* A shortest one comes to no other file twice.                            *)
LEMMA LoopIsSimple ==
  ASSUME NEW E, NEW f \in ScriptFile, NEW n \in Nat,
         \A m \in Nat : Loop(E, f, m) => n <= m,
         NEW w, IsPath(E, f, f, n, w), NEW x \in 0..n, w[x] # f,
         NEW i \in 0..n - 1, NEW j \in 0..n - 1, i < j
  PROVE  w[i] # w[j]
<1>1. SUFFICES ASSUME w[i] = w[j] PROVE FALSE
  OBVIOUS
<1>2. w \in [0..n -> ScriptFile] /\ w[0] = f /\ w[n] = f
  BY DEF IsPath
<1>3. /\ i \in 0..n /\ j \in 0..n /\ 0 \in 0..n /\ n \in 0..n
      /\ i \in 0..i /\ n \in j..n /\ i \in 0..n /\ j \in 0..j /\ j \in 0..n /\ i \in Nat /\ n - j \in Nat
      /\ i - 0 = i /\ j - 0 = j /\ j < n /\ 0 < j
  OBVIOUS
<1> DEFINE u(k) == [l \in 0..k |-> w[0 + l]]
           v == [l \in 0..n - j |-> w[j + l]]
<1>4. \A k \in 0..n : IsPath(E, f, w[k], k, u(k))
  <2> SUFFICES ASSUME NEW k \in 0..n PROVE IsPath(E, f, w[k], k, u(k))
    OBVIOUS
  <2>1. 0 \in 0..n /\ k \in 0..n /\ k - 0 = k
    OBVIOUS
  <2>2. IsPath(E, w[0], w[k], k - 0, [l \in 0..k - 0 |-> w[0 + l]])
    BY <2>1, PathPart
  <2> QED BY <2>1, <2>2, <1>2
<1>5. IsPath(E, w[j], f, n - j, v)
  <2>1. IsPath(E, w[j], w[n], n - j, v)
    BY <1>3, PathPart
  <2> QED BY <2>1, <1>2
<1>6. \A k \in 0..n : \A l \in 0..k : u(k)[l] = w[l]
  OBVIOUS
<1>7. \A l \in 0..n - j : v[l] = w[j + l]
  OBVIOUS
<1>8. CASE w[i] = f
  <2>1. CASE x <= j
    <3>1. IsPath(E, f, f, j, u(j)) /\ x \in 0..j /\ u(j)[x] # f
      <4> HIDE DEF u
      <4>1. x \in 0..j /\ w[j] = f /\ j \in 0..n
        BY <2>1, <1>1, <1>8
      <4> QED BY <4>1, <1>4, <1>6
    <3>2. Loop(E, f, j)
      <4> HIDE DEF u
      <4> QED BY <3>1 DEF Loop
    <3> QED BY <3>2, <1>3
  <2>2. CASE x > j
    <3>1. IsPath(E, f, f, n - j, v) /\ x - j \in 0..n - j /\ v[x - j] # f
      <4>1. x - j \in 0..n - j /\ j + (x - j) = x
        BY <2>2
      <4> HIDE DEF v
      <4> QED BY <4>1, <1>1, <1>5, <1>7, <1>8
    <3>2. Loop(E, f, n - j)
      <4> HIDE DEF v
      <4> QED BY <3>1 DEF Loop
    <3>3. n - j \in Nat /\ ~ (n <= n - j)
      OBVIOUS
    <3> QED BY <3>2, <3>3
  <2> QED BY <2>1, <2>2
<1>9. CASE w[i] # f
  <2> DEFINE g == w[i]
             start == u(i)
             l == n - j
             m == i + l
             y == Chained(start, i, v, l)
  <2>1. IsPath(E, f, g, i, start) /\ IsPath(E, g, f, l, v)
    BY <1>1, <1>3, <1>4, <1>5
  <2>2. IsPath(E, f, f, m, y) /\ y[i] = g
    <3>1. i \in Nat /\ l \in Nat
      BY <1>3
    <3> HIDE DEF g, start, v, l
    <3> QED BY <2>1, <3>1, PathsJoin
  <2>3. m \in Nat /\ i \in 0..m /\ ~ (n <= m)
    OBVIOUS
  <2>4. Loop(E, f, m)
    <3> HIDE DEF m, y
    <3> QED BY <2>2, <2>3, <1>9 DEF Loop
  <2> QED BY <2>3, <2>4
<1> QED BY <1>8, <1>9

(* The place after i on a circle of n                                      *)
LEMMA Around ==
  ASSUME NEW n \in Nat \ {0}, NEW i \in 1..n
  PROVE  (i % n) + 1 = IF i = n THEN 1 ELSE i + 1
<1> DEFINE r == i % n
           q == i \div n
<1>1. r \in 0..n - 1 /\ q \in Int /\ i = n * q + r
  OBVIOUS
<1>2. q = 0 \/ q = 1 \/ q >= 2 \/ q <= -1
  BY <1>1
<1> HIDE DEF r, q
<1>3. q >= 2 => n * q >= 2 * n
  BY <1>1
<1>4. q <= -1 => n * q <= -n
  BY <1>1
<1>5. q = 0 \/ q = 1
  BY <1>1, <1>2, <1>3, <1>4
<1>6. q = 0 => i = r
  BY <1>1
<1>7. q = 1 => i = n + r
  BY <1>1
<1>8. r = IF i = n THEN 0 ELSE i
  BY <1>1, <1>5, <1>6, <1>7
<1> QED BY <1>8 DEF r

(* The circles of E                                                        *)
IsCircle(E, c, n) ==
  /\ c \in [1..n -> ScriptFile] /\ n \in 2..Cardinality(ScriptFile) /\ IsInjective(c)
  /\ <<c[n], c[1]>> \in E /\ \A i \in 1..n - 1 : <<c[i], c[i + 1]>> \in E

LEMMA CirclesAre ==
  ASSUME NEW E, NEW c
  PROVE  c \in CircularDependencies(E) <=> \E n : IsCircle(E, c, n)
<1>0. Cardinality(ScriptFile) \in Nat
  BY ImportsAssumption, FS_CardinalityType
<1>1. ASSUME NEW n \in Nat \ {0}, c \in [1..n -> ScriptFile]
      PROVE  /\ Len(c) = n /\ DOMAIN c = 1..n
             /\ (\A i \in 1..n : <<c[i], c[(i % n) + 1]>> \in E)
                  <=> <<c[n], c[1]>> \in E /\ \A i \in 1..n - 1 : <<c[i], c[i + 1]>> \in E
  <2>1. DOMAIN c = 1..n /\ Len(c) = n
    BY <1>1
  <2>2. \A i \in 1..n : (i % n) + 1 = IF i = n THEN 1 ELSE i + 1
    BY Around
  <2>3. n \in 1..n /\ \A i \in 1..n : i = n \/ i \in 1..n - 1
    OBVIOUS
  <2>4. \A i \in 1..n - 1 : i \in 1..n /\ i # n
    OBVIOUS
  <2> QED BY <2>1, <2>2, <2>3, <2>4
<1>2. ASSUME c \in CircularDependencies(E) PROVE \E n : IsCircle(E, c, n)
  <2>1. PICK n \in 0..Cardinality(ScriptFile) : c \in [1..n -> ScriptFile]
    BY <1>2 DEF CircularDependencies, SeqOf
  <2>2. Len(c) > 1 /\ IsInjective(c) /\ \A i \in DOMAIN c : <<c[i], c[(i % Len(c)) + 1]>> \in E
    BY <1>2 DEF CircularDependencies
  <2>3. n \in Nat /\ Len(c) = n
    BY <1>0, <2>1
  <2>4. n \in Nat \ {0} /\ n \in 2..Cardinality(ScriptFile)
    BY <1>0, <2>1, <2>2, <2>3
  <2>5. IsCircle(E, c, n)
    BY <1>1, <2>1, <2>2, <2>3, <2>4 DEF IsCircle
  <2> QED BY <2>5
<1>3. ASSUME NEW n, IsCircle(E, c, n) PROVE c \in CircularDependencies(E)
  <2>1. n \in Nat \ {0} /\ n > 1 /\ n \in 0..Cardinality(ScriptFile)
    BY <1>0, <1>3 DEF IsCircle
  <2>2. c \in [1..n -> ScriptFile] /\ IsInjective(c)
    BY <1>3 DEF IsCircle
  <2>3. c \in SeqOf(ScriptFile, Cardinality(ScriptFile))
    BY <2>1, <2>2 DEF SeqOf
  <2>4. Len(c) = n /\ DOMAIN c = 1..n /\ \A i \in 1..n : <<c[i], c[(i % n) + 1]>> \in E
    BY <1>1, <1>3, <2>1, <2>2 DEF IsCircle
  <2> QED BY <2>1, <2>2, <2>3, <2>4 DEF CircularDependencies
<1> QED BY <1>2, <1>3

(* The next file of a circle reaches back all around it.                   *)
LEMMA CircleReaches ==
  ASSUME NEW E, NEW c, NEW n, IsCircle(E, c, n), NEW i \in 1..n
  PROVE  \E g \in ScriptFile \ {c[i]} : ReachesScript(E, c[i], g) /\ ReachesScript(E, g, c[i])
<1>0. Cardinality(ScriptFile) \in Nat
  BY ImportsAssumption, FS_CardinalityType
<1>1. /\ c \in [1..n -> ScriptFile] /\ n \in Nat /\ n >= 2 /\ n <= Cardinality(ScriptFile)
      /\ \A a, b \in 1..n : c[a] = c[b] => a = b
      /\ <<c[n], c[1]>> \in E /\ \A k \in 1..n - 1 : <<c[k], c[k + 1]>> \in E
  BY <1>0 DEF IsCircle, IsInjective
<1> DEFINE at(k) == IF i + 1 + k <= n THEN i + 1 + k ELSE (i + 1 + k) - n
           m == n - 1
           w == [k \in 0..m |-> c[at(k)]]
<1>2. m \in Nat /\ m >= 1 /\ m \in 1..Cardinality(ScriptFile) + 1 /\ 1 \in 1..Cardinality(ScriptFile) + 1
  BY <1>0, <1>1
<1>3. \A k \in 0..m : at(k) \in 1..n
  BY <1>1
<1>4. w \in [0..m -> ScriptFile]
  BY <1>1, <1>3
<1>5. at(m) = i /\ at(0) # i /\ at(0) \in 1..n
  BY <1>1
<1>6. \A k \in 1..m : /\ k - 1 \in 0..m /\ k \in 0..m
                      /\ \/ at(k - 1) = n /\ at(k) = 1
                         \/ at(k - 1) \in 1..n - 1 /\ at(k) = at(k - 1) + 1
  BY <1>1
<1>7. <<c[i], c[at(0)]>> \in E
  <2>1. CASE i = n
    <3>1. at(0) = 1
      BY <1>1, <2>1
    <3> HIDE DEF at
    <3> QED BY <1>1, <2>1, <3>1
  <2>2. CASE i # n
    <3>1. at(0) = i + 1 /\ i \in 1..n - 1
      BY <1>1, <2>2
    <3> HIDE DEF at
    <3> QED BY <1>1, <3>1
  <2> QED BY <2>1, <2>2
<1>8. ASSUME NEW k \in 1..m PROVE <<w[k - 1], w[k]>> \in E
  <2> HIDE DEF at
  <2>1. w[k - 1] = c[at(k - 1)] /\ w[k] = c[at(k)]
    BY <1>6
  <2> HIDE DEF w, m
  <2> QED BY <1>1, <1>6, <2>1
<1>9. w[0] = c[at(0)] /\ w[m] = c[i]
  <2>1. 0 \in 0..m /\ m \in 0..m
    BY <1>2
  <2> HIDE DEF at, m
  <2> QED BY <1>5, <2>1
<1> DEFINE g == c[at(0)]
<1> HIDE DEF at, w, m
<1>10. g \in ScriptFile /\ g # c[i] /\ c[i] \in ScriptFile
  BY <1>1, <1>5
<1>11. Path(E, g, c[i], m)
  BY <1>4, <1>8, <1>9 DEF Path, IsPath
<1>12. Path(E, c[i], g, 1)
  BY <1>7, <1>10, EdgeIsPath
<1> HIDE DEF g
<1>13. ReachesScript(E, c[i], g) /\ ReachesScript(E, g, c[i])
  BY <1>2, <1>10, <1>11, <1>12, ReachesMeans
<1> QED BY <1>10, <1>13

(* Files that reach each other are on a circle.                            *)
LEMMA ReachesCircle ==
  ASSUME NEW E, NEW f \in ScriptFile, NEW g \in ScriptFile \ {f},
         ReachesScript(E, f, g), ReachesScript(E, g, f)
  PROVE  \E c, n : IsCircle(E, c, n) /\ \E i \in 1..n : c[i] = f
<1>0. Cardinality(ScriptFile) \in Nat
  BY ImportsAssumption, FS_CardinalityType
<1>1. PICK a \in 1..Cardinality(ScriptFile) + 1 : Path(E, f, g, a)
  BY ReachesMeans
<1>2. PICK b \in 1..Cardinality(ScriptFile) + 1 : Path(E, g, f, b)
  BY ReachesMeans
<1>3. PICK u : IsPath(E, f, g, a, u)
  BY <1>1 DEF Path
<1>4. PICK v : IsPath(E, g, f, b, v)
  BY <1>2 DEF Path
<1>5. a \in Nat /\ b \in Nat
  BY <1>0
<1>6. Loop(E, f, a + b)
  <2> DEFINE w == Chained(u, a, v, b)
  <2>1. IsPath(E, f, f, a + b, w)
    BY <1>3, <1>4, <1>5, PathsJoin
  <2>2. a \in 0..a + b
    BY <1>5
  <2>3. w[a] = u[a] /\ u[a] = g
    BY <1>3, <1>5, <2>2 DEF Chained, IsPath
  <2> HIDE DEF w
  <2> QED BY <2>1, <2>2, <2>3 DEF Loop
<1> DEFINE Loops == {m \in Nat : Loop(E, f, m)}
<1>7. PICK n \in Loops : \A m \in Loops : n <= m
  <2>1. Loops \subseteq Nat /\ Loops # {}
    BY <1>5, <1>6
  <2> HIDE DEF Loops
  <2> QED BY <2>1, Least
<1>8. n \in Nat /\ Loop(E, f, n) /\ \A m \in Nat : Loop(E, f, m) => n <= m
  BY <1>7
<1>9. PICK w : IsPath(E, f, f, n, w) /\ \E x \in 0..n : w[x] # f
  BY <1>8 DEF Loop
<1>10. PICK x \in 0..n : w[x] # f
  BY <1>9
<1>11. \A i, j \in 0..n - 1 : i < j => w[i] # w[j]
  BY <1>8, <1>9, <1>10, LoopIsSimple
<1>12. /\ w \in [0..n -> ScriptFile] /\ w[0] = f /\ w[n] = f
       /\ \A i \in 1..n : <<w[i - 1], w[i]>> \in E
  BY <1>9 DEF IsPath
<1>13. n >= 2
  <2>1. x # 0 /\ x # n
    BY <1>10, <1>12
  <2> QED BY <1>8, <2>1
<1> DEFINE c == [k \in 1..n |-> w[k - 1]]
<1>14. c \in [1..n -> ScriptFile] /\ c[1] = f /\ 1 \in 1..n /\ \A k \in 1..n : c[k] = w[k - 1]
  BY <1>8, <1>12, <1>13
<1>15. \A i, j \in 1..n : c[i] = c[j] => i = j
  <2> SUFFICES ASSUME NEW i \in 1..n, NEW j \in 1..n, i # j PROVE w[i - 1] # w[j - 1]
    BY <1>14
  <2>1. i - 1 \in 0..n - 1 /\ j - 1 \in 0..n - 1 /\ (i - 1 < j - 1 \/ j - 1 < i - 1)
    BY <1>8
  <2> QED BY <1>11, <2>1
<1> HIDE DEF c
<1>16. IsInjective(c)
  <2>1. DOMAIN c = 1..n
    BY <1>14
  <2> QED BY <1>15, <2>1 DEF IsInjective
<1>17. n <= Cardinality(ScriptFile)
  <2>1. c \in Injection(1..n, ScriptFile)
    BY <1>14, <1>16 DEF Injection
  <2>2. Cardinality(1..n) <= Cardinality(ScriptFile)
    BY <2>1, ImportsAssumption, FS_Injection
  <2>3. Cardinality(1..n) = n
    BY <1>8, <1>13, FS_Interval
  <2> QED BY <2>2, <2>3
<1>18. <<c[n], c[1]>> \in E /\ \A i \in 1..n - 1 : <<c[i], c[i + 1]>> \in E
  <2>1. n \in 1..n
    BY <1>8, <1>13
  <2>2. <<c[n], c[1]>> \in E
    BY <1>12, <1>14, <2>1
  <2>3. ASSUME NEW i \in 1..n - 1 PROVE <<c[i], c[i + 1]>> \in E
    <3>1. i \in 1..n /\ i + 1 \in 1..n /\ (i + 1) - 1 = i
      BY <1>8
    <3> QED BY <1>12, <1>14, <3>1
  <2> QED BY <2>2, <2>3
<1>19. IsCircle(E, c, n)
  BY <1>0, <1>8, <1>13, <1>14, <1>16, <1>17, <1>18 DEF IsCircle
<1> QED BY <1>14, <1>19

(* The circles of a graph are the files that reach each other.             *)
LEMMA CirclesComplete ==
  ASSUME NEW E, NEW f \in ScriptFile
  PROVE  (\E c \in CircularDependencies(E) : f \in ToSet(c))
           <=> \E g \in ScriptFile \ {f} : ReachesScript(E, f, g) /\ ReachesScript(E, g, f)
<1>1. ASSUME NEW c \in CircularDependencies(E), f \in ToSet(c)
      PROVE  \E g \in ScriptFile \ {f} : ReachesScript(E, f, g) /\ ReachesScript(E, g, f)
  <2>1. PICK n : IsCircle(E, c, n)
    BY CirclesAre
  <2>2. PICK i \in 1..n : c[i] = f
    BY <1>1, <2>1 DEF ToSet, IsCircle
  <2> QED BY <2>1, <2>2, CircleReaches
<1>2. ASSUME NEW g \in ScriptFile \ {f}, ReachesScript(E, f, g), ReachesScript(E, g, f)
      PROVE  \E c \in CircularDependencies(E) : f \in ToSet(c)
  <2>1. PICK c, n : IsCircle(E, c, n) /\ \E i \in 1..n : c[i] = f
    BY <1>2, ReachesCircle
  <2>2. c \in CircularDependencies(E)
    BY <2>1, CirclesAre
  <2>3. f \in ToSet(c)
    BY <2>1 DEF ToSet, IsCircle
  <2> QED BY <2>2, <2>3
<1> QED BY <1>1, <1>2

-----------------------------------------------------------------------------
(* The cache of imports                                                    *)

(* What is cached of f                                                     *)
FoundIn(f, flags, resolve, folder) ==
  {[statement |-> s, module |-> IF resolve THEN ResolvedPath(s, folder) ELSE Unresolved] :
     s \in ImportsFound(f, flags)}

(* The caches that c can become when some of files are looked at           *)
GrownCaches(c, new, files) ==
  {[g \in D |-> IF g \in DOMAIN c THEN c[g] ELSE new[g]] :
     D \in {D \in SUBSET (DOMAIN c \cup ToSet(files)) :
              DOMAIN c \subseteq D /\ \A g \in D \ DOMAIN c : There(g)}}

IsCache(c) == c = [g \in DOMAIN c |-> c[g]]

LEMMA GrownParts ==
  ASSUME NEW c, NEW new, NEW files, NEW d \in GrownCaches(c, new, files)
  PROVE  /\ IsCache(d)
         /\ DOMAIN c \subseteq DOMAIN d /\ \A g \in DOMAIN c : d[g] = c[g]
         /\ \A g \in DOMAIN d \ DOMAIN c : g \in ToSet(files) /\ There(g) /\ d[g] = new[g]
<1>1. PICK D \in SUBSET (DOMAIN c \cup ToSet(files)) :
        /\ DOMAIN c \subseteq D /\ \A g \in D \ DOMAIN c : There(g)
        /\ d = [g \in D |-> IF g \in DOMAIN c THEN c[g] ELSE new[g]]
  BY DEF GrownCaches
<1>2. DOMAIN d = D /\ \A g \in D : d[g] = IF g \in DOMAIN c THEN c[g] ELSE new[g]
  BY <1>1
<1>3. IsCache(d)
  BY <1>1 DEF IsCache
<1> QED BY <1>1, <1>2, <1>3

(* A step that looks at one more file                                      *)
LEMMA GrowsByOne ==
  ASSUME NEW c, NEW new, NEW files, NEW d \in GrownCaches(c, new, files), NEW f \in ToSet(files),
         NEW e, e = d \/ (f \notin DOMAIN d /\ There(f)
                          /\ e = [g \in DOMAIN d \cup {f} |-> IF g # f THEN d[g] ELSE new[f]])
  PROVE  e \in GrownCaches(c, new, files)
<1>1. CASE e = d
  BY <1>1
<1>2. CASE f \notin DOMAIN d /\ There(f)
           /\ e = [g \in DOMAIN d \cup {f} |-> IF g # f THEN d[g] ELSE new[f]]
  <2>1. PICK D \in SUBSET (DOMAIN c \cup ToSet(files)) :
          /\ DOMAIN c \subseteq D /\ \A g \in D \ DOMAIN c : There(g)
          /\ d = [g \in D |-> IF g \in DOMAIN c THEN c[g] ELSE new[g]]
    BY DEF GrownCaches
  <2> DEFINE F == D \cup {f}
             r == [g \in F |-> IF g \in DOMAIN c THEN c[g] ELSE new[g]]
  <2>2. DOMAIN d = D /\ \A g \in D : d[g] = IF g \in DOMAIN c THEN c[g] ELSE new[g]
    BY <2>1
  <2>3. f \notin DOMAIN c
    BY <1>2, <2>1, <2>2
  <2>4. \A g \in F : (IF g # f THEN d[g] ELSE new[f]) = IF g \in DOMAIN c THEN c[g] ELSE new[g]
    BY <2>2, <2>3
  <2>5. e = r
    BY <1>2, <2>2, <2>4
  <2>6. F \in SUBSET (DOMAIN c \cup ToSet(files)) /\ DOMAIN c \subseteq F
        /\ \A g \in F \ DOMAIN c : There(g)
    BY <1>2, <2>1
  <2> HIDE DEF F
  <2> QED BY <2>5, <2>6 DEF GrownCaches
<1> QED BY <1>1, <1>2

LEMMA StartsGrown ==
  ASSUME NEW c, IsCache(c), NEW new, NEW files
  PROVE  c \in GrownCaches(c, new, files)
<1> DEFINE D == DOMAIN c
           r == [g \in D |-> IF g \in DOMAIN c THEN c[g] ELSE new[g]]
<1>1. c = r
  BY DEF IsCache
<1>2. D \in SUBSET (DOMAIN c \cup ToSet(files)) /\ DOMAIN c \subseteq D
      /\ \A g \in D \ DOMAIN c : There(g)
  OBVIOUS
<1> QED BY <1>1, <1>2 DEF GrownCaches

LEMMA CachedGrows ==
  ASSUME NEW c, IsCache(c), NEW n \in Nat, NEW files \in [1..n -> ScriptFile],
         NEW flags, NEW resolve, NEW folder, NEW new,
         \A f \in ToSet(files) : new[f] = FoundIn(f, flags, resolve, folder)
  PROVE  CachedImports(c, files, flags, resolve, folder) \in GrownCaches(c, new, files)
<1> DEFINE Acc == GrownCaches(c, new, files)
           Then(d, f) == IF f \in DOMAIN d \/ ~There(f) THEN d
                         ELSE [g \in DOMAIN d \cup {f} |->
                                 IF g # f THEN d[g]
                                 ELSE {[statement |-> s,
                                        module |-> IF resolve THEN ResolvedPath(s, folder) ELSE Unresolved] :
                                         s \in ImportsFound(f, flags)}]
           G == [i \in 1..n |-> [a \in Acc |-> Then(a, files[i])]]
           R(h) == h = [s \in SUBSET (1..n) |->
                          IF s = {} THEN c ELSE Then(h[s \ {Max(s)}], files[Max(s)])]
           f == CHOOSE h : R(h)
<1>1. CachedImports(c, files, flags, resolve, folder) = f[1..n]
  <2>1. DOMAIN files = 1..n
    OBVIOUS
  <2> QED BY <2>1 DEF CachedImports, FoldLeft, MapThenFoldSet
<1>2. G \in [1..n -> [Acc -> Acc]]
  <2>1. \A i \in 1..n : files[i] \in ToSet(files)
    BY DEF ToSet
  <2>2. ASSUME NEW i \in 1..n, NEW a \in Acc PROVE Then(a, files[i]) \in Acc
    <3> DEFINE b == files[i]
               e == Then(a, b)
    <3>1. b \in ToSet(files) /\ new[b] = FoundIn(b, flags, resolve, folder)
      BY <2>1
    <3>2. e = a \/ (b \notin DOMAIN a /\ There(b)
                    /\ e = [g \in DOMAIN a \cup {b} |-> IF g # b THEN a[g] ELSE new[b]])
      BY <3>1 DEF FoundIn
    <3> HIDE DEF e, b
    <3>3. e \in Acc
      BY <3>1, <3>2, GrowsByOne
    <3> QED BY <3>3 DEF e, b
  <2> HIDE DEF Acc, Then
  <2> QED BY <2>2
<1>3. c \in Acc
  BY StartsGrown
<1>4. PICK g : Folds(n, Acc, G, c, g)
  <2> HIDE DEF Acc, G
  <2> QED BY <1>2, <1>3, FoldExists
<1> HIDE DEF Then, Acc
<1>5. R(g)
  <2> DEFINE k == [s \in SUBSET (1..n) |->
                     IF s = {} THEN c ELSE Then(g[s \ {Max(s)}], files[Max(s)])]
  <2>2. ASSUME NEW s \in SUBSET (1..n), s # {}
        PROVE  G[Max(s)][g[s \ {Max(s)}]] = Then(g[s \ {Max(s)}], files[Max(s)])
    <3>1. Max(s) \in 1..n
      BY <2>2, Greatest
    <3>2. g[s \ {Max(s)}] \in Acc
      BY <1>4 DEF Folds
    <3> QED BY <3>1, <3>2
  <2>3. \A s \in SUBSET (1..n) : g[s] = k[s]
    BY <1>4, <2>2 DEF Folds
  <2>4. g = [s \in SUBSET (1..n) |-> g[s]]
    BY <1>4 DEF Folds
  <2>5. g = k
    BY <2>3, <2>4
  <2> QED BY <2>5
<1>6. R(f)
  BY <1>5
<1>7. \E p : Run(n, Acc, G, c, p, f[1..n])
  <2>1. f[{}] = c
    BY <1>6
  <2>2. ASSUME NEW s \in SUBSET (1..n), s # {}, f[s \ {Max(s)}] \in Acc
        PROVE  f[s] = G[Max(s)][f[s \ {Max(s)}]]
    <3>1. f[s] = Then(f[s \ {Max(s)}], files[Max(s)])
      BY <1>6, <2>2
    <3>2. Max(s) \in 1..n
      BY <2>2, Greatest
    <3> HIDE DEF f
    <3> QED BY <3>1, <3>2, <2>2
  <2> HIDE DEF f, G
  <2> QED BY <1>2, <1>3, <2>1, <2>2, FoldResult
<1>8. f[1..n] \in Acc
  <2> HIDE DEF f
  <2> QED BY <1>7 DEF Run
<1> QED BY <1>1, <1>8 DEF Acc

(* analyze_imports for one file after the other                            *)
LEMMA GraphGrows ==
  ASSUME IsCache(importCache), NEW n \in Nat, NEW files \in [1..n -> ScriptFile], NEW new,
         \A f \in ToSet(files) : new[f] = FoundIn(f, Defaults, TRUE, FolderOf[f])
  PROVE  GraphCache(files) \in GrownCaches(importCache, new, files)
<1> DEFINE c == importCache
           Acc == GrownCaches(c, new, files)
           Then(d, f) == CachedImports(d, <<f>>, Defaults, TRUE, FolderOf[f])
           G == [i \in 1..n |-> [a \in Acc |-> Then(a, files[i])]]
           R(h) == h = [s \in SUBSET (1..n) |->
                          IF s = {} THEN c ELSE Then(h[s \ {Max(s)}], files[Max(s)])]
           f == CHOOSE h : R(h)
<1>1. GraphCache(files) = f[1..n]
  <2>1. DOMAIN files = 1..n
    OBVIOUS
  <2> QED BY <2>1 DEF GraphCache, FoldLeft, MapThenFoldSet
<1>2. G \in [1..n -> [Acc -> Acc]]
  <2>1. \A i \in 1..n : files[i] \in ToSet(files) /\ files[i] \in ScriptFile
    BY DEF ToSet
  <2>2. ASSUME NEW i \in 1..n, NEW a \in Acc PROVE Then(a, files[i]) \in Acc
    <3> DEFINE b == files[i]
               one == <<b>>
               e == Then(a, b)
    <3>1. b \in ToSet(files) /\ b \in ScriptFile /\ new[b] = FoundIn(b, Defaults, TRUE, FolderOf[b])
      BY <2>1
    <3>2. one \in [1..1 -> ScriptFile] /\ ToSet(one) = {b}
      BY <3>1 DEF ToSet
    <3>3. IsCache(a)
      BY GrownParts
    <3>4. e \in GrownCaches(a, new, one)
      <4> HIDE DEF one, b
      <4>1. CachedImports(a, one, Defaults, TRUE, FolderOf[b]) \in GrownCaches(a, new, one)
        BY <3>1, <3>2, <3>3, CachedGrows
      <4> QED BY <4>1 DEF one
    <3>5. e = a \/ (b \notin DOMAIN a /\ There(b)
                    /\ e = [g \in DOMAIN a \cup {b} |-> IF g # b THEN a[g] ELSE new[b]])
      <4> HIDE DEF e, b, one
      <4>1. /\ IsCache(e) /\ DOMAIN a \subseteq DOMAIN e /\ \A g \in DOMAIN a : e[g] = a[g]
            /\ \A g \in DOMAIN e \ DOMAIN a : g = b /\ There(g) /\ e[g] = new[g]
        BY <3>2, <3>4, GrownParts
      <4>2. CASE DOMAIN e = DOMAIN a
        BY <3>3, <4>1, <4>2 DEF IsCache
      <4>3. CASE DOMAIN e # DOMAIN a
        <5>1. b \in DOMAIN e /\ b \notin DOMAIN a /\ There(b) /\ e[b] = new[b]
              /\ DOMAIN e = DOMAIN a \cup {b}
          <6>1. PICK g \in DOMAIN e : g \notin DOMAIN a
            BY <4>1, <4>3
          <6>2. g = b
            BY <4>1, <6>1
          <6> QED BY <4>1, <6>1, <6>2
        <5>2. \A g \in DOMAIN e : e[g] = IF g # b THEN a[g] ELSE new[b]
          BY <4>1, <5>1
        <5> QED BY <4>1, <5>1, <5>2 DEF IsCache
      <4> QED BY <4>2, <4>3
    <3> HIDE DEF e, b
    <3>6. e \in Acc
      BY <3>1, <3>5, GrowsByOne
    <3> QED BY <3>6 DEF e, b
  <2> HIDE DEF Acc, Then
  <2> QED BY <2>2
<1>3. c \in Acc
  BY StartsGrown
<1>4. PICK g : Folds(n, Acc, G, c, g)
  <2> HIDE DEF Acc, G, c
  <2> QED BY <1>2, <1>3, FoldExists
<1> HIDE DEF Then, Acc, c
<1>5. R(g)
  <2> DEFINE k == [s \in SUBSET (1..n) |->
                     IF s = {} THEN c ELSE Then(g[s \ {Max(s)}], files[Max(s)])]
  <2>2. ASSUME NEW s \in SUBSET (1..n), s # {}
        PROVE  G[Max(s)][g[s \ {Max(s)}]] = Then(g[s \ {Max(s)}], files[Max(s)])
    <3>1. Max(s) \in 1..n
      BY <2>2, Greatest
    <3>2. g[s \ {Max(s)}] \in Acc
      BY <1>4 DEF Folds
    <3> QED BY <3>1, <3>2
  <2>3. \A s \in SUBSET (1..n) : g[s] = k[s]
    BY <1>4, <2>2 DEF Folds
  <2>4. g = [s \in SUBSET (1..n) |-> g[s]]
    BY <1>4 DEF Folds
  <2>5. g = k
    BY <2>3, <2>4
  <2> QED BY <2>5
<1>6. R(f)
  BY <1>5
<1>7. \E p : Run(n, Acc, G, c, p, f[1..n])
  <2>1. f[{}] = c
    BY <1>6
  <2>2. ASSUME NEW s \in SUBSET (1..n), s # {}, f[s \ {Max(s)}] \in Acc
        PROVE  f[s] = G[Max(s)][f[s \ {Max(s)}]]
    <3>1. f[s] = Then(f[s \ {Max(s)}], files[Max(s)])
      BY <1>6, <2>2
    <3>2. Max(s) \in 1..n
      BY <2>2, Greatest
    <3> HIDE DEF f
    <3> QED BY <3>1, <3>2, <2>2
  <2> HIDE DEF f, G
  <2> QED BY <1>2, <1>3, <2>1, <2>2, FoldResult
<1>8. f[1..n] \in Acc
  <2> HIDE DEF f
  <2> QED BY <1>7 DEF Run
<1> QED BY <1>1, <1>8 DEF Acc, c

-----------------------------------------------------------------------------
(* What was found in a file with the defaults, of the text it has now      *)
IsStraight(f) ==
  /\ There(f) /\ f \in DOMAIN importCache
  /\ \E folder : importCache[f] = FoundIn(f, Defaults, TRUE, folder)

GraphReported ==
  reported.kind = "graph" =>
    /\ ToSet(reported.files) \subseteq ScriptFile
    /\ reported.edges = EdgesOfImports(importCache, reported.files)
    /\ reported.cycles => reported.circular = CircularDependencies(reported.edges)

ImportsInv ==
  /\ IsCache(importCache)
  /\ \A f \in straight : IsStraight(f)
  /\ GraphReported

LEMMA ImportsInitOK == ImportsInit => ImportsInv
<1> SUFFICES ASSUME ImportsInit PROVE ImportsInv
  OBVIOUS
<1>1. importCache = << >> /\ straight = {} /\ reported.kind = "none"
  BY DEF ImportsInit, NoReport
<1>2. DOMAIN importCache = {} /\ IsCache(importCache)
  BY <1>1 DEF IsCache
<1> QED BY <1>1, <1>2 DEF ImportsInv, GraphReported

(* What is found depends on the text of the file and on which files there  *)
(* are.                                                                    *)
LEMMA FoundAgain ==
  ASSUME DOMAIN scripts' = DOMAIN scripts, NEW f, scripts'[f] = scripts[f]
  PROVE  \A folder : FoundIn(f, Defaults, TRUE, folder)' = FoundIn(f, Defaults, TRUE, folder)
<1>1. \A s, folder : ResolvedPath(s, folder)' = ResolvedPath(s, folder)
  <2>1. \A s : Named(s)' = Named(s)
    BY DEF Named, There
  <2> QED BY <2>1 DEF ResolvedPath
<1>2. ImportsFound(f, Defaults)' = ImportsFound(f, Defaults)
  BY DEF ImportsFound
<1> QED BY <1>1, <1>2 DEF FoundIn

(* A call that leaves the files alone, and adds to the cache               *)
LEMMA CallGrows ==
  ASSUME ImportsInv, scripts' = scripts,
         NEW new, NEW files, importCache' \in GrownCaches(importCache, new, files),
         \A f \in straight' \ straight :
           /\ f \in DOMAIN importCache' \ DOMAIN importCache
           /\ \E folder : new[f] = FoundIn(f, Defaults, TRUE, folder)
  PROVE  IsCache(importCache)' /\ (\A f \in straight : IsStraight(f))'
<1>1. /\ IsCache(importCache')
      /\ DOMAIN importCache \subseteq DOMAIN importCache'
      /\ \A g \in DOMAIN importCache : importCache'[g] = importCache[g]
      /\ \A g \in DOMAIN importCache' \ DOMAIN importCache : There(g) /\ importCache'[g] = new[g]
  BY GrownParts
<1>2. \A f, folder : FoundIn(f, Defaults, TRUE, folder)' = FoundIn(f, Defaults, TRUE, folder)
  BY FoundAgain
<1>3. \A f : There(f)' <=> There(f)
  BY DEF There
<1>4. ASSUME NEW f \in straight' PROVE IsStraight(f)'
  <2>1. CASE f \in straight
    <3>1. IsStraight(f)
      BY <2>1 DEF ImportsInv
    <3> QED BY <3>1, <1>1, <1>2, <1>3 DEF IsStraight
  <2>2. CASE f \notin straight
    BY <2>2, <1>1, <1>2, <1>3 DEF IsStraight
  <2> QED BY <2>1, <2>2
<1>5. IsCache(importCache)'
  BY <1>1 DEF IsCache
<1> QED BY <1>4, <1>5

LEMMA FileLists ==
  ASSUME NEW files \in FileList
  PROVE  ToSet(files) \subseteq ScriptFile /\ \E n \in Nat : files \in [1..n -> ScriptFile]
<1>1. \E n \in Nat : files \in [1..n -> ScriptFile]
  <2>1. CASE files \in {<<f>> : f \in ScriptFile}
    <3>1. PICK f \in ScriptFile : files = <<f>>
      BY <2>1
    <3>2. <<f>> \in [1..1 -> ScriptFile]
      OBVIOUS
    <3> QED BY <3>1, <3>2
  <2>2. CASE files = SetToSeq(ScriptFile)
    <3> DEFINE n == Cardinality(ScriptFile)
    <3>1. n \in Nat /\ ExistsBijection(1..n, ScriptFile)
      BY ImportsAssumption, FS_CardinalityType
    <3>2. PICK g : g \in [1..n -> ScriptFile] /\ IsInjective(g)
      BY <3>1 DEF ExistsBijection, Bijection, Injection
    <3>3. files \in [1..n -> ScriptFile]
      BY <2>2, <3>2 DEF SetToSeq
    <3> HIDE DEF n
    <3> QED BY <3>1, <3>3
  <2> QED BY <2>1, <2>2 DEF FileList
<1> QED BY <1>1 DEF ToSet

LEMMA ChangeScriptOK ==
  ASSUME ImportsInv, reported = NoReport, NEW f \in ScriptFile, ChangeScript(f)
  PROVE  ImportsInv'
<1>1. importCache' = importCache /\ reported' = reported
  BY DEF ChangeScript
<1>2. GraphReported'
  BY <1>1 DEF GraphReported, NoReport
<1>3. IsCache(importCache)'
  BY <1>1 DEF ImportsInv, IsCache
<1>4. ASSUME NEW g \in straight' PROVE IsStraight(g)'
  <2>1. /\ There(f) /\ straight' = straight \ {f}
        /\ \E t : scripts' = [h \in DOMAIN scripts \cup {f} |-> IF h = f THEN t ELSE scripts[h]]
    BY <1>4 DEF ChangeScript
  <2>2. DOMAIN scripts' = DOMAIN scripts
    BY <2>1 DEF There
  <2>3. g # f /\ IsStraight(g)
    BY <1>4, <2>1 DEF ImportsInv
  <2>4. scripts'[g] = scripts[g]
    BY <2>1, <2>3 DEF IsStraight, There
  <2>5. \A folder : FoundIn(g, Defaults, TRUE, folder)' = FoundIn(g, Defaults, TRUE, folder)
    BY <2>2, <2>4, FoundAgain
  <2> QED BY <1>1, <2>2, <2>3, <2>5 DEF IsStraight, There
<1> QED BY <1>2, <1>3, <1>4 DEF ImportsInv

LEMMA AnalyzeImportsOK ==
  ASSUME ImportsInv, NEW files \in FileList, NEW flags, NEW resolve,
         AnalyzeImports(files, flags, resolve)
  PROVE  ImportsInv'
<1> DEFINE folder == FolderSet(files, resolve, root)
           new == [f \in ToSet(files) |-> FoundIn(f, flags, resolve, folder)]
<1>1. PICK n \in Nat : files \in [1..n -> ScriptFile]
  BY FileLists
<1>2. /\ importCache' = CachedImports(importCache, files, flags, resolve, folder)
      /\ scripts' = scripts /\ reported'.kind = "imports"
      /\ straight' \subseteq straight \cup
           IF flags = Defaults /\ resolve
           THEN ToSet(files) \cap (DOMAIN importCache' \ DOMAIN importCache) ELSE {}
  BY DEF AnalyzeImports
<1>3. \A f \in ToSet(files) : new[f] = FoundIn(f, flags, resolve, folder)
  OBVIOUS
<1> HIDE DEF new, folder
<1>4. importCache' \in GrownCaches(importCache, new, files)
  BY <1>1, <1>2, <1>3, CachedGrows DEF ImportsInv
<1>5. ASSUME NEW f \in straight' \ straight
      PROVE  /\ f \in DOMAIN importCache' \ DOMAIN importCache
             /\ \E d : new[f] = FoundIn(f, Defaults, TRUE, d)
  <2>1. flags = Defaults /\ resolve /\ f \in ToSet(files)
        /\ f \in DOMAIN importCache' \ DOMAIN importCache
    BY <1>2
  <2>2. FoundIn(f, flags, resolve, folder) = FoundIn(f, Defaults, TRUE, folder)
    BY <2>1 DEF FoundIn
  <2> QED BY <1>3, <2>1, <2>2
<1>6. GraphReported'
  BY <1>2 DEF GraphReported
<1> QED BY <1>2, <1>4, <1>5, <1>6, CallGrows DEF ImportsInv

LEMMA GetFileImportsOK ==
  ASSUME ImportsInv, NEW f \in ScriptFile, GetFileImports(f)
  PROVE  ImportsInv'
<1> DEFINE one == <<f>>
           new == [g \in ToSet(one) |-> FoundIn(g, FileFlags, FALSE, root)]
<1>1. one \in [1..1 -> ScriptFile]
  OBVIOUS
<1>2. /\ importCache' = CachedImports(importCache, one, FileFlags, FALSE, root)
      /\ scripts' = scripts /\ reported'.kind = "file" /\ straight' = straight
  BY DEF GetFileImports
<1>3. \A g \in ToSet(one) : new[g] = FoundIn(g, FileFlags, FALSE, root)
  OBVIOUS
<1> HIDE DEF new, one
<1>4. importCache' \in GrownCaches(importCache, new, one)
  BY <1>1, <1>2, <1>3, CachedGrows DEF ImportsInv
<1>5. GraphReported'
  BY <1>2 DEF GraphReported
<1> QED BY <1>2, <1>4, <1>5, CallGrows DEF ImportsInv

LEMMA GetModuleInfoOK ==
  ASSUME ImportsInv, NEW f \in ScriptFile, GetModuleInfo(f)
  PROVE  ImportsInv'
<1> DEFINE one == <<f>>
           folder == FolderOf[f]
           new == [g \in ToSet(one) |-> FoundIn(g, Defaults, TRUE, folder)]
<1>1. one \in [1..1 -> ScriptFile] /\ ToSet(one) = {f}
  BY DEF ToSet
<1>2. /\ importCache' = CachedImports(importCache, one, Defaults, TRUE, folder)
      /\ scripts' = scripts /\ reported'.kind = "module"
      /\ straight' = straight \cup (DOMAIN importCache' \ DOMAIN importCache)
  BY DEF GetModuleInfo
<1>3. \A g \in ToSet(one) : new[g] = FoundIn(g, Defaults, TRUE, folder)
  OBVIOUS
<1> HIDE DEF new, one, folder
<1>4. importCache' \in GrownCaches(importCache, new, one)
  BY <1>1, <1>2, <1>3, CachedGrows DEF ImportsInv
<1>5. ASSUME NEW g \in straight' \ straight
      PROVE  /\ g \in DOMAIN importCache' \ DOMAIN importCache
             /\ \E d : new[g] = FoundIn(g, Defaults, TRUE, d)
  <2>1. g \in DOMAIN importCache' \ DOMAIN importCache
    BY <1>2
  <2>2. g \in ToSet(one)
    BY <1>4, <2>1, GrownParts
  <2> QED BY <1>3, <2>1, <2>2
<1>6. GraphReported'
  BY <1>2 DEF GraphReported
<1> QED BY <1>2, <1>4, <1>5, <1>6, CallGrows DEF ImportsInv

LEMMA BuildDependencyGraphOK ==
  ASSUME ImportsInv, NEW files \in FileList, NEW cycles \in BOOLEAN,
         BuildDependencyGraph(files, cycles)
  PROVE  ImportsInv'
<1> DEFINE new == [f \in ToSet(files) |-> FoundIn(f, Defaults, TRUE, FolderOf[f])]
           made == EdgesOfImports(importCache', files)
<1>1. PICK n \in Nat : files \in [1..n -> ScriptFile]
  BY FileLists
<1>2. /\ importCache' = GraphCache(files) /\ scripts' = scripts
      /\ straight' = straight \cup (DOMAIN importCache' \ DOMAIN importCache)
      /\ reported' = [kind |-> "graph", files |-> files, edges |-> made,
                      circular |-> IF cycles THEN CircularDependencies(made) ELSE {},
                      cycles |-> cycles]
  BY DEF BuildDependencyGraph
<1>3. \A f \in ToSet(files) : new[f] = FoundIn(f, Defaults, TRUE, FolderOf[f])
  OBVIOUS
<1> HIDE DEF new, made
<1>4. importCache' \in GrownCaches(importCache, new, files)
  BY <1>1, <1>2, <1>3, GraphGrows DEF ImportsInv
<1>5. ASSUME NEW g \in straight' \ straight
      PROVE  /\ g \in DOMAIN importCache' \ DOMAIN importCache
             /\ \E d : new[g] = FoundIn(g, Defaults, TRUE, d)
  <2>1. g \in DOMAIN importCache' \ DOMAIN importCache
    BY <1>2
  <2>2. g \in ToSet(files)
    BY <1>4, <2>1, GrownParts
  <2> QED BY <1>3, <2>1, <2>2
<1>6. GraphReported'
  <2>1. /\ reported'.files = files /\ reported'.edges = made /\ reported'.cycles = cycles
        /\ reported'.circular = IF cycles THEN CircularDependencies(made) ELSE {}
    BY <1>2
  <2>2. ToSet(files) \subseteq ScriptFile
    BY FileLists
  <2>3. made = EdgesOfImports(importCache', files)
    BY DEF made
  <2> QED BY <2>1, <2>2, <2>3 DEF GraphReported, EdgesOfImports, External, CircularDependencies
<1> QED BY <1>2, <1>4, <1>5, <1>6, CallGrows DEF ImportsInv

LEMMA AnalyzeFileOK ==
  ASSUME ImportsInv, NEW f \in ScriptFile, AnalyzeFile(f)
  PROVE  ImportsInv'
<1>1. /\ DOMAIN importCache' = DOMAIN importCache \cup {f}
      /\ \A g \in DOMAIN importCache : g # f => importCache'[g] = importCache[g]
      /\ IsCache(importCache')
      /\ scripts' = scripts /\ straight' = straight \ {f} /\ reported'.kind = "none"
  BY DEF AnalyzeFile, IsCache, NoReport
<1>2. \A g, folder : FoundIn(g, Defaults, TRUE, folder)' = FoundIn(g, Defaults, TRUE, folder)
  BY <1>1, FoundAgain
<1>3. ASSUME NEW g \in straight' PROVE IsStraight(g)'
  <2>1. g # f /\ IsStraight(g)
    BY <1>1 DEF ImportsInv
  <2>2. There(g)' <=> There(g)
    BY <1>1 DEF There
  <2> QED BY <1>1, <1>2, <2>1, <2>2 DEF IsStraight
<1>4. GraphReported' /\ IsCache(importCache)'
  BY <1>1 DEF GraphReported, IsCache
<1> QED BY <1>3, <1>4 DEF ImportsInv

(* A step that neither changes files nor the cache of imports              *)
LEMMA ImportsKept ==
  ASSUME ImportsInv, UNCHANGED <<scripts, importCache, straight>>,
         reported' = reported \/ reported'.kind # "graph"
  PROVE  ImportsInv'
<1>1. \A g, folder : FoundIn(g, Defaults, TRUE, folder)' = FoundIn(g, Defaults, TRUE, folder)
  BY FoundAgain
<1>2. \A g : IsStraight(g) => IsStraight(g)'
  BY <1>1 DEF IsStraight, There
<1>3. GraphReported'
  BY DEF GraphReported, ImportsInv, EdgesOfImports, External, CircularDependencies
<1>4. IsCache(importCache)'
  BY DEF ImportsInv, IsCache
<1> QED BY <1>2, <1>3, <1>4 DEF ImportsInv

LEMMA ImportsInductive == ImportsInv /\ [ImportsNext]_importVars => ImportsInv'
<1> SUFFICES ASSUME ImportsInv, [ImportsNext]_importVars PROVE ImportsInv'
  OBVIOUS
<1>1. CASE UNCHANGED importVars
  BY <1>1, ImportsKept DEF importVars
<1>2. CASE LookAtReport
  BY <1>2, ImportsKept DEF LookAtReport, NoReport
<1>3. ASSUME reported = NoReport, NEW f \in ScriptFile, ChangeScript(f) PROVE ImportsInv'
  BY <1>3, ChangeScriptOK
<1>4. ASSUME NEW f \in ScriptFile, GetFileImports(f) PROVE ImportsInv'
  BY <1>4, GetFileImportsOK
<1>5. ASSUME NEW f \in ScriptFile, AnalyzeFile(f) PROVE ImportsInv'
  BY <1>5, AnalyzeFileOK
<1>6. ASSUME NEW f \in ScriptFile, GetModuleInfo(f) PROVE ImportsInv'
  BY <1>6, GetModuleInfoOK
<1>7. ASSUME NEW files \in FileList, NEW flags, NEW resolve, AnalyzeImports(files, flags, resolve)
      PROVE  ImportsInv'
  BY <1>7, AnalyzeImportsOK
<1>8. ASSUME NEW files \in FileList, NEW again, AnalyzeExports(files, again) PROVE ImportsInv'
  BY <1>8, ImportsKept DEF AnalyzeExports
<1>9. ASSUME NEW files \in FileList, NEW cycles \in BOOLEAN, BuildDependencyGraph(files, cycles)
      PROVE  ImportsInv'
  BY <1>9, BuildDependencyGraphOK
<1>10. ASSUME NEW s, NEW folder, ResolveModulePath(s, folder) PROVE ImportsInv'
  BY <1>10, ImportsKept DEF ResolveModulePath
<1>11. CASE reported = NoReport /\ ImportsStep
  BY <1>11, <1>3, <1>4, <1>5, <1>6, <1>7, <1>8, <1>9, <1>10 DEF ImportsStep
<1> QED BY <1>1, <1>2, <1>11 DEF ImportsNext

(* The imports that are found straight are those that make the graph.      *)
LEMMA StraightImports ==
  ASSUME NoneMadeUp, NEW f \in ScriptFile, NEW g \in ScriptFile, IsStraight(f)
  PROVE  (\E i \in importCache[f] : i.module = g /\ ~ External(i.statement)) <=> ImportsFile(f, g)
<1>1. PICK folder : importCache[f] = FoundIn(f, Defaults, TRUE, folder)
  BY DEF IsStraight
<1>2. Defaults.types /\ ~ Defaults.distinguish /\ ~ Defaults.dynamic /\ ~ Defaults.external
  BY DEF Defaults
<1>3. \A s : ImportSeen(s, Defaults) <=> s.kind = "static" /\ s.form = "relative"
  BY <1>2 DEF ImportSeen, External
<1>4. Unresolved # g
  BY ImportsAssumption
<1>5. ASSUME NEW i \in importCache[f], i.module = g, ~ External(i.statement) PROVE ImportsFile(f, g)
  <2>1. PICK s \in ImportsFound(f, Defaults) :
          i = [statement |-> s, module |-> ResolvedPath(s, folder)]
    BY <1>1 DEF FoundIn
  <2>2. s.form = "relative" /\ ResolvedPath(s, folder) = g
    BY <1>5, <2>1 DEF External
  <2>3. Named(s) # {} /\ s.files[Min(Named(s))] = g
    BY <1>4, <2>2 DEF ResolvedPath
  <2>4. s \notin MadeUp[f]
    <3>1. SUFFICES ASSUME s \in MadeUp[f] PROVE FALSE
      OBVIOUS
    <3>2. s.files = << >>
      BY <2>2, <3>1 DEF NoneMadeUp, External
    <3>3. Named(s) = {}
      BY <3>2 DEF Named
    <3> QED BY <2>3, <3>3
  <2>5. s \in scripts[f] /\ ImportSeen(s, Defaults)
    BY <2>1, <2>4 DEF ImportsFound
  <2> QED BY <1>3, <2>3, <2>5 DEF ImportsFile
<1>6. ASSUME ImportsFile(f, g)
      PROVE  \E i \in importCache[f] : i.module = g /\ ~ External(i.statement)
  <2>1. PICK s \in scripts[f] : /\ s.kind = "static" /\ s.form = "relative"
                                /\ Named(s) # {} /\ s.files[Min(Named(s))] = g
    BY <1>6 DEF ImportsFile
  <2>2. s \in ImportsFound(f, Defaults)
    BY <1>3, <2>1 DEF ImportsFound
  <2>3. ResolvedPath(s, folder) = g
    BY <2>1 DEF ResolvedPath
  <2> DEFINE i == [statement |-> s, module |-> ResolvedPath(s, folder)]
  <2>4. i \in importCache[f]
    BY <1>1, <2>2 DEF FoundIn
  <2>5. i.module = g /\ ~ External(i.statement)
    BY <2>1, <2>3 DEF External
  <2> QED BY <2>4, <2>5
<1> QED BY <1>5, <1>6

LEMMA ImportsInvFollows == NoneMadeUp /\ ImportsInv => GraphFollowsImports
<1> SUFFICES ASSUME NoneMadeUp, ImportsInv, reported.kind = "graph",
                    ToSet(reported.files) \subseteq straight
             PROVE  /\ reported.edges =
                         {e \in ToSet(reported.files) \X ToSet(reported.files) : ImportsFile(e[1], e[2])}
                    /\ reported.cycles =>
                         \A f \in ScriptFile :
                           (\E c \in reported.circular : f \in ToSet(c))
                             <=> \E g \in ScriptFile \ {f} :
                                   ReachesScript(reported.edges, f, g) /\ ReachesScript(reported.edges, g, f)
  BY DEF GraphFollowsImports
<1> DEFINE F == ToSet(reported.files)
<1>1. /\ F \subseteq ScriptFile /\ \A f \in F : IsStraight(f)
      /\ reported.edges = EdgesOfImports(importCache, reported.files)
      /\ reported.cycles => reported.circular = CircularDependencies(reported.edges)
  BY DEF ImportsInv, GraphReported
<1>2. reported.edges = {e \in F \X F : ImportsFile(e[1], e[2])}
  <2>1. F \cap DOMAIN importCache = F
    BY <1>1 DEF IsStraight
  <2>2. reported.edges =
          {e \in F \X F : \E i \in importCache[e[1]] : i.module = e[2] /\ ~ External(i.statement)}
    BY <1>1, <2>1 DEF EdgesOfImports
  <2>3. \A e \in F \X F :
          (\E i \in importCache[e[1]] : i.module = e[2] /\ ~ External(i.statement))
            <=> ImportsFile(e[1], e[2])
    <3> SUFFICES ASSUME NEW e \in F \X F
                 PROVE  (\E i \in importCache[e[1]] : i.module = e[2] /\ ~ External(i.statement))
                          <=> ImportsFile(e[1], e[2])
      OBVIOUS
    <3>1. e[1] \in ScriptFile /\ e[2] \in ScriptFile /\ IsStraight(e[1])
      BY <1>1
    <3> QED BY <3>1, StraightImports
  <2> HIDE DEF F
  <2> QED BY <2>2, <2>3
<1>3. reported.cycles =>
        \A f \in ScriptFile :
          (\E c \in reported.circular : f \in ToSet(c))
            <=> \E g \in ScriptFile \ {f} :
                  ReachesScript(reported.edges, f, g) /\ ReachesScript(reported.edges, g, f)
  BY <1>1, CirclesComplete
<1> QED BY <1>2, <1>3

(* GraphFollowsImports, for any files, texts and calls, and any graph: the *)
(* edges that build_dependency_graph makes of fresh imports are those that *)
(* the files make, and the files on its cycles are those that reach each   *)
(* other.                                                                  *)
THEOREM GraphsFollowImports == ASSUME NoneMadeUp PROVE ImportsSpec => []GraphFollowsImports
<1>1. ImportsInit => ImportsInv
  BY ImportsInitOK
<1>2. ImportsInv /\ [ImportsNext]_importVars => ImportsInv'
  BY ImportsInductive
<1>3. ImportsInv => GraphFollowsImports
  BY ImportsInvFollows
<1> QED BY <1>1, <1>2, <1>3, PTL DEF ImportsSpec
(***************************************************************************)
(* The workspace                                                           *)
(***************************************************************************)

LEMMA StoredProject ==
  ASSUME NEW P, NEW q \in Seq(P), NEW p \in P
  PROVE  /\ Stored(q, p) \in Seq(P)
         /\ ToSet(Stored(q, p)) = {p} \cup {r \in ToSet(q) : r.name # p.name}
<1> DEFINE e == Stored(q, p)
<1>1. q \in [1..Len(q) -> P] /\ DOMAIN q = 1..Len(q) /\ Len(q) \in Nat
  BY LenProperties
<1>2. CASE \E i \in DOMAIN q : q[i].name = p.name
  <2>1. e = [i \in DOMAIN q |-> IF q[i].name = p.name THEN p ELSE q[i]]
    BY <1>2 DEF Stored
  <2>2. DOMAIN e = DOMAIN q /\ \A i \in DOMAIN q : e[i] = IF q[i].name = p.name THEN p ELSE q[i]
    BY <2>1
  <2>3. e \in Seq(P)
    BY <1>1, <2>1
  <2> HIDE DEF e
  <2>4. ToSet(e) = {p} \cup {r \in ToSet(q) : r.name # p.name}
    BY <1>2, <2>2 DEF ToSet
  <2> QED BY <2>3, <2>4 DEF e
<1>3. CASE ~ \E i \in DOMAIN q : q[i].name = p.name
  <2>1. e = Append(q, p)
    BY <1>3 DEF Stored
  <2> HIDE DEF e
  <2>2. e \in Seq(P) /\ Len(e) = Len(q) + 1 /\ (\A i \in 1..Len(q) : e[i] = q[i]) /\ e[Len(q) + 1] = p
    BY <2>1, AppendProperties
  <2>3. DOMAIN e = 1..(Len(q) + 1)
    BY <2>2, LenProperties
  <2>4. \A i \in 1..(Len(q) + 1) : i \in 1..Len(q) \/ i = Len(q) + 1
    BY <1>1
  <2>5. \A i \in 1..Len(q) : i \in 1..(Len(q) + 1)
    BY <1>1
  <2>6. Len(q) + 1 \in 1..(Len(q) + 1)
    BY <1>1
  <2>7. ToSet(e) = {p} \cup ToSet(q)
    BY <1>1, <2>2, <2>3, <2>4, <2>5, <2>6 DEF ToSet
  <2>8. ToSet(q) = {r \in ToSet(q) : r.name # p.name}
    BY <1>3 DEF ToSet
  <2> QED BY <2>2, <2>7, <2>8 DEF e
<1> QED BY <1>2, <1>3

(* A walk comes to every folder.                                           *)
LEMMA WalkComplete ==
  ASSUME NEW S, IsFiniteSet(S), NEW w \in SetToSeqs(S)
  PROVE  /\ Cardinality(S) \in Nat /\ w \in [1..Cardinality(S) -> S]
         /\ \A x \in S : \E i \in 1..Cardinality(S) : w[i] = x
<1> DEFINE n == Cardinality(S)
<1>1. n \in Nat
  BY FS_CardinalityType
<1>2. w \in [1..n -> S] /\ \A i, j \in 1..n : i # j => w[i] # w[j]
  BY DEF SetToSeqs
<1>3. w \in Injection(1..n, S)
  BY <1>2 DEF Injection, IsInjective
<1>4. Cardinality(1..n) = n
  BY <1>1, FS_Interval
<1>5. w \in Surjection(1..n, S)
  BY <1>3, <1>4, FS_Injection
<1> QED BY <1>1, <1>2, <1>5 DEF Surjection

(* What a discovery has found after the folders in done                    *)
FoundUpTo(ps, done) ==
  {ProjectOf(f) : f \in done}
    \cup {r \in ToSet(ps) : r.name \notin {configured[f].name : f \in done}}

LEMMA FoundNext ==
  ASSUME NEW P, NEW q \in Seq(P), NEW ps, NEW done \in SUBSET InGraph, Distinct, NEW f \in Place,
         ProjectOf(f) \in P, ToSet(q) = FoundUpTo(ps, done)
  PROVE  ToSet(IF Skipped(f) THEN q ELSE Stored(q, ProjectOf(f)))
           = FoundUpTo(ps, done \cup ({f} \cap InGraph))
<1>1. CASE Skipped(f)
  <2>1. done \cup ({f} \cap InGraph) = done
    BY <1>1 DEF InGraph
  <2> QED BY <1>1, <2>1
<1>2. CASE ~Skipped(f)
  <2>1. f \in InGraph /\ {f} \cap InGraph = {f}
    BY <1>2 DEF InGraph
  <2>2. \A g : ProjectOf(g).name = configured[g].name
    BY DEF ProjectOf
  <2>3. \A g \in done : configured[g].name = configured[f].name => g = f
    BY <2>1 DEF Distinct
  <2>4. ToSet(Stored(q, ProjectOf(f))) = {ProjectOf(f)} \cup {r \in ToSet(q) : r.name # configured[f].name}
    BY <2>2, StoredProject
  <2> HIDE DEF Stored, ProjectOf
  <2>5. {ProjectOf(f)} \cup {r \in FoundUpTo(ps, done) : r.name # configured[f].name}
          = FoundUpTo(ps, done \cup {f})
    BY <2>2, <2>3 DEF FoundUpTo
  <2> QED BY <1>2, <2>1, <2>4, <2>5
<1> QED BY <1>1, <1>2

(* A discovery finds the projects of the configurations, and keeps those   *)
(* that were found before under other names.                               *)
LEMMA DiscoveredIs ==
  ASSUME NEW A, NEW ps \in Seq(A), NEW walk \in WalkOrders
  PROVE  /\ \E P : Discovered(ps, walk) \in Seq(P)
         /\ Distinct => ToSet(Discovered(ps, walk)) = FoundUpTo(ps, InGraph)
<1> DEFINE n == Cardinality(Place)
           P == A \cup {ProjectOf(f) : f \in Place}
           Acc == Seq(P)
           Then(q, f) == IF Skipped(f) THEN q ELSE Stored(q, ProjectOf(f))
           G == [i \in 1..n |-> [a \in Acc |-> Then(a, walk[i])]]
           R(h) == h = [s \in SUBSET (1..n) |->
                          IF s = {} THEN ps ELSE Then(h[s \ {Max(s)}], walk[Max(s)])]
           f == CHOOSE h : R(h)
<1>0. /\ n \in Nat /\ walk \in [1..n -> Place]
      /\ \A x \in Place : \E i \in 1..n : walk[i] = x
  BY WorkspaceAssumption, WalkComplete DEF WalkOrders
<1>1. Discovered(ps, walk) = f[1..n]
  <2>1. DOMAIN walk = 1..n
    BY <1>0
  <2> QED BY <2>1 DEF Discovered, FoldLeft, MapThenFoldSet
<1>2. \A a \in Acc, g \in Place : Then(a, g) \in Acc
  <2>1. ASSUME NEW a \in Acc, NEW g \in Place PROVE Then(a, g) \in Acc
    <3>1. ProjectOf(g) \in P
      OBVIOUS
    <3> HIDE DEF P
    <3>2. Stored(a, ProjectOf(g)) \in Acc
      BY <3>1, StoredProject
    <3> QED BY <3>2
  <2> QED BY <2>1
<1>3. G \in [1..n -> [Acc -> Acc]]
  <2> HIDE DEF Acc, Then
  <2> QED BY <1>0, <1>2
<1>4. ps \in Acc
  BY SeqMonotonic
<1>5. PICK g : Folds(n, Acc, G, ps, g)
  <2> HIDE DEF Acc, G, n
  <2> QED BY <1>0, <1>3, <1>4, FoldExists
<1> HIDE DEF Then, Acc, n
<1>6. R(g)
  <2> DEFINE k == [s \in SUBSET (1..n) |->
                     IF s = {} THEN ps ELSE Then(g[s \ {Max(s)}], walk[Max(s)])]
  <2>2. ASSUME NEW s \in SUBSET (1..n), s # {}
        PROVE  G[Max(s)][g[s \ {Max(s)}]] = Then(g[s \ {Max(s)}], walk[Max(s)])
    <3>1. Max(s) \in 1..n
      BY <1>0, <2>2, Greatest
    <3>2. g[s \ {Max(s)}] \in Acc
      BY <1>5 DEF Folds
    <3> QED BY <3>1, <3>2
  <2>3. \A s \in SUBSET (1..n) : g[s] = k[s]
    BY <1>5, <2>2 DEF Folds
  <2>4. g = [s \in SUBSET (1..n) |-> g[s]]
    BY <1>5 DEF Folds
  <2>5. g = k
    BY <2>3, <2>4
  <2> QED BY <2>5
<1>7. R(f)
  BY <1>6
<1>8. PICK p : Run(n, Acc, G, ps, p, f[1..n])
  <2>1. f[{}] = ps
    BY <1>7
  <2>2. ASSUME NEW s \in SUBSET (1..n), s # {}, f[s \ {Max(s)}] \in Acc
        PROVE  f[s] = G[Max(s)][f[s \ {Max(s)}]]
    <3>1. f[s] = Then(f[s \ {Max(s)}], walk[Max(s)])
      BY <1>7, <2>2
    <3>2. Max(s) \in 1..n
      BY <1>0, <2>2, Greatest
    <3> HIDE DEF f
    <3> QED BY <3>1, <3>2, <2>2
  <2> HIDE DEF f, G
  <2> QED BY <1>0, <1>3, <1>4, <2>1, <2>2, FoldResult
<1> HIDE DEF f
<1>9. p \in [0..n -> Acc] /\ p[0] = ps /\ p[n] = f[1..n] /\ \A i \in 1..n : p[i] = Then(p[i - 1], walk[i])
  <2>1. p \in [0..n -> Acc] /\ p[0] = ps /\ p[n] = f[1..n] /\ \A i \in 1..n : p[i] = G[i][p[i - 1]]
    BY <1>8 DEF Run
  <2>2. ASSUME NEW i \in 1..n PROVE p[i] = Then(p[i - 1], walk[i])
    <3>1. i - 1 \in 0..n
      BY <1>0
    <3>2. p[i - 1] \in Acc
      BY <2>1, <3>1
    <3> QED BY <2>1, <3>2
  <2> QED BY <2>1, <2>2
<1> HIDE DEF G
<1>10. Discovered(ps, walk) = p[n] /\ p[n] \in Seq(P)
  <2>1. n \in 0..n
    BY <1>0
  <2> QED BY <1>1, <1>9, <2>1 DEF Acc
<1>11. ASSUME Distinct PROVE ToSet(p[n]) = FoundUpTo(ps, InGraph)
  <2> DEFINE Done(i) == {walk[j] : j \in 1..i} \cap InGraph
             B == {i \in 0..n : ToSet(p[i]) = FoundUpTo(ps, Done(i))}
  <2>1. 0 \in B
    <3>1. Done(0) = {}
      OBVIOUS
    <3>2. 0 \in 0..n
      BY <1>0
    <3> HIDE DEF Done
    <3>3. FoundUpTo(ps, {}) = ToSet(ps)
      BY DEF FoundUpTo
    <3> QED BY <1>9, <3>1, <3>2, <3>3
  <2>2. ASSUME NEW i \in 1..n, i - 1 \in B PROVE i \in B
    <3>1. i \in 0..n /\ i - 1 \in 0..n /\ walk[i] \in Place
      BY <1>0
    <3>2. Done(i) = Done(i - 1) \cup ({walk[i]} \cap InGraph)
      <4>1. \A j \in 1..i : j \in 1..(i - 1) \/ j = i
        BY <1>0
      <4>2. \A j \in 1..(i - 1) : j \in 1..i
        BY <1>0
      <4>3. i \in 1..i
        BY <1>0
      <4> QED BY <4>1, <4>2, <4>3
    <3>3. Done(i - 1) \in SUBSET InGraph
      OBVIOUS
    <3>4. ToSet(p[i - 1]) = FoundUpTo(ps, Done(i - 1))
      BY <2>2
    <3> HIDE DEF Done
    <3>5. p[i - 1] \in Seq(P) /\ ProjectOf(walk[i]) \in P
      BY <1>9, <3>1 DEF Acc
    <3> DEFINE q == p[i - 1]
               d == Done(i - 1)
               x == walk[i]
    <3> HIDE DEF P, q, d, x
    <3>6. ToSet(IF Skipped(x) THEN q ELSE Stored(q, ProjectOf(x))) = FoundUpTo(ps, d \cup ({x} \cap InGraph))
      BY <1>11, <3>1, <3>3, <3>4, <3>5, FoundNext DEF q, d, x
    <3>7. ToSet(p[i]) = FoundUpTo(ps, Done(i))
      BY <1>9, <3>2, <3>6 DEF Then, q, d, x
    <3> QED BY <3>1, <3>7
  <2>3. \A i \in 0..n : i \in B
    <3> HIDE DEF B
    <3> QED BY <1>0, <2>1, <2>2, UpTo
  <2>4. Done(n) = InGraph
    BY <1>0 DEF InGraph
  <2>5. n \in B
    <3>1. n \in 0..n
      BY <1>0
    <3> QED BY <2>3, <3>1
  <2> HIDE DEF Done
  <2> QED BY <2>4, <2>5
<1> QED BY <1>10, <1>11

IsOf(p, f) ==
  /\ p.folder = f /\ p.name = configured[f].name
  /\ p.references = configured[f].references /\ p.depends = configured[f].depends

(* The projects are those of the configurations, but for their files.      *)
ProjectsOK ==
  /\ \A f \in InGraph : \E p \in ToSet(projects) : IsOf(p, f)
  /\ \A p \in ToSet(projects) : \E f \in InGraph : IsOf(p, f)

GraphOK(g) ==
  /\ IsFiniteSet(g.nodes)
  /\ \A f \in InGraph : configured[f].name \in g.nodes
  /\ \A f, h \in InGraph : Needs(f, h) => <<configured[h].name, configured[f].name>> \in g.edges

(* The symbols in c of a text are as it is, or its change is unreported.   *)
SymbolsFollow(c, ts, behind) ==
  \A t \in DOMAIN c : t \in behind \/ (t \in DOMAIN ts /\ c[t] = ts[t].defines)

WorkspaceInv ==
  /\ fresh \in [projects : BOOLEAN, graph : BOOLEAN, context : BOOLEAN]
  /\ fresh.graph \/ fresh.context => fresh.projects
  /\ \E P : projects \in Seq(P)
  /\ fresh.projects /\ Distinct => ProjectsOK
  /\ fresh.graph /\ Distinct => GraphOK(projectGraph)
  /\ fresh.context /\ Distinct => GraphOK(contextGraph)
  /\ SymbolsFollow(textSymbols, texts, unreported)

LEMMA ProjectsAre ==
  ASSUME projects = projects, ToSet(projects) = {ProjectOf(f) : f \in InGraph}
  PROVE  ProjectsOK
<1>1. \A f \in InGraph : IsOf(ProjectOf(f), f)
  BY DEF IsOf, ProjectOf
<1> HIDE DEF IsOf, ProjectOf
<1> QED BY <1>1 DEF ProjectsOK

LEMMA WorkspaceInitOK == WorkspaceInit => WorkspaceInv /\ WorkspaceFollowed
<1> SUFFICES ASSUME WorkspaceInit PROVE WorkspaceInv /\ WorkspaceFollowed
  OBVIOUS
<1>1. PICK walk \in WalkOrders : projects = Discovered(<<>>, walk)
  BY DEF WorkspaceInit
<1>2. <<>> \in Seq({}) /\ ToSet(<<>>) = {}
  BY DEF ToSet
<1>3. \E P : projects \in Seq(P)
  BY <1>1, <1>2, DiscoveredIs
<1>4. ASSUME Distinct PROVE ProjectsOK
  <2>1. ToSet(projects) = FoundUpTo(<<>>, InGraph)
    BY <1>1, <1>2, <1>4, DiscoveredIs
  <2>2. ToSet(projects) = {ProjectOf(f) : f \in InGraph}
    BY <1>2, <2>1 DEF FoundUpTo
  <2> QED BY <2>2, ProjectsAre
<1>5. fresh = [projects |-> TRUE, graph |-> FALSE, context |-> FALSE]
  BY DEF WorkspaceInit, Outdated
<1>6. SymbolsFollow(textSymbols, texts, unreported)
  BY DEF WorkspaceInit, SymbolsFollow
<1>7. WorkspaceFollowed
  BY DEF WorkspaceInit, NoOutcome, WorkspaceFollowed
<1> QED BY <1>3, <1>4, <1>5, <1>6, <1>7 DEF WorkspaceInv

(* What the configurations say does not change as long as they do not.     *)
LEMMA SameConfigurations ==
  ASSUME configured' = configured
  PROVE  /\ InGraph' = InGraph /\ (Distinct <=> Distinct')
         /\ \A f, h \in InGraph : Needs(f, h) <=> Needs(f, h)'
         /\ \A p, f : IsOf(p, f) <=> IsOf(p, f)'
<1>1. InGraph' = InGraph
  BY DEF InGraph, Skipped
<1>2. Distinct <=> Distinct'
  BY <1>1 DEF Distinct
<1> QED BY <1>1, <1>2 DEF Needs, IsOf

LEMMA NothingToFollow ==
  ASSUME outcome.kind \notin {"update", "order", "project"}
  PROVE  WorkspaceFollowed
BY DEF WorkspaceFollowed

LEMMA DiscoverProjectsOK ==
  ASSUME WorkspaceInv, DiscoverProjects
  PROVE  WorkspaceInv'
<1>1. PICK walk \in WalkOrders : projects' = Discovered(projects, walk)
  BY DEF DiscoverProjects
<1>2. PICK P : projects \in Seq(P)
  BY DEF WorkspaceInv
<1>3. \E Q : projects' \in Seq(Q)
  BY <1>1, <1>2, DiscoveredIs
<1>4. /\ fresh' = [projects |-> fresh'.projects, graph |-> FALSE, context |-> FALSE]
      /\ fresh'.projects \in BOOLEAN
      /\ fresh'.projects <=> Names \subseteq {configured[f].name : f \in InGraph}
  BY DEF DiscoverProjects, Outdated
<1>5. configured' = configured /\ textSymbols' = textSymbols /\ texts' = texts /\ unreported' = unreported
  BY DEF DiscoverProjects
<1>6. ASSUME Names \subseteq {configured[f].name : f \in InGraph}, Distinct PROVE ProjectsOK'
  <2>1. ToSet(projects') = FoundUpTo(projects, InGraph)
    BY <1>1, <1>2, <1>6, DiscoveredIs
  <2>2. ToSet(projects') = {ProjectOf(f) : f \in InGraph}
    BY <1>6, <2>1 DEF FoundUpTo, Names
  <2>3. \A f \in InGraph : IsOf(ProjectOf(f), f)
    BY DEF IsOf, ProjectOf
  <2> HIDE DEF IsOf, ProjectOf
  <2> QED BY <1>5, <2>2, <2>3, SameConfigurations DEF ProjectsOK
<1>7. SymbolsFollow(textSymbols, texts, unreported)'
  BY <1>5 DEF WorkspaceInv, SymbolsFollow
<1>8. fresh' \in [projects : BOOLEAN, graph : BOOLEAN, context : BOOLEAN]
      /\ ~fresh'.graph /\ ~fresh'.context
  <2> DEFINE b == fresh'.projects
  <2>1. fresh' = [projects |-> b, graph |-> FALSE, context |-> FALSE] /\ b \in BOOLEAN
    BY <1>4
  <2> HIDE DEF b
  <2> QED BY <2>1
<1>9. Distinct' <=> Distinct
  BY <1>5, SameConfigurations
<1>10. fresh'.projects /\ Distinct' => ProjectsOK'
  BY <1>4, <1>6, <1>9
<1> QED BY <1>3, <1>7, <1>8, <1>10 DEF WorkspaceInv

(* A reference to a folder is resolved to the name of its project, also if *)
(* the folder occurs several times.                                        *)
LEMMA FirstReferred ==
  ASSUME ProjectsOK, NEW P, projects \in Seq(P), NEW p, NEW h \in InGraph, h \in p.references
  PROVE  configured[h].name \in ReferredNames(p)
<1> DEFINE places == {i \in DOMAIN projects : projects[i].folder = h}
<1>1. DOMAIN projects = 1 .. Len(projects) /\ Len(projects) \in Nat
  BY LenProperties
<1>2. PICK q \in ToSet(projects) : IsOf(q, h)
  BY DEF ProjectsOK
<1>3. PICK n \in DOMAIN projects : q = projects[n]
  BY <1>2 DEF ToSet
<1>4. n \in places /\ places \subseteq Nat
  BY <1>1, <1>2, <1>3 DEF IsOf
<1>5. PICK i \in places : \A j \in places : i <= j
  BY <1>4, Least
<1>6. PICK k \in InGraph : IsOf(projects[i], k)
  BY <1>5 DEF ProjectsOK, ToSet
<1>7. projects[i].name = configured[h].name /\ projects[i].folder = h
  BY <1>5, <1>6 DEF IsOf
<1> QED BY <1>5, <1>7 DEF ReferredNames

LEMMA GraphFollows ==
  ASSUME WorkspaceInv, fresh.projects, Distinct
  PROVE  GraphOK([nodes |-> Names, edges |-> ProjectEdges])
<1> DEFINE N == Names
           E == ProjectEdges
<1>1. ProjectsOK
  BY DEF WorkspaceInv
<1>0. PICK P : projects \in Seq(P)
  BY DEF WorkspaceInv
<1>2. IsFiniteSet(N)
  <2>1. projects \in Seq(P)
    BY <1>0
  <2>2. projects \in [1..Len(projects) -> P] /\ Len(projects) \in Nat
    BY <2>1, LenProperties
  <2> DEFINE names == [i \in 1..Len(projects) |-> projects[i].name]
  <2>3. names \in Surjection(1..Len(projects), N)
    BY <2>2 DEF Surjection, Names, ToSet
  <2>4. IsFiniteSet(1..Len(projects))
    BY <2>2, FS_Interval
  <2> QED BY <2>3, <2>4, FS_Surjection
<1>3. \A f \in InGraph : configured[f].name \in N
  BY <1>1 DEF ProjectsOK, IsOf, Names
<1>4. ASSUME NEW f \in InGraph, NEW h \in InGraph, Needs(f, h)
      PROVE  <<configured[h].name, configured[f].name>> \in E
  <2>1. PICK p \in ToSet(projects) : IsOf(p, f)
    BY <1>1 DEF ProjectsOK
  <2>2. PICK q \in ToSet(projects) : IsOf(q, h)
    BY <1>1 DEF ProjectsOK
  <2>3. q.name \in ReferredNames(p) \cup (p.depends \cap Names)
    <3>1. CASE h \in p.references
      BY <1>0, <1>1, <2>2, <3>1, FirstReferred DEF IsOf
    <3>2. CASE h \notin p.references
      BY <1>3, <1>4, <2>1, <2>2, <3>2 DEF Needs, IsOf
    <3> QED BY <3>1, <3>2
  <2>4. <<q.name, p.name>> \in E
    BY <2>3 DEF ProjectEdges
  <2> QED BY <2>1, <2>2, <2>4 DEF IsOf
<1> HIDE DEF N, E
<1>5. GraphOK([nodes |-> N, edges |-> E])
  BY <1>2, <1>3, <1>4 DEF GraphOK
<1> QED BY <1>5 DEF N, E

(* While neither configurations nor projects and graphs change             *)
LEMMA WorkspaceStays ==
  ASSUME WorkspaceInv, UNCHANGED <<configured, projects, projectGraph, contextGraph, fresh>>,
         SymbolsFollow(textSymbols, texts, unreported)'
  PROVE  WorkspaceInv'
<1>1. configured' = configured
  OBVIOUS
<1>2. Distinct' <=> Distinct
  BY <1>1, SameConfigurations
<1>3. ProjectsOK => ProjectsOK'
  BY <1>1, SameConfigurations DEF ProjectsOK
<1>4. GraphOK(projectGraph) => GraphOK(projectGraph)'
  BY <1>1, SameConfigurations DEF GraphOK
<1>5. GraphOK(contextGraph) => GraphOK(contextGraph)'
  BY <1>1, SameConfigurations DEF GraphOK
<1> QED BY <1>2, <1>3, <1>4, <1>5 DEF WorkspaceInv

LEMMA BuildProjectGraphOK ==
  ASSUME WorkspaceInv, BuildProjectDependencyGraph
  PROVE  WorkspaceInv'
<1>1. /\ configured' = configured /\ projects' = projects /\ contextGraph' = contextGraph
      /\ textSymbols' = textSymbols /\ texts' = texts /\ unreported' = unreported
      /\ projectGraph' = [nodes |-> Names, edges |-> ProjectEdges]
      /\ fresh' = [fresh EXCEPT !.graph = fresh.projects]
  BY DEF BuildProjectDependencyGraph
<1>2. fresh' \in [projects : BOOLEAN, graph : BOOLEAN, context : BOOLEAN]
      /\ fresh'.graph = fresh.projects /\ fresh'.projects = fresh.projects /\ fresh'.context = fresh.context
  BY <1>1 DEF WorkspaceInv
<1>3. Distinct' <=> Distinct
  BY <1>1, SameConfigurations
<1>4. ProjectsOK => ProjectsOK'
  BY <1>1, SameConfigurations DEF ProjectsOK
<1>5. GraphOK(projectGraph') => GraphOK(projectGraph)'
  BY <1>1, SameConfigurations DEF GraphOK
<1>6. GraphOK(contextGraph) => GraphOK(contextGraph)'
  BY <1>1, SameConfigurations DEF GraphOK
<1>7. fresh.projects /\ Distinct => GraphOK(projectGraph')
  BY <1>1, GraphFollows
<1>8. SymbolsFollow(textSymbols, texts, unreported)'
  BY <1>1 DEF WorkspaceInv, SymbolsFollow
<1> HIDE DEF GraphOK
<1> QED BY <1>1, <1>2, <1>3, <1>4, <1>5, <1>6, <1>7, <1>8 DEF WorkspaceInv

LEMMA CreateContextOK ==
  ASSUME WorkspaceInv, CreateWorkspaceContext
  PROVE  WorkspaceInv'
<1> DEFINE new == IF projectGraph = NoGraph THEN fresh.projects ELSE fresh.graph
<1>1. /\ configured' = configured /\ projects' = projects
      /\ textSymbols' = textSymbols /\ texts' = texts /\ unreported' = unreported
      /\ projectGraph' = IF projectGraph = NoGraph THEN [nodes |-> Names, edges |-> ProjectEdges]
                         ELSE projectGraph
      /\ contextGraph' = projectGraph'
      /\ fresh' = [fresh EXCEPT !.graph = new, !.context = new]
  BY DEF CreateWorkspaceContext
<1>2. new \in BOOLEAN /\ (new => fresh.projects)
  BY DEF WorkspaceInv
<1>3. new /\ Distinct => GraphOK(projectGraph')
  <2>1. CASE projectGraph = NoGraph
    BY <1>1, <2>1, GraphFollows
  <2>2. CASE projectGraph # NoGraph
    BY <1>1, <2>2 DEF WorkspaceInv
  <2> QED BY <2>1, <2>2
<1> HIDE DEF new
<1>4. fresh' \in [projects : BOOLEAN, graph : BOOLEAN, context : BOOLEAN]
      /\ fresh'.graph = new /\ fresh'.projects = fresh.projects /\ fresh'.context = new
  BY <1>1, <1>2 DEF WorkspaceInv
<1>5. Distinct' <=> Distinct
  BY <1>1, SameConfigurations
<1>6. ProjectsOK => ProjectsOK'
  BY <1>1, SameConfigurations DEF ProjectsOK
<1>7. GraphOK(projectGraph') => GraphOK(projectGraph)'
  BY <1>1, SameConfigurations DEF GraphOK
<1>8. GraphOK(projectGraph') => GraphOK(contextGraph)'
  BY <1>1, SameConfigurations DEF GraphOK
<1>9. SymbolsFollow(textSymbols, texts, unreported)'
  BY <1>1 DEF WorkspaceInv, SymbolsFollow
<1> QED BY <1>1, <1>2, <1>3, <1>4, <1>5, <1>6, <1>7, <1>8, <1>9 DEF WorkspaceInv

LEMMA BuildOrderOK ==
  ASSUME WorkspaceInv, GetBuildOrder
  PROVE  WorkspaceInv' /\ WorkspaceFollowed'
<1>1. UNCHANGED <<configured, texts, projects, projectGraph, contextGraph, textSymbols, unreported, fresh>>
  BY DEF GetBuildOrder
<1>2. SymbolsFollow(textSymbols, texts, unreported)'
  BY <1>1 DEF WorkspaceInv, SymbolsFollow
<1>3. WorkspaceInv'
  BY <1>1, <1>2, WorkspaceStays
<1>4. outcome' = [kind |-> "raised"]
      \/ \E o \in TopologicalOrders(projectGraph) : outcome' = [kind |-> "order", order |-> o]
  <2> DEFINE orders == TopologicalOrders(projectGraph)
  <2>1. outcome' \in IF orders = {} THEN {[kind |-> "raised"]}
                     ELSE {[kind |-> "order", order |-> o] : o \in orders}
    BY DEF GetBuildOrder
  <2> HIDE DEF orders
  <2>2. outcome' = [kind |-> "raised"] \/ \E o \in orders : outcome' = [kind |-> "order", order |-> o]
    BY <2>1
  <2> QED BY <2>2 DEF orders
<1>5. CASE outcome' = [kind |-> "raised"]
  BY <1>3, <1>5 DEF WorkspaceFollowed
<1>6. ASSUME NEW o \in TopologicalOrders(projectGraph), outcome' = [kind |-> "order", order |-> o]
      PROVE  WorkspaceFollowed'
  <2>1. outcome'.kind = "order" /\ outcome'.order = o
    BY <1>6
  <2>2. ASSUME fresh.graph, Distinct, NEW f \in InGraph, NEW g \in InGraph, Needs(f, g)
        PROVE  \E i, j \in DOMAIN o : o[i] = configured[g].name /\ o[j] = configured[f].name /\ i < j
    <3> DEFINE nodes == projectGraph.nodes
               n == Cardinality(nodes)
    <3>1. GraphOK(projectGraph)
      BY <2>2 DEF WorkspaceInv
    <3>2. /\ IsFiniteSet(nodes) /\ configured[f].name \in nodes /\ configured[g].name \in nodes
          /\ <<configured[g].name, configured[f].name>> \in projectGraph.edges
      BY <2>2, <3>1 DEF GraphOK
    <3>3. o \in SetToSeqs(nodes)
          /\ \A i, j \in DOMAIN o : <<o[i], o[j]>> \in projectGraph.edges => i < j
      BY DEF TopologicalOrders
    <3> HIDE DEF nodes
    <3>4. o \in [1..n -> nodes] /\ \A x \in nodes : \E i \in 1..n : o[i] = x
      BY <3>2, <3>3, WalkComplete
    <3> HIDE DEF n
    <3>5. PICK i \in 1..n : o[i] = configured[g].name
      BY <3>2, <3>4
    <3>6. PICK j \in 1..n : o[j] = configured[f].name
      BY <3>2, <3>4
    <3>7. i \in DOMAIN o /\ j \in DOMAIN o /\ i < j
      BY <3>2, <3>3, <3>4, <3>5, <3>6
    <3> QED BY <3>5, <3>6, <3>7
  <2>3. configured' = configured /\ fresh' = fresh
    BY <1>1
  <2>4. (Distinct' <=> Distinct) /\ InGraph' = InGraph
        /\ \A f, h \in InGraph : Needs(f, h) <=> Needs(f, h)'
    BY <2>3, SameConfigurations
  <2> QED BY <2>1, <2>2, <2>3, <2>4 DEF WorkspaceFollowed
<1> QED BY <1>3, <1>4, <1>5, <1>6

(* The symbols of more texts that are looked up are as those are.          *)
LEMMA KnownFollow ==
  ASSUME NEW c, NEW ts, NEW behind, SymbolsFollow(c, texts, behind)
  PROVE  SymbolsFollow(SymbolsKnown(c, ts), texts, behind)
BY DEF SymbolsFollow, SymbolsKnown

(* ... and renewed ones also if their change was not reported before.      *)
LEMMA RenewedFollow ==
  ASSUME NEW c, NEW ts, NEW behind, SymbolsFollow(c, texts, behind)
  PROVE  SymbolsFollow(SymbolsRenewed(c, ts), texts, behind \ ts)
<1> DEFINE d == [t \in DOMAIN c \ ts |-> c[t]]
<1>1. SymbolsFollow(d, texts, behind \ ts)
  BY DEF SymbolsFollow
<1> HIDE DEF d
<1>2. SymbolsFollow(SymbolsKnown(d, ts), texts, behind \ ts)
  BY <1>1, KnownFollow
<1> QED BY <1>2 DEF SymbolsRenewed, d

(* A file that only the path of f is a prefix of is one of f's project.    *)
LEMMA OwnerIs ==
  ASSUME WorkspaceInv, fresh.projects, Distinct, NEW t, NEW f \in InGraph,
         {g \in InGraph : PlaceOf[t] \in Prefixed[g]} = {f}
  PROVE  OwnersOf(t) = {configured[f].name}
<1> DEFINE owners == {i \in DOMAIN projects : PlaceOf[t] \in Prefixed[projects[i].folder]}
<1>1. ProjectsOK
  BY DEF WorkspaceInv
<1>2. DOMAIN projects \subseteq Nat
  <2>1. PICK P : projects \in Seq(P)
    BY DEF WorkspaceInv
  <2> QED BY <2>1
<1>3. owners # {}
  <2>1. PICK p \in ToSet(projects) : IsOf(p, f)
    BY <1>1 DEF ProjectsOK
  <2>2. PICK i \in DOMAIN projects : projects[i] = p
    BY DEF ToSet
  <2> QED BY <2>1, <2>2 DEF IsOf
<1>4. Min(owners) \in owners
  <2>1. owners \subseteq Nat
    BY <1>2
  <2> HIDE DEF owners
  <2>2. \E i \in owners : \A j \in owners : i <= j
    BY <1>3, <2>1, Least
  <2> QED BY <2>2 DEF Min
<1>5. ASSUME NEW i \in owners PROVE projects[i].name = configured[f].name
  <2>1. projects[i] \in ToSet(projects) /\ PlaceOf[t] \in Prefixed[projects[i].folder]
    BY DEF ToSet
  <2>2. PICK g \in InGraph : IsOf(projects[i], g)
    BY <1>1, <2>1 DEF ProjectsOK
  <2>3. g = f
    BY <2>1, <2>2 DEF IsOf
  <2> QED BY <2>2, <2>3 DEF IsOf
<1>6. OwnersOf(t) = {projects[Min(owners)].name}
  BY <1>3 DEF OwnersOf
<1> HIDE DEF owners
<1> QED BY <1>4, <1>5, <1>6

LEMMA UpdateFilesOK ==
  ASSUME WorkspaceInv, NEW ts, UpdateChangedFiles(ts)
  PROVE  WorkspaceInv' /\ WorkspaceFollowed'
<1> DEFINE owned == {t \in ts : OwnersOf(t) # {}}
           owners == UNION {OwnersOf(t) : t \in owned}
           before == SymbolsKnown(textSymbols, owned)
           affected == owners \cup UNION {DependentsOf(contextGraph, n) : n \in owners}
<1>1. UNCHANGED <<configured, texts, projects, projectGraph, contextGraph, fresh>>
  BY DEF UpdateChangedFiles
<1>2. /\ textSymbols' = SymbolsRenewed(before, owned) /\ unreported' = unreported \ owned
      /\ outcome'.kind = "update" /\ outcome'.files = ts /\ outcome'.affected = affected
  BY DEF UpdateChangedFiles
<1>3. SymbolsFollow(textSymbols, texts, unreported)'
  <2> HIDE DEF owned
  <2>1. SymbolsFollow(before, texts, unreported)
    BY KnownFollow DEF WorkspaceInv
  <2> HIDE DEF before
  <2>2. SymbolsFollow(SymbolsRenewed(before, owned), texts, unreported \ owned)
    BY <2>1, RenewedFollow
  <2> QED BY <1>1, <1>2, <2>2
<1>4. WorkspaceInv'
  BY <1>1, <1>3, WorkspaceStays
<1>5. ASSUME fresh.context, Distinct, NEW t \in ts, NEW f \in InGraph,
             {g \in InGraph : PlaceOf[t] \in Prefixed[g]} = {f}
      PROVE  {configured[f].name} \cup {configured[g].name : g \in {h \in InGraph : Needs(h, f)}} \subseteq affected
  <2>1. fresh.projects /\ GraphOK(contextGraph)
    BY <1>5 DEF WorkspaceInv
  <2>2. OwnersOf(t) = {configured[f].name}
    BY <1>5, <2>1, OwnerIs
  <2>3. configured[f].name \in owners
    BY <2>2
  <2>4. ASSUME NEW g \in InGraph, Needs(g, f) PROVE configured[g].name \in DependentsOf(contextGraph, configured[f].name)
    BY <2>1, <2>4 DEF GraphOK, DependentsOf
  <2> HIDE DEF owners
  <2> QED BY <2>3, <2>4
<1> HIDE DEF affected
<1>6. (Distinct' <=> Distinct) /\ InGraph' = InGraph
        /\ \A f, h \in InGraph : Needs(f, h) <=> Needs(f, h)'
  BY <1>1, SameConfigurations
<1>7. WorkspaceFollowed'
  BY <1>1, <1>2, <1>5, <1>6 DEF WorkspaceFollowed
<1> QED BY <1>4, <1>7

LEMMA AnalyzeProjectOK ==
  ASSUME WorkspaceInv, NEW name, NEW isolated, AnalyzeProject(name, isolated)
  PROVE  WorkspaceInv' /\ WorkspaceFollowed'
<1> DEFINE p == ProjectNamed(name)
           looked == SymbolsKnown(textSymbols, p.files)
<1>1. UNCHANGED <<configured, texts, projects, projectGraph, contextGraph, unreported, fresh>>
  BY DEF AnalyzeProject
<1>2. /\ textSymbols' = looked /\ outcome'.kind = "project" /\ outcome'.project = p
      /\ outcome'.total = Count(looked, p.files)
  BY DEF AnalyzeProject
<1> HIDE DEF p
<1>3. SymbolsFollow(looked, texts, unreported)
  BY KnownFollow DEF WorkspaceInv
<1>4. SymbolsFollow(textSymbols, texts, unreported)'
  BY <1>1, <1>2, <1>3 DEF SymbolsFollow
<1>5. WorkspaceInv'
  BY <1>1, <1>4, WorkspaceStays
<1>6. ASSUME p.files \cap unreported = {}
      PROVE  Count(looked, p.files) = SumFunction([t \in p.files \cap DOMAIN texts |-> Cardinality(texts[t].defines)])
  <2>1. p.files \cap DOMAIN texts \subseteq DOMAIN looked
    BY DEF SymbolsKnown
  <2> HIDE DEF looked
  <2>2. \A t \in p.files \cap DOMAIN looked : t \in DOMAIN texts /\ looked[t] = texts[t].defines
    BY <1>3, <1>6 DEF SymbolsFollow
  <2>3. p.files \cap DOMAIN looked = p.files \cap DOMAIN texts
    BY <2>1, <2>2
  <2>4. [t \in p.files \cap DOMAIN looked |-> Cardinality(looked[t])]
          = [t \in p.files \cap DOMAIN texts |-> Cardinality(texts[t].defines)]
    BY <2>2, <2>3
  <2> QED BY <2>4 DEF Count
<1> HIDE DEF looked
<1>7. WorkspaceFollowed'
  BY <1>1, <1>2, <1>6 DEF WorkspaceFollowed
<1> QED BY <1>5, <1>7

LEMMA SharedTypesOK ==
  ASSUME WorkspaceInv, GetSharedTypeStats
  PROVE  WorkspaceInv' /\ WorkspaceFollowed'
<1> DEFINE all == UNION {p.files : p \in ToSet(projects)}
<1>1. UNCHANGED <<configured, texts, projects, projectGraph, contextGraph, unreported, fresh>>
  BY DEF GetSharedTypeStats
<1>2. textSymbols' = SymbolsKnown(textSymbols, all) /\ outcome'.kind = "shared"
  BY DEF GetSharedTypeStats
<1> HIDE DEF all
<1>3. SymbolsFollow(textSymbols, texts, unreported)'
  BY <1>1, <1>2, KnownFollow DEF WorkspaceInv
<1> QED BY <1>1, <1>2, <1>3, WorkspaceStays DEF WorkspaceFollowed

LEMMA ConfigureOK ==
  ASSUME WorkspaceInv, NEW f, Configure(f)
  PROVE  WorkspaceInv' /\ WorkspaceFollowed'
<1>1. /\ UNCHANGED <<texts, projects, textSymbols, unreported>>
      /\ fresh' = [projects |-> FALSE, graph |-> FALSE, context |-> FALSE] /\ outcome' = NoOutcome
  BY DEF Configure, Outdated
<1>2. SymbolsFollow(textSymbols, texts, unreported)'
  BY <1>1 DEF WorkspaceInv, SymbolsFollow
<1>3. WorkspaceFollowed'
  BY <1>1 DEF WorkspaceFollowed, NoOutcome
<1> QED BY <1>1, <1>2, <1>3 DEF WorkspaceInv

LEMMA ChangeTextOK ==
  ASSUME WorkspaceInv, NEW t, ChangeText(t)
  PROVE  WorkspaceInv' /\ WorkspaceFollowed'
<1>1. /\ UNCHANGED <<configured, projects, projectGraph, contextGraph, textSymbols, fresh>>
      /\ unreported' = unreported \cup {t} /\ outcome' = NoOutcome
  BY DEF ChangeText
<1>2. \A u \in DOMAIN texts \ {t} : u \in DOMAIN texts' /\ texts'[u] = texts[u]
  BY DEF ChangeText
<1>3. SymbolsFollow(textSymbols, texts, unreported)'
  BY <1>1, <1>2 DEF WorkspaceInv, SymbolsFollow
<1> QED BY <1>1, <1>3, WorkspaceStays DEF WorkspaceFollowed, NoOutcome

LEMMA WorkspaceUnchanged ==
  ASSUME WorkspaceInv, UNCHANGED <<configured, texts, projects, projectGraph, contextGraph, textSymbols, unreported, fresh>>
  PROVE  WorkspaceInv'
<1>1. SymbolsFollow(textSymbols, texts, unreported)'
  BY DEF WorkspaceInv, SymbolsFollow
<1> QED BY <1>1, WorkspaceStays

LEMMA WorkspaceStepOK ==
  WorkspaceInv /\ WorkspaceFollowed /\ [WorkspaceNext]_workspaceVars => WorkspaceInv' /\ WorkspaceFollowed'
<1> SUFFICES ASSUME WorkspaceInv, WorkspaceFollowed, [WorkspaceNext]_workspaceVars
             PROVE  WorkspaceInv' /\ WorkspaceFollowed'
  OBVIOUS
<1>1. CASE DiscoverProjects
  <2>1. outcome' = NoOutcome
    BY <1>1 DEF DiscoverProjects
  <2> QED BY <1>1, <2>1, DiscoverProjectsOK DEF WorkspaceFollowed, NoOutcome
<1>2. CASE BuildProjectDependencyGraph
  <2>1. outcome' = NoOutcome
    BY <1>2 DEF BuildProjectDependencyGraph
  <2> QED BY <1>2, <2>1, BuildProjectGraphOK DEF WorkspaceFollowed, NoOutcome
<1>3. CASE CreateWorkspaceContext
  <2>1. outcome' = NoOutcome
    BY <1>3 DEF CreateWorkspaceContext
  <2> QED BY <1>3, <2>1, CreateContextOK DEF WorkspaceFollowed, NoOutcome
<1>4. CASE GetBuildOrder
  BY <1>4, BuildOrderOK
<1>5. CASE GetSharedTypeStats
  BY <1>5, SharedTypesOK
<1>6. CASE \E ts \in {{t} : t \in SourceText} \cup {SourceText} : UpdateChangedFiles(ts)
  BY <1>6, UpdateFilesOK
<1>7. CASE \E name \in Names, isolated \in BOOLEAN : AnalyzeProject(name, isolated)
  BY <1>7, AnalyzeProjectOK
<1>8. CASE \E f \in Place : Configure(f)
  BY <1>8, ConfigureOK
<1>9. CASE \E t \in SourceText : ChangeText(t)
  BY <1>9, ChangeTextOK
<1>10. CASE LookAtOutcome
  <2>1. /\ UNCHANGED <<configured, texts, projects, projectGraph, contextGraph, textSymbols, unreported, fresh>>
        /\ outcome' = NoOutcome
    BY <1>10 DEF LookAtOutcome
  <2>2. WorkspaceInv'
    BY <2>1, WorkspaceUnchanged
  <2>3. WorkspaceFollowed'
    BY <2>1 DEF WorkspaceFollowed, NoOutcome
  <2> QED BY <2>2, <2>3
<1>11. CASE UNCHANGED workspaceVars
  <2>1. UNCHANGED <<configured, texts, projects, projectGraph, contextGraph, textSymbols, unreported, fresh>>
        /\ outcome' = outcome
    BY <1>11 DEF workspaceVars
  <2>2. WorkspaceInv'
    BY <2>1, WorkspaceUnchanged
  <2>3. (Distinct' <=> Distinct) /\ InGraph' = InGraph
        /\ \A f, h \in InGraph : Needs(f, h) <=> Needs(f, h)'
    BY <2>1, SameConfigurations
  <2>4. WorkspaceFollowed'
    BY <2>1, <2>3 DEF WorkspaceFollowed
  <2> QED BY <2>2, <2>4
<1> QED BY <1>1, <1>2, <1>3, <1>4, <1>5, <1>6, <1>7, <1>8, <1>9, <1>10, <1>11 DEF WorkspaceNext, WorkspaceStep

(* For any folders, configurations, source files and changes: what is said *)
(* to be affected has every project that a changed file belongs to and     *)
(* those that need it, a build order puts each project behind those it     *)
(* needs, and the symbols of a project are those of its files, while the   *)
(* configurations are those that the projects and graphs were made of.     *)
THEOREM WorkspaceIsFollowed == WorkspaceSpec => []WorkspaceFollowed
<1>1. WorkspaceInv /\ WorkspaceFollowed => WorkspaceFollowed
  OBVIOUS
<1> QED BY <1>1, WorkspaceInitOK, WorkspaceStepOK, PTL DEF WorkspaceSpec

(***************************************************************************)
(* The details of functions                                                *)
(***************************************************************************)

LEMMA ChosenIsSeq ==
  ASSUME NEW P, NEW s \in Seq(P), NEW kept
  PROVE  Chosen(s, kept) \in Seq(P)
<1> DEFINE n == Len(s)
           Acc == Seq(P)
           Then(a, x) == IF x \in kept THEN Append(a, x) ELSE a
           G == [i \in 1..n |-> [a \in Acc |-> Then(a, s[i])]]
           R(h) == h = [u \in SUBSET (1..n) |->
                          IF u = {} THEN <<>> ELSE Then(h[u \ {Max(u)}], s[Max(u)])]
           f == CHOOSE h : R(h)
<1>0. n \in Nat /\ DOMAIN s = 1..n
  BY LenProperties
<1>1. Chosen(s, kept) = f[1..n]
  <2> HIDE DEF n
  <2> QED BY <1>0 DEF Chosen, FoldLeft, MapThenFoldSet
<1>2. G \in [1..n -> [Acc -> Acc]]
  <2>1. ASSUME NEW i \in 1..n, NEW a \in Acc PROVE Then(a, s[i]) \in Acc
    <3>1. s[i] \in P
      BY ElementOfSeq
    <3> QED BY <3>1
  <2> HIDE DEF Acc, n, Then
  <2> QED BY <2>1
<1>3. <<>> \in Acc
  BY EmptySeq
<1> HIDE DEF n, Then
<1>4. PICK g : Folds(n, Acc, G, <<>>, g)
  <2> HIDE DEF Acc, G
  <2> QED BY <1>0, <1>2, <1>3, FoldExists
<1> HIDE DEF Acc
<1>5. R(g)
  <2> DEFINE again == [u \in SUBSET (1..n) |->
                     IF u = {} THEN <<>> ELSE Then(g[u \ {Max(u)}], s[Max(u)])]
  <2>1. ASSUME NEW u \in SUBSET (1..n), u # {}
        PROVE  G[Max(u)][g[u \ {Max(u)}]] = Then(g[u \ {Max(u)}], s[Max(u)])
    <3>1. Max(u) \in 1..n
      BY <1>0, <2>1, Greatest
    <3>2. g[u \ {Max(u)}] \in Acc
      BY <1>4 DEF Folds
    <3> QED BY <3>1, <3>2
  <2>2. \A u \in SUBSET (1..n) : g[u] = again[u]
    <3> HIDE DEF G
    <3> QED BY <1>4, <2>1 DEF Folds
  <2>3. g = [u \in SUBSET (1..n) |-> g[u]]
    <3> HIDE DEF G
    <3> QED BY <1>4 DEF Folds
  <2>4. g = again
    BY <2>2, <2>3
  <2> QED BY <2>4
<1>6. R(f)
  BY <1>5
<1>7. \E p : Run(n, Acc, G, <<>>, p, f[1..n])
  <2>1. f[{}] = <<>>
    BY <1>6
  <2>2. ASSUME NEW u \in SUBSET (1..n), u # {}, f[u \ {Max(u)}] \in Acc
        PROVE  f[u] = G[Max(u)][f[u \ {Max(u)}]]
    <3>1. f[u] = Then(f[u \ {Max(u)}], s[Max(u)])
      BY <1>6, <2>2
    <3>2. Max(u) \in 1..n
      BY <1>0, <2>2, Greatest
    <3> HIDE DEF f
    <3> QED BY <3>1, <3>2, <2>2
  <2> HIDE DEF f, G
  <2> QED BY <1>0, <1>2, <1>3, <2>1, <2>2, FoldResult
<1>8. f[1..n] \in Acc
  <2> HIDE DEF f
  <2> QED BY <1>0, <1>7 DEF Run
<1> QED BY <1>1, <1>8 DEF Acc

(* A number that is a multiple of l and a remainder has that remainder.    *)
LEMMA RemainderIs ==
  ASSUME NEW l \in Nat, l > 0, NEW q \in Nat, NEW r \in 0..l - 1
  PROVE  (q * l + r) % l = r
<1> DEFINE a == q * l + r
           d == a \div l
           e == a % l
<1>1. a \in Nat /\ d \in Int /\ e \in 0..l - 1 /\ a = l * d + e
  OBVIOUS
<1> HIDE DEF d, e, a
<1>2. a = q * l + r
  BY DEF a
<1>3. l * (d - q) = r - e
  BY <1>1, <1>2, SMT
<1>4. r - e < l /\ e - r < l
  BY <1>1
<1>5. CASE d - q >= 1
  <2>1. l * (d - q) >= l
    BY <1>1, <1>5, SMT
  <2> QED BY <1>1, <1>3, <1>4, <2>1
<1>6. CASE q - d >= 1
  <2>1. l * (q - d) >= l
    BY <1>1, <1>6, SMT
  <2>2. l * (q - d) = e - r
    BY <1>1, <1>3, SMT
  <2> QED BY <1>1, <1>4, <2>1, <2>2
<1>7. CASE d = q
  BY <1>1, <1>3, <1>7, SMT DEF e, a
<1> QED BY <1>1, <1>5, <1>6, <1>7

(* s is t times the sequence y.                                            *)
Copies(s, t, y) ==
  /\ Len(s) = t * Len(y)
  /\ \A i \in DOMAIN s : s[i] = y[((i - 1) % Len(y)) + 1]

LEMMA OneMore ==
  ASSUME NEW P, NEW y \in Seq(P), NEW s \in Seq(P), NEW t \in Nat, Copies(s, t, y)
  PROVE  s \o y \in Seq(P) /\ Copies(s \o y, t + 1, y)
<1> DEFINE l == Len(y)
           e == s \o y
<1>1. l \in Nat /\ Len(s) = t * l /\ Len(s) \in Nat /\ DOMAIN s = 1..Len(s)
  BY LenProperties DEF Copies
<1>2. /\ e \in Seq(P) /\ Len(e) = Len(s) + l
      /\ \A i \in 1..Len(e) : e[i] = IF i <= Len(s) THEN s[i] ELSE y[i - Len(s)]
  BY ConcatProperties
<1>3. DOMAIN e = 1..Len(e)
  BY <1>2, LenProperties
<1>4. Len(e) = (t + 1) * l
  BY <1>1, <1>2, SMT
<1>5. ASSUME NEW i \in DOMAIN e PROVE e[i] = y[((i - 1) % l) + 1]
  <2>1. i \in 1..Len(e)
    BY <1>3
  <2>2. CASE i <= Len(s)
    <3>1. i \in DOMAIN s
      BY <1>1, <2>1, <2>2
    <3> QED BY <1>2, <2>1, <2>2, <3>1 DEF Copies
  <2>3. CASE ~(i <= Len(s))
    <3>1. e[i] = y[i - Len(s)]
      BY <1>2, <2>1, <2>3
    <3> DEFINE r == i - Len(s) - 1
    <3>2. r \in 0..l - 1 /\ l > 0 /\ i - 1 = t * l + r
      BY <1>1, <1>2, <2>1, <2>3
    <3>3. r + 1 = i - Len(s)
      BY <1>1, <2>1
    <3> HIDE DEF r, l
    <3>4. (t * l + r) % l = r
      BY <1>1, <3>2, RemainderIs
    <3> QED BY <3>1, <3>2, <3>3, <3>4
  <2> QED BY <2>2, <2>3
<1> HIDE DEF e, l
<1>6. Copies(e, t + 1, y)
  BY <1>4, <1>5 DEF Copies, l
<1> QED BY <1>2, <1>6 DEF e

NamesUpTo(names, k) == {names[i] : i \in 1..k}
Turns(names, n, k) == Cardinality({i \in 1..k : names[i] = n})

(* What has been found of each name whose turn it was                      *)
DetailsOK ==
  IF Stopped
  THEN /\ next = Len(asking.names) + 1
       /\ \E k \in DOMAIN asking.names : DOMAIN details = NamesUpTo(asking.names, k)
       /\ \A n \in DOMAIN details : \E t \in Nat : details[n] \in Seq(FnFile) /\ Copies(details[n], t, Yields(n))
  ELSE /\ DOMAIN details = NamesUpTo(asking.names, next - 1)
       /\ \A n \in DOMAIN details :
            details[n] \in Seq(FnFile) /\ Copies(details[n], Turns(asking.names, n, next - 1), Yields(n))

DetailsInv ==
  /\ asking \in FnRequests /\ searched \in Seq(FnFile)
  /\ next \in 1..Len(asking.names) + 1
  /\ phase = "asked" => next = 1 /\ details = <<>> /\ lost = {}
  /\ DetailsOK
  /\ DetailsComplete

LEMMA TurnsAre ==
  ASSUME asking.names \in Seq(FnName), NEW k \in 0..Len(asking.names), NEW n
  PROVE  /\ Turns(asking.names, n, k) \in Nat
         /\ n \notin NamesUpTo(asking.names, k) => Turns(asking.names, n, k) = 0
         /\ k # 0 => /\ NamesUpTo(asking.names, k) = NamesUpTo(asking.names, k - 1) \cup {asking.names[k]}
                     /\ Turns(asking.names, n, k) = Turns(asking.names, n, k - 1) + (IF asking.names[k] = n THEN 1 ELSE 0)
<1> DEFINE T(j) == {i \in 1..j : asking.names[i] = n}
<1>0. k \in Nat
  BY LenProperties
<1>1. \A j \in Nat : IsFiniteSet(T(j)) /\ Cardinality(T(j)) \in Nat
  <2>1. ASSUME NEW j \in Nat PROVE IsFiniteSet(T(j))
    <3>1. IsFiniteSet(1..j) /\ T(j) \subseteq 1..j
      BY FS_Interval
    <3> QED BY <3>1, FS_Subset
  <2> QED BY <2>1, FS_CardinalityType
<1>2. ASSUME n \notin NamesUpTo(asking.names, k) PROVE Turns(asking.names, n, k) = 0
  <2>1. T(k) = {}
    BY <1>2 DEF NamesUpTo
  <2> QED BY <2>1, FS_EmptySet DEF Turns
<1>3. ASSUME k # 0
      PROVE  /\ NamesUpTo(asking.names, k) = NamesUpTo(asking.names, k - 1) \cup {asking.names[k]}
             /\ Turns(asking.names, n, k) = Turns(asking.names, n, k - 1) + (IF asking.names[k] = n THEN 1 ELSE 0)
  <2>1. k - 1 \in Nat /\ k \notin 1..k - 1 /\ \A i : i \in 1..k <=> i \in 1..k - 1 \/ i = k
    BY <1>0, <1>3
  <2>2. NamesUpTo(asking.names, k) = NamesUpTo(asking.names, k - 1) \cup {asking.names[k]}
    BY <2>1 DEF NamesUpTo
  <2>3. T(k) = T(k - 1) \cup (IF asking.names[k] = n THEN {k} ELSE {}) /\ k \notin T(k - 1)
    BY <2>1
  <2>4. IsFiniteSet(T(k - 1)) /\ Cardinality(T(k - 1)) \in Nat
    BY <1>1, <2>1
  <2>5. Cardinality(T(k)) = Cardinality(T(k - 1)) + (IF asking.names[k] = n THEN 1 ELSE 0)
    <3> HIDE DEF T
    <3>1. CASE asking.names[k] = n
      BY <2>3, <2>4, <3>1, FS_AddElement
    <3>2. CASE asking.names[k] # n
      BY <2>3, <2>4, <3>2
    <3> QED BY <3>1, <3>2
  <2> QED BY <2>2, <2>5 DEF Turns
<1>4. Turns(asking.names, n, k) \in Nat
  BY <1>0, <1>1 DEF Turns
<1> QED BY <1>2, <1>3, <1>4

(* The next name has its functions once more, the others have theirs.      *)
LEMMA WithNext ==
  ASSUME NEW n, searched \in Seq(FnFile), NEW t,
         \A m \in DOMAIN details \cup {n} :
           /\ t[m] \in Nat
           /\ IF m \in DOMAIN details
              THEN details[m] \in Seq(FnFile) /\ Copies(details[m], t[m], Yields(m)) ELSE t[m] = 0
  PROVE  /\ DOMAIN With(n) = DOMAIN details \cup {n}
         /\ \A m \in DOMAIN With(n) :
              /\ With(n)[m] \in Seq(FnFile)
              /\ Copies(With(n)[m], t[m] + (IF n = m THEN 1 ELSE 0), Yields(m))
<1>1. \A m : Yields(m) \in Seq(FnFile)
  BY ChosenIsSeq DEF Yields
<1>2. DOMAIN With(n) = DOMAIN details \cup {n}
  BY DEF With
<1>3. ASSUME NEW m \in DOMAIN With(n)
      PROVE  /\ With(n)[m] \in Seq(FnFile)
             /\ Copies(With(n)[m], t[m] + (IF n = m THEN 1 ELSE 0), Yields(m))
  <2> DEFINE old == IF m \in DOMAIN details THEN details[m] ELSE <<>>
             y == Yields(m)
             k == t[m]
  <2>1. With(n)[m] = old \o (IF m = n THEN y ELSE <<>>)
    BY DEF With
  <2>2. k \in Nat /\ y \in Seq(FnFile) /\ Len(y) \in Nat
    BY <1>1, <1>2, LenProperties
  <2>3. old \in Seq(FnFile) /\ Copies(old, k, y)
    <3>1. CASE m \in DOMAIN details
      BY <3>1
    <3>2. CASE m \notin DOMAIN details
      <4>1. old = <<>> /\ k = 0
        BY <1>2, <3>2
      <4>2. Copies(<<>>, 0, y)
        <5> HIDE DEF y
        <5> QED BY <2>2 DEF Copies
      <4> QED BY <4>1, <4>2, EmptySeq
    <3> QED BY <3>1, <3>2
  <2> HIDE DEF old, y, k
  <2>4. CASE m = n
    BY <2>1, <2>2, <2>3, <2>4, OneMore DEF k, y
  <2>5. CASE m # n
    <3>1. With(n)[m] = old
      BY <2>1, <2>3, <2>5
    <3> QED BY <2>2, <2>3, <2>5, <3>1 DEF k, y
  <2> QED BY <2>4, <2>5
<1> QED BY <1>2, <1>3

(* A turn of the next name, after which as many have been stopped          *)
LEMMA TurnOK ==
  ASSUME DetailsInv, ~Stopped, MoreNames, details' = With(asking.names[next]), next' = next + 1,
         UNCHANGED <<analysis, asking, searched, response, phase>>, phase \in {"single", "batch"},
         Stopped' = FALSE
  PROVE  DetailsInv'
<1> DEFINE n == asking.names[next]
           T == [m \in DOMAIN details \cup {n} |-> Turns(asking.names, m, next - 1)]
<1>1. /\ asking \in FnRequests /\ asking.names \in Seq(FnName) /\ Len(asking.names) \in Nat
      /\ next \in 1..Len(asking.names) /\ next - 1 \in 0..Len(asking.names) /\ next \in 0..Len(asking.names)
  BY RequestAssumption, LenProperties DEF DetailsInv, MoreNames
<1>2. /\ DOMAIN details = NamesUpTo(asking.names, next - 1) /\ searched \in Seq(FnFile)
      /\ \A m \in DOMAIN details :
           details[m] \in Seq(FnFile) /\ Copies(details[m], Turns(asking.names, m, next - 1), Yields(m))
  BY DEF DetailsInv, DetailsOK
<1>3. \A m \in DOMAIN details \cup {n} :
           /\ T[m] \in Nat
           /\ IF m \in DOMAIN details
              THEN details[m] \in Seq(FnFile) /\ Copies(details[m], T[m], Yields(m)) ELSE T[m] = 0
  BY <1>1, <1>2, TurnsAre
<1> HIDE DEF T, n
<1>4. /\ DOMAIN With(n) = DOMAIN details \cup {n}
      /\ \A m \in DOMAIN With(n) :
           With(n)[m] \in Seq(FnFile) /\ Copies(With(n)[m], T[m] + (IF n = m THEN 1 ELSE 0), Yields(m))
  BY <1>2, <1>3, WithNext
<1>5. \A m \in DOMAIN With(n) : T[m] + (IF n = m THEN 1 ELSE 0) = Turns(asking.names, m, next)
  <2>1. next # 0 /\ (next + 1) - 1 = next
    BY <1>1
  <2> QED BY <1>1, <1>4, <2>1, TurnsAre DEF n, T
<1>6. DOMAIN With(n) = NamesUpTo(asking.names, next)
  <2>1. next # 0
    BY <1>1
  <2> QED BY <1>1, <1>2, <1>4, <2>1, TurnsAre DEF n
<1>7. next' - 1 = next /\ next' \in 1..Len(asking.names) + 1
  BY <1>1
<1>8. DetailsOK'
  <2>1. \A m : Yields(m)' = Yields(m)
    BY DEF Yields, Outcome
  <2>2. details' = With(n) /\ asking' = asking
    BY DEF n
  <2>3. DOMAIN details' = NamesUpTo(asking'.names, next' - 1)
    BY <1>6, <1>7, <2>2
  <2>4. ASSUME NEW m \in DOMAIN details'
        PROVE  details'[m] \in Seq(FnFile) /\ Copies(details'[m], Turns(asking'.names, m, next' - 1), Yields(m)')
    <3>1. Turns(asking'.names, m, next' - 1) = Turns(asking.names, m, next)
      BY <1>7, <2>2
    <3> QED BY <1>4, <1>5, <2>1, <2>2, <3>1
  <2> QED BY <2>3, <2>4 DEF DetailsOK
<1>9. DetailsComplete'
  BY DEF DetailsComplete, DetailsAnswered
<1> QED BY <1>1, <1>2, <1>7, <1>8, <1>9 DEF DetailsInv

LEMMA ErrorCodes == \A n : \A e \in ErrorsOf(n) : e.code # "MEMORY_LIMIT_EXCEEDED"
BY DEF ErrorsOf

LEMMA SingleOK == ASSUME DetailsInv, Single PROVE DetailsInv'
<1>1. CASE Stopped
  <2>1. next = Len(asking.names) + 1 /\ next <= Len(asking.names) /\ Len(asking.names) \in Nat
    <3>1. asking.names \in Seq(FnName)
      BY RequestAssumption DEF DetailsInv
    <3> QED BY <1>1, <3>1, LenProperties DEF DetailsInv, DetailsOK, Single, MoreNames
  <2> QED BY <2>1
<1>2. CASE ~Stopped
  <2>1. lost' = lost /\ Stopped' = FALSE
    BY <1>2 DEF Single, Stopped
  <2> QED BY <1>2, <2>1, TurnOK DEF Single
<1> QED BY <1>1, <1>2

LEMMA BatchOK == ASSUME DetailsInv, Batch PROVE DetailsInv'
<1>1. CASE Stopped
  <2>1. next = Len(asking.names) + 1 /\ next <= Len(asking.names) /\ Len(asking.names) \in Nat
    <3>1. asking.names \in Seq(FnName)
      BY RequestAssumption DEF DetailsInv
    <3> QED BY <1>1, <3>1, LenProperties DEF DetailsInv, DetailsOK, Batch, MoreNames
  <2> QED BY <2>1
<1>2. CASE ~Stopped
  <2>1. Stopped' = FALSE
    BY <1>2, ErrorCodes DEF Batch, Stopped
  <2> QED BY <1>2, <2>1, TurnOK DEF Batch
<1> QED BY <1>1, <1>2

LEMMA BatchStopsOK == ASSUME DetailsInv, BatchStops PROVE DetailsInv'
<1> DEFINE n == asking.names[next]
<1>1. /\ phase = "batch" /\ MoreNames /\ next' = Len(asking.names) + 1
      /\ details' = [m \in DOMAIN details \cup {n} |-> IF m \in DOMAIN details THEN details[m] ELSE <<>>]
      /\ lost' = lost \cup {[code |-> "MEMORY_LIMIT_EXCEEDED", file |-> "batch_processor"]}
      /\ UNCHANGED <<analysis, asking, searched, problems, response, phase>>
  BY DEF BatchStops
<1>2. /\ asking \in FnRequests /\ asking.names \in Seq(FnName) /\ Len(asking.names) \in Nat
      /\ next \in 1..Len(asking.names) /\ next - 1 \in 0..Len(asking.names) /\ next \in 0..Len(asking.names)
      /\ next # 0
  BY <1>1, RequestAssumption, LenProperties DEF DetailsInv, MoreNames
<1>3. ~Stopped
  BY <1>2 DEF DetailsInv, DetailsOK
<1>4. /\ DOMAIN details = NamesUpTo(asking.names, next - 1) /\ searched \in Seq(FnFile)
      /\ \A m \in DOMAIN details :
           details[m] \in Seq(FnFile) /\ Copies(details[m], Turns(asking.names, m, next - 1), Yields(m))
  BY <1>3 DEF DetailsInv, DetailsOK
<1>5. Stopped'
  <2> DEFINE e == [code |-> "MEMORY_LIMIT_EXCEEDED", file |-> "batch_processor"]
  <2>1. e \in lost' /\ e.code = "MEMORY_LIMIT_EXCEEDED"
    BY <1>1
  <2> HIDE DEF e
  <2> QED BY <2>1 DEF Stopped
<1>6. \A m : Yields(m)' = Yields(m)
  BY <1>1 DEF Yields, Outcome
<1>7. DOMAIN details' = NamesUpTo(asking.names, next)
  BY <1>1, <1>2, <1>4, TurnsAre
<1>8. ASSUME NEW m \in DOMAIN details'
      PROVE  \E t \in Nat : details'[m] \in Seq(FnFile) /\ Copies(details'[m], t, Yields(m)')
  <2>1. CASE m \in DOMAIN details
    <3>1. details'[m] = details[m]
      BY <1>1, <2>1
    <3> QED BY <1>2, <1>4, <1>6, <2>1, <3>1, TurnsAre
  <2>2. CASE m \notin DOMAIN details
    <3>1. details'[m] = <<>>
      BY <1>1, <2>2
    <3>2. Yields(m) \in Seq(FnFile)
      BY <1>4, ChosenIsSeq DEF Yields
    <3> DEFINE y == Yields(m)
    <3>3. Copies(<<>>, 0, y)
      <4>1. Len(y) \in Nat
        BY <3>2, LenProperties
      <4> HIDE DEF y
      <4> QED BY <4>1 DEF Copies
    <3> QED BY <1>6, <3>1, <3>3, EmptySeq
  <2> QED BY <2>1, <2>2
<1>9. DetailsOK'
  <2>1. next \in DOMAIN asking'.names
    BY <1>1, <1>2, LenProperties
  <2>2. \E k \in DOMAIN asking'.names : DOMAIN details' = NamesUpTo(asking'.names, k)
    BY <1>1, <1>7, <2>1
  <2> QED BY <1>1, <1>5, <1>8, <2>2 DEF DetailsOK
<1>10. DetailsComplete'
  BY <1>1 DEF DetailsComplete, DetailsAnswered
<1>11. next' \in 1..Len(asking.names) + 1
  BY <1>1, <1>2
<1> QED BY <1>1, <1>2, <1>4, <1>9, <1>10, <1>11 DEF DetailsInv

LEMMA ListsAreSeqs ==
  ASSUME asking \in FnRequests, NEW files \in SearchLists
  PROVE  files \in Seq(FnFile)
<1>1. \A S \in SUBSET FnFile : \A w \in SetToSeqs(S) : w \in Seq(FnFile) /\ Len(w) \in Nat
  <2> SUFFICES ASSUME NEW S \in SUBSET FnFile, NEW w \in SetToSeqs(S)
               PROVE  w \in Seq(FnFile) /\ Len(w) \in Nat
    OBVIOUS
  <2>1. IsFiniteSet(S)
    BY RequestAssumption, FS_Subset
  <2> DEFINE n == Cardinality(S)
  <2>2. n \in Nat /\ w \in [1..n -> S]
    BY <2>1, WalkComplete
  <2> HIDE DEF n
  <2>3. w \in Seq(FnFile)
    BY <2>2
  <2> QED BY <2>3, LenProperties
<1>2. CASE asking.files # Everywhere
  BY <1>2, RequestAssumption DEF SearchLists
<1>3. CASE asking.files = Everywhere /\ asking.names # <<>> /\ Mentioning(asking.names[1]) # {}
  <2>1. Mentioning(asking.names[1]) \in SUBSET FnFile
    BY DEF Mentioning, OnDisk
  <2>2. files \in SetToSeqs(Mentioning(asking.names[1]))
    BY <1>3 DEF SearchLists
  <2> QED BY <1>1, <2>1, <2>2
<1>4. CASE asking.files = Everywhere /\ ~(asking.names # <<>> /\ Mentioning(asking.names[1]) # {})
  <2>1. PICK w \in SetToSeqs(OnDisk) : files = SubSeq(w, 1, Min({MaxSearched, Len(w)}))
    BY <1>4 DEF SearchLists
  <2>2. w \in Seq(FnFile) /\ Len(w) \in Nat
    BY <1>1 DEF OnDisk
  <2> DEFINE m == Min({MaxSearched, Len(w)})
  <2>3. m \in {MaxSearched, Len(w)} /\ \A j \in {MaxSearched, Len(w)} : m <= j
    <3> DEFINE T == {MaxSearched, Len(w)}
    <3>1. T \subseteq Nat /\ T # {}
      BY <2>2, RequestAssumption
    <3> HIDE DEF T
    <3>2. \E i \in T : \A j \in T : i <= j
      BY <3>1, Least
    <3>3. Min(T) \in T /\ \A j \in T : Min(T) <= j
      BY <3>2 DEF Min
    <3> QED BY <3>3 DEF T
  <2>4. m \in Nat /\ m <= Len(w)
    BY <2>2, <2>3, RequestAssumption
  <2> HIDE DEF m
  <2>5. SubSeq(w, 1, m) \in Seq(FnFile)
    <3>1. \A i \in 1..m : w[i] \in FnFile
      BY <2>2, <2>4, ElementOfSeq
    <3> QED BY <2>2, <2>4, <3>1, SubSeqProperties
  <2> QED BY <2>1, <2>5 DEF m
<1> QED BY <1>2, <1>3, <1>4

LEMMA SearchOK == ASSUME DetailsInv, Search PROVE DetailsInv'
<1>1. /\ phase = "asked" /\ UNCHANGED <<analysis, asking, next, details, lost>>
      /\ phase' \in {"answered", "batch", "single"} /\ (phase' = "answered" => searched' = <<>>)
  BY DEF Search
<1>2. PICK files \in SearchLists : searched' = Chosen(files, OnDisk)
  BY DEF Search
<1>3. asking \in FnRequests /\ next = 1 /\ details = <<>> /\ lost = {}
  BY <1>1 DEF DetailsInv
<1>4. searched' \in Seq(FnFile)
  BY <1>2, <1>3, ListsAreSeqs, ChosenIsSeq
<1>5. ~Stopped'
  BY <1>1, <1>3 DEF Stopped
<1>6. DOMAIN details' = {} /\ NamesUpTo(asking'.names, next' - 1) = {}
  BY <1>1, <1>3 DEF NamesUpTo
<1>7. DetailsOK'
  BY <1>5, <1>6 DEF DetailsOK
<1>8. DetailsComplete'
  BY <1>1 DEF DetailsComplete, DetailsAnswered
<1> QED BY <1>1, <1>3, <1>4, <1>7, <1>8 DEF DetailsInv

LEMMA CopiesAreOf ==
  ASSUME NEW P, NEW y \in Seq(P), NEW s \in Seq(P), NEW t \in Nat, Copies(s, t, y)
  PROVE  ToSet(s) \subseteq ToSet(y)
<1>1. SUFFICES ASSUME NEW i \in DOMAIN s PROVE s[i] \in ToSet(y)
  BY DEF ToSet
<1>2. Len(y) \in Nat /\ Len(s) = t * Len(y) /\ i \in 1..Len(s) /\ DOMAIN y = 1..Len(y)
  BY LenProperties DEF Copies
<1>3. Len(y) # 0
  <2>1. Len(y) = 0 => t * Len(y) = 0
    OBVIOUS
  <2>2. Len(s) \in Nat /\ Len(s) # 0
    BY <1>2, LenProperties
  <2> QED BY <1>2, <2>1, <2>2
<1> DEFINE r == (i - 1) % Len(y)
<1>4. r \in 0..Len(y) - 1
  BY <1>2, <1>3
<1>5. s[i] = y[r + 1]
  BY DEF Copies
<1> HIDE DEF r
<1>6. r + 1 \in DOMAIN y
  BY <1>2, <1>4
<1> QED BY <1>5, <1>6 DEF ToSet

LEMMA RespondOK == ASSUME DetailsInv, Respond PROVE DetailsInv'
<1>1. /\ UNCHANGED <<analysis, asking, searched, next, details, lost>>
      /\ phase' = "answered" /\ ~MoreNames
      /\ response' = IF details = <<>> THEN NoDetails
                     ELSE [functions |-> [n \in FirstPage |-> details[n]],
                           success |-> Succeeds, more |-> FirstPage # DOMAIN details]
      /\ problems' = problems \cup (IF details # <<>> THEN {}
                                   ELSE {[code |-> "ANALYSIS_ERROR", file |-> "none"]})
  BY DEF Respond
<1>2. /\ asking.names \in Seq(FnName) /\ Len(asking.names) \in Nat
      /\ DOMAIN asking.names = 1..Len(asking.names)
      /\ next = Len(asking.names) + 1 /\ next - 1 = Len(asking.names)
  <2>1. asking.names \in Seq(FnName)
    BY RequestAssumption DEF DetailsInv
  <2>2. next \in 1..Len(asking.names) + 1 /\ ~(next <= Len(asking.names))
    BY <1>1 DEF DetailsInv, MoreNames
  <2> QED BY <2>1, <2>2, LenProperties
<1>3. (Stopped' <=> Stopped) /\ \A n : Yields(n)' = Yields(n) /\ Yields(n) \in Seq(FnFile)
  BY <1>1, ChosenIsSeq DEF Stopped, Yields, Outcome, DetailsInv
<1>4. DetailsOK'
  BY <1>1, <1>3 DEF DetailsInv, DetailsOK
<1>5. ASSUME asking.names # <<>>
      PROVE  /\ details # <<>>
             /\ \A n \in DOMAIN details : \E t \in Nat : details[n] \in Seq(FnFile) /\ Copies(details[n], t, Yields(n))
  <2>1. CASE Stopped
    <3>1. PICK k \in DOMAIN asking.names : DOMAIN details = NamesUpTo(asking.names, k)
      BY <2>1 DEF DetailsInv, DetailsOK
    <3>2. asking.names[k] \in DOMAIN details
      BY <1>2, <3>1 DEF NamesUpTo
    <3>3. DOMAIN <<>> = {}
      OBVIOUS
    <3> QED BY <2>1, <3>2, <3>3 DEF DetailsInv, DetailsOK
  <2>2. CASE ~Stopped
    <3>1. DOMAIN details = NamesUpTo(asking.names, Len(asking.names))
      BY <1>2, <2>2 DEF DetailsInv, DetailsOK
    <3>2. 1 \in 1..Len(asking.names)
      <4>1. Len(asking.names) # 0
        BY <1>2, <1>5, EmptySeq
      <4> QED BY <1>2, <4>1
    <3>3. asking.names[1] \in DOMAIN details
      BY <3>1, <3>2 DEF NamesUpTo
    <3>4. DOMAIN <<>> = {}
      OBVIOUS
    <3>5. Len(asking.names) \in 0..Len(asking.names)
      BY <1>2
    <3> QED BY <1>2, <2>2, <3>3, <3>4, <3>5, TurnsAre DEF DetailsInv, DetailsOK
  <2> QED BY <2>1, <2>2
<1>6. FirstPage \subseteq DOMAIN details
  BY DEF FirstPage
<1>7. ASSUME asking.names # <<>>
      PROVE  /\ DOMAIN response'.functions = FirstPage
             /\ \A n \in FirstPage : response'.functions[n] = details[n]
             /\ response'.success = Succeeds
             /\ response'.more <=> FirstPage # DOMAIN details
             /\ problems' = problems
  BY <1>1, <1>5, <1>7
<1>8. ASSUME asking.names # <<>>, ~Stopped
      PROVE  /\ DOMAIN details = ToSet(asking.names)
             /\ \A n \in DOMAIN details : Copies(details[n], Times(n), Yields(n))
  <2>1. DOMAIN details = NamesUpTo(asking.names, Len(asking.names))
        /\ \A n \in DOMAIN details : Copies(details[n], Turns(asking.names, n, Len(asking.names)), Yields(n))
    BY <1>2, <1>8 DEF DetailsInv, DetailsOK
  <2>2. \A n : Turns(asking.names, n, Len(asking.names)) = Times(n)
    BY <1>2 DEF Turns, Times
  <2>3. NamesUpTo(asking.names, Len(asking.names)) = ToSet(asking.names)
    BY <1>2 DEF NamesUpTo, ToSet
  <2> QED BY <2>1, <2>2, <2>3
<1>9. ASSUME asking.names # <<>>, Stopped
      PROVE  \E k \in DOMAIN asking.names : DOMAIN details = ToSet(SubSeq(asking.names, 1, k))
  <2>1. PICK k \in DOMAIN asking.names : DOMAIN details = NamesUpTo(asking.names, k)
    BY <1>9 DEF DetailsInv, DetailsOK
  <2>2. k \in 1..Len(asking.names) /\ k \in Nat
    BY <1>2
  <2>3. DOMAIN SubSeq(asking.names, 1, k) = 1..k /\ \A i \in 1..k : SubSeq(asking.names, 1, k)[i] = asking.names[i]
    BY <1>2, <2>2
  <2>4. ToSet(SubSeq(asking.names, 1, k)) = NamesUpTo(asking.names, k)
    BY <2>3 DEF ToSet, NamesUpTo
  <2> QED BY <2>1, <2>4
<1>10. ~Succeeds => problems # {}
  BY DEF Succeeds
<1>11. \A n : Times(n)' = Times(n)
  BY <1>1 DEF Times
<1>12. ASSUME DetailsAnswered'
       PROVE  /\ ~Stopped' /\ ~response'.more => DOMAIN response'.functions = ToSet(asking'.names)
              /\ ~Stopped' =>
                   \A n \in DOMAIN response'.functions :
                     /\ Len(response'.functions[n]) = Times(n)' * Len(Yields(n)')
                     /\ \A i \in DOMAIN response'.functions[n] :
                          response'.functions[n][i] = Yields(n)'[((i - 1) % Len(Yields(n)')) + 1]
              /\ \A n \in DOMAIN response'.functions : ToSet(response'.functions[n]) \subseteq ToSet(Yields(n)')
              /\ Stopped' => \E k \in DOMAIN asking'.names : DOMAIN details' = ToSet(SubSeq(asking'.names, 1, k))
              /\ ~response'.success => problems' # {}
  <2>1. asking.names # <<>> /\ asking' = asking /\ details' = details
    BY <1>1, <1>12 DEF DetailsAnswered
  <2>2. \A n \in DOMAIN response'.functions : n \in DOMAIN details /\ response'.functions[n] = details[n]
    BY <1>6, <1>7, <2>1
  <2>3. ~Stopped' /\ ~response'.more => DOMAIN response'.functions = ToSet(asking'.names)
    BY <1>3, <1>7, <1>8, <2>1
  <2>4. ASSUME ~Stopped', NEW n \in DOMAIN response'.functions
        PROVE  /\ Len(response'.functions[n]) = Times(n)' * Len(Yields(n)')
               /\ \A i \in DOMAIN response'.functions[n] :
                    response'.functions[n][i] = Yields(n)'[((i - 1) % Len(Yields(n)')) + 1]
    <3>1. Copies(details[n], Times(n), Yields(n)) /\ response'.functions[n] = details[n]
      BY <1>3, <1>8, <2>1, <2>2, <2>4
    <3> QED BY <1>3, <1>11, <3>1 DEF Copies
  <2>5. ASSUME NEW n \in DOMAIN response'.functions
        PROVE  ToSet(response'.functions[n]) \subseteq ToSet(Yields(n)')
    BY <1>3, <1>5, <2>1, <2>2, CopiesAreOf
  <2> QED BY <1>3, <1>7, <1>9, <1>10, <2>1, <2>3, <2>4, <2>5
<1>13. DetailsComplete'
  BY <1>12 DEF DetailsComplete
<1> QED BY <1>1, <1>4, <1>13 DEF DetailsInv

LEMMA OthersAnswer ==
  ASSUME DetailsInv, UNCHANGED <<analysis, asking, searched, next, details, lost>>,
         phase' = "answered", asking.way # "details"
  PROVE  DetailsInv'
<1>1. (Stopped' <=> Stopped) /\ \A n : Yields(n)' = Yields(n)
  BY DEF Stopped, Yields, Outcome
<1>2. DetailsOK'
  BY <1>1 DEF DetailsInv, DetailsOK
<1>3. DetailsComplete'
  BY DEF DetailsComplete, DetailsAnswered
<1> QED BY <1>2, <1>3 DEF DetailsInv

LEMMA DetailsInitOK == DetailsInit => DetailsInv
<1> SUFFICES ASSUME DetailsInit PROVE DetailsInv
  OBVIOUS
<1>1. /\ asking \in FnRequests /\ searched = <<>> /\ next = 1 /\ details = <<>> /\ lost = {}
      /\ phase = "asked"
  BY DEF DetailsInit
<1>2. next \in 1..Len(asking.names) + 1
  BY <1>1, RequestAssumption, LenProperties
<1>3. DetailsOK
  BY <1>1 DEF DetailsOK, Stopped, NamesUpTo
<1> QED BY <1>1, <1>2, <1>3, EmptySeq DEF DetailsInv, DetailsComplete, DetailsAnswered

LEMMA DetailsStepOK == DetailsInv /\ [DetailsNext]_detailVars => DetailsInv'
<1> SUFFICES ASSUME DetailsInv, [DetailsNext]_detailVars PROVE DetailsInv'
  OBVIOUS
<1>1. CASE Search
  BY <1>1, SearchOK
<1>2. CASE Single
  BY <1>2, SingleOK
<1>3. CASE Batch
  BY <1>3, BatchOK
<1>4. CASE BatchStops
  BY <1>4, BatchStopsOK
<1>5. CASE Respond
  BY <1>5, RespondOK
<1>6. CASE BatchRequest
  BY <1>6, OthersAnswer DEF BatchRequest
<1>7. CASE Several
  BY <1>7, OthersAnswer DEF Several
<1>8. CASE UNCHANGED detailVars
  <2>1. UNCHANGED <<analysis, asking, searched, next, details, problems, lost, response, phase>>
    BY <1>8 DEF detailVars
  <2>2. (Stopped' <=> Stopped) /\ \A n : Yields(n)' = Yields(n) /\ Times(n)' = Times(n)
    BY <2>1 DEF Stopped, Yields, Outcome, Times
  <2>3. DetailsOK'
    BY <2>1, <2>2 DEF DetailsInv, DetailsOK
  <2>4. DetailsComplete'
    BY <2>1, <2>2 DEF DetailsInv, DetailsComplete, DetailsAnswered
  <2> QED BY <2>1, <2>3, <2>4 DEF DetailsInv
<1> QED BY <1>1, <1>2, <1>3, <1>4, <1>5, <1>6, <1>7, <1>8 DEF DetailsNext

(* For any functions, files, analyses and requests, and however the memory *)
(* stops a batch: what is answered for a name are the searched files that  *)
(* define it, as often as it was asked for; nothing is missing unless the  *)
(* batch was stopped or there are more pages; and no answer fails without  *)
(* an error.                                                               *)
THEOREM DetailsAreComplete == DetailsSpec => []DetailsComplete
<1>1. DetailsInv => DetailsComplete
  BY DEF DetailsInv
<1> QED BY <1>1, DetailsInitOK, DetailsStepOK, PTL DEF DetailsSpec
=============================================================================
