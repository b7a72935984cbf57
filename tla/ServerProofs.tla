---------------------------- MODULE ServerProofs ----------------------------
(***************************************************************************)
(* Theorems about the servers that answer from a project's files.          *)
(*                                                                         *)
(* Standards, for any standards, rules and sessions: a session's hints are *)
(* those of the rules that are written, and one of them that was sent      *)
(* short is one the session has had in full.                               *)
(*                                                                         *)
(* ProjectTools, for any items, keys, sizes and edits: who follows the     *)
(* cursors receives all that was listed.                                   *)
(*                                                                         *)
(* Both are built from folds, as is most of the analysis server.  The      *)
(* first part says what a fold computes, when each of its steps stays      *)
(* within a set Acc.                                                       *)
(***************************************************************************)
EXTENDS Standards, ProjectTools,
        FiniteSetTheorems, SequenceTheorems, NaturalsInduction, WellFoundedInduction, TLAPS

(* A set of numbers that is not empty has a least one.                     *)
LEMMA Least ==
  ASSUME NEW T, T \subseteq Nat, T # {}
  PROVE  \E n \in T : \A m \in T : n <= m
<1>1. PICK n \in T : \A m \in T : ~ (<<m, n>> \in OpToRel(<, Nat))
  BY WFMin, NatLessThanWellFounded, Zenon
<1>2. \A m \in T : m \in Nat /\ n \in Nat /\ ~ (m < n)
  BY <1>1 DEF OpToRel
<1> QED BY <1>2

(* What holds of 0, and of each number up to n if it holds of the one      *)
(* before it, holds of n.                                                  *)
LEMMA UpTo ==
  ASSUME NEW n \in Nat, NEW B, 0 \in B, \A i \in 1..n : i - 1 \in B => i \in B
  PROVE  \A i \in 0..n : i \in B
<1>1. SUFFICES ASSUME NEW b \in 0..n, b \notin B PROVE FALSE
  OBVIOUS
<1> DEFINE Bad == {i \in 0..n : i \notin B}
<1>2. PICK m \in Bad : \A i \in Bad : m <= i
  <2>1. Bad \subseteq Nat /\ Bad # {}
    BY <1>1
  <2> QED BY <2>1, Least
<1>3. m \in 1..n
  OBVIOUS
<1>4. m - 1 \in B
  BY <1>2, <1>3
<1> QED BY <1>3, <1>4

(* A set of numbers up to n has a greatest one.                            *)
LEMMA Greatest ==
  ASSUME NEW n \in Nat, NEW s \in SUBSET (1..n), s # {}
  PROVE  Max(s) \in s /\ \A i \in s : i <= Max(s)
<1> DEFINE Below == {k \in Nat : n - k \in s}
<1>1. PICK k \in Below : \A j \in Below : k <= j
  <2>1. PICK i \in s : TRUE
    OBVIOUS
  <2>2. i \in 1..n /\ n - i \in Nat /\ n - (n - i) = i
    BY <2>1
  <2>3. n - i \in Below
    BY <2>1, <2>2
  <2>4. Below \subseteq Nat /\ Below # {}
    BY <2>3
  <2> QED BY <2>4, Least
<1> DEFINE x == n - k
<1>2. x \in s
  BY <1>1
<1>3. ASSUME NEW i \in s PROVE x >= i
  <2>1. i \in 1..n /\ n - i \in Nat /\ n - (n - i) = i
    OBVIOUS
  <2>2. n - i \in Below
    BY <2>1
  <2>3. k <= n - i /\ k \in Nat
    BY <2>2, <1>1
  <2> QED BY <2>1, <2>3
<1>4. Max(s) \in s /\ \A i \in s : Max(s) >= i
  <2> HIDE DEF x
  <2> QED BY <1>2, <1>3 DEF Max
<1>5. \A i \in s : i \in 1..n
  OBVIOUS
<1> QED BY <1>4, <1>5

LEMMA UpToGreatest ==
  ASSUME NEW i \in Nat, i # 0
  PROVE  1..i # {} /\ Max(1..i) = i /\ (1..i) \ {Max(1..i)} = 1..(i - 1)
<1>1. (1..i) \in SUBSET (1..i) /\ i \in 1..i
  OBVIOUS
<1>2. Max(1..i) \in 1..i /\ \A j \in 1..i : j <= Max(1..i)
  BY <1>1, Greatest
<1>3. Max(1..i) = i
  BY <1>1, <1>2
<1> QED BY <1>1, <1>3

(* Two folds over 1..n that make the same steps have the same result.      *)
LEMMA FoldsAgree ==
  ASSUME NEW n \in Nat, NEW g, NEW h, g[{}] = h[{}],
         \A s \in SUBSET (1..n) :
           s # {} /\ g[s \ {Max(s)}] = h[s \ {Max(s)}] => g[s] = h[s]
  PROVE  g[1..n] = h[1..n]
<1> DEFINE B == {i \in Nat : g[1..i] = h[1..i]}
<1>1. 0 \in B
  BY 1..0 = {}
<1>2. ASSUME NEW i \in 1..n, i - 1 \in B PROVE i \in B
  <2>1. i \in Nat /\ i # 0 /\ (1..i) \in SUBSET (1..n)
    OBVIOUS
  <2>2. 1..i # {} /\ (1..i) \ {Max(1..i)} = 1..(i - 1)
    BY <2>1, UpToGreatest
  <2> QED BY <2>1, <2>2, <1>2
<1>3. \A i \in 0..n : i \in B
  <2> HIDE DEF B
  <2> QED BY <1>1, <1>2, UpTo
<1>4. n \in 0..n
  OBVIOUS
<1> QED BY <1>3, <1>4

(* The values in Acc that a fold of the steps G has on the subsets of 1..n *)
Folds(n, Acc, G, base, g) ==
  /\ g \in [SUBSET (1..n) -> Acc]
  /\ \A s \in SUBSET (1..n) : g[s] = IF s = {} THEN base ELSE G[Max(s)][g[s \ {Max(s)}]]

LEMMA FoldExists ==
  ASSUME NEW n \in Nat, NEW Acc, NEW G \in [1..n -> [Acc -> Acc]], NEW base \in Acc
  PROVE  \E g : Folds(n, Acc, G, base, g)
<1> DEFINE B == {i \in 0..n : \E g : Folds(i, Acc, G, base, g)}
<1>1. 0 \in B
  <2> DEFINE g == [s \in SUBSET (1..0) |-> base]
  <2>1. \A s \in SUBSET (1..0) : s = {}
    OBVIOUS
  <2>2. g \in [SUBSET (1..0) -> Acc]
    OBVIOUS
  <2>3. Folds(0, Acc, G, base, g)
    BY <2>1, <2>2 DEF Folds
  <2> QED BY <2>3
<1>2. ASSUME NEW i \in 1..n, i - 1 \in B PROVE i \in B
  <2>0. PICK g : Folds(i - 1, Acc, G, base, g)
    BY <1>2
  <2>1. /\ g \in [SUBSET (1..(i - 1)) -> Acc]
        /\ \A s \in SUBSET (1..(i - 1)) : g[s] = IF s = {} THEN base ELSE G[Max(s)][g[s \ {Max(s)}]]
    BY <2>0 DEF Folds
  <2> DEFINE h == [s \in SUBSET (1..i) |-> IF i \in s THEN G[i][g[s \ {i}]] ELSE g[s]]
  <2>2. \A s \in SUBSET (1..i) : s \ {i} \in SUBSET (1..(i - 1)) /\ (i \notin s => s \in SUBSET (1..(i - 1)))
    OBVIOUS
  <2>3. h \in [SUBSET (1..i) -> Acc]
    BY <2>1, <2>2
  <2>4. ASSUME NEW s \in SUBSET (1..i)
        PROVE  h[s] = IF s = {} THEN base ELSE G[Max(s)][h[s \ {Max(s)}]]
    <3>1. \A r \in SUBSET (1..(i - 1)) : r \in SUBSET (1..i) /\ i \notin r /\ h[r] = g[r]
      OBVIOUS
    <3>2. CASE i \in s
      <4>1. i \in Nat /\ s # {}
        BY <3>2
      <4>2. Max(s) \in s /\ (\A j \in s : j <= Max(s))
        BY <4>1, Greatest
      <4>3. Max(s) \in 1..i /\ i <= Max(s)
        BY <4>2, <3>2
      <4>4. Max(s) = i
        BY <4>1, <4>3
      <4>5. h[s \ {i}] = g[s \ {i}]
        BY <2>2, <3>1
      <4> QED BY <3>2, <4>4, <4>5
    <3>3. CASE i \notin s
      <4>1. s \in SUBSET (1..(i - 1)) /\ h[s] = g[s]
        BY <3>3, <3>1, <2>2
      <4>2. g[s] = IF s = {} THEN base ELSE G[Max(s)][g[s \ {Max(s)}]]
        BY <2>1, <4>1
      <4>3. s # {} => h[s \ {Max(s)}] = g[s \ {Max(s)}]
        BY <4>1, <3>1
      <4> QED BY <4>1, <4>2, <4>3
    <3> QED BY <3>2, <3>3
  <2> HIDE DEF h
  <2>5. Folds(i, Acc, G, base, h)
    BY <2>3, <2>4 DEF Folds
  <2> QED BY <2>5
<1>3. \A i \in 0..n : i \in B
  <2> HIDE DEF B
  <2> QED BY <1>1, <1>2, UpTo
<1>4. n \in B
  <2>1. n \in 0..n
    OBVIOUS
  <2> QED BY <1>3, <2>1
<1> QED BY <1>4

(* The values that such a fold has after each step, the last one being end *)
Run(n, Acc, G, base, p, end) ==
  /\ p \in [0..n -> Acc]
  /\ p[0] = base /\ p[n] = end /\ \A i \in 1..n : p[i] = G[i][p[i - 1]]

LEMMA FoldResult ==
  ASSUME NEW n \in Nat, NEW Acc, NEW G \in [1..n -> [Acc -> Acc]], NEW base \in Acc,
         NEW h, h[{}] = base,
         \A s \in SUBSET (1..n) :
           s # {} /\ h[s \ {Max(s)}] \in Acc => h[s] = G[Max(s)][h[s \ {Max(s)}]]
  PROVE  \E p : Run(n, Acc, G, base, p, h[1..n])
<1>0. PICK g : Folds(n, Acc, G, base, g)
  BY FoldExists
<1>1. /\ g \in [SUBSET (1..n) -> Acc]
      /\ \A s \in SUBSET (1..n) : g[s] = IF s = {} THEN base ELSE G[Max(s)][g[s \ {Max(s)}]]
  BY <1>0 DEF Folds
<1> DEFINE p == [i \in 0..n |-> g[1..i]]
<1>2. p \in [0..n -> Acc] /\ p[n] = g[1..n]
  BY <1>1
<1>3. p[0] = base
  <2>1. 1..0 = {} /\ (1..0) \in SUBSET (1..n) /\ 0 \in 0..n
    OBVIOUS
  <2> QED BY <1>1, <2>1
<1>4. ASSUME NEW i \in 1..n PROVE p[i] = G[i][p[i - 1]]
  <2>1. i \in Nat /\ i # 0 /\ (1..i) \in SUBSET (1..n) /\ i \in 0..n /\ i - 1 \in 0..n
    OBVIOUS
  <2>2. 1..i # {} /\ Max(1..i) = i /\ (1..i) \ {Max(1..i)} = 1..(i - 1)
    BY <2>1, UpToGreatest
  <2>3. g[1..i] = G[Max(1..i)][g[(1..i) \ {Max(1..i)}]]
    BY <1>1, <2>1, <2>2
  <2> QED BY <2>1, <2>2, <2>3
<1>5. g[{}] = h[{}]
  <2>1. {} \in SUBSET (1..n)
    OBVIOUS
  <2> QED BY <1>1, <2>1
<1>6. ASSUME NEW s \in SUBSET (1..n), s # {}, g[s \ {Max(s)}] = h[s \ {Max(s)}] PROVE g[s] = h[s]
  <2>1. s \ {Max(s)} \in SUBSET (1..n)
    OBVIOUS
  <2>2. g[s \ {Max(s)}] \in Acc
    BY <1>1, <2>1
  <2> QED BY <1>1, <1>6, <2>2
<1>7. g[1..n] = h[1..n]
  BY <1>5, <1>6, FoldsAgree
<1> HIDE DEF p
<1>8. Run(n, Acc, G, base, p, h[1..n])
  BY <1>2, <1>3, <1>4, <1>7 DEF Run
<1> QED BY <1>8

-----------------------------------------------------------------------------
(***************************************************************************)
(* The standards server                                                    *)
(***************************************************************************)

(* What an answer consists of while it is made from the rules in offered   *)
Answers(offered, before) ==
  {a \in [tokens : Nat, full : SUBSET Rule, references : SUBSET Rule, omitted : SUBSET Rule,
          loaded : SUBSET Rule] :
     a.full \subseteq offered /\ a.loaded \subseteq before \cup a.full}

LEMMA TakenAnswers ==
  ASSUME NEW offered \in SUBSET Rule, NEW before, NEW a \in Answers(offered, before),
         NEW r \in offered, NEW budget \in Nat
  PROVE  Taken(a, r, budget) \in Answers(offered, before)
<1> DEFINE tokens == a.tokens + (IF r \in a.loaded THEN 1 ELSE 2)
<1>1. tokens \in Nat
  BY DEF Answers
<1>2. CASE r \in a.loaded /\ tokens > budget
  <2>1. Taken(a, r, budget) = a
    BY <1>1, <1>2 DEF Taken
  <2> QED BY <2>1
<1>3. CASE r \notin a.loaded /\ tokens > budget
  <2>1. Taken(a, r, budget) = [a EXCEPT !.omitted = @ \cup {r}]
    BY <1>1, <1>3 DEF Taken
  <2> QED BY <2>1 DEF Answers
<1>4. CASE r \in a.loaded /\ tokens <= budget
  <2>1. Taken(a, r, budget) = [a EXCEPT !.tokens = tokens, !.references = @ \cup {r}]
    BY <1>1, <1>4 DEF Taken
  <2> HIDE DEF tokens
  <2> QED BY <1>1, <2>1 DEF Answers
<1>5. CASE r \notin a.loaded /\ tokens <= budget
  <2>1. Taken(a, r, budget)
          = [a EXCEPT !.tokens = tokens, !.full = @ \cup {r}, !.loaded = @ \cup {r}]
    BY <1>1, <1>5 DEF Taken
  <2>2. Taken(a, r, budget)
          = [tokens |-> tokens, full |-> a.full \cup {r}, references |-> a.references,
             omitted |-> a.omitted, loaded |-> a.loaded \cup {r}]
    BY <2>1 DEF Answers
  <2> HIDE DEF tokens
  <2> QED BY <1>1, <2>2 DEF Answers
<1> HIDE DEF tokens
<1> QED BY <1>1, <1>2, <1>3, <1>4, <1>5

(* Taking rules one after the other                                        *)
LEMMA TakenInTurn ==
  ASSUME NEW offered \in SUBSET Rule, NEW before, NEW start \in Answers(offered, before),
         NEW n \in Nat, NEW order \in [1..n -> offered], NEW budget \in Nat
  PROVE  FoldLeft(LAMBDA acc, r : Taken(acc, r, budget), start, order) \in Answers(offered, before)
<1> DEFINE Acc == Answers(offered, before)
           G == [i \in 1..n |-> [a \in Acc |-> Taken(a, order[i], budget)]]
           R(h) == h = [s \in SUBSET (1..n) |->
                          IF s = {} THEN start ELSE Taken(h[s \ {Max(s)}], order[Max(s)], budget)]
           f == CHOOSE h : R(h)
<1>1. FoldLeft(LAMBDA acc, r : Taken(acc, r, budget), start, order) = f[1..n]
  <2>1. DOMAIN order = 1..n
    OBVIOUS
  <2> QED BY <2>1 DEF FoldLeft, MapThenFoldSet
<1>2. G \in [1..n -> [Acc -> Acc]]
  <2>1. \A i \in 1..n : order[i] \in offered
    OBVIOUS
  <2>2. \A i \in 1..n, a \in Acc : Taken(a, order[i], budget) \in Acc
    <3> HIDE DEF Acc
    <3> QED BY <2>1, TakenAnswers DEF Acc
  <2> HIDE DEF Acc
  <2> QED BY <2>2
<1>3. PICK g : Folds(n, Acc, G, start, g)
  <2> HIDE DEF Acc, G
  <2>1. start \in Acc
    BY DEF Acc
  <2> QED BY <1>2, <2>1, FoldExists
<1>4. R(g)
  <2> DEFINE k == [s \in SUBSET (1..n) |->
                          IF s = {} THEN start ELSE Taken(g[s \ {Max(s)}], order[Max(s)], budget)]
  <2>2. ASSUME NEW s \in SUBSET (1..n), s # {}
        PROVE  G[Max(s)][g[s \ {Max(s)}]] = Taken(g[s \ {Max(s)}], order[Max(s)], budget)
    <3>1. Max(s) \in 1..n
      BY <2>2, Greatest
    <3>2. g[s \ {Max(s)}] \in Acc
      BY <1>3 DEF Folds
    <3> HIDE DEF Acc
    <3> QED BY <3>1, <3>2
  <2>3. \A s \in SUBSET (1..n) : g[s] = k[s]
    BY <1>3, <2>2 DEF Folds
  <2>4. g = [s \in SUBSET (1..n) |-> g[s]]
    BY <1>3 DEF Folds
  <2>5. g = k
    BY <2>3, <2>4
  <2> QED BY <2>5
<1>5. R(f)
  BY <1>4
<1>6. \E p : Run(n, Acc, G, start, p, f[1..n])
  <2>1. f[{}] = start
    BY <1>5
  <2>2. ASSUME NEW s \in SUBSET (1..n), s # {}, f[s \ {Max(s)}] \in Acc
        PROVE  f[s] = G[Max(s)][f[s \ {Max(s)}]]
    <3>1. f[s] = Taken(f[s \ {Max(s)}], order[Max(s)], budget)
      BY <1>5, <2>2
    <3>2. Max(s) \in 1..n
      BY <2>2, Greatest
    <3> HIDE DEF f, Acc
    <3> QED BY <3>1, <3>2, <2>2
  <2>3. start \in Acc
    OBVIOUS
  <2> HIDE DEF f, G, Acc
  <2> QED BY <1>2, <2>1, <2>2, <2>3, FoldResult
<1>7. f[1..n] \in Acc
  <2> HIDE DEF f, Acc
  <2> QED BY <1>6 DEF Run
<1> QED BY <1>1, <1>7

(* The steps a tool can have left, by what follows what                    *)
StepName ==
  {"clear", "unlint", "metadata", "list", "unlist", "hint", "lint", "plugin", "index", "invalidate"}
Follows ==
  {<<"clear", "unlint">>, <<"unlint", "metadata">>, <<"metadata", "list">>, <<"list", "index">>,
   <<"unlint", "unlist">>, <<"unlist", "index">>, <<"hint", "index">>, <<"lint", "plugin">>,
   <<"plugin", "index">>, <<"index", "invalidate">>}

StepRecord == [name : StepName, standard : Standard, rule : Rule \cup {AnyRule}]

StepsLeft ==
  /\ pending \in Seq(StepRecord)
  /\ \A i \in DOMAIN pending : pending[i].standard = pending[1].standard
  /\ \A i \in DOMAIN pending :
       IF pending[i].name = "invalidate" THEN i = Len(pending)
       ELSE i + 1 \in DOMAIN pending /\ <<pending[i].name, pending[i + 1].name>> \in Follows

StandardsTypeOK ==
  /\ metadata \subseteq Standard /\ manifest \subseteq Standard /\ interrupted \subseteq Standard
  /\ hints \in [Rule -> Nat] /\ changes \in Nat
  /\ loaded \in [Client -> SUBSET Rule]
  /\ given \in [Client -> [Rule -> Nat]]

(* Metadata, manifest and both indexes agree about a standard.             *)
Agreed(s) ==
  /\ s \in metadata <=> s \in manifest
  /\ index # <<>> => (s \in index[1] <=> s \in metadata)
  /\ indexCache # <<>> => (s \in indexCache[1] <=> s \in metadata)

(* What holds of the standard a tool works on before its next step         *)
Prepared(name, s) ==
  /\ name \in {"unlint", "unlist"} => s \notin metadata
  /\ name = "list" => s \in metadata
  /\ name \in {"index", "invalidate"} => (s \in metadata <=> s \in manifest)
  /\ name = "invalidate" => index # <<>> /\ (s \in index[1] <=> s \in metadata)
  /\ name \in {"hint", "lint", "plugin"} => Agreed(s)

Worked(s) == pending # <<>> /\ pending[1].standard = s

RegisteredOK ==
  \A s \in Standard \ interrupted :
    IF Worked(s) THEN Prepared(pending[1].name, s) ELSE Agreed(s)

StandardsInv ==
  StandardsTypeOK /\ StepsLeft /\ RegisteredOK /\ ReferencesKnown /\ AnswersCurrent

LEMMA StandardsInitOK == StandardsInit => StandardsInv
<1> SUFFICES ASSUME StandardsInit PROVE StandardsInv
  OBVIOUS
<1> USE DEF StandardsInit
<1>1. StandardsTypeOK
  BY DEF StandardsTypeOK
<1>2. StepsLeft
  BY DEF StepsLeft
<1>3. RegisteredOK
  BY DEF RegisteredOK, Worked, Agreed
<1>4. ReferencesKnown
  BY DEF ReferencesKnown
<1>5. AnswersCurrent
  BY DEF AnswersCurrent, NoReply
<1> QED BY <1>1, <1>2, <1>3, <1>4, <1>5 DEF StandardsInv

(* A tool that starts has its steps before it, in order.                   *)
LEMMA StepsBegin ==
  ASSUME NEW names \in Seq(StepName), NEW s \in Standard, pending' = Steps(names, s),
         \A i \in DOMAIN names :
           IF names[i] = "invalidate" THEN i = Len(names)
           ELSE i + 1 \in DOMAIN names /\ <<names[i], names[i + 1]>> \in Follows
  PROVE  /\ StepsLeft'
         /\ names # <<>> => pending' # <<>> /\ pending'[1].name = names[1] /\ pending'[1].standard = s
<1>1. Len(names) \in Nat /\ DOMAIN names = 1 .. Len(names) /\ \A i \in DOMAIN names : names[i] \in StepName
  BY LenProperties, ElementOfSeq
<1>2. pending' = [i \in 1 .. Len(names) |-> Step(names[i], s, AnyRule)]
  BY DEF Steps
<1>3. \A i \in 1 .. Len(names) :
        /\ Step(names[i], s, AnyRule) \in StepRecord
        /\ Step(names[i], s, AnyRule).name = names[i] /\ Step(names[i], s, AnyRule).standard = s
  BY <1>1 DEF Step, StepRecord
<1> HIDE DEF StepRecord
<1>4. pending' \in Seq(StepRecord) /\ Len(pending') = Len(names) /\ DOMAIN pending' = DOMAIN names
  BY <1>1, <1>2, <1>3
<1>5. \A i \in DOMAIN names : pending'[i].name = names[i] /\ pending'[i].standard = s
  BY <1>1, <1>2, <1>3
<1>6. 1 \in DOMAIN names \/ DOMAIN names = {}
  BY <1>1
<1>7. StepsLeft'
  BY <1>4, <1>5, <1>6 DEF StepsLeft
<1>8. names # <<>> => 1 \in DOMAIN names /\ pending' # <<>>
  BY <1>1, <1>4
<1> QED BY <1>5, <1>7, <1>8

(* The next step is taken.                                                 *)
LEMMA StepsGoOn ==
  ASSUME StepsLeft, pending # <<>>, pending' = Tail(pending)
  PROVE  /\ pending[1] = Head(pending) /\ pending[1] \in StepRecord /\ StepsLeft'
         /\ pending[1].name = "invalidate" => pending' = <<>>
         /\ pending[1].name # "invalidate" =>
              /\ pending' # <<>> /\ pending'[1].standard = pending[1].standard
              /\ <<pending[1].name, pending'[1].name>> \in Follows
<1> HIDE DEF StepRecord
<1>1. pending \in Seq(StepRecord) /\ Len(pending) \in Nat /\ Len(pending) # 0
  BY EmptySeq, LenProperties DEF StepsLeft
<1>2. DOMAIN pending = 1 .. Len(pending) /\ 1 \in DOMAIN pending
  BY <1>1
<1>3. /\ pending' \in Seq(StepRecord) /\ Len(pending') = Len(pending) - 1
      /\ DOMAIN pending' = 1 .. (Len(pending) - 1)
      /\ \A i \in 1 .. (Len(pending) - 1) : pending'[i] = pending[i + 1]
  BY <1>1, HeadTailProperties
<1>0. \A i \in DOMAIN pending :
        IF pending[i].name = "invalidate" THEN i = Len(pending)
        ELSE i + 1 \in DOMAIN pending /\ <<pending[i].name, pending[i + 1].name>> \in Follows
  BY DEF StepsLeft
<1> HIDE DEF Follows
<1>4. pending[1] = Head(pending) /\ pending[1] \in StepRecord
  BY <1>1, <1>2
<1>5. StepsLeft'
  <2>1. \A i \in DOMAIN pending' : i + 1 \in DOMAIN pending
    BY <1>1, <1>2, <1>3
  <2>2. \A i \in DOMAIN pending' : pending'[i].standard = pending'[1].standard
    BY <1>1, <1>2, <1>3, <2>1 DEF StepsLeft
  <2>3. ASSUME NEW i \in DOMAIN pending'
        PROVE  IF pending'[i].name = "invalidate" THEN i = Len(pending')
               ELSE i + 1 \in DOMAIN pending' /\ <<pending'[i].name, pending'[i + 1].name>> \in Follows
    <3>1. IF pending[i + 1].name = "invalidate" THEN i + 1 = Len(pending)
          ELSE /\ (i + 1) + 1 \in DOMAIN pending
               /\ <<pending[i + 1].name, pending[(i + 1) + 1].name>> \in Follows
      BY <1>0, <2>1
    <3>2. i \in Nat /\ i \in 1 .. (Len(pending) - 1)
      BY <1>1, <1>3
    <3>3. pending'[i] = pending[i + 1] /\ Len(pending') = Len(pending) - 1
      BY <1>3, <3>2
    <3>4. CASE pending[i + 1].name = "invalidate"
      BY <1>1, <3>1, <3>2, <3>3, <3>4
    <3>5. CASE pending[i + 1].name # "invalidate"
      <4>1. (i + 1) + 1 \in 1 .. Len(pending)
        BY <1>2, <3>1, <3>5
      <4>2. i + 1 \in 1 .. (Len(pending) - 1)
        BY <1>1, <3>2, <4>1
      <4> QED BY <1>3, <3>1, <3>3, <3>5, <4>2
    <3> QED BY <3>4, <3>5
  <2> QED BY <1>3, <2>2, <2>3 DEF StepsLeft
<1>6. pending[1].name = "invalidate" => pending' = <<>>
  <2> SUFFICES ASSUME pending[1].name = "invalidate" PROVE pending' = <<>>
    OBVIOUS
  <2>1. Len(pending) = 1
    BY <1>2 DEF StepsLeft
  <2> QED BY <1>3, <2>1, EmptySeq
<1>7. ASSUME pending[1].name # "invalidate"
      PROVE  /\ pending' # <<>> /\ pending'[1].standard = pending[1].standard
             /\ <<pending[1].name, pending'[1].name>> \in Follows
  <2>0. 1 + 1 \in DOMAIN pending /\ <<pending[1].name, pending[1 + 1].name>> \in Follows
    BY <1>0, <1>2, <1>7
  <2>1. 2 \in DOMAIN pending /\ <<pending[1].name, pending[2].name>> \in Follows
    <3>1. 1 + 1 = 2
      OBVIOUS
    <3> QED BY <2>0, <3>1
  <2>2. pending'[1] = pending[2] /\ Len(pending') # 0
    BY <1>1, <1>2, <1>3, <2>1
  <2> QED BY <1>2, <2>1, <2>2 DEF StepsLeft
<1> QED BY <1>4, <1>5, <1>6, <1>7

(* A tool begins to work on s.                                             *)
LEMMA ToolBegins ==
  ASSUME StandardsInv, NEW s \in Standard, NEW steps, ChangeFiles(steps),
         StepsLeft', pending' # <<>>, pending'[1].standard = s,
         interrupted' \in {interrupted, interrupted \ {s}},
         s \notin interrupted' => Prepared(pending[1].name, s)'
  PROVE  StandardsInv'
<1> USE DEF ChangeFiles, diskVars, clientVars
<1>1. StandardsTypeOK'
  BY DEF StandardsInv, StandardsTypeOK
<1>2. RegisteredOK'
  <2>1. ASSUME NEW u \in Standard \ interrupted', u # s PROVE Agreed(u)'
    <3>1. u \notin interrupted /\ ~Worked(u)
      BY <2>1 DEF Worked
    <3>2. Agreed(u)
      BY <3>1 DEF StandardsInv, RegisteredOK
    <3> QED BY <3>2 DEF Agreed
  <2> QED BY <2>1 DEF RegisteredOK, Worked
<1>3. ReferencesKnown' /\ AnswersCurrent'
  BY DEF StandardsInv, ReferencesKnown, AnswersCurrent
<1> QED BY <1>1, <1>2, <1>3 DEF StandardsInv

LEMMA Joined ==
  ASSUME NEW S, NEW a \in Seq(S), NEW b \in Seq(S)
  PROVE  /\ a \o b \in Seq(S) /\ Len(a \o b) = Len(a) + Len(b)
         /\ DOMAIN (a \o b) = 1 .. Len(a) + Len(b)
         /\ \A i \in 1 .. Len(a) + Len(b) :
              (a \o b)[i] = IF i <= Len(a) THEN a[i] ELSE b[i - Len(a)]
BY ConcatProperties, LenProperties

LEMMA RegisterStep ==
  ASSUME StandardsInv, NEW s \in Standard, Register(s) \/ Delete(s)
  PROVE  StandardsInv'
<1> DEFINE registers == (Cleared \o <<"metadata", "list">>) \o Indexed
           deletes == (Cleared \o <<"unlist">>) \o Indexed
<1>0. /\ Cleared \in Seq(StepName) /\ Len(Cleared) = 2
      /\ Indexed \in Seq(StepName) /\ Len(Indexed) = 2
      /\ Indexed[1] = "index" /\ Indexed[2] = "invalidate"
      /\ <<"metadata", "list">> \in Seq(StepName) /\ <<"unlist">> \in Seq(StepName)
  BY DEF Cleared, Indexed, StepName
<1>1. /\ registers \in Seq(StepName) /\ Len(registers) = 6 /\ DOMAIN registers = 1..6
      /\ registers[1] = "clear" /\ registers[2] = "unlint" /\ registers[3] = "metadata"
      /\ registers[4] = "list" /\ registers[5] = "index" /\ registers[6] = "invalidate"
  <2> DEFINE first == Cleared \o <<"metadata", "list">>
  <2>1. /\ first \in Seq(StepName) /\ Len(first) = 4
        /\ first[1] = "clear" /\ first[2] = "unlint" /\ first[3] = "metadata" /\ first[4] = "list"
    BY <1>0, Joined DEF Cleared
  <2> HIDE DEF first
  <2>2. /\ first \o Indexed \in Seq(StepName) /\ Len(first \o Indexed) = 6
        /\ DOMAIN (first \o Indexed) = 1..6
        /\ \A i \in 1..6 :
             (first \o Indexed)[i] = IF i <= 4 THEN first[i] ELSE Indexed[i - 4]
    <3>1. /\ first \o Indexed \in Seq(StepName)
          /\ Len(first \o Indexed) = Len(first) + Len(Indexed)
          /\ DOMAIN (first \o Indexed) = 1 .. Len(first) + Len(Indexed)
          /\ \A i \in 1 .. Len(first) + Len(Indexed) :
               (first \o Indexed)[i] = IF i <= Len(first) THEN first[i] ELSE Indexed[i - Len(first)]
      <4> HIDE DEF StepName
      <4> QED BY ONLY <1>0, <2>1, Joined, Zenon
    <3> QED BY <1>0, <2>1, <3>1
  <2> QED BY <1>0, <2>1, <2>2 DEF first
<1>2. /\ deletes \in Seq(StepName) /\ Len(deletes) = 5 /\ DOMAIN deletes = 1..5
      /\ deletes[1] = "clear" /\ deletes[2] = "unlint" /\ deletes[3] = "unlist"
      /\ deletes[4] = "index" /\ deletes[5] = "invalidate"
  <2> DEFINE first == Cleared \o <<"unlist">>
  <2>1. /\ first \in Seq(StepName) /\ Len(first) = 3
        /\ first[1] = "clear" /\ first[2] = "unlint" /\ first[3] = "unlist"
    BY <1>0, Joined DEF Cleared
  <2> HIDE DEF first
  <2>2. /\ first \o Indexed \in Seq(StepName) /\ Len(first \o Indexed) = 5
        /\ DOMAIN (first \o Indexed) = 1..5
        /\ \A i \in 1..5 :
             (first \o Indexed)[i] = IF i <= 3 THEN first[i] ELSE Indexed[i - 3]
    <3>1. /\ first \o Indexed \in Seq(StepName)
          /\ Len(first \o Indexed) = Len(first) + Len(Indexed)
          /\ DOMAIN (first \o Indexed) = 1 .. Len(first) + Len(Indexed)
          /\ \A i \in 1 .. Len(first) + Len(Indexed) :
               (first \o Indexed)[i] = IF i <= Len(first) THEN first[i] ELSE Indexed[i - Len(first)]
      <4> HIDE DEF StepName
      <4> QED BY ONLY <1>0, <2>1, Joined, Zenon
    <3> QED BY <1>0, <2>1, <3>1
  <2> QED BY <1>0, <2>1, <2>2 DEF first
<1> HIDE DEF registers, deletes
<1>3. PICK names \in {registers, deletes} :
        ChangeFiles(Steps(names, s)) /\ interrupted' = interrupted \ {s}
  BY DEF Register, Delete, registers, deletes
<1>4. names \in Seq(StepName) /\ names # <<>> /\ names[1] = "clear"
  BY <1>1, <1>2, <1>3, EmptySeq
<1>5. \A i \in DOMAIN names :
        IF names[i] = "invalidate" THEN i = Len(names)
        ELSE i + 1 \in DOMAIN names /\ <<names[i], names[i + 1]>> \in Follows
  <2>1. CASE names = registers
    BY <1>1, <2>1 DEF Follows
  <2>2. CASE names = deletes
    BY <1>2, <2>2 DEF Follows
  <2> QED BY <1>3, <2>1, <2>2
<1>6. pending' = Steps(names, s)
  BY <1>3 DEF ChangeFiles
<1>7. StepsLeft' /\ pending' # <<>> /\ pending'[1].name = "clear" /\ pending'[1].standard = s
  BY <1>4, <1>5, <1>6, StepsBegin
<1>8. Prepared("clear", s)'
  BY DEF Prepared
<1> QED BY <1>3, <1>7, <1>8, ToolBegins

LEMMA LintedStep ==
  ASSUME StandardsInv, NEW s \in Standard, Linted(s)
  PROVE  StandardsInv'
<1> DEFINE names == <<"lint", "plugin">> \o Indexed
<1>1. /\ names \in Seq(StepName) /\ Len(names) = 4 /\ DOMAIN names = 1..4
      /\ names[1] = "lint" /\ names[2] = "plugin" /\ names[3] = "index" /\ names[4] = "invalidate"
  <2>1. <<"lint", "plugin">> \in Seq(StepName) /\ Indexed \in Seq(StepName) /\ Len(Indexed) = 2
    BY DEF Indexed, StepName
  <2> QED BY <2>1, Joined DEF Indexed
<1> HIDE DEF names
<1>2. names \in Seq(StepName) /\ names # <<>> /\ names[1] = "lint"
  BY <1>1, EmptySeq
<1>3. \A i \in DOMAIN names :
        IF names[i] = "invalidate" THEN i = Len(names)
        ELSE i + 1 \in DOMAIN names /\ <<names[i], names[i + 1]>> \in Follows
  BY <1>1 DEF Follows
<1>4. ChangeFiles(Steps(names, s)) /\ interrupted' = interrupted
  BY DEF Linted, names
<1>5. pending' = Steps(names, s) /\ pending = <<>> /\ UNCHANGED <<diskVars, indexCache>>
  BY <1>4 DEF ChangeFiles
<1>6. StepsLeft' /\ pending' # <<>> /\ pending'[1].name = "lint" /\ pending'[1].standard = s
  BY <1>2, <1>3, <1>5, StepsBegin
<1>7. s \notin interrupted' => Prepared("lint", s)'
  <2> SUFFICES ASSUME s \notin interrupted PROVE Prepared("lint", s)'
    BY <1>4
  <2>1. Agreed(s)
    BY <1>5 DEF StandardsInv, RegisteredOK, Worked
  <2> QED BY <1>5, <2>1 DEF Prepared, Agreed, diskVars
<1> QED BY <1>4, <1>6, <1>7, ToolBegins

LEMMA AddHintStep ==
  ASSUME StandardsInv, NEW r \in Rule, AddHint(r)
  PROVE  StandardsInv'
<1> DEFINE s == StandardOf[r]
           steps == <<Step("hint", s, r)>> \o Steps(Indexed, s)
<1>1. s \in Standard
  BY StandardsAssumption
<1> HIDE DEF s
<1>2. /\ Steps(Indexed, s) = [i \in 1..2 |-> Step(Indexed[i], s, AnyRule)]
      /\ Indexed[1] = "index" /\ Indexed[2] = "invalidate"
  BY DEF Steps, Indexed
<1>4. \A name \in {"hint", "index", "invalidate"}, q \in {r, AnyRule} :
        /\ Step(name, s, q) \in StepRecord
        /\ Step(name, s, q).name = name /\ Step(name, s, q).standard = s
  BY <1>1 DEF StepRecord, StepName, Step
<1>5. ChangeFiles(steps) /\ interrupted' = interrupted
  BY DEF AddHint, s
<1>6. pending' = steps /\ pending = <<>> /\ UNCHANGED <<diskVars, indexCache>>
  BY <1>5 DEF ChangeFiles
<1> HIDE DEF steps, StepRecord
<1>3. /\ Steps(Indexed, s) \in Seq(StepRecord) /\ Len(Steps(Indexed, s)) = 2
      /\ Steps(Indexed, s)[1] = Step("index", s, AnyRule)
      /\ Steps(Indexed, s)[2] = Step("invalidate", s, AnyRule)
  BY <1>2, <1>4
<1>7. /\ pending' \in Seq(StepRecord) /\ Len(pending') = 3 /\ DOMAIN pending' = 1..3
      /\ pending'[1].name = "hint" /\ pending'[2].name = "index" /\ pending'[3].name = "invalidate"
      /\ \A i \in 1..3 : pending'[i].standard = s
  <2>1. <<Step("hint", s, r)>> \in Seq(StepRecord)
    BY <1>4
  <2>2. /\ pending' \in Seq(StepRecord) /\ Len(pending') = 3 /\ DOMAIN pending' = 1..3
        /\ pending'[1] = Step("hint", s, r) /\ pending'[2] = Step("index", s, AnyRule)
        /\ pending'[3] = Step("invalidate", s, AnyRule)
    <3> DEFINE a == <<Step("hint", s, r)>>
               b == Steps(Indexed, s)
    <3>1. a \in Seq(StepRecord) /\ Len(a) = 1 /\ a[1] = Step("hint", s, r)
      BY <2>1
    <3>2. pending' = a \o b
      BY <1>6 DEF steps
    <3> HIDE DEF a, b
    <3>3. /\ a \o b \in Seq(StepRecord) /\ Len(a \o b) = Len(a) + Len(b)
          /\ DOMAIN (a \o b) = 1 .. Len(a) + Len(b)
          /\ \A i \in 1 .. Len(a) + Len(b) :
               (a \o b)[i] = IF i <= Len(a) THEN a[i] ELSE b[i - Len(a)]
      BY <1>3, <3>1, Joined DEF b
    <3>4. Len(b) = 2 /\ b[1] = Step("index", s, AnyRule) /\ b[2] = Step("invalidate", s, AnyRule)
      BY <1>3 DEF b
    <3>5. Len(a) + Len(b) = 3 /\ 1 \in 1..3 /\ 2 \in 1..3 /\ 3 \in 1..3
      BY <3>1, <3>4
    <3>6. (a \o b)[1] = a[1] /\ (a \o b)[2] = b[1] /\ (a \o b)[3] = b[2]
      BY <3>1, <3>3, <3>5
    <3> QED BY <3>1, <3>2, <3>3, <3>4, <3>5, <3>6
  <2> QED BY <1>4, <2>2
<1>8. StepsLeft' /\ pending' # <<>>
  BY <1>7 DEF StepsLeft, Follows
<1>9. s \notin interrupted' => Prepared("hint", s)'
  <2> SUFFICES ASSUME s \notin interrupted PROVE Prepared("hint", s)'
    BY <1>5
  <2>1. Agreed(s)
    BY <1>1, <1>6 DEF StandardsInv, RegisteredOK, Worked
  <2> QED BY <1>6, <2>1 DEF Prepared, Agreed, diskVars
<1> QED BY <1>1, <1>5, <1>7, <1>8, <1>9, ToolBegins

-----------------------------------------------------------------------------
(* A tool makes its next step: it suffices that the others stay as they    *)
(* agree, and that its own standard is as the step after it needs it.      *)
LEMMA WritingOK ==
  ASSUME StandardsInv, NEW s \in Standard, NEW name, Writing(name, s), StandardsTypeOK',
         \A u \in Standard \ {s} : Agreed(u) => Agreed(u)',
         s \notin interrupted /\ Prepared(name, s) =>
           IF name = "invalidate" THEN Agreed(s)'
           ELSE \A later \in StepName : <<name, later>> \in Follows => Prepared(later, s)'
  PROVE  StandardsInv'
<1> USE DEF Writing
<1>1. StepsLeft /\ pending # <<>> /\ pending' = Tail(pending)
  BY DEF StandardsInv
<1>2. /\ pending[1].name = name /\ pending[1].standard = s /\ StepsLeft'
      /\ name = "invalidate" => pending' = <<>>
      /\ name # "invalidate" =>
           pending' # <<>> /\ pending'[1].standard = s /\ <<name, pending'[1].name>> \in Follows
  BY <1>1, StepsGoOn
<1>3. interrupted' = interrupted /\ UNCHANGED clientVars
  OBVIOUS
<1>4. ASSUME NEW u \in Standard \ interrupted, u # s PROVE ~Worked(u)' /\ Agreed(u)'
  <2>1. ~Worked(u) /\ ~Worked(u)'
    BY <1>2, <1>4 DEF Worked
  <2>2. Agreed(u)
    BY <1>4, <2>1 DEF StandardsInv, RegisteredOK
  <2> QED BY <1>4, <2>1, <2>2
<1>5. ASSUME s \notin interrupted
      PROVE  IF Worked(s)' THEN Prepared(pending[1].name, s)' ELSE Agreed(s)'
  <2>1. Prepared(name, s)
    BY <1>1, <1>2, <1>5 DEF StandardsInv, RegisteredOK, Worked
  <2>2. CASE name = "invalidate"
    BY <1>2, <1>5, <2>1, <2>2 DEF Worked
  <2>3. CASE name # "invalidate"
    <3>1. pending'[1].name \in StepName
      BY <1>2, <2>3 DEF Follows, StepName
    <3> QED BY <1>2, <1>5, <2>1, <2>3, <3>1 DEF Worked
  <2> QED BY <2>2, <2>3
<1>6. RegisteredOK'
  BY <1>3, <1>4, <1>5 DEF RegisteredOK
<1>7. ReferencesKnown' /\ AnswersCurrent'
  BY <1>3 DEF StandardsInv, ReferencesKnown, AnswersCurrent, clientVars
<1> QED BY <1>2, <1>6, <1>7 DEF StandardsInv

LEMMA WriteStep ==
  ASSUME StandardsInv, Write
  PROVE  StandardsInv'
<1> USE DEF Writing, clientVars, Agreed, Prepared, Follows
<1>0. StandardsTypeOK
  BY DEF StandardsInv
<1>1. ASSUME NEW s \in Standard, ClearHints(s) PROVE StandardsInv'
  <2>1. StandardsTypeOK'
    BY <1>0, <1>1 DEF StandardsTypeOK, ClearHints
  <2> QED BY <1>1, <2>1, WritingOK DEF ClearHints
<1>2. ASSUME NEW s \in Standard, DeleteEslintRules(s) PROVE StandardsInv'
  <2>1. StandardsTypeOK'
    BY <1>0, <1>2 DEF StandardsTypeOK, DeleteEslintRules
  <2> QED BY <1>2, <2>1, WritingOK DEF DeleteEslintRules
<1>3. ASSUME NEW s \in Standard, SaveStandardMetadata(s) PROVE StandardsInv'
  <2>1. StandardsTypeOK'
    BY <1>0, <1>3 DEF StandardsTypeOK, SaveStandardMetadata
  <2> QED BY <1>3, <2>1, WritingOK DEF SaveStandardMetadata
<1>4. ASSUME NEW s \in Standard, SaveHint(s) PROVE StandardsInv'
  <2>1. StandardsTypeOK'
    BY <1>0, <1>4 DEF StandardsTypeOK, SaveHint
  <2> QED BY <1>4, <2>1, WritingOK DEF SaveHint
<1>5. ASSUME NEW s \in Standard, SaveRule(s) PROVE StandardsInv'
  <2>1. StandardsTypeOK'
    BY <1>0, <1>5 DEF StandardsTypeOK, SaveRule
  <2> QED BY <1>5, <2>1, WritingOK DEF SaveRule
<1>6. ASSUME NEW s \in Standard, UpdateEslintConfig(s) PROVE StandardsInv'
  <2>1. StandardsTypeOK'
    BY <1>0, <1>6 DEF StandardsTypeOK, UpdateEslintConfig
  <2> QED BY <1>6, <2>1, WritingOK DEF UpdateEslintConfig
<1>7. ASSUME NEW s \in Standard, SaveManifest(s) PROVE StandardsInv'
  <2>1. StandardsTypeOK'
    BY <1>0, <1>7 DEF StandardsTypeOK, SaveManifest
  <2>2. CASE Writing("list", s) /\ manifest' = manifest \cup {s}
    BY <1>7, <2>1, <2>2, WritingOK DEF SaveManifest
  <2>3. CASE Writing("unlist", s) /\ manifest' = manifest \ {s}
    BY <1>7, <2>1, <2>3, WritingOK DEF SaveManifest
  <2> QED BY <1>7, <2>2, <2>3 DEF SaveManifest
<1>8. ASSUME NEW s \in Standard, BuildIndex(s) PROVE StandardsInv'
  <2>1. StandardsTypeOK'
    BY <1>0, <1>8 DEF StandardsTypeOK, BuildIndex
  <2> QED BY <1>8, <2>1, WritingOK DEF BuildIndex
<1>9. ASSUME NEW s \in Standard, InvalidateIndexCache(s) PROVE StandardsInv'
  <2>1. StandardsTypeOK'
    BY <1>0, <1>9 DEF StandardsTypeOK, InvalidateIndexCache, diskVars
  <2> QED BY <1>9, <2>1, WritingOK DEF InvalidateIndexCache, diskVars
<1> QED BY <1>1, <1>2, <1>3, <1>4, <1>5, <1>6, <1>7, <1>8, <1>9 DEF Write

-----------------------------------------------------------------------------
(* Whoever had been listed by a manifest that is torn counts as            *)
(* interrupted; an index that is torn will be built again.                 *)
LEMMA KillStep == StandardsInv /\ Kill => StandardsInv'
<1> SUFFICES ASSUME StandardsInv, Kill PROVE StandardsInv'
  OBVIOUS
<1> USE DEF Kill
<1>1. /\ index' = index \/ index' = <<>>
      /\ manifest' = manifest \/ manifest' = {}
  OBVIOUS
<1>2. StandardsTypeOK'
  BY <1>1 DEF StandardsInv, StandardsTypeOK
<1>3. StepsLeft'
  BY DEF StepsLeft
<1>4. ASSUME NEW u \in Standard \ interrupted' PROVE ~Worked(u)' /\ Agreed(u)'
  <2>1. u \notin interrupted /\ ~Worked(u) /\ (u \in manifest' <=> u \in manifest)
    <3>1. pending # <<>> => pending[1] = Head(pending)
      BY DEF StandardsInv, StepsLeft
    <3> QED BY <1>1, <3>1 DEF Worked
  <2>2. Agreed(u)
    BY <2>1 DEF StandardsInv, RegisteredOK
  <2> QED BY <1>1, <2>1, <2>2 DEF Agreed, Worked
<1>5. RegisteredOK'
  BY <1>4 DEF RegisteredOK
<1>6. ReferencesKnown' /\ AnswersCurrent'
  BY DEF StandardsInv, ReferencesKnown, AnswersCurrent
<1> QED BY <1>2, <1>3, <1>5, <1>6 DEF StandardsInv

(* The index in memory goes.                                               *)
LEMMA ExpireStep == StandardsInv /\ Expire => StandardsInv'
<1> SUFFICES ASSUME StandardsInv, Expire PROVE StandardsInv'
  OBVIOUS
<1> USE DEF Expire, diskVars, clientVars, StandardsInv
<1>1. StandardsTypeOK' /\ StepsLeft'
  BY DEF StandardsTypeOK, StepsLeft
<1>2. RegisteredOK'
  BY DEF RegisteredOK, Worked, Prepared, Agreed
<1>3. ReferencesKnown' /\ AnswersCurrent'
  BY DEF ReferencesKnown, AnswersCurrent
<1> QED BY <1>1, <1>2, <1>3

(* The session tools leave all that the answers depend on.                 *)
LEMMA SessionStep ==
  ASSUME StandardsInv,
         UNCHANGED <<diskVars, pending, indexCache, loaded, given, reply, interrupted, changes>>
  PROVE  StandardsInv'
<1> USE DEF diskVars, StandardsInv
<1>1. StandardsTypeOK' /\ StepsLeft'
  BY DEF StandardsTypeOK, StepsLeft
<1>2. RegisteredOK'
  BY DEF RegisteredOK, Worked, Prepared, Agreed
<1>3. ReferencesKnown' /\ AnswersCurrent'
  BY DEF ReferencesKnown, AnswersCurrent
<1> QED BY <1>1, <1>2, <1>3

LEMMA HintsStep ==
  ASSUME StandardsInv, NEW c \in Client, NEW relevant \in SUBSET Standard, NEW budget \in Nat,
         HintsForFile(c, relevant, budget)
  PROVE  StandardsInv'
<1> DEFINE offered == {r \in Rule : StandardOf[r] \in IndexUsed[1] \cap metadata \cap relevant /\ hints[r] # 0}
           start == [tokens |-> 0, full |-> {}, references |-> {}, omitted |-> {}, loaded |-> loaded[c]]
           n == Cardinality(offered)
           due == {r \in Rule : StandardOf[r] \in manifest \cap relevant /\ hints[r] # 0}
           End(order) == FoldLeft(LAMBDA acc, r : Taken(acc, r, budget), start, order)
<1>0. StandardsTypeOK /\ loaded[c] \in SUBSET Rule /\ given[c] \in [Rule -> Nat]
  BY DEF StandardsInv, StandardsTypeOK
<1>1. n \in Nat /\ offered \in SUBSET Rule
  <2>1. IsFiniteSet(Rule)
    BY StandardsAssumption
  <2>2. offered \subseteq Rule
    OBVIOUS
  <2> HIDE DEF offered
  <2> QED BY <2>1, <2>2, FS_Subset, FS_CardinalityType
<1>2. PICK order \in SetToSeqs(offered) :
        /\ loaded' = [loaded EXCEPT ![c] = End(order).loaded]
        /\ reply' = [offered |-> offered, full |-> End(order).full, references |-> End(order).references,
                     omitted |-> End(order).omitted, fresh |-> c \in cleared, doubtful |-> interrupted,
                     due |-> due]
        /\ given' = [given EXCEPT ![c] = [r \in Rule |-> IF r \in End(order).full THEN hints[r] ELSE @[r]]]
  BY DEF HintsForFile
<1>3. /\ pending = <<>> /\ UNCHANGED <<metadata, hints, manifest, pending, interrupted, changes>>
      /\ indexCache' = IndexUsed /\ index' = IF indexCache = <<>> THEN IndexRead ELSE index
  BY DEF HintsForFile
<1>4. order \in [1..n -> offered]
  BY <1>2 DEF SetToSeqs
<1>5. start \in Answers(offered, loaded[c])
  BY <1>0 DEF Answers
<1> DEFINE end == End(order)
<1>6. end \in Answers(offered, loaded[c])
  <2> HIDE DEF start, offered
  <2> QED BY <1>1, <1>4, <1>5, TakenInTurn
<1>7. \A s \in Standard \ interrupted : Agreed(s)
  BY <1>3 DEF StandardsInv, RegisteredOK, Worked
<1>8. end.full \subseteq offered /\ end.loaded \subseteq Rule /\ end.loaded \subseteq loaded[c] \cup end.full
  <2> HIDE DEF end, offered
  <2> QED BY <1>6 DEF Answers
<1> HIDE DEF End
<1>9. StandardsTypeOK'
  <2>1. loaded' \in [Client -> SUBSET Rule]
    BY <1>0, <1>2, <1>8 DEF StandardsTypeOK
  <2>2. given' \in [Client -> [Rule -> Nat]]
    BY <1>0, <1>2 DEF StandardsTypeOK
  <2> QED BY <1>0, <1>3, <2>1, <2>2 DEF StandardsTypeOK
<1>10. StepsLeft'
  BY <1>3 DEF StandardsInv, StepsLeft
<1>11. RegisteredOK'
  <2>1. ASSUME NEW s \in Standard \ interrupted PROVE Agreed(s)'
    BY <1>3, <1>7 DEF Agreed, IndexUsed, IndexRead
  <2> QED BY <1>3, <2>1 DEF RegisteredOK, Worked
<1>12. ReferencesKnown'
  <2>1. ASSUME NEW d \in Client, NEW r \in loaded'[d] PROVE given'[d][r] # 0
    <3>1. CASE d # c
      BY <1>0, <1>2, <2>1, <3>1 DEF StandardsInv, StandardsTypeOK, ReferencesKnown
    <3>2. CASE d = c
      <4>1. r \in end.loaded /\ r \in Rule
        BY <1>0, <1>2, <1>8, <2>1, <3>2 DEF StandardsTypeOK
      <4>2. given'[c][r] = IF r \in end.full THEN hints[r] ELSE given[c][r]
        BY <1>0, <1>2, <4>1 DEF StandardsTypeOK
      <4>3. r \in end.full => hints[r] # 0
        BY <1>8
      <4>4. r \notin end.full => given[c][r] # 0
        BY <1>8, <4>1 DEF StandardsInv, ReferencesKnown
      <4> QED BY <3>2, <4>2, <4>3, <4>4
    <3> QED BY <3>1, <3>2
  <2> QED BY <2>1 DEF ReferencesKnown
<1>13. AnswersCurrent'
  <2>1. ASSUME NEW r \in Rule, StandardOf[r] \notin interrupted PROVE r \in offered <=> r \in due
    <3>1. Agreed(StandardOf[r])
      BY <1>7, <2>1, StandardsAssumption
    <3>2. StandardOf[r] \in IndexUsed[1] \cap metadata <=> StandardOf[r] \in manifest
      BY <3>1 DEF Agreed, IndexUsed, IndexRead
    <3> QED BY <3>2
  <2>2. reply'.offered = offered /\ reply'.due = due /\ reply'.doubtful = interrupted
    BY <1>2
  <2> HIDE DEF offered, due
  <2> QED BY <2>1, <2>2 DEF AnswersCurrent
<1> QED BY <1>9, <1>10, <1>11, <1>12, <1>13 DEF StandardsInv

LEMMA StandardsStepOK == StandardsInv /\ [StandardsNext]_standardVars => StandardsInv'
<1> SUFFICES ASSUME StandardsInv, [StandardsNext]_standardVars PROVE StandardsInv'
  OBVIOUS
<1>1. ASSUME NEW s \in Standard, Register(s) \/ Delete(s) PROVE StandardsInv'
  BY <1>1, RegisterStep
<1>2. ASSUME NEW s \in Standard, AddRule(s) \/ UpdateRule(s) PROVE StandardsInv'
  BY <1>2, LintedStep DEF AddRule, UpdateRule
<1>3. ASSUME NEW r \in Rule, AddHint(r) PROVE StandardsInv'
  BY <1>3, AddHintStep
<1>4. ASSUME NEW c \in Client, AnalyzeContext(c) PROVE StandardsInv'
  BY <1>4, SessionStep DEF AnalyzeContext
<1>5. ASSUME NEW who, ClearSession(who) PROVE StandardsInv'
  BY <1>5, SessionStep DEF ClearSession
<1>6. CASE CleanupStale
  BY <1>6, SessionStep DEF CleanupStale
<1>7. ASSUME NEW c \in Client, NEW relevant \in SUBSET Standard, NEW budget \in 0..MaxBudget,
             HintsForFile(c, relevant, budget)
      PROVE  StandardsInv'
  <2>1. budget \in Nat
    BY StandardsAssumption
  <2> QED BY <1>7, <2>1, HintsStep
<1>8. CASE UNCHANGED standardVars
  BY <1>8, SessionStep DEF standardVars, clientVars
<1> QED
  BY <1>1, <1>2, <1>3, <1>4, <1>5, <1>6, <1>7, <1>8, WriteStep, KillStep, ExpireStep
     DEF StandardsNext

(* Whatever tools were killed at whatever step, every session is offered   *)
(* the rules of the standards that are registered, save for those a killed *)
(* tool was working on, and each reference is to a rule it has been given. *)
THEOREM HintsAreRight == StandardsSpec => []HintsRight
<1>1. StandardsInv => HintsRight
  BY DEF StandardsInv, HintsRight
<1> QED BY StandardsInitOK, StandardsStepOK, <1>1, PTL DEF StandardsSpec

-----------------------------------------------------------------------------
(***************************************************************************)
(* The pages of lists                                                      *)
(***************************************************************************)

NoneTwiceIn(s) == \A i, j \in 1..Len(s) : s[i] = s[j] => i = j
Ascending(s) == \A i, j \in 1..Len(s) : i < j => sort_key[s[i]] < sort_key[s[j]]

(* Sorting keeps the items and puts them in the order of their keys: the   *)
(* numbers of items put before each are all different.                     *)
LEMMA SortedIs ==
  ASSUME sort_key \in [Item -> Nat], NEW s \in Seq(Item)
  PROVE  /\ Sorted(s) \in Seq(Item) /\ Len(Sorted(s)) = Len(s)
         /\ ToSet(Sorted(s)) = ToSet(s)
         /\ \A i, j \in 1..Len(s) : i < j => sort_key[Sorted(s)[i]] <= sort_key[Sorted(s)[j]]
         /\ NoneTwiceIn(s) => NoneTwiceIn(Sorted(s))
<1> DEFINE n == Len(s)
           B(i) == SortedBefore(s, i)
           r == [i \in 1..n |-> Cardinality(B(i)) + 1]
           at(k) == CHOOSE i \in 1..n : Cardinality(B(i)) = k - 1
<1>1. n \in Nat /\ DOMAIN s = 1..n /\ s \in [1..n -> Item]
  BY LenProperties
<1>2. \A i \in 1..n : s[i] \in Item /\ sort_key[s[i]] \in Nat
  BY <1>1
<1>3. \A i \in 1..n : B(i) = {j \in 1..n : \/ sort_key[s[j]] < sort_key[s[i]]
                                           \/ sort_key[s[j]] = sort_key[s[i]] /\ j < i}
  BY <1>1 DEF SortedBefore
<1>4. IsFiniteSet(1..n) /\ Cardinality(1..n) = n
  BY <1>1, FS_Interval
<1> HIDE DEF B, n
<1>5. ASSUME NEW i \in 1..n
      PROVE  B(i) \subseteq (1..n) \ {i} /\ IsFiniteSet(B(i)) /\ Cardinality(B(i)) \in 0..(n - 1)
  <2>1. B(i) \subseteq (1..n) \ {i}
    BY <1>1, <1>2, <1>3
  <2>2. IsFiniteSet((1..n) \ {i}) /\ Cardinality((1..n) \ {i}) = n - 1
    BY <1>4, FS_RemoveElement
  <2>3. IsFiniteSet(B(i)) /\ Cardinality(B(i)) <= n - 1
    BY <2>1, <2>2, FS_Subset
  <2>4. Cardinality(B(i)) \in Nat
    BY <2>3, FS_CardinalityType
  <2> QED BY <1>1, <2>1, <2>3, <2>4
<1>6. ASSUME NEW i \in 1..n, NEW j \in 1..n, j \in B(i)
      PROVE  Cardinality(B(j)) < Cardinality(B(i))
  <2>1. B(j) \subseteq B(i)
    BY <1>1, <1>2, <1>3, <1>6
  <2>2. j \notin B(j)
    BY <1>5
  <2>3. B(j) \subseteq B(i) \ {j} /\ IsFiniteSet(B(i) \ {j})
        /\ Cardinality(B(i) \ {j}) = Cardinality(B(i)) - 1
    BY <1>5, <1>6, <2>1, <2>2, FS_RemoveElement
  <2>4. Cardinality(B(j)) <= Cardinality(B(i)) - 1
    BY <2>3, FS_Subset
  <2> QED BY <2>4, <1>1, <1>5
<1>7. \A i, j \in 1..n : i # j => j \in B(i) \/ i \in B(j)
  BY <1>1, <1>2, <1>3
<1>8. ASSUME NEW i \in 1..n, NEW j \in 1..n, Cardinality(B(i)) = Cardinality(B(j)) PROVE i = j
  <2>1. Cardinality(B(i)) \in Nat /\ Cardinality(B(j)) \in Nat
    BY <1>5
  <2>2. j \notin B(i) /\ i \notin B(j)
    BY <1>6, <1>8, <2>1
  <2> QED BY <2>2, <1>7
<1>9. r \in [1..n -> 1..n]
  BY <1>1, <1>5
<1>10. r \in Injection(1..n, 1..n)
  <2>1. ASSUME NEW i \in 1..n, NEW j \in 1..n, r[i] = r[j] PROVE i = j
    <3>1. Cardinality(B(i)) \in Nat /\ Cardinality(B(j)) \in Nat
      BY <1>5
    <3>2. Cardinality(B(i)) = Cardinality(B(j))
      BY <2>1, <3>1
    <3> QED BY <3>2, <1>8
  <2> HIDE DEF r
  <2> QED BY <1>9, <2>1 DEF Injection, IsInjective
<1>11. r \in Surjection(1..n, 1..n)
  BY <1>4, <1>10, FS_Injection
<1>12. ASSUME NEW k \in 1..n PROVE at(k) \in 1..n /\ Cardinality(B(at(k))) = k - 1
  <2>1. PICK i \in 1..n : r[i] = k
    BY <1>11 DEF Surjection
  <2>2. Cardinality(B(i)) = k - 1
    BY <1>1, <1>5, <2>1
  <2> QED BY <2>2
<1> HIDE DEF r
<1>13. Sorted(s) = [k \in 1..n |-> s[at(k)]]
  BY <1>1 DEF Sorted, B
<1> HIDE DEF at
<1>14. Sorted(s) \in Seq(Item) /\ Len(Sorted(s)) = n
  <2>1. Sorted(s) \in [1..n -> Item]
    BY <1>2, <1>12, <1>13
  <2>2. Sorted(s) \in Seq(Item)
    BY <1>1, <2>1, SeqDef
  <2>3. DOMAIN Sorted(s) = 1..n /\ DOMAIN Sorted(s) = 1..Len(Sorted(s)) /\ Len(Sorted(s)) \in Nat
    BY <2>1, <2>2, LenProperties
  <2> QED BY <1>1, <2>2, <2>3
<1>15. ASSUME NEW i \in 1..n, NEW j \in 1..n, i < j
       PROVE  sort_key[Sorted(s)[i]] <= sort_key[Sorted(s)[j]]
  <2>0. /\ at(i) \in 1..n /\ Cardinality(B(at(i))) = i - 1
        /\ at(j) \in 1..n /\ Cardinality(B(at(j))) = j - 1
    BY <1>12
  <2>1. at(i) # at(j)
    BY <2>0, <1>1, <1>15
  <2>2. at(j) \notin B(at(i))
    <3>1. at(j) \in B(at(i)) => Cardinality(B(at(j))) < Cardinality(B(at(i)))
      BY <2>0, <1>6
    <3> QED BY <3>1, <2>0, <1>1, <1>15
  <2>3. at(i) \in B(at(j))
    BY <2>0, <2>1, <2>2, <1>7
  <2>4. sort_key[s[at(i)]] <= sort_key[s[at(j)]]
    <3>1. \/ sort_key[s[at(i)]] < sort_key[s[at(j)]]
          \/ sort_key[s[at(i)]] = sort_key[s[at(j)]] /\ at(i) < at(j)
      BY <2>0, <2>3, <1>3
    <3>2. sort_key[s[at(i)]] \in Nat /\ sort_key[s[at(j)]] \in Nat
      BY <2>0, <1>2
    <3> QED BY <3>1, <3>2
  <2> QED BY <2>4, <1>13
<1>16. \A i \in 1..n : Cardinality(B(i)) + 1 \in 1..n /\ at(Cardinality(B(i)) + 1) = i
  <2>1. ASSUME NEW i \in 1..n
        PROVE  Cardinality(B(i)) + 1 \in 1..n /\ at(Cardinality(B(i)) + 1) = i
    <3> DEFINE k == Cardinality(B(i)) + 1
    <3>1. k \in 1..n /\ k - 1 = Cardinality(B(i))
      BY <1>1, <1>5
    <3> HIDE DEF k
    <3>2. at(k) \in 1..n /\ Cardinality(B(at(k))) = Cardinality(B(i))
      BY <3>1, <1>12
    <3>3. at(k) = i
      BY <3>2, <1>8
    <3> QED BY <3>1, <3>3 DEF k
  <2> QED BY <2>1
<1>17. ToSet(Sorted(s)) = ToSet(s)
  <2>1. ToSet(s) = {s[i] : i \in 1..n} /\ ToSet(Sorted(s)) = {s[at(k)] : k \in 1..n}
    BY <1>1, <1>13 DEF ToSet
  <2> QED BY <2>1, <1>12, <1>16
<1>18. NoneTwiceIn(s) => NoneTwiceIn(Sorted(s))
  <2>1. ASSUME NoneTwiceIn(s), NEW i \in 1..n, NEW j \in 1..n, Sorted(s)[i] = Sorted(s)[j] PROVE i = j
    <3>1. /\ at(i) \in 1..n /\ Cardinality(B(at(i))) = i - 1
          /\ at(j) \in 1..n /\ Cardinality(B(at(j))) = j - 1
      BY <1>12
    <3>2. s[at(i)] = s[at(j)]
      BY <1>13, <2>1
    <3>3. at(i) = at(j)
      BY <2>1, <3>1, <3>2 DEF NoneTwiceIn, n
    <3> QED BY <3>1, <3>3, <1>1
  <2> QED BY <2>1, <1>14 DEF NoneTwiceIn
<1> QED BY <1>14, <1>15, <1>17, <1>18 DEF n

(* There is one way of putting items with different keys in order.         *)
LEMMA OneOrder ==
  ASSUME sort_key \in [Item -> Nat], NEW s \in Seq(Item), NEW t \in Seq(Item),
         Ascending(s), Ascending(t), ToSet(s) = ToSet(t)
  PROVE  s = t
<1> DEFINE n == Len(s)
           m == Len(t)
<1>1. /\ n \in Nat /\ DOMAIN s = 1..n /\ s \in [1..n -> Item]
      /\ m \in Nat /\ DOMAIN t = 1..m /\ t \in [1..m -> Item]
  BY LenProperties
<1>2. /\ \A i \in 1..n : s[i] \in Item /\ sort_key[s[i]] \in Nat
      /\ \A i \in 1..m : t[i] \in Item /\ sort_key[t[i]] \in Nat
  BY <1>1
<1>3. {s[i] : i \in 1..n} = {t[i] : i \in 1..m}
  BY <1>1 DEF ToSet
<1>4. /\ \A i, j \in 1..n : i < j => sort_key[s[i]] < sort_key[s[j]]
      /\ \A i, j \in 1..m : i < j => sort_key[t[i]] < sort_key[t[j]]
  BY DEF Ascending
<1> HIDE DEF n, m
<1> DEFINE C == {k \in Nat : \A i \in 1..k : i <= n /\ i <= m => s[i] = t[i]}
<1>5. ASSUME NEW k \in 1..n, k <= m, k - 1 \in C PROVE s[k] = t[k]
  <2>1. \A i \in 1..(k - 1) : s[i] = t[i] /\ i \in 1..n /\ i \in 1..m
    BY <1>1, <1>5
  <2>2. k \in 1..m
    BY <1>1, <1>5
  <2>3. PICK i \in 1..m : t[i] = s[k]
    BY <1>3
  <2>4. PICK j \in 1..n : s[j] = t[k]
    BY <1>3, <2>2
  <2>5. i >= k
    <3>1. SUFFICES ASSUME i < k PROVE FALSE
      BY <1>1
    <3>2. i \in 1..(k - 1) /\ i \in 1..n
      BY <1>1, <3>1, <2>1
    <3>3. sort_key[s[i]] < sort_key[s[k]] /\ s[i] = t[i]
      BY <3>1, <3>2, <1>4, <2>1
    <3> QED BY <3>3, <2>3, <1>2
  <2>6. j >= k
    <3>1. SUFFICES ASSUME j < k PROVE FALSE
      BY <1>1
    <3>2. j \in 1..(k - 1) /\ j \in 1..m
      BY <1>1, <3>1, <2>1
    <3>3. sort_key[t[j]] < sort_key[t[k]] /\ s[j] = t[j]
      BY <3>1, <3>2, <2>2, <1>4, <2>1
    <3> QED BY <3>3, <2>4, <2>2, <1>2
  <2>7. sort_key[t[k]] <= sort_key[s[k]]
    BY <2>2, <2>3, <2>5, <1>1, <1>2, <1>4
  <2>8. sort_key[s[k]] <= sort_key[t[k]]
    BY <2>4, <2>6, <1>1, <1>2, <1>4
  <2>9. i = k
    <3>1. SUFFICES ASSUME i > k PROVE FALSE
      BY <1>1, <2>5
    <3>2. sort_key[t[k]] < sort_key[t[i]]
      BY <3>1, <2>2, <1>4
    <3> QED BY <3>2, <2>3, <2>8, <2>2, <1>2
  <2> QED BY <2>3, <2>9
<1>6. \A k \in 0..n : k \in C
  <2>1. 0 \in C
    BY <1>1
  <2>2. ASSUME NEW k \in 1..n, k - 1 \in C PROVE k \in C
    <3>1. k <= m => s[k] = t[k]
      BY <1>5, <2>2
    <3>2. \A i \in 1..k : i \in 1..(k - 1) \/ i = k
      OBVIOUS
    <3> QED BY <3>1, <3>2, <2>2, <1>1
  <2> HIDE DEF C
  <2> QED BY <1>1, <2>1, <2>2, UpTo
<1>7. n \in C
  <2>1. n \in 0..n
    BY <1>1
  <2> QED BY <1>6, <2>1
<1>8. \A i \in 1..n : i <= m => s[i] = t[i]
  BY <1>7, <1>1
<1>9. n <= m
  <2>1. SUFFICES ASSUME m < n PROVE FALSE
    BY <1>1
  <2>2. m + 1 \in 1..n
    BY <1>1, <2>1
  <2>3. PICK i \in 1..m : t[i] = s[m + 1]
    BY <1>3, <2>2
  <2>4. i \in 1..n /\ i <= m /\ i < m + 1
    BY <1>1, <2>1
  <2>5. s[i] = t[i] /\ sort_key[s[i]] < sort_key[s[m + 1]]
    BY <2>2, <2>4, <1>4, <1>8
  <2> QED BY <2>3, <2>4, <2>5, <1>2
<1>10. m <= n
  <2>1. SUFFICES ASSUME n < m PROVE FALSE
    BY <1>1
  <2>2. n + 1 \in 1..m
    BY <1>1, <2>1
  <2>3. PICK i \in 1..n : s[i] = t[n + 1]
    BY <1>3, <2>2
  <2>4. i \in 1..m /\ i <= m /\ i < n + 1
    BY <1>1, <2>1
  <2>5. s[i] = t[i] /\ sort_key[t[i]] < sort_key[t[n + 1]]
    BY <2>2, <2>4, <1>4, <1>8
  <2> QED BY <2>3, <2>4, <2>5, <1>2
<1>11. n = m /\ \A i \in 1..n : s[i] = t[i]
  BY <1>1, <1>8, <1>9, <1>10
<1> QED BY <1>1, <1>11

(* The costs of the parts of a list, and of what follows them              *)
LEMMA CostIs ==
  ASSUME NEW s \in Seq(Item)
  PROVE  \E p \in [0..Len(s) -> Nat] :
           /\ p[0] = Overhead /\ p[Len(s)] = Cost(s)
           /\ \A i \in 1..Len(s) : p[i] = p[i - 1] + Tokens[s[i]]
<1> DEFINE n == Len(s)
           Acc == Nat
           Then(a, x) == a + Tokens[x]
           G == [i \in 1..n |-> [a \in Acc |-> Then(a, s[i])]]
           R(h) == h = [u \in SUBSET (1..n) |->
                          IF u = {} THEN Overhead ELSE Then(h[u \ {Max(u)}], s[Max(u)])]
           f == CHOOSE h : R(h)
<1>0. n \in Nat /\ DOMAIN s = 1..n
  BY LenProperties
<1>1. Cost(s) = f[1..n]
  <2> HIDE DEF n
  <2> QED BY <1>0 DEF Cost, FoldLeft, MapThenFoldSet
<1>2. G \in [1..n -> [Acc -> Acc]]
  <2>1. ASSUME NEW i \in 1..n, NEW a \in Acc PROVE Then(a, s[i]) \in Acc
    <3>1. s[i] \in Item
      BY ElementOfSeq
    <3> QED BY <3>1, ToolsAssumption
  <2> HIDE DEF Acc, n, Then
  <2> QED BY <2>1
<1>3. Overhead \in Acc
  BY ToolsAssumption
<1> HIDE DEF n, Then
<1>4. PICK g : Folds(n, Acc, G, Overhead, g)
  <2> HIDE DEF Acc, G
  <2> QED BY <1>0, <1>2, <1>3, FoldExists
<1> HIDE DEF Acc
<1>5. R(g)
  <2> DEFINE again == [u \in SUBSET (1..n) |->
                     IF u = {} THEN Overhead ELSE Then(g[u \ {Max(u)}], s[Max(u)])]
  <2>1. ASSUME NEW u \in SUBSET (1..n), u # {}
        PROVE  G[Max(u)][g[u \ {Max(u)}]] = Then(g[u \ {Max(u)}], s[Max(u)])
    <3>1. Max(u) \in 1..n
      BY <1>0, <2>1, Greatest
    <3>2. g[u \ {Max(u)}] \in Acc
      BY <1>4 DEF Folds
    <3> QED BY <3>1, <3>2
  <2>2. \A u \in SUBSET (1..n) : g[u] = again[u]
    <3> HIDE DEF G
    <3> QED BY <1>4, <2>1 DEF Folds
  <2>3. g = [u \in SUBSET (1..n) |-> g[u]]
    <3> HIDE DEF G
    <3> QED BY <1>4 DEF Folds
  <2>4. g = again
    BY <2>2, <2>3
  <2> QED BY <2>4
<1>6. R(f)
  BY <1>5
<1>7. \E p : Run(n, Acc, G, Overhead, p, f[1..n])
  <2>1. f[{}] = Overhead
    BY <1>6
  <2>2. ASSUME NEW u \in SUBSET (1..n), u # {}, f[u \ {Max(u)}] \in Acc
        PROVE  f[u] = G[Max(u)][f[u \ {Max(u)}]]
    <3>1. f[u] = Then(f[u \ {Max(u)}], s[Max(u)])
      BY <1>6, <2>2
    <3>2. Max(u) \in 1..n
      BY <1>0, <2>2, Greatest
    <3> HIDE DEF f
    <3> QED BY <3>1, <3>2, <2>2
  <2> HIDE DEF f, G
  <2> QED BY <1>0, <1>2, <1>3, <2>1, <2>2, FoldResult
<1> HIDE DEF f
<1>8. PICK p : Run(n, Acc, G, Overhead, p, f[1..n])
  BY <1>7
<1>9. p \in [0..n -> Acc] /\ p[0] = Overhead /\ p[n] = Cost(s)
  <2> HIDE DEF G
  <2> QED BY <1>1, <1>8 DEF Run
<1>10. ASSUME NEW i \in 1..n PROVE p[i] = Then(p[i - 1], s[i])
  <2>1. p[i] = G[i][p[i - 1]]
    <3> HIDE DEF G
    <3> QED BY <1>8 DEF Run
  <2>2. p[i - 1] \in Acc
    BY <1>0, <1>9
  <2> QED BY <2>1, <2>2
<1> QED BY <1>9, <1>10 DEF Acc, Then, n

LEMMA CostGrows ==
  ASSUME NEW s \in Seq(Item), NEW x \in Item
  PROVE  Cost(s) \in Nat /\ Cost(Append(s, x)) = Cost(s) + Tokens[x]
<1> DEFINE n == Len(s)
           t == Append(s, x)
<1>1. /\ n \in Nat /\ t \in Seq(Item) /\ Len(t) = n + 1
      /\ \A i \in 1..n : t[i] = s[i]
      /\ t[n + 1] = x
  BY LenProperties, AppendProperties
<1>2. PICK p \in [0..n -> Nat] :
           /\ p[0] = Overhead /\ p[n] = Cost(s)
           /\ \A i \in 1..n : p[i] = p[i - 1] + Tokens[s[i]]
  BY CostIs
<1> HIDE DEF t, n
<1>3. PICK q \in [0..(n + 1) -> Nat] :
           /\ q[0] = Overhead /\ q[n + 1] = Cost(t)
           /\ \A i \in 1..(n + 1) : q[i] = q[i - 1] + Tokens[t[i]]
  <2>1. \E q \in [0..Len(t) -> Nat] :
           /\ q[0] = Overhead /\ q[Len(t)] = Cost(t)
           /\ \A i \in 1..Len(t) : q[i] = q[i - 1] + Tokens[t[i]]
    BY <1>1, CostIs
  <2> QED BY <1>1, <2>1
<1> DEFINE C == {i \in 0..n : p[i] = q[i]}
<1>4. \A i \in 0..n : i \in C
  <2>1. 0 \in C
    BY <1>1, <1>2, <1>3
  <2>2. ASSUME NEW i \in 1..n, i - 1 \in C PROVE i \in C
    <3>1. i - 1 \in 0..n /\ p[i - 1] = q[i - 1] /\ i \in 0..n
      BY <1>1, <2>2
    <3>2. p[i] = p[i - 1] + Tokens[s[i]]
      BY <1>2
    <3>3. i \in 1..(n + 1) /\ t[i] = s[i]
      BY <1>1
    <3>4. q[i] = q[i - 1] + Tokens[t[i]]
      BY <1>3, <3>3
    <3> QED BY <3>1, <3>2, <3>3, <3>4
  <2> HIDE DEF C
  <2> QED BY <1>1, <2>1, <2>2, UpTo
<1>5. p[n] = q[n]
  BY <1>1, <1>4
<1>6. n + 1 \in 1..(n + 1) /\ (n + 1) - 1 = n /\ n \in 0..n
  BY <1>1
<1>7. q[n + 1] = q[n] + Tokens[x]
  BY <1>1, <1>3, <1>6
<1> QED BY <1>1, <1>2, <1>3, <1>5, <1>6, <1>7 DEF t, n

(* What the first m items cost after the first a                           *)
PartCost(s, a, m) == Cost(SubSeq(s, a + 1, m))

LEMMA PartIs ==
  ASSUME NEW s \in Seq(Item), NEW a \in 0..Len(s), NEW m \in 0..Len(s)
  PROVE  /\ SubSeq(s, a + 1, m) \in Seq(Item)
         /\ Len(SubSeq(s, a + 1, m)) = IF a < m THEN m - a ELSE 0
         /\ \A i \in 1..(m - a) : SubSeq(s, a + 1, m)[i] = s[a + i]
         /\ m < Len(s) /\ a <= m => SubSeq(s, a + 1, m + 1) = Append(SubSeq(s, a + 1, m), s[m + 1])
<1>1. Len(s) \in Nat /\ a + 1 \in Int /\ m \in Int /\ \A i \in (a + 1)..m : s[i] \in Item
  BY LenProperties, ElementOfSeq
<1>2. /\ SubSeq(s, a + 1, m) \in Seq(Item)
      /\ Len(SubSeq(s, a + 1, m)) = IF a + 1 <= m THEN m - (a + 1) + 1 ELSE 0
      /\ \A i \in 1..(m - (a + 1) + 1) : SubSeq(s, a + 1, m)[i] = s[a + 1 + i - 1]
  BY <1>1, SubSeqProperties
<1>3. ASSUME m < Len(s), a <= m
      PROVE  SubSeq(s, a + 1, m + 1) = Append(SubSeq(s, a + 1, m), s[m + 1])
  <2>1. a + 1 \in 1..Len(s) /\ m + 1 \in (a + 1)..Len(s) /\ (m + 1) - 1 = m
    BY <1>1, <1>3
  <2>2. SubSeq(s, a + 1, m + 1) = SubSeq(s, a + 1, m) \o <<s[m + 1]>>
    BY <2>1, SubSeqRecursiveSecond
  <2>3. s[m + 1] \in Item
    BY <2>1, <1>1, ElementOfSeq
  <2> QED BY <1>2, <2>2, <2>3, AppendIsConcat
<1>4. /\ Len(SubSeq(s, a + 1, m)) = IF a < m THEN m - a ELSE 0
      /\ \A i \in 1..(m - a) : SubSeq(s, a + 1, m)[i] = s[a + i]
  <2> DEFINE q == SubSeq(s, a + 1, m)
  <2>1. a \in Int /\ m - (a + 1) + 1 = m - a /\ (a + 1 <= m <=> a < m)
    BY <1>1
  <2>2. \A i \in 1..(m - a) : a + 1 + i - 1 = a + i
    BY <1>1
  <2> HIDE DEF q
  <2>3. Len(q) = (IF a < m THEN m - a ELSE 0) /\ \A i \in 1..(m - a) : q[i] = s[a + i]
    BY <2>1, <2>2, <1>2 DEF q
  <2> QED BY <2>3 DEF q
<1> QED BY <1>2, <1>3, <1>4

LEMMA PartsGrow ==
  ASSUME NEW s \in Seq(Item), NEW a \in 0..Len(s)
  PROVE  /\ \A m \in 0..Len(s) : PartCost(s, a, m) \in Nat
         /\ \A l, m \in 0..Len(s) : l <= m => PartCost(s, a, l) <= PartCost(s, a, m)
<1> DEFINE n == Len(s)
           c(m) == PartCost(s, a, m)
<1>1. n \in Nat /\ a \in Nat
  BY LenProperties
<1>2. ASSUME NEW m \in 0..n PROVE c(m) \in Nat
  <2>1. SubSeq(s, a + 1, m) \in Seq(Item)
    BY PartIs
  <2>2. PICK p \in [0..Len(SubSeq(s, a + 1, m)) -> Nat] :
          p[Len(SubSeq(s, a + 1, m))] = Cost(SubSeq(s, a + 1, m))
    BY <2>1, CostIs
  <2>3. Len(SubSeq(s, a + 1, m)) \in Nat
    BY <2>1, LenProperties
  <2> QED BY <2>2, <2>3 DEF PartCost
<1>3. ASSUME NEW m \in 0..n, m < n PROVE c(m) <= c(m + 1)
  <2>1. CASE a <= m
    <3>1. s[m + 1] \in Item
      BY <1>1, <1>3, ElementOfSeq
    <3>2. SubSeq(s, a + 1, m) \in Seq(Item)
          /\ SubSeq(s, a + 1, m + 1) = Append(SubSeq(s, a + 1, m), s[m + 1])
      BY <2>1, <1>3, PartIs
    <3>3. c(m + 1) = c(m) + Tokens[s[m + 1]]
      BY <3>1, <3>2, CostGrows DEF PartCost
    <3>4. c(m) \in Nat /\ Tokens[s[m + 1]] \in Nat
      BY <3>1, <1>2, ToolsAssumption
    <3> HIDE DEF c
    <3> QED BY <3>3, <3>4
  <2>2. CASE m < a
    <3>1. SubSeq(s, a + 1, m) = <<>> /\ SubSeq(s, a + 1, m + 1) = <<>>
      <4>1. a + 1 \in Int /\ m \in Int /\ m + 1 \in Int /\ m < a + 1 /\ m + 1 < a + 1
        BY <1>1, <2>2
      <4> QED BY <4>1, SubSeqEmpty
    <3>2. c(m) = c(m + 1) /\ c(m) \in Nat
      BY <3>1, <1>2 DEF PartCost
    <3> HIDE DEF c
    <3> QED BY <3>2
  <2> QED BY <2>1, <2>2, <1>1
<1> HIDE DEF c, n
<1> DEFINE D == {m \in 0..n : \A l \in 0..m : c(l) <= c(m)}
<1>4. \A m \in 0..n : m \in D
  <2>1. 0 \in D
    BY <1>1, <1>2
  <2>2. ASSUME NEW m \in 1..n, m - 1 \in D PROVE m \in D
    <3>1. m - 1 \in 0..n /\ m - 1 < n /\ (m - 1) + 1 = m
      BY <1>1
    <3>2. c(m - 1) <= c(m)
      BY <1>3, <3>1
    <3>3. ASSUME NEW l \in 0..m PROVE c(l) <= c(m)
      <4>1. CASE l = m
        BY <4>1, <1>2, <1>1
      <4>2. CASE l # m
        <5>1. l \in 0..(m - 1) /\ l \in 0..n
          BY <4>2, <1>1
        <5>2. c(l) <= c(m - 1)
          BY <5>1, <2>2
        <5> QED BY <5>1, <5>2, <3>1, <3>2, <1>2
      <4> QED BY <4>1, <4>2
    <3> QED BY <3>3
  <2> HIDE DEF D
  <2> QED BY <1>1, <2>1, <2>2, UpTo
<1>5. \A l, m \in 0..n : l <= m => c(l) <= c(m)
  BY <1>1, <1>4
<1> QED BY <1>2, <1>5 DEF c, n

(* The binary search finds the last position the page may have: the costs  *)
(* of the pages that start there grow with their end.                      *)
LEMMA OptimalEndIs ==
  ASSUME NEW s \in Seq(Item), NEW a \in 0..Len(s), a < Len(s)
  PROVE  /\ OptimalEnd(s, a) \in (a + 1)..Len(s)
         /\ OptimalEnd(s, a) > a + 1 => PartCost(s, a, OptimalEnd(s, a)) <= MaxTokens
         /\ \A m \in (OptimalEnd(s, a) + 1)..Len(s) : PartCost(s, a, m) > MaxTokens
<1> DEFINE n == Len(s)
           N == 0..n
           Fits(m) == PartCost(s, a, m) <= MaxTokens
           Half(l, h) == (l + h + 1) \div 2
           R(f) == f = [b \in N \X N |->
                          IF b[1] >= b[2] THEN b[1]
                          ELSE IF Fits(Half(b[1], b[2])) THEN f[<<Half(b[1], b[2]), b[2]>>]
                               ELSE f[<<b[1], Half(b[1], b[2]) - 1>>]]
           Halving == CHOOSE f : R(f)
           IsBest(l, h, v) ==
             /\ v \in l..h
             /\ v > l => Fits(v)
             /\ \A m \in (v + 1)..h : ~Fits(m)
           Best(l, h) == IF l >= h THEN l ELSE CHOOSE v \in N : IsBest(l, h, v)
           F == [b \in N \X N |-> Best(b[1], b[2])]
<1>1. n \in Nat /\ a \in Nat /\ MaxTokens \in Nat
  BY LenProperties, ToolsAssumption
<1>2. OptimalEnd(s, a) = Max({Halving[<<Min({a + 1, n}), n>>], a + 1})
  BY DEF OptimalEnd, PartCost
<1>3. \A l, h \in N : l < h => /\ Half(l, h) \in (l + 1)..h /\ Half(l, h) - 1 \in l..(h - 1)
                               /\ Half(l, h) \in N /\ Half(l, h) - 1 \in N
  BY <1>1
<1>4. \A l, m \in N : l <= m /\ Fits(m) => Fits(l)
  <2>1. \A l, m \in N : l <= m => /\ PartCost(s, a, l) \in Nat /\ PartCost(s, a, m) \in Nat
                                  /\ PartCost(s, a, l) <= PartCost(s, a, m)
    BY PartsGrow
  <2> QED BY <2>1, <1>1
<1> HIDE DEF Fits, Half, n
<1>5. ASSUME NEW l \in N, NEW h \in N, l < h
      PROVE  \E v \in N : IsBest(l, h, v)
  <2> DEFINE S == {m \in 1..h : l < m /\ Fits(m)}
  <2>1. CASE S = {}
    <3>1. IsBest(l, h, l)
      BY <2>1, <1>1, <1>5
    <3> QED BY <3>1
  <2>2. CASE S # {}
    <3>1. h \in Nat /\ S \in SUBSET (1..h)
      BY <1>1
    <3>2. Max(S) \in S /\ \A m \in S : m <= Max(S)
      BY <2>2, <3>1, Greatest
    <3>3. IsBest(l, h, Max(S))
      <4> DEFINE v == Max(S)
      <4>1. v \in 1..h /\ l < v /\ Fits(v)
        BY <3>2
      <4>2. ASSUME NEW m \in (v + 1)..h, Fits(m) PROVE FALSE
        <5>1. m \in 1..h /\ l < m /\ ~(m <= v)
          BY <4>1, <4>2, <1>1
        <5>2. m \in S
          BY <5>1, <4>2
        <5> QED BY <5>1, <5>2, <3>2
      <4> HIDE DEF v
      <4>3. IsBest(l, h, v)
        BY <4>1, <4>2, <1>1
      <4> QED BY <4>3 DEF v
    <3>4. Max(S) \in N
      BY <3>2, <1>1
    <3> QED BY <3>3, <3>4
  <2> QED BY <2>1, <2>2
<1>6. ASSUME NEW l \in N, NEW h \in N, NEW v \in N, NEW w \in N, IsBest(l, h, v), IsBest(l, h, w)
      PROVE  v = w
  <2>1. ~(v < w)
    <3>1. v < w => w \in (v + 1)..h /\ w > l
      BY <1>1, <1>6
    <3> QED BY <3>1, <1>6
  <2>2. ~(w < v)
    <3>1. w < v => v \in (w + 1)..h /\ v > l
      BY <1>1, <1>6
    <3> QED BY <3>1, <1>6
  <2> QED BY <2>1, <2>2, <1>1
<1>7. ASSUME NEW l \in N, NEW h \in N, l < h, NEW v \in N, IsBest(l, h, v)
      PROVE  IF Fits(Half(l, h)) THEN IsBest(Half(l, h), h, v) ELSE IsBest(l, Half(l, h) - 1, v)
  <2>1. Half(l, h) \in (l + 1)..h /\ Half(l, h) \in N
    BY <1>3, <1>7
  <2>2. CASE Fits(Half(l, h))
    <3>1. v >= Half(l, h)
      <4>1. v < Half(l, h) => Half(l, h) \in (v + 1)..h
        BY <2>1, <1>1, <1>7
      <4> QED BY <4>1, <2>1, <2>2, <1>1, <1>7
    <3> QED BY <3>1, <2>1, <2>2, <1>1, <1>7
  <2>3. CASE ~Fits(Half(l, h))
    <3>1. v < Half(l, h)
      <4>1. v >= Half(l, h) => v > l
        BY <2>1, <1>1, <1>7
      <4> QED BY <4>1, <2>1, <2>3, <1>1, <1>4, <1>7
    <3>2. v \in l..(Half(l, h) - 1)
      BY <3>1, <2>1, <1>1, <1>7
    <3>3. \A m \in (v + 1)..(Half(l, h) - 1) : m \in (v + 1)..h
      BY <2>1, <1>1, <1>7
    <3> QED BY <3>2, <3>3, <2>3, <1>7
  <2> QED BY <2>2, <2>3
<1> HIDE DEF IsBest
<1>8. \A l, h \in N : l < h => Best(l, h) \in N /\ IsBest(l, h, Best(l, h))
  <2>1. ASSUME NEW l \in N, NEW h \in N, l < h PROVE Best(l, h) \in N /\ IsBest(l, h, Best(l, h))
    <3>1. \E v \in N : IsBest(l, h, v)
      BY <1>5, <2>1
    <3>2. ~(l >= h)
      BY <2>1, <1>1
    <3> QED BY <3>1, <3>2
  <2> QED BY <2>1
<1>9. \A l, h \in N : l >= h => Best(l, h) = l
  OBVIOUS
<1>10. \A l \in N : \A v : IsBest(l, l, v) => v = l
  BY <1>1 DEF IsBest
<1> HIDE DEF Best
<1>11. ASSUME NEW l \in N, NEW h \in N
       PROVE  Best(l, h) = IF l >= h THEN l
                           ELSE IF Fits(Half(l, h)) THEN Best(Half(l, h), h)
                                ELSE Best(l, Half(l, h) - 1)
  <2>1. CASE l >= h
    BY <2>1, <1>9
  <2>2. CASE l < h /\ Fits(Half(l, h))
    <3>1. Half(l, h) \in N /\ Half(l, h) <= h
      BY <1>3, <2>2, <1>1
    <3>2. Best(l, h) \in N /\ IsBest(Half(l, h), h, Best(l, h))
      BY <1>7, <1>8, <2>2
    <3>3. CASE Half(l, h) < h
      BY <3>1, <3>2, <3>3, <2>2, <1>1, <1>6, <1>8
    <3>4. CASE Half(l, h) = h
      BY <3>1, <3>2, <3>4, <2>2, <1>1, <1>9, <1>10
    <3> QED BY <3>1, <3>3, <3>4, <1>1
  <2>3. CASE l < h /\ ~Fits(Half(l, h))
    <3>1. Half(l, h) - 1 \in N /\ l <= Half(l, h) - 1
      BY <1>3, <2>3, <1>1
    <3>2. Best(l, h) \in N /\ IsBest(l, Half(l, h) - 1, Best(l, h))
      BY <1>7, <1>8, <2>3
    <3>3. CASE l < Half(l, h) - 1
      BY <3>1, <3>2, <3>3, <2>3, <1>1, <1>6, <1>8
    <3>4. CASE l = Half(l, h) - 1
      BY <3>1, <3>2, <3>4, <2>3, <1>1, <1>9, <1>10
    <3> QED BY <3>1, <3>3, <3>4, <1>1
  <2> QED BY <2>1, <2>2, <2>3, <1>1
<1>12. R(F)
  <2>1. \A l, h \in N : F[<<l, h>>] = Best(l, h)
    <3>1. ASSUME NEW l \in N, NEW h \in N PROVE F[<<l, h>>] = Best(l, h)
      <4>1. <<l, h>> \in N \X N /\ <<l, h>>[1] = l /\ <<l, h>>[2] = h
        OBVIOUS
      <4> QED BY <4>1
    <3> QED BY <3>1
  <2>2. ASSUME NEW l \in N, NEW h \in N
        PROVE  Best(l, h) = IF l >= h THEN l
                            ELSE IF Fits(Half(l, h)) THEN F[<<Half(l, h), h>>]
                                 ELSE F[<<l, Half(l, h) - 1>>]
    <3>1. l < h => Half(l, h) \in N /\ Half(l, h) - 1 \in N
      BY <1>3
    <3>2. l >= h \/ l < h
      BY <1>1
    <3> HIDE DEF F
    <3> QED BY <2>1, <3>1, <3>2, <1>11
  <2>3. ASSUME NEW b \in N \X N
        PROVE  Best(b[1], b[2]) = IF b[1] >= b[2] THEN b[1]
                          ELSE IF Fits(Half(b[1], b[2])) THEN F[<<Half(b[1], b[2]), b[2]>>]
                               ELSE F[<<b[1], Half(b[1], b[2]) - 1>>]
    <3>1. b[1] \in N /\ b[2] \in N
      OBVIOUS
    <3> HIDE DEF F
    <3> QED BY <3>1, <2>2
  <2>4. F = [b \in N \X N |->
                          IF b[1] >= b[2] THEN b[1]
                          ELSE IF Fits(Half(b[1], b[2])) THEN F[<<Half(b[1], b[2]), b[2]>>]
                               ELSE F[<<b[1], Half(b[1], b[2]) - 1>>]]
    <3> DEFINE E == [b \in N \X N |->
                          IF b[1] >= b[2] THEN b[1]
                          ELSE IF Fits(Half(b[1], b[2])) THEN F[<<Half(b[1], b[2]), b[2]>>]
                               ELSE F[<<b[1], Half(b[1], b[2]) - 1>>]]
    <3>1. F = [b \in N \X N |-> F[b]] /\ \A b \in N \X N : F[b] = Best(b[1], b[2])
      OBVIOUS
    <3>2. \A b \in N \X N : E[b] = Best(b[1], b[2])
      <4> HIDE DEF F
      <4> QED BY <2>3
    <3>3. E = [b \in N \X N |-> E[b]]
      <4> HIDE DEF F
      <4> QED OBVIOUS
    <3> HIDE DEF F, E
    <3>4. F = E
      BY <3>1, <3>2, <3>3
    <3> QED BY <3>4 DEF E
  <2> HIDE DEF F
  <2> QED BY <2>4
<1>13. R(Halving)
  <2> HIDE DEF F
  <2> QED BY <1>12
<1>14. \A l, h \in N : Halving[<<l, h>>] = IF l >= h THEN l
                          ELSE IF Fits(Half(l, h)) THEN Halving[<<Half(l, h), h>>]
                               ELSE Halving[<<l, Half(l, h) - 1>>]
  <2> HIDE DEF Halving
  <2>1. ASSUME NEW l \in N, NEW h \in N
        PROVE  Halving[<<l, h>>] = IF l >= h THEN l
                          ELSE IF Fits(Half(l, h)) THEN Halving[<<Half(l, h), h>>]
                               ELSE Halving[<<l, Half(l, h) - 1>>]
    <3>1. <<l, h>> \in N \X N /\ <<l, h>>[1] = l /\ <<l, h>>[2] = h
      OBVIOUS
    <3> QED BY <1>13, <3>1
  <2> QED BY <2>1
<1> HIDE DEF Halving, F
<1> DEFINE C == {d \in 0..n : \A l, h \in N : h - l <= d => Halving[<<l, h>>] = Best(l, h)}
<1>15. \A d \in 0..n : d \in C
  <2>1. 0 \in C
    <3>1. ASSUME NEW l \in N, NEW h \in N, h - l <= 0 PROVE Halving[<<l, h>>] = Best(l, h)
      <4>1. l >= h
        BY <1>1, <3>1
      <4> QED BY <4>1, <1>9, <1>14
    <3> QED BY <3>1, <1>1
  <2>2. ASSUME NEW d \in 1..n, d - 1 \in C PROVE d \in C
    <3>1. ASSUME NEW l \in N, NEW h \in N, h - l <= d PROVE Halving[<<l, h>>] = Best(l, h)
      <4>1. CASE l >= h
        BY <4>1, <1>9, <1>14
      <4>2. CASE l < h
        <5>1. /\ Half(l, h) \in N /\ Half(l, h) - 1 \in N
              /\ h - Half(l, h) <= d - 1 /\ (Half(l, h) - 1) - l <= d - 1
          <6>1. Half(l, h) \in (l + 1)..h /\ Half(l, h) - 1 \in l..(h - 1)
                /\ Half(l, h) \in N /\ Half(l, h) - 1 \in N
            BY <1>3, <4>2
          <6> QED BY <6>1, <3>1, <1>1
        <5>2. /\ Halving[<<Half(l, h), h>>] = Best(Half(l, h), h)
              /\ Halving[<<l, Half(l, h) - 1>>] = Best(l, Half(l, h) - 1)
          BY <5>1, <2>2
        <5>3. ~(l >= h)
          BY <4>2, <1>1
        <5> QED BY <5>2, <5>3, <1>11, <1>14
      <4> QED BY <4>1, <4>2, <1>1
    <3> QED BY <3>1
  <2> HIDE DEF C
  <2> QED BY <1>1, <2>1, <2>2, UpTo
<1>16. \A l, h \in N : Halving[<<l, h>>] = Best(l, h)
  <2>1. ASSUME NEW l \in N, NEW h \in N PROVE Halving[<<l, h>>] = Best(l, h)
    <3>1. n \in C /\ h - l <= n
      BY <1>1, <1>15
    <3> QED BY <3>1
  <2> QED BY <2>1
<1>17. Min({a + 1, n}) = a + 1 /\ a + 1 \in N /\ n \in N
  <2>1. a + 1 <= n
    BY <1>1 DEF n
  <2> QED BY <2>1, <1>1 DEF Min
<1> DEFINE v == Best(a + 1, n)
<1>18. v \in (a + 1)..n /\ (v > a + 1 => Fits(v)) /\ \A m \in (v + 1)..n : ~Fits(m)
  <2>1. CASE a + 1 >= n
    BY <2>1, <1>1, <1>9, <1>17
  <2>2. CASE a + 1 < n
    BY <2>2, <1>8, <1>17 DEF IsBest
  <2> QED BY <2>1, <2>2, <1>1
<1> HIDE DEF v
<1>19. Max({v, a + 1}) = v
  <2>1. v >= a + 1 /\ v \in Int /\ a + 1 \in Int
    BY <1>1, <1>18
  <2> QED BY <2>1 DEF Max
<1>20. OptimalEnd(s, a) = v
  BY <1>2, <1>16, <1>17, <1>19 DEF v
<1>21. \A m \in N : PartCost(s, a, m) \in Nat
  BY PartsGrow DEF n
<1> QED BY <1>1, <1>18, <1>20, <1>21 DEF n, Fits

(* The answer a is the page of s from one position up to another; it       *)
(* follows the item of the cursor c, if there is one, and unless it is the *)
(* last page, it is as long as it may be.                                  *)
PageFrom(s, c, from, to, a) ==
  /\ from <= to
  /\ a = [items |-> SubSeq(s, from + 1, to), more |-> to < Len(s), failed |-> FALSE]
  /\ from > 0 => sort_key[s[from]] = c
  /\ to < Len(s) => /\ FewItems < Len(s)
                    /\ from < to
                    /\ to > from + 1 => PartCost(s, from, to) <= MaxTokens
                    /\ PartCost(s, from, to + 1) > MaxTokens
  /\ FewItems < Len(s) /\ Ascending(s) => \A j \in 1..Len(s) : sort_key[s[j]] = c => from = j

LEMMA PositionIs ==
  ASSUME sort_key \in [Item -> Nat], NEW s \in Seq(Item), NEW c
  PROVE  /\ Position(s, c) \in 0..Len(s)
         /\ Position(s, c) > 0 => sort_key[s[Position(s, c)]] = c
         /\ (\E j \in 1..Len(s) : sort_key[s[j]] = c) => Position(s, c) > 0
<1> DEFINE S == {i \in 1..Len(s) : sort_key[s[i]] = c}
<1>1. Len(s) \in Nat /\ DOMAIN s = 1..Len(s)
  BY LenProperties
<1>2. CASE S = {}
  BY <1>1, <1>2 DEF Position
<1>3. CASE S # {}
  <2>1. S \subseteq Nat
    BY <1>1
  <2>2. PICK n \in S : \A m \in S : n <= m
    BY <1>3, <2>1, Least
  <2>3. Min(S) \in S
    BY <2>2 DEF Min
  <2>4. Position(s, c) = Min(S)
    BY <1>1, <1>3 DEF Position
  <2> QED BY <2>3, <2>4, <1>1
<1> QED BY <1>2, <1>3

LEMMA SimplifiedIs ==
  ASSUME sort_key \in [Item -> Nat], NEW items \in Seq(Item), NEW c
  PROVE  \E from, to \in 0..Len(Sorted(items)) :
           PageFrom(Sorted(items), c, from, to, Simplified(items, c))
<1> DEFINE s == Sorted(items)
           n == Len(s)
           start == Position(s, c)
           end == OptimalEnd(s, start)
           a == Simplified(items, c)
<1>1. s \in Seq(Item) /\ n = Len(items) /\ n \in Nat
  BY SortedIs, LenProperties
<1>2. /\ start \in 0..n
      /\ start > 0 => sort_key[s[start]] = c
      /\ (\E j \in 1..n : sort_key[s[j]] = c) => start > 0
  BY <1>1, PositionIs
<1>3. FewItems \in Nat /\ MaxTokens \in Nat
  BY ToolsAssumption
<1>4. ASSUME Ascending(s), NEW i \in 1..n, NEW j \in 1..n, sort_key[s[i]] = sort_key[s[j]]
      PROVE  i = j
  <2>1. sort_key[s[i]] \in Nat /\ sort_key[s[j]] \in Nat
    BY <1>1, ElementOfSeq
  <2>2. ~(i < j) /\ ~(j < i)
    BY <2>1, <1>4 DEF Ascending
  <2> QED BY <2>2, <1>1
<1>5. CASE n <= FewItems
  <2>1. a = [items |-> s, more |-> FALSE, failed |-> FALSE]
    BY <1>1, <1>5 DEF Simplified
  <2>2. SubSeq(s, 0 + 1, n) = s
    BY <1>1, SubSeqFull
  <2> HIDE DEF s, a
  <2>3. PageFrom(s, c, 0, n, a)
    <3>1. 0 <= n /\ ~(0 > 0) /\ ~(n < n) /\ (n < n) = FALSE /\ ~(FewItems < n)
      BY <1>1, <1>3, <1>5
    <3>2. a = [items |-> SubSeq(s, 0 + 1, n), more |-> n < n, failed |-> FALSE]
      BY <2>1, <2>2, <3>1, Zenon
    <3> QED BY <3>1, <3>2 DEF PageFrom
  <2>4. 0 \in 0..n /\ n \in 0..n
    BY <1>1
  <2> HIDE DEF n
  <2>5. \E from, to \in 0..n : PageFrom(s, c, from, to, a)
    BY <2>3, <2>4
  <2> QED BY <2>5 DEF s, a, n
<1>6. CASE FewItems < n /\ start = n
  <2>1. a = [items |-> <<>>, more |-> FALSE, failed |-> FALSE]
    BY <1>1, <1>3, <1>6 DEF Simplified, Paginate
  <2>2. SubSeq(s, n + 1, n) = <<>>
    BY <1>1, SubSeqEmpty
  <2>3. \A j \in 1..n : Ascending(s) /\ sort_key[s[j]] = c => n = j
    BY <1>1, <1>2, <1>3, <1>4, <1>6
  <2> HIDE DEF s, a, start
  <2>4. PageFrom(s, c, n, n, a)
    <3>1. n <= n /\ ~(n < n) /\ (n < n) = FALSE
      BY <1>1
    <3>2. a = [items |-> SubSeq(s, n + 1, n), more |-> n < n, failed |-> FALSE]
      BY <2>1, <2>2, <3>1, Zenon
    <3>3. n > 0 => sort_key[s[n]] = c
      BY <1>2, <1>6
    <3> QED BY <2>3, <3>1, <3>2, <3>3 DEF PageFrom
  <2>5. n \in 0..n
    BY <1>1
  <2> HIDE DEF n
  <2>6. \E from, to \in 0..n : PageFrom(s, c, from, to, a)
    BY <2>4, <2>5
  <2> QED BY <2>6 DEF s, a, n
<1>7. CASE FewItems < n /\ start < n
  <2>1. items # <<>> /\ ~(start >= n)
    BY <1>1, <1>2, <1>3, <1>7, EmptySeq
  <2>2. a = [items |-> SubSeq(s, start + 1, end), more |-> end < n, failed |-> FALSE]
    <3>1. ~(Len(items) <= FewItems)
      BY <1>1, <1>3, <1>7
    <3>2. a = Paginate(items, c)
      BY <3>1 DEF Simplified
    <3> QED BY <3>2, <2>1, <1>1 DEF Paginate
  <2>3. \A j \in 1..n : Ascending(s) /\ sort_key[s[j]] = c => start = j
    <3>1. ASSUME NEW j \in 1..n, Ascending(s), sort_key[s[j]] = c PROVE start = j
      <4>1. start \in 1..n /\ sort_key[s[start]] = c
        BY <1>1, <1>2, <3>1
      <4> QED BY <4>1, <3>1, <1>4
    <3> QED BY <3>1
  <2> HIDE DEF start, a, s
  <2>4. /\ end \in (start + 1)..n
        /\ end > start + 1 => PartCost(s, start, end) <= MaxTokens
        /\ \A m \in (end + 1)..n : PartCost(s, start, m) > MaxTokens
    BY <1>1, <1>2, <1>7, OptimalEndIs
  <2> HIDE DEF end
  <2>5. PageFrom(s, c, start, end, a)
    <3>1. end < n => end + 1 \in (end + 1)..n
      BY <2>4, <1>1, <1>2
    <3>2. start <= end /\ start < end
      BY <2>4, <1>1, <1>2
    <3> QED BY <3>1, <3>2, <2>2, <2>3, <2>4, <1>2, <1>7 DEF PageFrom
  <2>6. start \in 0..n /\ end \in 0..n
    BY <2>4, <1>1, <1>2
  <2> HIDE DEF n
  <2>7. \E from, to \in 0..n : PageFrom(s, c, from, to, a)
    BY <2>5, <2>6
  <2> QED BY <2>7 DEF s, a, n
<1> QED BY <1>1, <1>2, <1>3, <1>5, <1>6, <1>7

LEMMA SetToSeqIs ==
  ASSUME NEW S \in SUBSET Item
  PROVE  SetToSeq(S) \in Seq(Item) /\ NoneTwiceIn(SetToSeq(S)) /\ ToSet(SetToSeq(S)) = S
<1> DEFINE n == Cardinality(S)
           q == SetToSeq(S)
<1>1. IsFiniteSet(S) /\ n \in Nat
  BY ToolsAssumption, FS_Subset, FS_CardinalityType
<1>2. ExistsBijection(1..n, S)
  BY <1>1, FS_CardinalityType
<1>3. PICK f \in [1..n -> S] : IsInjective(f)
  BY <1>2 DEF ExistsBijection, Bijection, Injection
<1>4. q \in [1..n -> S] /\ IsInjective(q)
  BY <1>3 DEF SetToSeq
<1> HIDE DEF q, n
<1>5. q \in Seq(S)
  BY <1>1, <1>4, SeqDef
<1>6. DOMAIN q = 1..n /\ DOMAIN q = 1..Len(q) /\ Len(q) \in Nat
  BY <1>4, <1>5, LenProperties
<1>7. Len(q) = n
  BY <1>1, <1>6
<1>8. q \in Injection(1..n, S)
  BY <1>4 DEF Injection
<1>9. IsFiniteSet(1..n) /\ Cardinality(1..n) = n
  BY <1>1, FS_Interval
<1>10. q \in Surjection(1..n, S)
  BY <1>1, <1>8, <1>9, FS_Injection DEF n
<1>11. ToSet(q) = S
  BY <1>6, <1>10 DEF ToSet, Surjection
<1>12. NoneTwiceIn(q)
  BY <1>4, <1>6, <1>7 DEF NoneTwiceIn, IsInjective
<1>13. q \in Seq(Item)
  BY <1>5, SeqMonotonic
<1> QED BY <1>11, <1>12, <1>13 DEF q

LEMMA SortedAscends ==
  ASSUME sort_key \in [Item -> Nat], KeysDiffer, NEW s \in Seq(Item), NoneTwiceIn(s)
  PROVE  Ascending(Sorted(s)) /\ Sorted(Sorted(s)) = Sorted(s)
<1>1. ASSUME NEW q \in Seq(Item), NoneTwiceIn(q) PROVE Ascending(Sorted(q)) /\ NoneTwiceIn(Sorted(q))
  <2> DEFINE t == Sorted(q)
  <2>1. /\ t \in Seq(Item) /\ Len(t) = Len(q) /\ Len(q) \in Nat
        /\ \A i, j \in 1..Len(q) : i < j => sort_key[t[i]] <= sort_key[t[j]]
        /\ NoneTwiceIn(t)
    BY <1>1, SortedIs, LenProperties
  <2>2. ASSUME NEW i \in 1..Len(t), NEW j \in 1..Len(t), i < j PROVE sort_key[t[i]] < sort_key[t[j]]
    <3>1. t[i] \in Item /\ t[j] \in Item
      BY <2>1, ElementOfSeq
    <3>2. t[i] # t[j]
      BY <2>1, <2>2 DEF NoneTwiceIn
    <3>3. sort_key[t[i]] # sort_key[t[j]] /\ sort_key[t[i]] \in Nat /\ sort_key[t[j]] \in Nat
      BY <3>1, <3>2 DEF KeysDiffer
    <3>4. sort_key[t[i]] <= sort_key[t[j]]
      BY <2>1, <2>2
    <3> QED BY <3>3, <3>4
  <2> QED BY <2>1, <2>2 DEF Ascending
<1>2. Sorted(s) \in Seq(Item) /\ Ascending(Sorted(s)) /\ NoneTwiceIn(Sorted(s))
  BY <1>1, SortedIs
<1>3. /\ Sorted(Sorted(s)) \in Seq(Item) /\ Ascending(Sorted(Sorted(s)))
      /\ ToSet(Sorted(Sorted(s))) = ToSet(Sorted(s))
  BY <1>1, <1>2, SortedIs
<1>4. Sorted(Sorted(s)) = Sorted(s)
  BY <1>2, <1>3, OneOrder
<1> QED BY <1>2, <1>4

ToolTypes ==
  /\ tool \in {"list_files", "read_files", "lint_project", "run_test_suite"}
  /\ sort_key \in [Item -> Nat]
  /\ project \in Seq(Item) /\ NoneTwiceIn(project)
  /\ requested \in SUBSET Item
  /\ stayed \subseteq ToSet(project)
  /\ received \in Seq(Item)
  /\ page \in [items : Seq(Item), more : BOOLEAN, failed : BOOLEAN]
  /\ page.more => ~page.failed
  /\ asked \in Nat /\ projectEdits \in Nat

(* What the tool would list of all items                                   *)
AskedList ==
  {i \in Item :
     /\ tool = "list_files" => i \notin OddItems /\ \E p \in DOMAIN PatternItems : i \in PatternItems[p]
     /\ tool = "read_files" => i \in requested
     /\ tool = "lint_project" => "issues" \in {linters[l] : l \in DOMAIN linters}}

LEMMA SeqItems == ASSUME NEW s \in Seq(Item) PROVE ToSet(s) \subseteq Item
BY LenProperties DEF ToSet

LEMMA ListedIs ==
  ASSUME ToolTypes
  PROVE  /\ Listed \in Seq(Item)
         /\ stayed \cap ToSet(Listed) = stayed \cap AskedList
         /\ KeysDiffer => Ascending(Listed)
<1>0. ToSet(project) \subseteq Item /\ sort_key \in [Item -> Nat]
  BY SeqItems DEF ToolTypes
<1>1. ASSUME NEW s \in Seq(Item), NoneTwiceIn(s)
      PROVE  /\ Sorted(s) \in Seq(Item) /\ ToSet(Sorted(s)) = ToSet(s)
             /\ KeysDiffer => Ascending(Sorted(s))
  BY <1>0, <1>1, SortedIs, SortedAscends
<1>2. CASE tool = "list_files"
  <2> DEFINE S == {i \in ToSet(project) \ OddItems :
                     \E p \in DOMAIN PatternItems : i \in PatternItems[p]}
  <2>1. Listed = Sorted(SetToSeq(S))
    BY <1>2 DEF Listed, FilesFound
  <2>2. S \in SUBSET Item
    BY <1>0
  <2> HIDE DEF S
  <2>3. /\ Listed \in Seq(Item) /\ ToSet(Listed) = S
        /\ KeysDiffer => Ascending(Listed)
    BY <2>1, <2>2, <1>1, SetToSeqIs
  <2>4. stayed \cap S = stayed \cap AskedList
    BY <1>0, <1>2 DEF S, AskedList, ToolTypes
  <2> QED BY <2>3, <2>4
<1>3. CASE tool = "read_files"
  <2>1. Listed = Sorted(SetToSeq(requested))
    BY <1>3 DEF Listed
  <2>2. requested \in SUBSET Item
    BY DEF ToolTypes
  <2>3. /\ Listed \in Seq(Item) /\ ToSet(Listed) = requested
        /\ KeysDiffer => Ascending(Listed)
    BY <2>1, <2>2, <1>1, SetToSeqIs
  <2>4. stayed \cap requested = stayed \cap AskedList
    BY <1>3, <2>2 DEF AskedList
  <2> QED BY <2>3, <2>4
<1>4. CASE tool = "lint_project"
  <2>1. Listed = Sorted(Issues)
    BY <1>4 DEF Listed
  <2>2. Issues \in Seq(Item) /\ NoneTwiceIn(Issues)
    <3>1. <<>> \in Seq(Item) /\ NoneTwiceIn(<<>>)
      BY EmptySeq DEF NoneTwiceIn
    <3> QED BY <3>1 DEF Issues, ToolTypes
  <2>3. /\ Listed \in Seq(Item) /\ ToSet(Listed) = ToSet(Issues)
        /\ KeysDiffer => Ascending(Listed)
    BY <2>1, <2>2, <1>1
  <2>4. stayed \cap ToSet(Issues) = stayed \cap AskedList
    <3>1. ToSet(<<>>) = {}
      BY DEF ToSet
    <3> QED BY <1>0, <1>4, <3>1 DEF AskedList, Issues, ToolTypes
  <2> QED BY <2>3, <2>4
<1>5. CASE tool = "run_test_suite"
  <2>1. Listed = Sorted(project)
    BY <1>5 DEF Listed
  <2>2. project \in Seq(Item) /\ NoneTwiceIn(project)
    BY DEF ToolTypes
  <2>3. /\ Listed \in Seq(Item) /\ ToSet(Listed) = ToSet(project)
        /\ KeysDiffer => Ascending(Listed)
    BY <2>1, <2>2, <1>1
  <2>4. stayed \cap ToSet(project) = stayed \cap AskedList
    BY <1>0, <1>5 DEF AskedList, ToolTypes
  <2> QED BY <2>3, <2>4
<1> QED BY <1>2, <1>3, <1>4, <1>5 DEF ToolTypes

(* The answer to a call is a page of what is listed, or none.              *)
LEMMA AskedFor ==
  ASSUME ToolTypes, AskTool
  PROVE  \/ Answer(Failed)
         \/ \E items \in Seq(Item) : /\ Answer(Simplified(items, cursor))
                                     /\ KeysDiffer => Sorted(items) = Listed
<1>0. ToSet(project) \subseteq Item /\ sort_key \in [Item -> Nat]
  BY SeqItems DEF ToolTypes
<1>1. ASSUME NEW S \in SUBSET Item
      PROVE  /\ Sorted(SetToSeq(S)) \in Seq(Item)
             /\ KeysDiffer => Sorted(Sorted(SetToSeq(S))) = Sorted(SetToSeq(S))
  BY <1>0, SetToSeqIs, SortedIs, SortedAscends
<1>2. CASE ListFiles
  <2>1. FilesFound \in Seq(Item) /\ (KeysDiffer => Sorted(FilesFound) = FilesFound)
    BY <1>0, <1>1 DEF FilesFound
  <2>2. Listed = FilesFound /\ Answer(Simplified(FilesFound, cursor))
    BY <1>2 DEF ListFiles, Listed
  <2> QED BY <2>1, <2>2
<1>3. CASE ReadFiles
  <2> DEFINE items == Sorted(SetToSeq(requested))
  <2>1. items \in Seq(Item) /\ (KeysDiffer => Sorted(items) = items)
    BY <1>1 DEF ToolTypes
  <2>2. Listed = items /\ (Answer(Simplified(items, cursor)) \/ Answer(Failed))
    BY <1>3 DEF ReadFiles, Listed
  <2> HIDE DEF items
  <2> QED BY <2>1, <2>2
<1>4. CASE RunTestSuite
  <2>1. project \in Seq(Item) /\ Listed = Sorted(project)
    BY <1>4 DEF RunTestSuite, Listed, ToolTypes
  <2> QED BY <1>4, <2>1 DEF RunTestSuite
<1>5. CASE LintProject
  <2>1. Issues \in Seq(Item) /\ Listed = Sorted(Issues)
    BY <1>5, EmptySeq DEF LintProject, Listed, Issues, ToolTypes
  <2> QED BY <1>5, <2>1 DEF LintProject
<1> QED BY <1>2, <1>3, <1>4, <1>5 DEF AskTool

(* What an answer has behind it: all that was there all the time, up to    *)
(* the cursor; and while nobody has edited the project, the beginning of   *)
(* what is listed, of which the last page is the end.                      *)
Behind ==
  /\ asked = 0 => cursor = NoCursor /\ received = <<>>
  /\ page.more => \A i \in stayed \cap AskedList : sort_key[i] <= cursor => i \in ToSet(received)
  /\ Ended => stayed \cap AskedList \subseteq ToSet(received)

Begun ==
  projectEdits = 0 /\ ~page.failed =>
    /\ Len(received) <= Len(Listed)
    /\ received = SubSeq(Listed, 1, Len(received))
    /\ asked > 0 /\ page.more =>
         /\ Len(received) > 0 /\ Len(received) < Len(Listed) /\ FewItems < Len(Listed)
         /\ cursor = sort_key[Listed[Len(received)]]
         /\ page.items # <<>>
         /\ Len(page.items) > 1 => Cost(page.items) <= MaxTokens
         /\ Cost(Append(page.items, Listed[Len(received) + 1])) > MaxTokens
    /\ Ended => Len(received) = Len(Listed)

PagesInv == ToolTypes /\ (KeysDiffer => Behind /\ Begun)

LEMMA PagesInitOK == ToolsInit => PagesInv
<1> SUFFICES ASSUME ToolsInit PROVE PagesInv
  OBVIOUS
<1>1. project \in Seq(Item) /\ NoneTwiceIn(project)
  <2>1. PICK S \in SUBSET Item : project \in SetToSeqs(S)
    BY DEF ToolsInit, ProjectOrders
  <2>2. IsFiniteSet(S) /\ Cardinality(S) \in Nat
    BY ToolsAssumption, FS_Subset, FS_CardinalityType
  <2>3. project \in [1..Cardinality(S) -> S]
        /\ \A i, j \in 1..Cardinality(S) : i # j => project[i] # project[j]
    BY <2>1 DEF SetToSeqs
  <2>4. project \in Seq(S)
    BY <2>2, <2>3, SeqDef
  <2>5. DOMAIN project = 1..Cardinality(S) /\ DOMAIN project = 1..Len(project)
    BY <2>3, <2>4, LenProperties
  <2> QED BY <2>3, <2>4, <2>5, SeqMonotonic DEF NoneTwiceIn
<1>2. sort_key \in [Item -> Nat]
  <2>1. [i \in Item |-> i] \in [Item -> Nat]
    BY ToolsAssumption
  <2> QED BY <2>1, ToolsAssumption DEF ToolsInit
<1>3. ToSet(project) \subseteq Item
  BY <1>1, SeqItems
<1>4. <<>> \in Seq(Item) /\ Len(<<>>) = 0
  BY EmptySeq
<1>5. ToolTypes
  BY <1>1, <1>2, <1>3, <1>4 DEF ToolTypes, ToolsInit, NoPage
<1>6. asked = 0 /\ cursor = -1 /\ received = <<>> /\ page.more
  BY DEF ToolsInit, NoCursor, NoPage
<1>7. Behind
  <2>1. \A i \in AskedList : ~(sort_key[i] <= cursor)
    BY <1>2, <1>6 DEF AskedList
  <2> QED BY <2>1, <1>6 DEF Behind, Ended, NoCursor
<1>8. Begun
  <2>1. Len(Listed) \in Nat
    BY <1>5, ListedIs, LenProperties
  <2>2. SubSeq(Listed, 1, 0) = <<>>
    BY SubSeqEmpty
  <2> QED BY <2>1, <2>2, <1>4, <1>6 DEF Begun, Ended
<1> QED BY <1>5, <1>7, <1>8 DEF PagesInv

(* What an answer changes                                                  *)
LEMMA AnswerTypes ==
  ASSUME ToolTypes, NEW a \in [items : Seq(Item), more : BOOLEAN, failed : BOOLEAN],
         a.more => ~a.failed, Answer(a)
  PROVE  /\ ToolTypes' /\ asked' = asked + 1 /\ asked' > 0 /\ page' = a
         /\ AskedList' = AskedList /\ Listed' = Listed /\ KeysDiffer' = KeysDiffer
         /\ received' \in Seq(Item) /\ ToSet(received') = ToSet(received) \cup ToSet(a.items)
         /\ Len(received') = Len(received) + Len(a.items)
<1>1. received' = received \o a.items /\ received \in Seq(Item) /\ a.items \in Seq(Item)
  BY DEF Answer, ToolTypes
<1>2. /\ received' \in Seq(Item) /\ Len(received') = Len(received) + Len(a.items)
      /\ \A i \in 1 .. Len(received) + Len(a.items) : received'[i] =
                     IF i <= Len(received) THEN received[i] ELSE a.items[i - Len(received)]
  BY <1>1, ConcatProperties
<1>3. /\ Len(received) \in Nat /\ DOMAIN received = 1..Len(received)
      /\ Len(a.items) \in Nat /\ DOMAIN a.items = 1..Len(a.items)
      /\ DOMAIN received' = 1..Len(received')
  BY <1>1, <1>2, LenProperties
<1>4. ToSet(received') = ToSet(received) \cup ToSet(a.items)
  <2>1. ASSUME NEW x \in ToSet(received') PROVE x \in ToSet(received) \cup ToSet(a.items)
    <3>1. PICK i \in 1..Len(received') : x = received'[i]
      BY <1>3 DEF ToSet
    <3>2. CASE i <= Len(received)
      BY <3>1, <3>2, <1>2, <1>3 DEF ToSet
    <3>3. CASE i > Len(received)
      <4>1. i - Len(received) \in 1..Len(a.items) /\ x = a.items[i - Len(received)]
        BY <3>1, <3>3, <1>2, <1>3
      <4> QED BY <4>1, <1>3 DEF ToSet
    <3> QED BY <3>1, <3>2, <3>3, <1>3
  <2>2. ASSUME NEW x \in ToSet(received) PROVE x \in ToSet(received')
    <3>1. PICK i \in 1..Len(received) : x = received[i]
      BY <1>3 DEF ToSet
    <3>2. i \in 1..Len(received') /\ received'[i] = x
      BY <3>1, <1>2, <1>3
    <3> QED BY <3>2, <1>3 DEF ToSet
  <2>3. ASSUME NEW x \in ToSet(a.items) PROVE x \in ToSet(received')
    <3>1. PICK i \in 1..Len(a.items) : x = a.items[i]
      BY <1>3 DEF ToSet
    <3> DEFINE j == Len(received) + i
    <3>2. j \in 1..Len(received') /\ ~(j <= Len(received)) /\ j - Len(received) = i
      BY <1>2, <1>3
    <3>3. received'[j] = a.items[j - Len(received)]
      BY <3>2, <1>2
    <3> HIDE DEF j
    <3>4. j \in DOMAIN received' /\ received'[j] = x
      BY <3>1, <3>2, <3>3, <1>3
    <3> QED BY <3>4 DEF ToSet
  <2> QED BY <2>1, <2>2, <2>3
<1>5. ToolTypes'
  BY <1>2 DEF ToolTypes, Answer, NoneTwiceIn
<1>6. /\ asked' = asked + 1 /\ asked' > 0 /\ page' = a
      /\ AskedList' = AskedList /\ Listed' = Listed /\ KeysDiffer' = KeysDiffer
  BY DEF Answer, ToolTypes, AskedList, Listed, KeysDiffer, FilesFound, Issues, Sorted, SortedBefore
<1> QED BY <1>2, <1>4, <1>5, <1>6

LEMMA PageItems ==
  ASSUME NEW s \in Seq(Item), NEW c, NEW from \in 0..Len(s), NEW to \in 0..Len(s), NEW a,
         PageFrom(s, c, from, to, a)
  PROVE  /\ a \in [items : Seq(Item), more : BOOLEAN, failed : BOOLEAN]
         /\ ~a.failed /\ (a.more <=> to < Len(s))
         /\ a.items = SubSeq(s, from + 1, to) /\ Len(a.items) = to - from
         /\ \A j \in (from + 1)..to : s[j] \in ToSet(a.items)
         /\ a.more => /\ Last(a.items) = s[to] /\ a.items # <<>>
<1>1. Len(s) \in Nat /\ from <= to
  BY LenProperties DEF PageFrom
<1>2. a = [items |-> SubSeq(s, from + 1, to), more |-> to < Len(s), failed |-> FALSE]
  BY DEF PageFrom
<1>3. /\ a.items \in Seq(Item) /\ Len(a.items) = to - from
      /\ \A i \in 1..(to - from) : a.items[i] = s[from + i]
  BY <1>1, <1>2, PartIs
<1>4. ASSUME NEW j \in (from + 1)..to PROVE s[j] \in ToSet(a.items)
  <2>1. j - from \in 1..(to - from) /\ a.items[j - from] = s[j]
    BY <1>1, <1>3
  <2>2. DOMAIN a.items = 1..Len(a.items)
    BY <1>3, LenProperties
  <2> QED BY <2>1, <2>2, <1>3 DEF ToSet
<1>5. ASSUME a.more PROVE Last(a.items) = s[to] /\ a.items # <<>>
  <2>0. to < Len(s)
    BY <1>2, <1>5, Zenon
  <2>1. from < to
    BY <2>0 DEF PageFrom
  <2>2. to - from \in 1..(to - from) /\ a.items[to - from] = s[to]
    BY <1>1, <1>3, <2>1
  <2> QED BY <2>1, <2>2, <1>1, <1>3, EmptySeq DEF Last
<1>6. a \in [items : Seq(Item), more : BOOLEAN, failed : BOOLEAN] /\ ~a.failed /\ (a.more <=> to < Len(s))
  <2>1. a.more = (to < Len(s)) /\ a.failed = FALSE /\ a.items = SubSeq(s, from + 1, to)
    BY <1>2, Zenon
  <2>2. (to < Len(s)) \in BOOLEAN
    OBVIOUS
  <2>3. a.items \in Seq(Item) /\ a.more \in BOOLEAN /\ a.failed \in BOOLEAN
    BY <1>3, <2>1, <2>2, Zenon
  <2>4. a = [items |-> a.items, more |-> a.more, failed |-> a.failed]
    BY <1>2, <2>1, Zenon
  <2> QED BY <2>1, <2>3, <2>4
<1> QED BY <1>2, <1>3, <1>4, <1>5, <1>6

LEMMA AskToolOK == ASSUME PagesInv, AskTool PROVE PagesInv'
<1>0. ToolTypes /\ page.more /\ ~page.failed
  BY DEF PagesInv, ToolTypes, AskTool
<1>1. CASE Answer(Failed)
  <2>1. Failed \in [items : Seq(Item), more : BOOLEAN, failed : BOOLEAN]
        /\ ~Failed.more /\ Failed.failed
    BY EmptySeq DEF Failed
  <2>2. ToolTypes' /\ asked' > 0 /\ page' = Failed /\ asked' \in Nat
    <3>1. Failed.more => ~Failed.failed
      BY <2>1
    <3>2. ToolTypes' /\ asked' > 0 /\ page' = Failed
      BY <1>0, <1>1, <2>1, <3>1, AnswerTypes
    <3> QED BY <3>2 DEF ToolTypes
  <2>3. page'.failed /\ ~page'.more /\ asked' # 0
    BY <2>1, <2>2
  <2>4. Behind' /\ Begun'
    BY <2>3 DEF Behind, Begun, Ended
  <2> QED BY <2>2, <2>4 DEF PagesInv
<1>2. ASSUME NEW items \in Seq(Item), Answer(Simplified(items, cursor)),
             KeysDiffer => Sorted(items) = Listed
      PROVE  PagesInv'
  <2> DEFINE s == Sorted(items)
             a == Simplified(items, cursor)
             n == Len(s)
  <2>1. PICK from \in 0..n, to \in 0..n : PageFrom(s, cursor, from, to, a)
    BY <1>0, SimplifiedIs DEF ToolTypes
  <2>2. s \in Seq(Item) /\ n \in Nat /\ sort_key \in [Item -> Nat]
    BY <1>0, SortedIs, LenProperties DEF ToolTypes
  <2>3. from <= to /\ from \in Nat /\ to \in Nat /\ from <= n /\ to <= n
    BY <2>1, <2>2 DEF PageFrom
  <2> HIDE DEF s, a
  <2>4. /\ a \in [items : Seq(Item), more : BOOLEAN, failed : BOOLEAN]
        /\ ~a.failed /\ (a.more <=> to < n)
        /\ a.items = SubSeq(s, from + 1, to) /\ Len(a.items) = to - from
        /\ \A j \in (from + 1)..to : s[j] \in ToSet(a.items)
        /\ a.more => /\ Last(a.items) = s[to] /\ a.items # <<>>
    BY <2>1, <2>2, PageItems
  <2>5. Answer(a)
    BY <1>2 DEF a
  <2>6. /\ ToolTypes' /\ asked' = asked + 1 /\ asked' > 0 /\ page' = a
        /\ AskedList' = AskedList /\ Listed' = Listed /\ KeysDiffer' = KeysDiffer
        /\ received' \in Seq(Item) /\ ToSet(received') = ToSet(received) \cup ToSet(a.items)
        /\ Len(received') = Len(received) + Len(a.items)
    BY <1>0, <2>4, <2>5, AnswerTypes
  <2>7. /\ cursor' = IF a.more THEN sort_key[Last(a.items)] ELSE NoCursor
        /\ received' = received \o a.items /\ sort_key' = sort_key /\ stayed' = stayed
        /\ projectEdits' = projectEdits
    BY <2>5 DEF Answer
  <2> SUFFICES ASSUME KeysDiffer PROVE Behind' /\ Begun'
    BY <2>6 DEF PagesInv
  <2>8. s = Listed /\ Behind /\ Begun
    BY <1>2 DEF s, PagesInv
  <2>9. Ascending(s) /\ stayed \cap ToSet(s) = stayed \cap AskedList
    BY <1>0, <2>8, ListedIs
  <2>10. \A j \in 1..n : s[j] \in Item /\ sort_key[s[j]] \in Nat
    BY <2>2, ElementOfSeq
  <2>11. asked \in Nat /\ asked' # 0
    BY <1>0, <2>6 DEF ToolTypes
  <2>12. ASSUME NEW i \in stayed \cap AskedList, to < n => sort_key[i] <= sort_key[s[to]]
         PROVE  i \in ToSet(received')
    <3>1. PICK j \in 1..n : i = s[j]
      <4>1. i \in ToSet(s)
        BY <2>9
      <4> QED BY <4>1, <2>2, LenProperties DEF ToSet
    <3>2. j <= to
      <4>1. SUFFICES ASSUME j > to PROVE FALSE
        BY <2>3
      <4>2. to < n /\ to > 0
        <5>1. to < n
          BY <4>1, <2>3
        <5>2. from < to
          BY <5>1, <2>1 DEF PageFrom
        <5> QED BY <5>1, <5>2, <2>3
      <4>3. to \in 1..n /\ sort_key[s[to]] < sort_key[s[j]]
        BY <4>1, <4>2, <2>3, <2>9 DEF Ascending
      <4> QED BY <4>2, <4>3, <3>1, <2>10, <2>12
    <3>3. CASE j > from
      <4>1. j \in (from + 1)..to
        BY <3>2, <3>3, <2>3
      <4> QED BY <4>1, <3>1, <2>4, <2>6
    <3>4. CASE j <= from
      <4>1. from \in 1..n /\ sort_key[s[from]] = cursor
        BY <3>4, <2>1, <2>3 DEF PageFrom
      <4>2. sort_key[s[j]] <= sort_key[s[from]]
        <5>1. j = from \/ j < from
          BY <3>4, <2>3
        <5> QED BY <5>1, <4>1, <2>9, <2>10 DEF Ascending
      <4>3. sort_key[i] <= cursor
        BY <4>1, <4>2, <3>1
      <4> QED BY <4>3, <1>0, <2>6, <2>8 DEF Behind
    <3> QED BY <3>3, <3>4, <2>3
  <2>13. Behind'
    <3>1. ASSUME page'.more, NEW i \in stayed \cap AskedList, sort_key[i] <= cursor' PROVE i \in ToSet(received')
      <4>1. to < n /\ cursor' = sort_key[s[to]]
        BY <3>1, <2>4, <2>6, <2>7
      <4> QED BY <4>1, <3>1, <2>12
    <3>2. ASSUME ~page'.more, NEW i \in stayed \cap AskedList PROVE i \in ToSet(received')
      <4>1. ~(to < n)
        BY <3>2, <2>4, <2>6
      <4> QED BY <4>1, <2>12
    <3> QED BY <3>1, <3>2, <2>6, <2>7, <2>11 DEF Behind, Ended
  <2>14. Begun'
    <3> SUFFICES ASSUME projectEdits = 0 PROVE Begun'
      BY <2>7 DEF Begun
    <3> DEFINE k == Len(received)
    <3>1. k \in Nat /\ received \in Seq(Item) /\ k <= n /\ received = SubSeq(s, 1, k)
      BY <1>0, <2>8, LenProperties DEF Begun, ToolTypes
    <3>2. from = k
      <4>1. CASE asked = 0
        <5>1. k = 0 /\ cursor = -1
          BY <4>1, <2>8, EmptySeq DEF Behind, NoCursor
        <5>2. from = 0
          <6>1. SUFFICES ASSUME from > 0 PROVE FALSE
            BY <2>3
          <6>2. from \in 1..n /\ sort_key[s[from]] = cursor
            BY <6>1, <2>1, <2>3 DEF PageFrom
          <6> QED BY <6>2, <5>1, <2>10
        <5> QED BY <5>1, <5>2
      <4>2. CASE asked > 0
        <5>1. k \in 1..n /\ FewItems < n /\ cursor = sort_key[s[k]]
          BY <4>2, <1>0, <2>8, <3>1 DEF Begun
        <5> QED BY <5>1, <2>1, <2>9 DEF PageFrom
      <4> QED BY <4>1, <4>2, <2>11
    <3> HIDE DEF n
    <3>3. Len(received') = to
      BY <2>3, <2>4, <2>6, <3>2
    <3>4. received' = SubSeq(s, 1, to)
      <4>1. 1 \in 1..(n + 1) /\ k \in (1 - 1)..n /\ to \in k..n
        BY <2>2, <2>3, <3>1, <3>2
      <4>2. SubSeq(s, 1, k) \o SubSeq(s, k + 1, to) = SubSeq(s, 1, to)
        <5> HIDE DEF k
        <5> QED BY <4>1, <2>2, ConcatAdjacentSubSeq DEF n
      <4> QED BY <4>2, <2>4, <2>7, <3>1, <3>2
    <3>5. Listed' = s /\ sort_key' = sort_key /\ page' = a
      BY <2>6, <2>7, <2>8
    <3>6. ASSUME page'.more
          PROVE  /\ to > 0 /\ to < n /\ FewItems < n
                 /\ cursor' = sort_key[s[to]]
                 /\ a.items # <<>>
                 /\ Len(a.items) > 1 => Cost(a.items) <= MaxTokens
                 /\ Cost(Append(a.items, s[to + 1])) > MaxTokens
      <4>1. to < n /\ a.items # <<>> /\ Last(a.items) = s[to] /\ cursor' = sort_key[s[to]]
        BY <3>5, <3>6, <2>4, <2>7
      <4>2. /\ FewItems < n /\ from < to
            /\ to > from + 1 => PartCost(s, from, to) <= MaxTokens
            /\ PartCost(s, from, to + 1) > MaxTokens
        BY <4>1, <2>1 DEF PageFrom, n
      <4>3. Append(a.items, s[to + 1]) = SubSeq(s, from + 1, to + 1)
        <5>1. to < Len(s) /\ from <= to /\ from \in 0..Len(s) /\ to \in 0..Len(s)
          BY <4>1, <2>2, <2>3 DEF n
        <5>2. SubSeq(s, from + 1, to + 1) = Append(SubSeq(s, from + 1, to), s[to + 1])
          BY <5>1, <2>2, PartIs
        <5> QED BY <5>2, <2>4
      <4>4. Len(a.items) > 1 => to > from + 1
        BY <2>3, <2>4
      <4> QED BY <4>1, <4>2, <4>3, <4>4, <2>3, <2>4 DEF PartCost
    <3>7. Ended' => to = n
      <4>1. ~a.more => to = n
        BY <2>2, <2>3, <2>4
      <4> QED BY <4>1, <3>5 DEF Ended
    <3> QED BY <2>3, <3>3, <3>4, <3>5, <3>6, <3>7 DEF Begun, n
  <2> QED BY <2>13, <2>14
<1> QED BY <1>0, <1>1, <1>2, AskedFor

LEMMA EditedProject ==
  ASSUME NEW s \in Seq(Item), NoneTwiceIn(s)
  PROVE  /\ \A i \in Item \ ToSet(s), at \in 1 .. Len(s) + 1 :
              InsertAt(s, at, i) \in Seq(Item) /\ NoneTwiceIn(InsertAt(s, at, i))
         /\ \A at \in DOMAIN s : RemoveAt(s, at) \in Seq(Item) /\ NoneTwiceIn(RemoveAt(s, at))
<1> DEFINE n == Len(s)
<1>1. n \in Nat /\ DOMAIN s = 1..n
  BY LenProperties
<1>2. \A j \in 1..n : s[j] \in Item
  BY ElementOfSeq
<1>3. \A i, j \in 1..n : s[i] = s[j] => i = j
  BY DEF NoneTwiceIn
<1>4. ASSUME NEW i \in Item \ ToSet(s), NEW at \in 1..(n + 1)
      PROVE  InsertAt(s, at, i) \in Seq(Item) /\ NoneTwiceIn(InsertAt(s, at, i))
  <2> DEFINE q == SubSeq(s, 1, at - 1)
             t == SubSeq(s, at, n)
             r == InsertAt(s, at, i)
  <2>1. at \in Int /\ at - 1 \in Int /\ 1 \in Int /\ n \in Int
        /\ (\A j \in 1..(at - 1) : s[j] \in Item) /\ \A j \in at..n : s[j] \in Item
    BY <1>1, <1>2
  <2>2. /\ q \in Seq(Item) /\ Len(q) = at - 1
        /\ \A j \in 1..(at - 1) : q[j] = s[j]
    BY <2>1, SubSeqProperties
  <2>3. /\ t \in Seq(Item) /\ Len(t) = n - at + 1
        /\ \A j \in 1..(n - at + 1) : t[j] = s[at + j - 1]
    <3>1. /\ t \in Seq(Item) /\ Len(t) = IF at <= n THEN n - at + 1 ELSE 0
          /\ \A j \in 1..(n - at + 1) : t[j] = s[at + j - 1]
      BY <2>1, SubSeqProperties
    <3> QED BY <3>1, <1>1
  <2>4. <<i>> \in Seq(Item) /\ Len(<<i>>) = 1 /\ <<i>>[1] = i
    OBVIOUS
  <2>5. r = (q \o <<i>>) \o t
    BY DEF InsertAt
  <2> HIDE DEF q, t, r, n
  <2>6. /\ q \o <<i>> \in Seq(Item) /\ Len(q \o <<i>>) = at
        /\ \A j \in 1..at : (q \o <<i>>)[j] = IF j <= at - 1 THEN q[j] ELSE i
    <3>1. /\ q \o <<i>> \in Seq(Item) /\ Len(q \o <<i>>) = at - 1 + 1
          /\ \A j \in 1 .. at - 1 + 1 : (q \o <<i>>)[j] = IF j <= at - 1 THEN q[j] ELSE <<i>>[j - (at - 1)]
      BY <2>2, <2>4, ConcatProperties
    <3> QED BY <3>1, <2>4, <1>1
  <2>7. /\ r \in Seq(Item) /\ Len(r) = n + 1
        /\ \A j \in 1..(n + 1) : r[j] = IF j <= at THEN (q \o <<i>>)[j] ELSE t[j - at]
    <3> DEFINE u == q \o <<i>>
    <3>1. /\ r \in Seq(Item) /\ Len(r) = Len(u) + Len(t)
          /\ \A j \in 1 .. Len(u) + Len(t) : r[j] = IF j <= Len(u) THEN u[j] ELSE t[j - Len(u)]
      <4>1. u \in Seq(Item) /\ t \in Seq(Item) /\ r = u \o t
        BY <2>3, <2>5, <2>6
      <4> HIDE DEF u
      <4> QED BY <4>1, ConcatProperties
    <3>0. Len(u) = at
      BY <2>6
    <3> HIDE DEF u
    <3>2. Len(u) = at /\ Len(u) + Len(t) = n + 1
      <4>1. at \in Int /\ n \in Int /\ Len(t) = n - at + 1
        BY <1>1, <2>3
      <4> QED BY <4>1, <3>0
    <3>3. /\ r \in Seq(Item) /\ Len(r) = n + 1
          /\ \A j \in 1..(n + 1) : r[j] = IF j <= at THEN u[j] ELSE t[j - at]
      BY <3>1, <3>2
    <3> QED BY <3>3 DEF u
  <2>8. \A j \in 1..(n + 1) : r[j] = IF j < at THEN s[j] ELSE IF j = at THEN i ELSE s[j - 1]
    <3>1. ASSUME NEW j \in 1..(n + 1) PROVE r[j] = IF j < at THEN s[j] ELSE IF j = at THEN i ELSE s[j - 1]
      <4>1. CASE j <= at
        BY <4>1, <1>1, <2>2, <2>6, <2>7
      <4>2. CASE j > at
        <5>1. j - at \in 1..(n - at + 1) /\ at + (j - at) - 1 = j - 1
          BY <4>2, <1>1
        <5>2. r[j] = t[j - at] /\ t[j - at] = s[at + (j - at) - 1] /\ ~(j < at) /\ j # at
          BY <5>1, <4>2, <1>1, <2>3, <2>7
        <5> QED BY <5>1, <5>2
      <4> QED BY <4>1, <4>2, <1>1
    <3> QED BY <3>1
  <2>9. \A j \in 1..n : s[j] # i
    BY <1>1 DEF ToSet
  <2>10. ASSUME NEW j \in 1..(n + 1), NEW k \in 1..(n + 1), j < k PROVE r[j] # r[k]
    <3>1. CASE k < at
      BY <3>1, <2>8, <2>10, <1>1, <1>3
    <3>2. CASE k = at
      <4>1. j \in 1..n /\ r[j] = s[j] /\ r[k] = i
        BY <3>2, <2>8, <2>10, <1>1
      <4> QED BY <4>1, <2>9
    <3>3. CASE k > at
      <4>1. k - 1 \in 1..n /\ r[k] = s[k - 1]
        BY <3>3, <2>8, <2>10, <1>1
      <4>2. CASE j < at
        BY <4>1, <4>2, <3>3, <2>8, <2>10, <1>1, <1>3
      <4>3. CASE j = at
        BY <4>1, <4>3, <2>8, <2>9, <2>10, <1>1
      <4>4. CASE j > at
        <5>1. j - 1 \in 1..n /\ r[j] = s[j - 1] /\ j - 1 # k - 1
          BY <4>4, <2>8, <2>10, <1>1
        <5> QED BY <5>1, <4>1, <1>3
      <4> QED BY <4>2, <4>3, <4>4, <1>1
    <3> QED BY <3>1, <3>2, <3>3, <1>1
  <2>11. NoneTwiceIn(r)
    <3>1. ASSUME NEW j \in 1..Len(r), NEW k \in 1..Len(r), r[j] = r[k] PROVE j = k
      <4>1. ~(j < k) /\ ~(k < j)
        BY <2>7, <2>10, <3>1
      <4> QED BY <4>1, <2>7, <1>1
    <3> QED BY <3>1 DEF NoneTwiceIn
  <2> QED BY <2>7, <2>11 DEF r
<1>5. ASSUME NEW at \in 1..n PROVE RemoveAt(s, at) \in Seq(Item) /\ NoneTwiceIn(RemoveAt(s, at))
  <2> DEFINE q == SubSeq(s, 1, at - 1)
             t == SubSeq(s, at + 1, n)
             r == RemoveAt(s, at)
  <2>1. at + 1 \in Int /\ at - 1 \in Int /\ 1 \in Int /\ n \in Int
        /\ (\A j \in 1..(at - 1) : s[j] \in Item) /\ \A j \in (at + 1)..n : s[j] \in Item
    BY <1>1, <1>2
  <2>2. /\ q \in Seq(Item) /\ Len(q) = at - 1
        /\ \A j \in 1..(at - 1) : q[j] = s[j]
    BY <2>1, SubSeqProperties
  <2>3. /\ t \in Seq(Item) /\ Len(t) = n - at
        /\ \A j \in 1..(n - at) : t[j] = s[at + j]
    <3>1. /\ t \in Seq(Item) /\ Len(t) = IF at + 1 <= n THEN n - (at + 1) + 1 ELSE 0
          /\ \A j \in 1..(n - (at + 1) + 1) : t[j] = s[(at + 1) + j - 1]
      BY <2>1, SubSeqProperties
    <3> HIDE DEF n, t
    <3>2. /\ at \in Int /\ n \in Int /\ n - (at + 1) + 1 = n - at
          /\ at + 1 <= n \/ n - at = 0
      BY <1>1
    <3>3. \A j \in 1..(n - at) : (at + 1) + j - 1 = at + j
      BY <3>2
    <3> QED BY <3>1, <3>2, <3>3
  <2>4. r = q \o t
    BY DEF RemoveAt
  <2> HIDE DEF q, t, r, n
  <2>5. /\ r \in Seq(Item) /\ Len(r) = n - 1
        /\ \A j \in 1..(n - 1) : r[j] = IF j <= at - 1 THEN q[j] ELSE t[j - (at - 1)]
    <3>1. /\ r \in Seq(Item) /\ Len(r) = Len(q) + Len(t)
          /\ \A j \in 1 .. Len(q) + Len(t) : r[j] = IF j <= Len(q) THEN q[j] ELSE t[j - Len(q)]
      BY <2>2, <2>3, <2>4, ConcatProperties
    <3>2. Len(q) = at - 1 /\ Len(q) + Len(t) = n - 1
      BY <1>1, <2>2, <2>3
    <3> QED BY <3>1, <3>2
  <2>6. ASSUME NEW j \in 1..(n - 1) PROVE r[j] = IF j < at THEN s[j] ELSE s[j + 1]
    <3>1. CASE j < at
      BY <3>1, <1>1, <2>2, <2>5
    <3>2. CASE j >= at
      <4>1. j - (at - 1) \in 1..(n - at) /\ at + (j - (at - 1)) = j + 1
        BY <3>2, <1>1
      <4> QED BY <4>1, <3>2, <1>1, <2>3, <2>5
    <3> QED BY <3>1, <3>2, <1>1
  <2>7. NoneTwiceIn(r)
    <3>1. ASSUME NEW j \in 1..(n - 1), NEW k \in 1..(n - 1), r[j] = r[k] PROVE j = k
      <4>1. j \in 1..n /\ j + 1 \in 1..n /\ k \in 1..n /\ k + 1 \in 1..n
        BY <1>1
      <4> QED BY <4>1, <3>1, <2>6, <1>1, <1>3
    <3> QED BY <3>1, <2>5 DEF NoneTwiceIn
  <2> QED BY <2>5, <2>7 DEF r
<1> QED BY <1>1, <1>4, <1>5

LEMMA EditProjectOK == ASSUME PagesInv, EditProject PROVE PagesInv'
<1>1. ToolTypes /\ page.more /\ asked > 0
  BY DEF PagesInv, EditProject
<1>2. UNCHANGED <<tool, sort_key, linters, requested, cursor, page, received, asked>>
      /\ projectEdits' = projectEdits + 1 /\ stayed' = stayed \cap ToSet(project')
  BY DEF EditProject
<1>3. project' \in Seq(Item) /\ NoneTwiceIn(project')
  <2>1. project \in Seq(Item) /\ NoneTwiceIn(project)
    BY <1>1 DEF ToolTypes
  <2> QED BY <2>1, EditedProject DEF EditProject
<1>4. ToolTypes'
  BY <1>1, <1>2, <1>3 DEF ToolTypes, NoneTwiceIn
<1>5. AskedList' = AskedList /\ KeysDiffer' = KeysDiffer /\ Ended' = Ended
  BY <1>2 DEF AskedList, KeysDiffer, Ended
<1>6. Behind => Behind'
  BY <1>2, <1>5 DEF Behind
<1>7. Begun'
  BY <1>1, <1>2 DEF Begun, ToolTypes
<1> QED BY <1>4, <1>5, <1>6, <1>7 DEF PagesInv

LEMMA PagesStepOK == PagesInv /\ [ToolsNext]_toolVars => PagesInv'
<1> SUFFICES ASSUME PagesInv, [ToolsNext]_toolVars PROVE PagesInv'
  OBVIOUS
<1>1. CASE UNCHANGED toolVars
  <2>1. Listed' = Listed /\ AskedList' = AskedList
    BY <1>1 DEF toolVars, Listed, AskedList, FilesFound, Issues, Sorted, SortedBefore
  <2>2. KeysDiffer' = KeysDiffer /\ Ended' = Ended
    BY <1>1 DEF toolVars, KeysDiffer, Ended
  <2>3. ToolTypes => ToolTypes'
    BY <1>1 DEF toolVars, ToolTypes, NoneTwiceIn
  <2>4. Behind => Behind'
    BY <1>1, <2>1, <2>2 DEF toolVars, Behind
  <2>5. Begun => Begun'
    BY <1>1, <2>1, <2>2 DEF toolVars, Begun
  <2> QED BY <2>2, <2>3, <2>4, <2>5 DEF PagesInv
<1> QED BY <1>1, AskToolOK, EditProjectOK DEF ToolsNext

LEMMA PagesAreComplete == PagesInv => PagesComplete
<1> SUFFICES ASSUME PagesInv, KeysDiffer PROVE PagesComplete
  BY DEF PagesComplete
<1>1. ToolTypes /\ Behind /\ Begun
  BY DEF PagesInv
<1>2. /\ Listed \in Seq(Item) /\ stayed \cap ToSet(Listed) = stayed \cap AskedList
      /\ received \in Seq(Item) /\ Len(received) \in Nat /\ Len(Listed) \in Nat
  BY <1>1, ListedIs, LenProperties DEF ToolTypes
<1>3. Ended => stayed \cap ToSet(Listed) \subseteq ToSet(received)
  BY <1>1, <1>2 DEF Behind
<1>4. ASSUME projectEdits = 0, asked > 0, ~page.failed
      PROVE  /\ IsPrefix(received, Listed)
             /\ Ended => received = Listed
             /\ page.more =>
                  /\ page.items # <<>>
                  /\ Len(page.items) > 1 => Cost(page.items) <= MaxTokens
                  /\ Cost(Append(page.items, Listed[Len(received) + 1])) > MaxTokens
  <2>1. Len(received) <= Len(Listed) /\ received = SubSeq(Listed, 1, Len(received))
    BY <1>1, <1>4 DEF Begun
  <2>2. SubSeq(received, 1, Len(received)) = received
    BY <1>2, SubSeqFull
  <2>3. Ended => received = Listed
    BY <1>1, <1>2, <1>4, <2>1, SubSeqFull DEF Begun
  <2> QED BY <1>1, <1>4, <2>1, <2>2, <2>3 DEF Begun, IsPrefix
<1> QED BY <1>3, <1>4 DEF PagesComplete

(* For any items, sizes, patterns, requests and edits between the pages:   *)
(* where keys differ, who follows the cursors to the end has received all  *)
(* that was there all the time; and if nobody edits, each item once, in    *)
(* order, on pages that are as full as they may be.                        *)
THEOREM PagesAreWhole == ToolsSpec => []PagesComplete
<1>1. ToolsInit => PagesInv
  BY PagesInitOK
<1>2. PagesInv /\ [ToolsNext]_toolVars => PagesInv'
  BY PagesStepOK
<1>3. PagesInv => PagesComplete
  BY PagesAreComplete
<1> QED BY <1>1, <1>2, <1>3, PTL DEF ToolsSpec
=============================================================================
