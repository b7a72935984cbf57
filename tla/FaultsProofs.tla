---------------------------- MODULE FaultsProofs ----------------------------
(***************************************************************************)
(* Theorems about Resources, Retries and ParallelErrors, for any sets of   *)
(* workflows, threads, calls and tasks, any limits, thresholds and numbers *)
(* of attempts; calls and tasks are finitely many.  And about Timeouts,    *)
(* for any operations, hierarchy and limits.                               *)
(***************************************************************************)
EXTENDS Resources, Retries, ParallelErrors, Timeouts,
        FiniteSetTheorems, WellFoundedInduction, TLAPS

-----------------------------------------------------------------------------
(***************************************************************************)
(* The circuit breaker                                                     *)
(***************************************************************************)

Circuit == [state : {"closed", "open", "half-open"}, count : Nat, last : Nat]

(* The breaker, the threads and the clock                                  *)
CircuitTypeOK ==
  /\ now \in Nat
  /\ breaker \in Circuit \cup {None}
  /\ pc \in [Thread -> Within \cup {"outside", "inside"}]
  /\ found \in [Thread -> Nat]
  /\ \A t \in Thread : pc[t] \in Within => breaker # None

CircuitInv == CircuitTypeOK /\ BreakerCounts

(* The threads that have still to judge, to open or to reset               *)
Unsettled == {"stamping", "judging", "tripping", "resetting"}

-----------------------------------------------------------------------------
LEMMA NoneIsNoCircuit == None \notin Circuit
BY ResourceAssumption DEF Circuit

LEMMA CircuitInitOK == Init => CircuitInv
BY DEF Init, CircuitInv, CircuitTypeOK, BreakerCounts, Within

LEMMA AccountsStep ==
  ASSUME CircuitInv, UNCHANGED protection, now' \in Nat
  PROVE  CircuitInv'
BY DEF CircuitInv, CircuitTypeOK, BreakerCounts, protection

LEMMA ConfigureStep ==
  ASSUME CircuitInv, Configure
  PROVE  CircuitInv'
<1>1. /\ now' = now /\ found' = found
      /\ breaker' = [state |-> "closed", count |-> 0, last |-> 0]
      /\ pc' \in [Thread -> {"outside", "inside"}]
  BY DEF Configure
<1>2. breaker' \in Circuit /\ breaker'.count = 0 /\ breaker'.state = "closed"
  BY <1>1 DEF Circuit
<1> QED BY <1>1, <1>2, NoneIsNoCircuit, ResourceAssumption DEF CircuitInv, CircuitTypeOK, BreakerCounts

(* A step that reads: a thread that has still to judge goes on to do so,   *)
(* unless it has read that there are too few failures.                     *)
LEMMA ReadingStep ==
  ASSUME CircuitInv, NEW t \in Thread, NEW to \in Within \cup {"outside", "inside"},
         pc' = [pc EXCEPT ![t] = to], found' \in [Thread -> Nat],
         UNCHANGED <<now, breaker, overtaken>>,
         to \in Within => breaker # None,
         pc[t] \in Unsettled => to \in Unsettled \/ breaker.count < Threshold
  PROVE  CircuitInv'
<1>1. CircuitTypeOK'
  BY DEF CircuitInv, CircuitTypeOK
<1>2. ASSUME breaker # None, breaker.state = "closed", breaker.count >= Threshold
      PROVE  \E u \in Thread : pc'[u] \in Unsettled
  <2>1. PICK u \in Thread : pc[u] \in Unsettled
    BY <1>2 DEF CircuitInv, BreakerCounts, Unsettled
  <2>2. ~(breaker.count < Threshold)
    BY <1>2, ResourceAssumption DEF CircuitInv, CircuitTypeOK, Circuit
  <2> QED BY <2>1, <2>2 DEF CircuitInv, CircuitTypeOK
<1>3. BreakerCounts'
  BY <1>2 DEF CircuitInv, BreakerCounts, Unsettled
<1> QED BY <1>1, <1>3 DEF CircuitInv

(* A step that writes: what it leaves closed with too many failures is     *)
(* still to be settled, and what it leaves open with too few is excused by *)
(* what it had read.                                                       *)
LEMMA WritingStep ==
  ASSUME CircuitInv, NEW t \in Thread, NEW to \in Within \cup {"outside", "inside"},
         NEW b \in Circuit, NEW asked \in BOOLEAN, Writes(t, b, to, asked),
         b.state = "closed" /\ b.count >= Threshold => to \in Unsettled,
         b.state # "closed" /\ b.count < Threshold => overtaken \/ ~asked
  PROVE  CircuitInv'
<1>1. /\ breaker' = b /\ now' = now /\ found' = found
      /\ pc' = [pc EXCEPT ![t] = to]
      /\ overtaken \/ ~asked => overtaken'
  BY DEF Writes, Goes
<1>2. b # None
  BY NoneIsNoCircuit
<1>3. CircuitTypeOK'
  BY <1>1, <1>2 DEF CircuitInv, CircuitTypeOK
<1>4. b.state = "closed" /\ b.count >= Threshold => \E u \in Thread : pc'[u] \in Unsettled
  BY <1>1 DEF CircuitInv, CircuitTypeOK
<1>5. BreakerCounts'
  BY <1>1, <1>4 DEF BreakerCounts, Unsettled
<1> QED BY <1>3, <1>5 DEF CircuitInv

(* The steps of a thread that read                                         *)
LEMMA ReadStep ==
  ASSUME CircuitInv, NEW t \in Thread,
         Enter(t) \/ Execute(t) \/ Timed(t) \/ ExitSuccess(t) \/ ExitFailure(t) \/ Judge(t)
  PROVE  CircuitInv'
<1> USE DEF Reads, Goes, Within, Unsettled
<1>1. /\ now \in Nat /\ found \in [Thread -> Nat] /\ breaker \in Circuit \cup {None}
      /\ pc[t] \in Within => breaker # None
  BY DEF CircuitInv, CircuitTypeOK
<1>2. CASE Enter(t)
  BY <1>1, <1>2, ReadingStep DEF Enter, Looked
<1>3. CASE Execute(t)
  BY <1>1, <1>3, ReadingStep DEF Execute, Looked
<1>4. CASE Timed(t)
  BY <1>1, <1>4, ReadingStep DEF Timed
<1>5. CASE ExitSuccess(t)
  BY <1>1, <1>5, ReadingStep DEF ExitSuccess
<1>6. CASE ExitFailure(t)
  <2>1. CASE breaker = None
    BY <1>1, <1>6, <2>1, ReadingStep DEF ExitFailure
  <2>2. CASE breaker # None
    <3>1. found' \in [Thread -> Nat]
      BY <1>1, <1>6, <2>2 DEF ExitFailure, Circuit
    <3> QED BY <1>1, <1>6, <2>2, <3>1, ReadingStep DEF ExitFailure
  <2> QED BY <2>1, <2>2
<1>7. CASE Judge(t)
  <2>1. breaker.count \in Nat /\ Threshold \in Nat
    BY <1>1, <1>7, ResourceAssumption DEF Judge, Circuit
  <2>2. breaker.count >= Threshold \/ breaker.count < Threshold
    BY <2>1
  <2> QED BY <1>1, <1>7, <2>2, ReadingStep DEF Judge
<1> QED BY <1>2, <1>3, <1>4, <1>5, <1>6, <1>7

(* The steps of a thread that write                                        *)
LEMMA WriteStepOfBreaker ==
  ASSUME CircuitInv, NEW t \in Thread,
         OpenHalf(t) \/ Close(t) \/ ResetCount(t) \/ Count(t) \/ Stamp(t) \/ Trip(t)
  PROVE  CircuitInv'
<1> USE DEF Within, Unsettled
<1>1. breaker \in Circuit /\ breaker # None /\ now \in Nat /\ found[t] \in Nat
  BY DEF CircuitInv, CircuitTypeOK, OpenHalf, Close, ResetCount, Count, Stamp, Trip
<1>2. breaker.count \in Nat /\ Threshold \in Nat \ {0}
  BY <1>1, ResourceAssumption DEF Circuit
<1>3. breaker.state # "closed" /\ breaker.count < Threshold => overtaken
  BY <1>1 DEF CircuitInv, BreakerCounts
<1>4. CASE OpenHalf(t)
  <2> DEFINE b == [breaker EXCEPT !.state = "half-open"]
  <2>1. b \in Circuit /\ b.state = "half-open" /\ b.count = breaker.count
    BY <1>1 DEF Circuit
  <2>2. Writes(t, b, "inside", breaker.state = "open")
    BY <1>4 DEF OpenHalf
  <2>3. (breaker.state = "open") \in BOOLEAN
    OBVIOUS
  <2> HIDE DEF b
  <2> QED BY <1>2, <1>3, <2>1, <2>2, <2>3, WritingStep
<1>5. CASE Close(t)
  <2> DEFINE b == [breaker EXCEPT !.state = "closed"]
  <2>1. b \in Circuit /\ b.state = "closed"
    BY <1>1 DEF Circuit
  <2>2. Writes(t, b, "resetting", breaker.state = "half-open")
    BY <1>5 DEF Close
  <2>3. (breaker.state = "half-open") \in BOOLEAN
    OBVIOUS
  <2> HIDE DEF b
  <2> QED BY <2>1, <2>2, <2>3, WritingStep
<1>6. CASE ResetCount(t)
  <2> DEFINE b == [breaker EXCEPT !.count = 0]
  <2>1. b \in Circuit /\ b.state = breaker.state /\ b.count = 0
    BY <1>1 DEF Circuit
  <2>2. Writes(t, b, "outside", breaker.state = "closed")
    BY <1>6 DEF ResetCount
  <2>3. (breaker.state = "closed") \in BOOLEAN
    OBVIOUS
  <2>4. ~(b.count >= Threshold)
    BY <1>2, <2>1
  <2> HIDE DEF b
  <2> QED BY <2>1, <2>2, <2>3, <2>4, WritingStep
<1>7. CASE Count(t)
  <2> DEFINE b == [breaker EXCEPT !.count = found[t] + 1]
  <2>1. b \in Circuit /\ b.state = breaker.state /\ b.count = found[t] + 1
    BY <1>1 DEF Circuit
  <2>2. Writes(t, b, "stamping", breaker.count = found[t])
    BY <1>7 DEF Count
  <2>3. (breaker.count = found[t]) \in BOOLEAN
    OBVIOUS
  <2>4. b.count < Threshold /\ breaker.count = found[t] => breaker.count < Threshold
    BY <1>1, <1>2, <2>1
  <2> HIDE DEF b
  <2> QED BY <1>3, <2>1, <2>2, <2>3, <2>4, WritingStep
<1>8. CASE Stamp(t)
  <2> DEFINE b == [breaker EXCEPT !.last = now]
  <2>1. b \in Circuit /\ b.state = breaker.state /\ b.count = breaker.count
    BY <1>1 DEF Circuit
  <2>2. Writes(t, b, "judging", TRUE)
    BY <1>8 DEF Stamp
  <2> HIDE DEF b
  <2> QED BY <1>3, <2>1, <2>2, WritingStep
<1>9. CASE Trip(t)
  <2> DEFINE b == [breaker EXCEPT !.state = "open"]
  <2>1. b \in Circuit /\ b.state = "open" /\ b.count = breaker.count
    BY <1>1 DEF Circuit
  <2>2. Writes(t, b, "outside", breaker.count >= Threshold)
    BY <1>9 DEF Trip
  <2>3. (breaker.count >= Threshold) \in BOOLEAN /\ (b.count < Threshold => ~(breaker.count >= Threshold))
    BY <1>2, <2>1
  <2> HIDE DEF b
  <2> QED BY <2>1, <2>2, <2>3, WritingStep
<1> QED BY <1>4, <1>5, <1>6, <1>7, <1>8, <1>9

LEMMA CircuitStepOK == CircuitInv /\ [Next]_vars => CircuitInv'
<1> SUFFICES ASSUME CircuitInv, [Next]_vars PROVE CircuitInv'
  OBVIOUS
<1>1. ASSUME NEW f \in Flow, NEW a \in Amount, Allocate(f, a) \/ Adjust(f, a) PROVE CircuitInv'
  <2>1. UNCHANGED protection /\ now' = now
    BY <1>1 DEF Allocate, Adjust, protection
  <2> QED BY <2>1, AccountsStep DEF CircuitInv, CircuitTypeOK
<1>2. ASSUME NEW f \in Flow, Release(f) \/ CleanupFlow(f) \/ StoreCheckpoint(f) PROVE CircuitInv'
  <2>1. UNCHANGED protection /\ now' = now
    BY <1>2 DEF Release, CleanupFlow, StoreCheckpoint, protection
  <2> QED BY <2>1, AccountsStep DEF CircuitInv, CircuitTypeOK
<1>3. CASE Collect \/ Stop \/ UNCHANGED vars
  <2>1. UNCHANGED protection /\ now' = now
    BY <1>3 DEF Collect, Stop, vars, protection
  <2> QED BY <2>1, AccountsStep DEF CircuitInv, CircuitTypeOK
<1>4. CASE Tick
  BY <1>4, AccountsStep DEF Tick, CircuitInv, CircuitTypeOK
<1>5. CASE Configure
  BY <1>5, ConfigureStep
<1>6. ASSUME NEW t \in Thread,
             Enter(t) \/ Execute(t) \/ Timed(t) \/ ExitSuccess(t) \/ ExitFailure(t) \/ Judge(t)
      PROVE  CircuitInv'
  BY <1>6, ReadStep
<1>7. ASSUME NEW t \in Thread,
             OpenHalf(t) \/ Close(t) \/ ResetCount(t) \/ Count(t) \/ Stamp(t) \/ Trip(t)
      PROVE  CircuitInv'
  BY <1>7, WriteStepOfBreaker
<1> QED BY <1>1, <1>2, <1>3, <1>4, <1>5, <1>6, <1>7 DEF Next

(* However the reads and writes of any number of threads fall between each *)
(* other, in and out of the lock, and whoever configures the breaker anew: *)
(* with too many failures it is closed only while a thread has still to    *)
(* judge, open or reset; with too few it is open, or half, only after some *)
(* thread wrote because of what another one had changed since.             *)
THEOREM BreakerCorrect == Spec => []BreakerCounts
<1>1. Spec => []CircuitInv
  BY CircuitInitOK, CircuitStepOK, PTL DEF Spec
<1>2. CircuitInv => BreakerCounts
  BY DEF CircuitInv
<1> QED BY <1>1, <1>2, PTL

-----------------------------------------------------------------------------
(***************************************************************************)
(* What workflows hold together.  The sum is a fold, a recursive function, *)
(* so that its laws are proved by taking a smallest set that breaks them.  *)
(***************************************************************************)

(* One element of a set, the same whenever it is asked for                 *)
Pick(S) == CHOOSE x \in S : TRUE

(* The partial sums of what a workflow of S holds of k, in usage u         *)
Partial(u, k, S, g) ==
  g = [s \in SUBSET S |-> IF s = {} THEN 0 ELSE u[Pick(s)].held[k] + g[s \ {Pick(s)}]]

Sum(u, k, S) == MapThenSumSet(LAMBDA f : u[f].held[k], S)

LEMMA HeldIsSum == ASSUME NEW S, NEW k PROVE Held(S, k) = Sum(usage, k, S)
BY DEF Held, Sum

LEMMA SumIsPartial ==
  ASSUME NEW u, NEW k, NEW S, NEW g, Partial(u, k, S, g)
  PROVE  \E h : Partial(u, k, S, h) /\ Sum(u, k, S) = h[S]
<1> DEFINE R(h) == h = [s \in SUBSET S |-> IF s = {} THEN 0 ELSE u[Pick(s)].held[k] + h[s \ {Pick(s)}]]
<1>1. Sum(u, k, S) = (CHOOSE h : R(h))[S]
  BY DEF Sum, MapThenSumSet, MapThenFoldSet, Pick
<1>2. R(g)
  BY DEF Partial
<1>3. R(CHOOSE h : R(h))
  BY <1>2
<1>4. Partial(u, k, S, CHOOSE h : R(h))
  BY <1>3 DEF Partial
<1> QED BY <1>1, <1>4

(* A set of numbers that is not empty has a least one.                     *)
LEMMA Least ==
  ASSUME NEW T, T \subseteq Nat, T # {}
  PROVE  \E n \in T : \A m \in T : n <= m
<1>1. PICK n \in T : \A m \in T : ~ (<<m, n>> \in OpToRel(<, Nat))
  BY WFMin, NatLessThanWellFounded, Zenon
<1>2. \A m \in T : m \in Nat /\ n \in Nat /\ ~ (m < n)
  BY <1>1 DEF OpToRel
<1> QED BY <1>2

LEMMA PartialAt ==
  ASSUME NEW u, NEW k, NEW S, NEW g, Partial(u, k, S, g), NEW s, s \subseteq S
  PROVE  /\ s = {} => g[s] = 0
         /\ s # {} => g[s] = u[Pick(s)].held[k] + g[s \ {Pick(s)}]
BY DEF Partial

LEMMA PartialEmpty ==
  ASSUME NEW u, NEW k, NEW S, NEW g, Partial(u, k, S, g)
  PROVE  g[{}] = 0
<1>1. {} \subseteq S
  OBVIOUS
<1> QED BY <1>1, PartialAt

(* The sets from which one is picked                                       *)
LEMMA PickOne ==
  ASSUME NEW s, IsFiniteSet(s), s # {}
  PROVE  /\ Pick(s) \in s /\ IsFiniteSet(s \ {Pick(s)})
         /\ Cardinality(s) \in Nat /\ Cardinality(s \ {Pick(s)}) \in Nat
         /\ Cardinality(s \ {Pick(s)}) < Cardinality(s)
<1>1. Pick(s) \in s
  BY DEF Pick
<1>2. IsFiniteSet(s \ {Pick(s)}) /\ Cardinality(s \ {Pick(s)}) = Cardinality(s) - 1
  BY <1>1, FS_RemoveElement
<1>3. Cardinality(s) \in Nat /\ Cardinality(s \ {Pick(s)}) \in Nat
  BY <1>2, FS_CardinalityType
<1> QED BY <1>1, <1>2, <1>3

(* Partial sums agree as far as the usages do.                             *)
LEMMA PartialAgree ==
  ASSUME NEW u, NEW v, NEW k, NEW S, NEW T, NEW g, NEW h, IsFiniteSet(S), S \subseteq T,
         \A f \in S : u[f].held[k] = v[f].held[k],
         Partial(u, k, S, g), Partial(v, k, T, h)
  PROVE  \A s \in SUBSET S : g[s] = h[s]
<1> DEFINE Bad == {n \in Nat : \E s \in SUBSET S : Cardinality(s) = n /\ g[s] # h[s]}
<1>1. SUFFICES ASSUME NEW b \in SUBSET S, g[b] # h[b] PROVE FALSE
  OBVIOUS
<1>2. \A s \in SUBSET S : IsFiniteSet(s) /\ Cardinality(s) \in Nat
  BY FS_Subset, FS_CardinalityType
<1>3. Cardinality(b) \in Bad
  BY <1>1, <1>2
<1>4. PICK n \in Bad : \A m \in Bad : n <= m
  BY <1>3, Least
<1>5. PICK s \in SUBSET S : Cardinality(s) = n /\ g[s] # h[s]
  BY <1>4
<1>6. s # {}
  <2>1. g[{}] = 0 /\ h[{}] = 0
    BY PartialEmpty
  <2> QED BY <2>1, <1>5
<1>7. g[s \ {Pick(s)}] = h[s \ {Pick(s)}]
  <2>1. Cardinality(s \ {Pick(s)}) \in Nat /\ Cardinality(s \ {Pick(s)}) < n /\ n \in Nat
    <3>1. /\ Cardinality(s \ {Pick(s)}) \in Nat
          /\ Cardinality(s \ {Pick(s)}) < Cardinality(s)
      BY <1>2, <1>6, PickOne
    <3>2. n \in Nat /\ Cardinality(s) = n
      BY <1>5
    <3> QED BY <3>1, <3>2
  <2>2. Cardinality(s \ {Pick(s)}) \notin Bad
    <3> HIDE DEF Bad
    <3> QED BY <2>1, <1>4
  <2> QED BY <2>1, <2>2
<1>8. u[Pick(s)].held[k] = v[Pick(s)].held[k]
  BY <1>2, <1>6, PickOne
<1>9. g[s] = u[Pick(s)].held[k] + g[s \ {Pick(s)}] /\ h[s] = v[Pick(s)].held[k] + h[s \ {Pick(s)}]
  BY <1>6, PartialAt
<1> QED BY <1>5, <1>7, <1>8, <1>9

LEMMA PartialExists ==
  ASSUME NEW u, NEW k, NEW S, IsFiniteSet(S)
  PROVE  \E g : Partial(u, k, S, g)
<1> DEFINE Has(s) == \E g : Partial(u, k, s, g)
           G(s) == CHOOSE g : Partial(u, k, s, g)
           Bad == {n \in Nat : \E s \in SUBSET S : Cardinality(s) = n /\ ~Has(s)}
<1>1. SUFFICES ASSUME ~Has(S) PROVE FALSE
  OBVIOUS
<1>2. \A s \in SUBSET S : IsFiniteSet(s) /\ Cardinality(s) \in Nat
  BY FS_Subset, FS_CardinalityType
<1>3. Cardinality(S) \in Bad
  BY <1>1, <1>2
<1>4. PICK n \in Bad : \A m \in Bad : n <= m
  BY <1>3, Least
<1>5. PICK t \in SUBSET S : Cardinality(t) = n /\ ~Has(t)
  BY <1>4
<1> DEFINE g == [s \in SUBSET t |->
                   IF s = {} THEN 0 ELSE u[Pick(s)].held[k] + G(s \ {Pick(s)})[s \ {Pick(s)}]]
<1>6. ASSUME NEW s \in SUBSET t, s # t PROVE Partial(u, k, s, G(s)) /\ IsFiniteSet(s)
  <2>1. IsFiniteSet(s) /\ Cardinality(s) \in Nat /\ Cardinality(s) < n /\ n \in Nat
    <3>1. IsFiniteSet(t) /\ Cardinality(t) = n
      BY <1>2, <1>5
    <3> QED BY <3>1, <1>6, FS_Subset, FS_CardinalityType
  <2>2. Cardinality(s) \notin Bad
    BY <2>1, <1>4
  <2>3. Has(s)
    BY <2>1, <2>2
  <2> QED BY <2>1, <2>3
<1>7. ASSUME NEW s \in SUBSET t, s # {} PROVE g[s \ {Pick(s)}] = G(s \ {Pick(s)})[s \ {Pick(s)}]
  <2> DEFINE r == s \ {Pick(s)}
  <2>1. Pick(s) \in s /\ r \in SUBSET t /\ r # t
    BY <1>2, <1>7, PickOne
  <2>2. Partial(u, k, r, G(r)) /\ IsFiniteSet(r)
    BY <2>1, <1>6
  <2>3. CASE r = {}
    BY <2>1, <2>2, <2>3, PartialAt
  <2>4. CASE r # {}
    <3> DEFINE q == r \ {Pick(r)}
    <3>1. g[r] = u[Pick(r)].held[k] + G(q)[q]
      BY <2>1, <2>4
    <3> HIDE DEF r, g
    <3>2. G(r)[r] = u[Pick(r)].held[k] + G(r)[q]
      BY <2>2, <2>4, PartialAt
    <3>3. Pick(r) \in r /\ q \in SUBSET t /\ q # t /\ q \subseteq r
      BY <2>1, <2>2, <2>4, PickOne
    <3>4. Partial(u, k, q, G(q)) /\ IsFiniteSet(q)
      BY <3>3, <1>6
    <3> HIDE DEF q, G
    <3>5. G(q)[q] = G(r)[q]
      BY <2>2, <3>3, <3>4, PartialAgree
    <3> QED BY <3>1, <3>2, <3>5 DEF r
  <2> QED BY <2>3, <2>4
<1>8. Partial(u, k, t, g)
  <2>1. \A s \in SUBSET t : s # {} => s \ {Pick(s)} \in SUBSET t
    OBVIOUS
  <2> HIDE DEF G
  <2>2. g = [s \in SUBSET t |-> IF s = {} THEN 0 ELSE u[Pick(s)].held[k] + g[s \ {Pick(s)}]]
    BY <1>7
  <2> QED BY <2>2 DEF Partial
<1> QED BY <1>5, <1>8

LEMMA SumOver ==
  ASSUME NEW u, NEW k, NEW S, IsFiniteSet(S)
  PROVE  /\ S = {} => Sum(u, k, S) = 0
         /\ S # {} => Sum(u, k, S) = u[Pick(S)].held[k] + Sum(u, k, S \ {Pick(S)})
<1>1. PICK g : Partial(u, k, S, g) /\ Sum(u, k, S) = g[S]
  BY PartialExists, SumIsPartial
<1>2. CASE S = {}
  BY <1>1, <1>2, PartialAt
<1>3. CASE S # {}
  <2> DEFINE r == S \ {Pick(S)}
  <2>1. IsFiniteSet(r)
    BY <1>3, PickOne
  <2> HIDE DEF r
  <2>2. PICK h : Partial(u, k, r, h) /\ Sum(u, k, r) = h[r]
    BY <2>1, PartialExists, SumIsPartial
  <2>3. r \subseteq S
    BY DEF r
  <2>4. h[r] = g[r]
    BY <1>1, <2>1, <2>2, <2>3, PartialAgree
  <2>5. g[S] = u[Pick(S)].held[k] + g[r]
    BY <1>1, <1>3, PartialAt DEF r
  <2> QED BY <1>1, <1>3, <2>2, <2>4, <2>5 DEF r
<1> QED BY <1>2, <1>3

LEMMA SumAgrees ==
  ASSUME NEW u, NEW v, NEW k, NEW S, IsFiniteSet(S), \A f \in S : u[f].held[k] = v[f].held[k]
  PROVE  Sum(u, k, S) = Sum(v, k, S)
<1>1. PICK g : Partial(u, k, S, g) /\ Sum(u, k, S) = g[S]
  BY PartialExists, SumIsPartial
<1>2. PICK h : Partial(v, k, S, h) /\ Sum(v, k, S) = h[S]
  BY PartialExists, SumIsPartial
<1>3. g[S] = h[S]
  BY <1>1, <1>2, PartialAgree
<1> QED BY <1>1, <1>2, <1>3

LEMMA SumNat ==
  ASSUME NEW u, NEW k, NEW S, IsFiniteSet(S), \A f \in S : u[f].held[k] \in Nat
  PROVE  Sum(u, k, S) \in Nat
<1> DEFINE Bad == {n \in Nat : \E s \in SUBSET S : Cardinality(s) = n /\ Sum(u, k, s) \notin Nat}
<1>1. SUFFICES ASSUME Sum(u, k, S) \notin Nat PROVE FALSE
  OBVIOUS
<1>2. \A s \in SUBSET S : IsFiniteSet(s) /\ Cardinality(s) \in Nat
  BY FS_Subset, FS_CardinalityType
<1>3. Cardinality(S) \in Bad
  BY <1>1, <1>2
<1>4. PICK n \in Bad : \A m \in Bad : n <= m
  BY <1>3, Least
<1>5. PICK s \in SUBSET S : Cardinality(s) = n /\ Sum(u, k, s) \notin Nat
  BY <1>4
<1>6. s # {}
  <2>1. Sum(u, k, {}) = 0
    BY SumOver, FS_EmptySet
  <2> QED BY <2>1, <1>5
<1>7. /\ Pick(s) \in s /\ Cardinality(s \ {Pick(s)}) \in Nat
      /\ Cardinality(s \ {Pick(s)}) < n /\ n \in Nat
  BY <1>2, <1>5, <1>6, PickOne
<1>8. Sum(u, k, s \ {Pick(s)}) \in Nat
  BY <1>4, <1>7
<1>9. Sum(u, k, s) = u[Pick(s)].held[k] + Sum(u, k, s \ {Pick(s)})
  BY <1>2, <1>6, SumOver
<1> QED BY <1>5, <1>7, <1>8, <1>9

(* The order in which a sum is taken does not matter.                      *)
LEMMA SumWithout ==
  ASSUME NEW u, NEW k, NEW S, IsFiniteSet(S), \A f \in S : u[f].held[k] \in Nat, NEW x \in S
  PROVE  Sum(u, k, S) = u[x].held[k] + Sum(u, k, S \ {x})
<1> DEFINE OK(s) == \A y \in s : Sum(u, k, s) = u[y].held[k] + Sum(u, k, s \ {y})
           Bad == {n \in Nat : \E s \in SUBSET S : Cardinality(s) = n /\ ~OK(s)}
<1>1. SUFFICES ASSUME ~OK(S) PROVE FALSE
  OBVIOUS
<1>2. \A s \in SUBSET S : IsFiniteSet(s) /\ Cardinality(s) \in Nat
  BY FS_Subset, FS_CardinalityType
<1>3. Cardinality(S) \in Bad
  BY <1>1, <1>2
<1>4. PICK n \in Bad : \A m \in Bad : n <= m
  BY <1>3, Least
<1>5. PICK s \in SUBSET S : Cardinality(s) = n /\ ~OK(s)
  BY <1>4
<1>6. PICK y \in s : Sum(u, k, s) # u[y].held[k] + Sum(u, k, s \ {y})
  BY <1>5
<1> DEFINE p == Pick(s)
<1>7. /\ p \in s /\ n \in Nat
      /\ \A z \in s : Cardinality(s \ {z}) \in Nat /\ Cardinality(s \ {z}) < n
  BY <1>2, <1>5, PickOne, FS_RemoveElement
<1> HIDE DEF OK
<1>8. ASSUME NEW z \in s PROVE OK(s \ {z})
  <2> DEFINE m == Cardinality(s \ {z})
  <2>1. m \in Nat /\ m < n
    BY <1>7
  <2>2. s \ {z} \in SUBSET S
    OBVIOUS
  <2>3. ~OK(s \ {z}) => m \in Bad
    BY <2>1, <2>2
  <2>4. m \in Bad => n <= m
    BY <1>4
  <2> HIDE DEF m
  <2>5. m \notin Bad
    BY <2>1, <2>4, <1>7
  <2> QED BY <2>3, <2>5
<1> USE DEF OK
<1>9. Sum(u, k, s) = u[p].held[k] + Sum(u, k, s \ {p})
  BY <1>2, <1>7, SumOver
<1> HIDE DEF p
<1>10. y # p
  BY <1>6, <1>9
<1>11. /\ Sum(u, k, s \ {p}) = u[y].held[k] + Sum(u, k, (s \ {p}) \ {y})
       /\ Sum(u, k, s \ {y}) = u[p].held[k] + Sum(u, k, (s \ {y}) \ {p})
  BY <1>7, <1>8, <1>10
<1>12. (s \ {p}) \ {y} = (s \ {y}) \ {p}
  OBVIOUS
<1>13. IsFiniteSet((s \ {p}) \ {y}) /\ \A f \in (s \ {p}) \ {y} : u[f].held[k] \in Nat
  BY <1>2
<1>14. Sum(u, k, (s \ {p}) \ {y}) \in Nat
  BY <1>13, SumNat
<1>15. u[p].held[k] \in Nat /\ u[y].held[k] \in Nat
  BY <1>7
<1>16. \A a, b, c \in Nat : a + (b + c) = b + (a + c)
  OBVIOUS
<1> HIDE DEF OK, Bad
<1>17. Sum(u, k, s) = u[y].held[k] + (u[p].held[k] + Sum(u, k, (s \ {p}) \ {y}))
  <2>1. Sum(u, k, s) = u[p].held[k] + (u[y].held[k] + Sum(u, k, (s \ {p}) \ {y}))
    BY <1>9, <1>11, Zenon
  <2> QED BY <2>1, <1>14, <1>15, <1>16, Zenon
<1>18. Sum(u, k, s) = u[y].held[k] + Sum(u, k, s \ {y})
  BY <1>11, <1>12, <1>17, Zenon
<1> QED BY <1>6, <1>18

(* A sum falls apart into that of a part and that of the rest.             *)
LEMMA SumDifference ==
  ASSUME NEW u, NEW k, NEW S, IsFiniteSet(S), \A f \in S : u[f].held[k] \in Nat,
         NEW T, T \subseteq S
  PROVE  Sum(u, k, S) = Sum(u, k, T) + Sum(u, k, S \ T)
<1> DEFINE OK(t) == Sum(u, k, S) = Sum(u, k, t) + Sum(u, k, S \ t)
           Bad == {n \in Nat : \E t \in SUBSET S : Cardinality(t) = n /\ ~OK(t)}
<1>1. SUFFICES ASSUME ~OK(T) PROVE FALSE
  OBVIOUS
<1>2. \A s \in SUBSET S : IsFiniteSet(s) /\ Cardinality(s) \in Nat /\ Sum(u, k, s) \in Nat
  <2>1. \A s \in SUBSET S : IsFiniteSet(s) /\ Cardinality(s) \in Nat
    BY FS_Subset, FS_CardinalityType
  <2> QED BY <2>1, SumNat
<1>3. Cardinality(T) \in Bad
  BY <1>1, <1>2
<1>4. PICK n \in Bad : \A m \in Bad : n <= m
  BY <1>3, Least
<1>5. PICK t \in SUBSET S : Cardinality(t) = n /\ ~OK(t)
  BY <1>4
<1>6. t # {}
  <2>1. S \ {} = S /\ Sum(u, k, {}) = 0
    BY SumOver, FS_EmptySet
  <2>2. Sum(u, k, S) \in Nat
    BY <1>2
  <2>3. OK({})
    BY <2>1, <2>2
  <2> QED BY <2>3, <1>5
<1> DEFINE p == Pick(t)
<1>7. /\ p \in t /\ n \in Nat
      /\ Cardinality(t \ {p}) \in Nat /\ Cardinality(t \ {p}) < n
  <2>1. /\ p \in t /\ Cardinality(t \ {p}) \in Nat
        /\ Cardinality(t \ {p}) < Cardinality(t)
    BY <1>2, <1>6, PickOne
  <2>2. n \in Nat /\ Cardinality(t) = n
    BY <1>5
  <2> QED BY <2>1, <2>2
<1> HIDE DEF p
<1>8. Sum(u, k, S) = Sum(u, k, t \ {p}) + Sum(u, k, S \ (t \ {p}))
  <2>1. Cardinality(t \ {p}) \notin Bad
    <3> HIDE DEF Bad
    <3> QED BY <1>4, <1>7
  <2> QED BY <2>1, <1>7
<1>9. Sum(u, k, t) = u[p].held[k] + Sum(u, k, t \ {p})
  BY <1>2, <1>7, SumWithout
<1>10. Sum(u, k, S \ (t \ {p})) = u[p].held[k] + Sum(u, k, S \ t)
  <2>1. p \in S \ (t \ {p}) /\ S \ (t \ {p}) \in SUBSET S /\ (S \ (t \ {p})) \ {p} = S \ t
    BY <1>7
  <2>2. \A f \in S \ (t \ {p}) : u[f].held[k] \in Nat
    OBVIOUS
  <2> QED BY <2>1, <2>2, <1>2, SumWithout
<1>11. /\ Sum(u, k, t) \in Nat /\ Sum(u, k, t \ {p}) \in Nat /\ Sum(u, k, S \ t) \in Nat
       /\ u[p].held[k] \in Nat /\ Sum(u, k, S \ (t \ {p})) \in Nat
  BY <1>2, <1>7
<1> QED BY <1>5, <1>8, <1>9, <1>10, <1>11

-----------------------------------------------------------------------------
(* The accounts                                                            *)

Account == [held : [Kind -> Nat], updated : Nat]

(* Only finitely many workflows ever hold something, however many there    *)
(* are, which gives the sum its meaning.                                   *)
AccountsTypeOK ==
  /\ now \in Nat
  /\ usage \in [Flow -> Account \cup {None}]
  /\ total \in [Kind -> Int]
  /\ regular \in BOOLEAN
  /\ IsFiniteSet(Holders)

AccountsInv == AccountsTypeOK /\ Accounted

(* What the holders hold together, before and after a step                 *)
HeldTogether == \A k \in Kind : Held(Holders, k) = Sum(usage, k, Holders)

LEMMA HoldersTogether == HeldTogether
BY HeldIsSum DEF HeldTogether

LEMMA HoldersTogetherNext == \A k \in Kind : Held(Holders, k)' = Sum(usage', k, Holders')
<1>1. HeldTogether'
  BY HoldersTogether, PTL
<1> QED BY <1>1 DEF HeldTogether

LEMMA NoneIsNoAccount == None \notin Account
BY ResourceAssumption DEF Account

LEMMA HoldersHold ==
  ASSUME AccountsInv
  PROVE  \A f \in Holders : usage[f] \in Account /\ \A k \in Kind : usage[f].held[k] \in Nat
BY DEF AccountsInv, AccountsTypeOK, Holders, Account

LEMMA AccountsInitOK == Init => AccountsInv
<1> SUFFICES ASSUME Init PROVE AccountsInv
  OBVIOUS
<1>1. Holders = {} /\ IsFiniteSet({})
  BY FS_EmptySet DEF Init, Holders
<1>2. \A k \in Kind : Sum(usage, k, {}) = 0
  BY <1>1, SumOver
<1>3. \A k \in Kind : Held(Holders, k) = 0
  BY <1>1, <1>2, HeldIsSum
<1>4. Accounted
  BY <1>3, ResourceAssumption DEF Accounted, Init
<1> QED BY <1>1, <1>4 DEF AccountsInv, AccountsTypeOK, Init

LEMMA AllocateStep ==
  ASSUME AccountsInv, NEW f \in Flow, NEW a \in Amount, Allocate(f, a)
  PROVE  AccountsInv'
<1>1. /\ now' = now
      /\ usage' = [usage EXCEPT ![f] = [held |-> a, updated |-> now]]
      /\ total' = [k \in Kind |-> total[k] + a[k]]
      /\ regular' = (regular /\ f \notin Holders)
      /\ \A k \in Kind : total[k] + a[k] <= Limit[k]
  BY DEF Allocate, Available
<1>2. [held |-> a, updated |-> now] \in Account /\ a \in [Kind -> Nat]
  BY ResourceAssumption DEF Account, AccountsInv, AccountsTypeOK
<1>3. usage' \in [Flow -> Account \cup {None}] /\ total' \in [Kind -> Int] /\ regular' \in BOOLEAN
  BY <1>1, <1>2 DEF AccountsInv, AccountsTypeOK
<1>4. Holders' = Holders \cup {f}
  BY <1>1, <1>2, NoneIsNoAccount DEF Holders, AccountsInv, AccountsTypeOK
<1>5. IsFiniteSet(Holders) /\ IsFiniteSet(Holders')
  BY <1>4, FS_AddElement DEF AccountsInv, AccountsTypeOK
<1>6. ASSUME NEW k \in Kind, regular'
      PROVE  total'[k] = Held(Holders, k)'
  <2>1. regular /\ f \notin Holders
    BY <1>1, <1>6
  <2>2. \A g \in Holders' : usage'[g].held[k] \in Nat
    BY <1>1, <1>2, <1>4, HoldersHold DEF AccountsInv, AccountsTypeOK
  <2>3. Sum(usage', k, Holders') = usage'[f].held[k] + Sum(usage', k, Holders' \ {f})
    BY <1>4, <1>5, <2>2, SumWithout
  <2>4. Holders' \ {f} = Holders /\ usage'[f].held[k] = a[k]
    BY <1>1, <1>4, <2>1 DEF AccountsInv, AccountsTypeOK
  <2>5. \A g \in Holders : usage'[g].held[k] = usage[g].held[k]
    BY <1>1, <2>1 DEF AccountsInv, AccountsTypeOK, Holders
  <2>6. Sum(usage', k, Holders) = Sum(usage, k, Holders)
    BY <1>5, <2>5, SumAgrees
  <2>7. total[k] = Held(Holders, k) /\ total[k] \in Int /\ a[k] \in Nat
    <3>1. total[k] = Held(Holders, k)
      BY <2>1 DEF AccountsInv, Accounted
    <3>2. total[k] \in Int /\ a[k] \in Nat
      BY <1>2 DEF AccountsInv, AccountsTypeOK
    <3> QED BY <3>1, <3>2
  <2>8. Held(Holders, k)' = Sum(usage', k, Holders') /\ Held(Holders, k) = Sum(usage, k, Holders)
    BY HoldersTogether, HoldersTogetherNext DEF HeldTogether
  <2>9. Held(Holders, k)' = a[k] + Held(Holders, k)
    BY <2>3, <2>4, <2>6, <2>8, Zenon
  <2>10. total'[k] = total[k] + a[k]
    BY <1>1
  <2> QED BY <2>7, <2>9, <2>10
<1>7. \A k \in Kind : total'[k] <= Limit[k]
  BY <1>1
<1> QED BY <1>1, <1>3, <1>5, <1>6, <1>7 DEF AccountsInv, AccountsTypeOK, Accounted

LEMMA AdjustStep ==
  ASSUME AccountsInv, NEW f \in Flow, NEW a \in Amount, Adjust(f, a)
  PROVE  AccountsInv'
<1>1. PICK K \in SUBSET Kind :
        usage' = [usage EXCEPT ![f] =
                    [held |-> [k \in Kind |-> IF k \in K THEN a[k] ELSE @.held[k]],
                     updated |-> now]]
  BY DEF Adjust
<1>2. f \in Holders /\ now' = now /\ total' = total /\ regular' = FALSE
  BY DEF Adjust
<1>3. usage[f] \in Account
  BY <1>2, HoldersHold
<1> DEFINE h == [k \in Kind |-> IF k \in K THEN a[k] ELSE usage[f].held[k]]
<1>4. h \in [Kind -> Nat]
  BY <1>3, ResourceAssumption DEF Account
<1>5. usage' = [usage EXCEPT ![f] = [held |-> h, updated |-> now]]
  BY <1>1
<1> HIDE DEF h
<1>6. [held |-> h, updated |-> now] \in Account
  BY <1>4 DEF Account, AccountsInv, AccountsTypeOK
<1>7. usage' \in [Flow -> Account \cup {None}] /\ Holders' = Holders
  BY <1>2, <1>5, <1>6, NoneIsNoAccount DEF Holders, AccountsInv, AccountsTypeOK
<1> QED BY <1>2, <1>7 DEF AccountsInv, AccountsTypeOK, Accounted

(* What is freed is taken from the totals and from nobody else.            *)
LEMMA FreedStep ==
  ASSUME AccountsInv, NEW S, S \subseteq Holders, Freed(S), UNCHANGED <<now, regular>>
  PROVE  AccountsInv'
<1>1. /\ usage' = [f \in Flow |-> IF f \in S THEN None ELSE usage[f]]
      /\ total' = [k \in Kind |-> total[k] - Sum(usage, k, S)]
  BY HeldIsSum DEF Freed
<1>2. Holders' = Holders \ S
  BY <1>1 DEF Holders
<1>3. IsFiniteSet(Holders) /\ IsFiniteSet(S) /\ IsFiniteSet(Holders')
  BY <1>2, FS_Subset DEF AccountsInv, AccountsTypeOK
<1>4. ASSUME NEW k \in Kind
      PROVE  /\ Sum(usage, k, S) \in Nat
             /\ Sum(usage, k, Holders) = Sum(usage, k, S) + Sum(usage, k, Holders \ S)
             /\ Sum(usage, k, Holders \ S) \in Nat
             /\ Sum(usage', k, Holders') = Sum(usage, k, Holders \ S)
  <2>1. \A f \in Holders : usage[f].held[k] \in Nat
    BY HoldersHold
  <2>2. Sum(usage, k, S) \in Nat /\ Sum(usage, k, Holders \ S) \in Nat
    <3>1. (\A f \in S : usage[f].held[k] \in Nat) /\ \A f \in Holders \ S : usage[f].held[k] \in Nat
      BY <2>1
    <3>2. IsFiniteSet(Holders \ S)
      BY <1>2, <1>3
    <3> QED BY <3>1, <3>2, <1>3, SumNat
  <2>3. Sum(usage, k, Holders) = Sum(usage, k, S) + Sum(usage, k, Holders \ S)
    BY <1>3, <2>1, SumDifference
  <2>4. \A f \in Holders' : usage'[f].held[k] = usage[f].held[k]
    BY <1>1, <1>2 DEF Holders
  <2>5. Sum(usage', k, Holders') = Sum(usage, k, Holders')
    BY <1>3, <2>4, SumAgrees
  <2> QED BY <1>2, <2>2, <2>3, <2>5
<1>5. usage' \in [Flow -> Account \cup {None}] /\ total' \in [Kind -> Int]
  <2>1. \A k \in Kind : Sum(usage, k, S) \in Nat /\ total[k] \in Int
    BY <1>4 DEF AccountsInv, AccountsTypeOK
  <2>2. usage \in [Flow -> Account \cup {None}]
    BY DEF AccountsInv, AccountsTypeOK
  <2> QED BY <1>1, <2>1, <2>2
<1>6. ASSUME NEW k \in Kind
      PROVE  total'[k] <= Limit[k] /\ (regular' => total'[k] = Held(Holders, k)')
  <2>1. Held(Holders, k)' = Sum(usage', k, Holders') /\ Held(Holders, k) = Sum(usage, k, Holders)
    BY HoldersTogether, HoldersTogetherNext DEF HeldTogether
  <2>2. total[k] \in Int /\ total[k] <= Limit[k] /\ Limit[k] \in Nat
    BY ResourceAssumption DEF AccountsInv, AccountsTypeOK, Accounted
  <2>3. regular' => total[k] = Held(Holders, k)
    BY DEF AccountsInv, Accounted
  <2>4. total'[k] = total[k] - Sum(usage, k, S)
    BY <1>1
  <2> QED BY <1>4, <2>1, <2>2, <2>3, <2>4
<1> QED BY <1>3, <1>5, <1>6 DEF AccountsInv, AccountsTypeOK, Accounted

(* Holders and what they hold are as before, whatever the clock shows.     *)
LEMMA NothingFreedStep ==
  ASSUME AccountsInv, UNCHANGED <<usage, total, regular>>, now' \in Nat
  PROVE  AccountsInv'
<1>1. Holders' = Holders
  BY DEF Holders
<1>2. \A k \in Kind : Held(Holders, k)' = Held(Holders, k)
  <2>1. TAKE k \in Kind
  <2>2. Held(Holders, k)' = Sum(usage', k, Holders') /\ Held(Holders, k) = Sum(usage, k, Holders)
    BY HoldersTogether, HoldersTogetherNext DEF HeldTogether
  <2> QED BY <1>1, <2>2
<1> QED BY <1>1, <1>2 DEF AccountsInv, AccountsTypeOK, Accounted

LEMMA AccountsStepOK == AccountsInv /\ [Next]_vars => AccountsInv'
<1> SUFFICES ASSUME AccountsInv, [Next]_vars PROVE AccountsInv'
  OBVIOUS
<1>1. ASSUME NEW f \in Flow, NEW a \in Amount, Allocate(f, a) \/ Adjust(f, a) PROVE AccountsInv'
  BY <1>1, AllocateStep, AdjustStep
<1>2. ASSUME NEW f \in Flow, Release(f) PROVE AccountsInv'
  <2>1. {f} \subseteq Holders /\ Freed({f}) /\ UNCHANGED <<now, regular>>
    BY <1>2 DEF Release
  <2> QED BY <2>1, FreedStep
<1>3. ASSUME NEW f \in Flow, CleanupFlow(f) PROVE AccountsInv'
  <2>1. {f} \cap Holders \subseteq Holders /\ Freed({f} \cap Holders) /\ UNCHANGED <<now, regular>>
    BY <1>3 DEF CleanupFlow
  <2> QED BY <2>1, FreedStep
<1>4. CASE Collect
  <2>1. Stale \subseteq Holders /\ Freed(Stale) /\ UNCHANGED <<now, regular>>
    BY <1>4 DEF Collect, Stale
  <2> QED BY <2>1, FreedStep
<1>5. ASSUME NEW f \in Flow, StoreCheckpoint(f) PROVE AccountsInv'
  BY <1>5, NothingFreedStep DEF StoreCheckpoint, AccountsInv, AccountsTypeOK
<1>6. CASE Stop \/ Tick \/ UNCHANGED vars
  <2>1. UNCHANGED <<usage, total, regular>> /\ now' \in Nat
    BY <1>6 DEF Stop, Tick, vars, accounts, AccountsInv, AccountsTypeOK
  <2> QED BY <2>1, NothingFreedStep
<1>7. ASSUME NEW t \in Thread,
             \/ Enter(t) \/ Execute(t) \/ Timed(t) \/ OpenHalf(t)
             \/ ExitSuccess(t) \/ Close(t) \/ ResetCount(t)
             \/ ExitFailure(t) \/ Count(t) \/ Stamp(t) \/ Judge(t) \/ Trip(t)
      PROVE  AccountsInv'
  <2>1. UNCHANGED <<now, accounts>>
    BY <1>7 DEF Enter, Execute, Timed, OpenHalf, ExitSuccess, Close, ResetCount,
                ExitFailure, Count, Stamp, Judge, Trip, Reads, Writes, Goes
  <2> QED BY <2>1, NothingFreedStep DEF accounts, AccountsInv, AccountsTypeOK
<1>8. CASE Configure
  <2>1. UNCHANGED <<now, accounts>>
    BY <1>8 DEF Configure
  <2> QED BY <2>1, NothingFreedStep DEF accounts, AccountsInv, AccountsTypeOK
<1> QED BY <1>1, <1>2, <1>3, <1>4, <1>5, <1>6, <1>7, <1>8 DEF Next

(* The totals, by which allocations are refused, never exceed the limits,  *)
(* and are the sum of what workflows hold as long as each allocates once   *)
(* before it releases: releases, clean-ups and the collector give back     *)
(* exactly what the workflow they free had been allocated.                 *)
THEOREM AccountsCorrect == Spec => []Accounted
<1>1. Spec => []AccountsInv
  BY AccountsInitOK, AccountsStepOK, PTL DEF Spec
<1>2. AccountsInv => Accounted
  BY DEF AccountsInv
<1> QED BY <1>1, <1>2, PTL

-----------------------------------------------------------------------------
(***************************************************************************)
(* Calls that are tried again.  Calls that share a RetryState can each be  *)
(* executing when the last attempt is counted; the invariant counts those  *)
(* with the attempts.                                                      *)
(***************************************************************************)

Executing(s) == {c \in Call : state[c] = s /\ at[c] = "executing"}

(* A call has a state since it began; a state belongs to the call that     *)
(* made it, which uses it; one that nobody uses has counted nothing.       *)
SharesOK ==
  /\ \A c \in Call : at[c] = "idle" <=> state[c] = NoCall
  /\ \A c \in Call : state[c] # NoCall => state[state[c]] = state[c]
  /\ stored # NoCall => state[stored] = stored
  /\ \A s \in Call : Sharers(s) = {} => attempts[s] = 0

(* An attempt is counted when it fails.                                    *)
TriedOK ==
  \A c \in Call :
    /\ tried[c] <= RetryCount
    /\ at[c] = "idle" => tried[c] = 0
    /\ at[c] = "executing" => tried[c] <= attempts[state[c]] + 1
    /\ at[c] = "sleeping" => tried[c] <= attempts[state[c]]

(* What was counted and what may still be counted                          *)
CountOK ==
  \A s \in Call : Sharers(s) # {} =>
    attempts[s] + Cardinality(Executing(s)) < RetryCount + Cardinality(Sharers(s))

RetryInv == RetryTypeOK /\ SharesOK /\ TriedOK /\ CountOK

-----------------------------------------------------------------------------
LEMMA SetsOfCalls ==
  ASSUME NEW S, S \subseteq Call
  PROVE  /\ IsFiniteSet(S) /\ Cardinality(S) \in Nat
         /\ \A T \in SUBSET S : Cardinality(T) <= Cardinality(S) /\ Cardinality(T) \in Nat
<1>1. IsFiniteSet(S)
  BY FS_Subset, RetryAssumption
<1> QED BY <1>1, FS_Subset, FS_CardinalityType

LEMMA RetryInitOK == RetryInit => RetryInv
<1> SUFFICES ASSUME RetryInit PROVE RetryInv
  OBVIOUS
<1>1. RetryTypeOK
  BY RetryAssumption DEF RetryInit, RetryTypeOK
<1>2. \A s \in Call : Sharers(s) = {}
  BY RetryAssumption DEF RetryInit, Sharers
<1>3. SharesOK
  BY <1>2 DEF RetryInit, SharesOK
<1>4. TriedOK
  BY RetryAssumption DEF RetryInit, TriedOK
<1> QED BY <1>1, <1>2, <1>3, <1>4 DEF RetryInv, CountOK

(* The call that goes on executing has a state that is not used up.        *)
LEMMA BeginStep ==
  ASSUME RetryInv, NEW c \in Call, Begin(c)
  PROVE  RetryInv'
<1>0. PICK s \in Call : s = IF stored = NoCall THEN c ELSE stored
  BY DEF RetryInv, RetryTypeOK
<1>1. /\ at[c] = "idle" /\ state[c] = NoCall /\ tried[c] = 0
      /\ state' = [state EXCEPT ![c] = s]
      /\ UNCHANGED <<attempts, stored, reports>>
  BY <1>0 DEF Begin, RetryInv, SharesOK, TriedOK
<1>2. \/ /\ attempts[s] < RetryCount
         /\ at' = [at EXCEPT ![c] = "executing"]
         /\ tried' = [tried EXCEPT ![c] = @ + 1]
      \/ at' = [at EXCEPT ![c] = "gave_up"] /\ UNCHANGED tried
  BY <1>0 DEF Begin, Loop
<1>3. stored # NoCall => s = stored /\ state[s] = s
  BY <1>0 DEF RetryInv, SharesOK
<1>4. stored = NoCall => s = c
  BY <1>0
<1>5. /\ \A d \in Call : state'[d] = IF d = c THEN s ELSE state[d]
      /\ \A d \in Call : d # c => at'[d] = at[d] /\ tried'[d] = tried[d]
      /\ at'[c] \in {"executing", "gave_up"}
      /\ \A u \in Call : attempts[u] \in Nat /\ tried[u] \in Nat
  BY <1>1, <1>2 DEF RetryInv, RetryTypeOK
<1>6. RetryTypeOK'
  BY <1>1, <1>2 DEF RetryInv, RetryTypeOK, Ended
<1>7. /\ Sharers(s)' = Sharers(s) \cup {c} /\ c \notin Sharers(s)
      /\ \A u \in Call : u # s => Sharers(u)' = Sharers(u) /\ Executing(u)' = Executing(u)
  <2>1. \A u \in Call : Sharers(u)' = {d \in Call : state'[d] = u}
    BY DEF Sharers
  <2>2. \A u \in Call : Executing(u)' = {d \in Call : state'[d] = u /\ at'[d] = "executing"}
    BY DEF Executing
  <2>3. s # NoCall /\ state[c] # s
    BY <1>1, RetryAssumption
  <2>4. Sharers(s)' = Sharers(s) \cup {c} /\ c \notin Sharers(s)
    BY <2>1, <2>3, <1>1, <1>5 DEF Sharers
  <2>5. ASSUME NEW u \in Call, u # s
        PROVE  Sharers(u)' = Sharers(u) /\ Executing(u)' = Executing(u)
    <3>1. \A d \in Call : state'[d] = u <=> state[d] = u
      BY <2>5, <1>1, <1>5, RetryAssumption
    <3>2. \A d \in Call : state[d] = u => at'[d] = at[d]
      BY <1>1, <1>5, RetryAssumption
    <3> QED BY <3>1, <3>2, <2>1, <2>2 DEF Sharers, Executing
  <2> QED BY <2>4, <2>5
<1>8. SharesOK'
  <2>1. \A d \in Call : at'[d] = "idle" <=> state'[d] = NoCall
    BY <1>1, <1>5, RetryAssumption DEF RetryInv, SharesOK
  <2>2. state'[s] = s
    BY <1>1, <1>3, <1>4, <1>5
  <2>3. \A d \in Call : state'[d] # NoCall => state'[state'[d]] = state'[d]
    <3>1. SUFFICES ASSUME NEW d \in Call, d # c, state[d] # NoCall
                   PROVE  state'[state[d]] = state[d]
      BY <1>5, <2>2
    <3>2. state[d] \in Call /\ state[state[d]] = state[d]
      BY <3>1 DEF RetryInv, SharesOK, RetryTypeOK
    <3>3. state[d] # c
      BY <3>1, <3>2, <1>1
    <3> QED BY <3>2, <3>3, <1>5
  <2>4. stored' # NoCall => state'[stored'] = stored'
    BY <2>2, <1>1, <1>3
  <2>5. \A u \in Call : Sharers(u)' = {} => attempts'[u] = 0
    <3>1. SUFFICES ASSUME NEW u \in Call, Sharers(u)' = {} PROVE attempts[u] = 0
      BY <1>1
    <3>2. Sharers(u) = {}
      BY <3>1, <1>7
    <3> QED BY <3>2 DEF RetryInv, SharesOK
  <2> QED BY <2>1, <2>3, <2>4, <2>5 DEF SharesOK
<1>9. TriedOK'
  <2>1. tried'[c] <= RetryCount /\ (at'[c] = "executing" => tried'[c] <= attempts'[state'[c]] + 1)
    BY <1>1, <1>2, <1>5, RetryAssumption DEF RetryInv, RetryTypeOK
  <2>2. \A d \in Call : d # c => /\ tried'[d] = tried[d] /\ at'[d] = at[d]
                                 /\ state'[d] = state[d] /\ attempts' = attempts
    BY <1>1, <1>5
  <2> QED BY <2>1, <2>2, <1>5 DEF RetryInv, TriedOK
<1>10. CountOK'
  <2>1. ASSUME NEW u \in Call, u # s, Sharers(u)' # {}
        PROVE  attempts'[u] + Cardinality(Executing(u)') < RetryCount + Cardinality(Sharers(u)')
    BY <2>1, <1>1, <1>7 DEF RetryInv, CountOK
  <2>2. attempts'[s] + Cardinality(Executing(s)') < RetryCount + Cardinality(Sharers(s)')
    <3>1. /\ Executing(s)' \subseteq Sharers(s)' /\ Sharers(s)' \subseteq Call
          /\ Sharers(s) \subseteq Call /\ Executing(s) \subseteq Sharers(s)
      BY DEF Executing, Sharers
    <3>2. /\ Cardinality(Executing(s)') \in Nat /\ Cardinality(Sharers(s)') \in Nat
          /\ Cardinality(Executing(s)') <= Cardinality(Sharers(s)')
          /\ Cardinality(Executing(s)) \in Nat /\ Cardinality(Sharers(s)) \in Nat
          /\ IsFiniteSet(Sharers(s))
      BY <3>1, SetsOfCalls
    <3>3. Cardinality(Sharers(s)') = Cardinality(Sharers(s)) + 1
      BY <1>7, <3>2, FS_AddElement
    <3>4. attempts'[s] = attempts[s] /\ attempts[s] \in Nat /\ RetryCount \in Nat
      BY <1>1, <1>5, RetryAssumption
    <3>5. CASE attempts[s] < RetryCount
      BY <3>5, <3>2, <3>4
    <3>6. CASE ~(attempts[s] < RetryCount)
      <4>1. at'[c] = "gave_up"
        BY <3>6, <1>1, <1>2 DEF RetryInv, RetryTypeOK
      <4>2. Executing(s)' = Executing(s)
        <5>1. \A d \in Call : (state'[d] = s /\ at'[d] = "executing")
                               <=> (state[d] = s /\ at[d] = "executing")
          BY <4>1, <1>1, <1>5
        <5>2. Executing(s)' = {d \in Call : state'[d] = s /\ at'[d] = "executing"}
          BY DEF Executing
        <5> QED BY <5>1, <5>2 DEF Executing
      <4>3. CASE Sharers(s) = {}
        <5>1. Cardinality(Executing(s)) = 0 /\ attempts[s] = 0
          BY <4>3, <3>1, <1>1, FS_EmptySet DEF RetryInv, SharesOK
        <5> QED BY <5>1, <4>2, <3>2, <3>3, <3>4
      <4>4. CASE Sharers(s) # {}
        <5>1. attempts[s] + Cardinality(Executing(s)) < RetryCount + Cardinality(Sharers(s))
          BY <4>4, <1>1 DEF RetryInv, CountOK
        <5> QED BY <5>1, <4>2, <3>2, <3>3, <3>4
      <4> QED BY <4>3, <4>4
    <3> QED BY <3>5, <3>6
  <2>3. SUFFICES ASSUME NEW u \in Call, Sharers(u)' # {}
                 PROVE  attempts'[u] + Cardinality(Executing(u)') < RetryCount + Cardinality(Sharers(u)')
    BY DEF CountOK
  <2>4. CASE u = s
    BY <2>2, <2>4
  <2>5. CASE u # s
    BY <2>1, <2>3, <2>5
  <2> QED BY <2>4, <2>5
<1> QED BY <1>6, <1>8, <1>9, <1>10 DEF RetryInv

(* The delay is over: the same, for a state that the call has already.     *)
LEMMA WakeStep ==
  ASSUME RetryInv, NEW c \in Call, Wake(c)
  PROVE  RetryInv'
<1> DEFINE s == state[c]
<1>1. /\ at[c] = "sleeping" /\ s \in Call /\ UNCHANGED <<state, attempts, stored, reports>>
      /\ \A u \in Call : attempts[u] \in Nat /\ tried[u] \in Nat
  BY DEF Wake, RetryInv, SharesOK, RetryTypeOK
<1>2. \/ /\ attempts[s] < RetryCount
         /\ at' = [at EXCEPT ![c] = "executing"]
         /\ tried' = [tried EXCEPT ![c] = @ + 1]
      \/ at' = [at EXCEPT ![c] = "gave_up"] /\ UNCHANGED tried
  BY DEF Wake, Loop
<1>3. /\ \A d \in Call : d # c => at'[d] = at[d] /\ tried'[d] = tried[d]
      /\ at'[c] \in {"executing", "gave_up"}
  BY <1>1, <1>2 DEF RetryInv, RetryTypeOK
<1>4. RetryTypeOK'
  BY <1>1, <1>2 DEF RetryInv, RetryTypeOK, Ended
<1>5. \A u \in Call : Sharers(u)' = Sharers(u) /\ (u # s => Executing(u)' = Executing(u))
  BY <1>1, <1>3 DEF Sharers, Executing
<1>6. SharesOK'
  BY <1>1, <1>3, <1>5 DEF RetryInv, SharesOK
<1>7. TriedOK'
  <2>1. tried'[c] <= RetryCount /\ (at'[c] = "executing" => tried'[c] <= attempts'[state'[c]] + 1)
    BY <1>1, <1>2, RetryAssumption DEF RetryInv, RetryTypeOK, TriedOK
  <2> QED BY <2>1, <1>1, <1>3 DEF RetryInv, TriedOK
<1>8. CountOK'
  <2>1. SUFFICES ASSUME NEW u \in Call, Sharers(u)' # {}
        PROVE  attempts'[u] + Cardinality(Executing(u)') < RetryCount + Cardinality(Sharers(u)')
    BY DEF CountOK
  <2>2. attempts[u] + Cardinality(Executing(u)) < RetryCount + Cardinality(Sharers(u))
    BY <2>1, <1>5 DEF RetryInv, CountOK
  <2>3. CASE Executing(u)' = Executing(u)
    BY <2>2, <2>3, <1>1, <1>5
  <2>4. CASE Executing(u)' # Executing(u)
    <3>1. u = s /\ (attempts[s] < RetryCount)
      <4>1. u = s
        BY <2>4, <1>5
      <4>2. at'[c] = "gave_up" => Executing(u)' = Executing(u)
        BY <1>1, <1>3 DEF Executing
      <4> QED BY <4>1, <4>2, <2>4, <1>1, <1>2 DEF RetryInv, RetryTypeOK
    <3>2. Executing(s)' \subseteq Sharers(s) /\ Sharers(s) \subseteq Call
      BY <1>1 DEF Executing, Sharers
    <3>3. /\ Cardinality(Executing(s)') <= Cardinality(Sharers(s))
          /\ Cardinality(Executing(s)') \in Nat /\ Cardinality(Sharers(s)) \in Nat
      BY <3>2, SetsOfCalls
    <3> QED BY <3>1, <3>3, <1>1, <1>5, RetryAssumption
  <2> QED BY <2>3, <2>4
<1> QED BY <1>4, <1>6, <1>7, <1>8 DEF RetryInv

(* A call that ends, or waits, without a failure or with one that is       *)
(* counted: what is counted was to be counted.                             *)
LEMMA EndOfAttempt ==
  ASSUME RetryInv, NEW c \in Call, at[c] = "executing",
         NEW k \in {0, 1}, NEW a \in {"sleeping", "succeeded", "gave_up"},
         at' = [at EXCEPT ![c] = a],
         a = "sleeping" => k = 1,
         attempts' = [attempts EXCEPT ![state[c]] = @ + k],
         stored' \in {stored, NoCall, state[c]},
         UNCHANGED <<state, tried, reports>>
  PROVE  RetryInv'
<1> DEFINE s == state[c]
<1>1. /\ s \in Call /\ state[s] = s
      /\ \A u \in Call : attempts[u] \in Nat /\ tried[u] \in Nat
      /\ \A u \in Call : attempts'[u] = IF u = s THEN attempts[u] + k ELSE attempts[u]
      /\ \A d \in Call : at'[d] = IF d = c THEN a ELSE at[d]
  BY DEF RetryInv, SharesOK, RetryTypeOK
<1>2. RetryTypeOK'
  BY <1>1 DEF RetryInv, RetryTypeOK, Ended
<1>3. /\ \A u \in Call : Sharers(u)' = Sharers(u) /\ (u # s => Executing(u)' = Executing(u))
      /\ Executing(s)' = Executing(s) \ {c} /\ c \in Executing(s) /\ c \in Sharers(s)
  BY <1>1 DEF Sharers, Executing
<1>4. SharesOK'
  BY <1>1, <1>3 DEF RetryInv, SharesOK
<1>5. TriedOK'
  <2>1. SUFFICES ASSUME NEW d \in Call
                 PROVE  /\ tried[d] <= RetryCount
                        /\ at'[d] = "idle" => tried[d] = 0
                        /\ at'[d] = "executing" => tried[d] <= attempts'[state[d]] + 1
                        /\ at'[d] = "sleeping" => tried[d] <= attempts'[state[d]]
    BY DEF TriedOK
  <2>2. state[d] \in Call \cup {NoCall}
    BY DEF RetryInv, RetryTypeOK
  <2>3. CASE d = c
    BY <2>3, <1>1 DEF RetryInv, TriedOK
  <2>4. CASE d # c
    <3>1. at'[d] = at[d]
      BY <2>4, <1>1
    <3>2. at[d] # "idle" => state[d] \in Call /\ attempts'[state[d]] >= attempts[state[d]]
      BY <2>2, <1>1 DEF RetryInv, SharesOK
    <3>3. at[d] # "idle" => attempts[state[d]] \in Nat /\ attempts'[state[d]] \in Nat
      BY <3>2, <1>1
    <3> QED BY <3>1, <3>2, <3>3, <1>1 DEF RetryInv, TriedOK
  <2> QED BY <2>3, <2>4
<1>6. CountOK'
  <2>1. SUFFICES ASSUME NEW u \in Call, Sharers(u) # {}
        PROVE  attempts'[u] + Cardinality(Executing(u)') < RetryCount + Cardinality(Sharers(u))
    BY <1>3 DEF CountOK
  <2>2. attempts[u] + Cardinality(Executing(u)) < RetryCount + Cardinality(Sharers(u))
    BY <2>1 DEF RetryInv, CountOK
  <2>3. CASE u # s
    BY <2>2, <2>3, <1>1, <1>3
  <2>4. CASE u = s
    <3>1. Executing(s) \subseteq Call /\ Sharers(s) \subseteq Call
      BY DEF Executing, Sharers
    <3>2. /\ IsFiniteSet(Executing(s)) /\ Cardinality(Executing(s)) \in Nat
          /\ Cardinality(Sharers(s)) \in Nat
      BY <3>1, SetsOfCalls
    <3>3. Cardinality(Executing(s)') = Cardinality(Executing(s)) - 1
      BY <1>3, <3>2, FS_RemoveElement
    <3> QED BY <2>2, <2>4, <3>2, <3>3, <1>1, RetryAssumption
  <2> QED BY <2>3, <2>4
<1> QED BY <1>2, <1>4, <1>5, <1>6 DEF RetryInv

LEMMA SucceedStep ==
  ASSUME RetryInv, NEW c \in Call, Succeed(c)
  PROVE  RetryInv'
<1>1. attempts' = [attempts EXCEPT ![state[c]] = @ + 0]
  <2>1. \A u \in Call : attempts[u] \in Nat
    BY DEF RetryInv, RetryTypeOK
  <2>2. state[c] \in Call /\ attempts' = attempts
    BY DEF Succeed, RetryInv, RetryTypeOK, SharesOK
  <2> QED BY <2>1, <2>2 DEF RetryInv, RetryTypeOK
<1> QED BY <1>1, EndOfAttempt DEF Succeed

LEMMA FailStep ==
  ASSUME RetryInv, NEW c \in Call, Fail(c) \/ FailForGood(c)
  PROVE  RetryInv'
<1>1. /\ at[c] = "executing"
      /\ attempts' = [attempts EXCEPT ![state[c]] = @ + 1]
      /\ stored' \in {stored, NoCall, state[c]}
      /\ UNCHANGED <<state, tried, reports>>
  BY DEF Fail, FailForGood
<1>2. at' = [at EXCEPT ![c] = "sleeping"] \/ at' = [at EXCEPT ![c] = "gave_up"]
  BY DEF Fail, FailForGood
<1> QED BY <1>1, <1>2, EndOfAttempt

LEMMA OthersStep ==
  ASSUME RetryInv, ClearRetryState \/ ReportSubAgent \/ ClearSubAgent \/ UNCHANGED retryVars
  PROVE  RetryInv'
<1>1. UNCHANGED <<state, attempts, at, tried>> /\ stored' \in {stored, NoCall}
  BY DEF ClearRetryState, ReportSubAgent, ClearSubAgent, retryVars
<1>2. reports' \in [count : 0..MaxReports, answer : {"none", "retry", "fail"}]
  BY RetryAssumption DEF ClearRetryState, ReportSubAgent, ClearSubAgent, retryVars, RetryInv, RetryTypeOK
<1>3. RetryTypeOK'
  BY <1>1, <1>2 DEF RetryInv, RetryTypeOK
<1>4. SharesOK' /\ TriedOK'
  BY <1>1 DEF RetryInv, SharesOK, TriedOK, Sharers
<1>5. CountOK'
  BY <1>1 DEF RetryInv, CountOK, Sharers, Executing
<1> QED BY <1>3, <1>4, <1>5 DEF RetryInv

LEMMA RetryStepOK == RetryInv /\ [RetryNext]_retryVars => RetryInv'
BY BeginStep, WakeStep, SucceedStep, FailStep, OthersStep DEF RetryNext, Advance

LEMMA RetryInvariant == RetrySpec => []RetryInv
BY RetryInitOK, RetryStepOK, PTL DEF RetrySpec

-----------------------------------------------------------------------------
(* The states of retries have the form that RetryManager gives them.       *)
THEOREM RetryTypeCorrect == RetrySpec => []RetryTypeOK
<1>1. RetryInv => RetryTypeOK
  BY DEF RetryInv
<1> QED BY RetryInvariant, <1>1, PTL

(* Calls of execute_with_retry that share a RetryState, lose it to a       *)
(* success or find it used up never execute more than retry_count times.   *)
THEOREM AttemptsAreBounded == RetrySpec => []AttemptsBounded
<1>1. ASSUME RetryInv PROVE AttemptsBounded
  <2>1. ASSUME NEW s \in Call, Sharers(s) # {}
        PROVE  attempts[s] < RetryCount + Cardinality(Sharers(s))
    <3>1. Executing(s) \subseteq Call /\ Sharers(s) \subseteq Call
      BY DEF Executing, Sharers
    <3>2. Cardinality(Executing(s)) \in Nat /\ Cardinality(Sharers(s)) \in Nat
      BY <3>1, SetsOfCalls
    <3>3. attempts[s] + Cardinality(Executing(s)) < RetryCount + Cardinality(Sharers(s))
      BY <2>1, <1>1 DEF RetryInv, CountOK
    <3>4. attempts[s] \in Nat
      BY <1>1 DEF RetryInv, RetryTypeOK
    <3> QED BY <3>2, <3>3, <3>4, RetryAssumption
  <2> QED BY <2>1, <1>1 DEF RetryInv, TriedOK, AttemptsBounded
<1> QED BY RetryInvariant, <1>1, PTL

-----------------------------------------------------------------------------
(***************************************************************************)
(* Errors of parallel tasks.  Overlapping reports do not lose the order to *)
(* stop: once too many tasks have failed, either somebody was told to stop *)
(* or a report is still to be decided.                                     *)
(***************************************************************************)

TooMany == 100 * Cardinality(errors) > Percent * Cardinality(Task)

(* Too many failures are never without an order to stop, or a report that  *)
(* will lead to it; errors that are counted have a number of tasks.        *)
StopDue ==
  /\ errors # {} => tasks > 0
  /\ ErrorStrategy = "threshold" /\ TooMany =>
       \/ \E t \in Task : reporting[t] = "added"
       \/ \E t \in Task : "stop_all" \in answers[t]

ErrorsInv == ParallelTypeOK /\ StopDue

-----------------------------------------------------------------------------
(* Numbers and sets                                                        *)

LEMMA TasksCounted ==
  ASSUME NEW S, S \subseteq Task
  PROVE  /\ IsFiniteSet(S)
         /\ Cardinality(S) \in Nat
         /\ Cardinality(S) <= Cardinality(Task)
         /\ S # {} => Cardinality(S) > 0
         /\ Cardinality(Task) \in Nat
<1>1. IsFiniteSet(S) /\ Cardinality(S) <= Cardinality(Task)
  BY FS_Subset, ParallelAssumption
<1>2. Cardinality(S) \in Nat /\ Cardinality(Task) \in Nat
  BY <1>1, FS_CardinalityType, ParallelAssumption
<1>3. S # {} => Cardinality(S) # 0
  BY <1>1, FS_EmptySet
<1> QED BY <1>1, <1>2, <1>3

(* A smaller number of tasks lowers the threshold.                         *)
LEMMA ThresholdMonotone ==
  ASSUME NEW p \in Nat, NEW a \in Nat, NEW b \in Nat, a <= b
  PROVE  p * a <= p * b
<1>1. PICK d \in Nat : b = a + d
  BY SMT
<1>2. p * b = p * a + p * d /\ p * d \in Nat /\ p * a \in Nat
  BY <1>1, SMT
<1> QED BY <1>2

-----------------------------------------------------------------------------
(* The inductive invariant                                                 *)

LEMMA ErrorsInitOK == ParallelInit => ErrorsInv
<1> SUFFICES ASSUME ParallelInit PROVE ErrorsInv
  OBVIOUS
<1>1. Cardinality({}) = 0 /\ Cardinality(Task) \in Nat
  BY FS_EmptySet, TasksCounted
<1>2. ParallelTypeOK
  BY <1>1 DEF ParallelInit, ParallelTypeOK
<1>3. Percent * Cardinality(Task) \in Nat
  BY <1>1, ParallelAssumption
<1>4. ~TooMany
  BY <1>1, <1>3 DEF ParallelInit, TooMany
<1> QED BY <1>2, <1>4 DEF ErrorsInv, StopDue, ParallelInit

LEMMA AddTaskErrorStep ==
  ASSUME ErrorsInv, NEW t \in Task, AddTaskError(t)
  PROVE  ErrorsInv'
<1>1. /\ errors' = errors \cup {t} /\ errors' \subseteq Task
      /\ failed' = IF t \in errors THEN failed ELSE failed + 1
      /\ recovered' = recovered \ {t}
      /\ reporting' = [reporting EXCEPT ![t] = "added"] /\ UNCHANGED answers
  BY DEF AddTaskError, ErrorsInv, ParallelTypeOK
<1>2. errors \subseteq Task /\ failed = Cardinality(errors)
  BY DEF ErrorsInv, ParallelTypeOK
<1>3. failed' = Cardinality(errors')
  BY <1>1, <1>2, TasksCounted, FS_AddElement
<1>4. tasks' \in 0..Cardinality(Task) /\ tasks' > 0
  <2>1. PICK given \in {tasks, Cardinality(Task)} :
          tasks' = IF given < Cardinality(errors') THEN Cardinality(errors') ELSE given
    BY DEF AddTaskError
  <2>2. given \in 0..Cardinality(Task)
    BY TasksCounted DEF ErrorsInv, ParallelTypeOK
  <2>3. /\ Cardinality(errors') \in Nat /\ Cardinality(errors') > 0
        /\ Cardinality(errors') <= Cardinality(Task) /\ Cardinality(Task) \in Nat
    BY <1>1, TasksCounted
  <2> QED BY <2>1, <2>2, <2>3
<1>5. reporting' \in [Task -> {"no", "added"}] /\ reporting'[t] = "added"
  BY <1>1 DEF ErrorsInv, ParallelTypeOK
<1>6. ParallelTypeOK'
  BY <1>1, <1>3, <1>4, <1>5 DEF ErrorsInv, ParallelTypeOK
<1> QED BY <1>4, <1>5, <1>6 DEF ErrorsInv, StopDue

(* A report that is decided when too many tasks have failed says stop.     *)
LEMMA DecideStep ==
  ASSUME ErrorsInv, NEW t \in Task, Decide(t)
  PROVE  ErrorsInv'
<1> DEFINE answer == IF ErrorStrategy = "fail_fast" \/ (ErrorStrategy = "threshold" /\ Exceeded)
                     THEN "stop_all" ELSE "continue"
<1>1. /\ reporting' = [reporting EXCEPT ![t] = "no"]
      /\ answers' = [answers EXCEPT ![t] = @ \cup {answer}]
      /\ UNCHANGED <<errors, failed, tasks, recovered>>
  BY DEF Decide
<1>2. answer \in {"stop_all", "continue"}
  OBVIOUS
<1> HIDE DEF answer
<1>3. ParallelTypeOK'
  BY <1>1, <1>2 DEF ErrorsInv, ParallelTypeOK
<1>4. ASSUME ErrorStrategy = "threshold", TooMany
      PROVE  "stop_all" \in answers'[t]
  <2>1. /\ failed = Cardinality(errors) /\ errors \subseteq Task
        /\ tasks \in 0..Cardinality(Task) /\ failed \in Nat /\ Cardinality(Task) \in Nat
    BY TasksCounted DEF ErrorsInv, ParallelTypeOK
  <2>2. Percent \in Nat /\ tasks \in Nat /\ tasks <= Cardinality(Task)
    BY <2>1, ParallelAssumption
  <2>3. errors # {}
    <3>1. SUFFICES ASSUME errors = {} PROVE FALSE
      OBVIOUS
    <3>2. Cardinality(errors) = 0 /\ Percent * Cardinality(Task) \in Nat
      BY <3>1, <2>1, <2>2, FS_EmptySet
    <3> QED BY <3>2, <1>4 DEF TooMany
  <2>4. tasks > 0
    BY <2>3 DEF ErrorsInv, StopDue
  <2>5. /\ Percent * tasks <= Percent * Cardinality(Task)
        /\ Percent * tasks \in Nat /\ Percent * Cardinality(Task) \in Nat
    BY <2>1, <2>2, ThresholdMonotone
  <2>6. Exceeded
    BY <2>1, <2>4, <2>5, <1>4 DEF Exceeded, TooMany
  <2>7. answer = "stop_all"
    BY <2>6, <1>4 DEF answer
  <2> QED BY <2>7, <1>1 DEF ErrorsInv, ParallelTypeOK
<1>5. StopDue'
  BY <1>1, <1>4 DEF StopDue, TooMany, ErrorsInv
<1> QED BY <1>3, <1>5 DEF ErrorsInv

LEMMA RecoverStep ==
  ASSUME ErrorsInv, NEW t \in Task, Recover(t)
  PROVE  ErrorsInv'
<1>1. /\ UNCHANGED <<errors, failed, tasks, reporting, answers>>
      /\ recovered' \subseteq errors
  BY DEF Recover, ErrorsInv, ParallelTypeOK
<1> QED BY <1>1 DEF ErrorsInv, ParallelTypeOK, StopDue, TooMany

LEMMA ClearErrorsStep ==
  ASSUME ErrorsInv, ClearErrors
  PROVE  ErrorsInv'
<1>1. /\ errors' = {} /\ failed' = 0 /\ tasks' = 0 /\ recovered' = {}
      /\ answers' = [t \in Task |-> {}] /\ UNCHANGED reporting
  BY DEF ClearErrors
<1>2. Cardinality({}) = 0 /\ Cardinality(Task) \in Nat /\ Percent * Cardinality(Task) \in Nat
  BY FS_EmptySet, TasksCounted, ParallelAssumption
<1>3. ~TooMany'
  BY <1>1, <1>2 DEF TooMany
<1>4. ParallelTypeOK'
  BY <1>1, <1>2 DEF ErrorsInv, ParallelTypeOK
<1> QED BY <1>1, <1>3, <1>4 DEF ErrorsInv, StopDue

LEMMA ErrorsStepOK == ErrorsInv /\ [ParallelNext]_parallelVars => ErrorsInv'
<1> SUFFICES ASSUME ErrorsInv, [ParallelNext]_parallelVars PROVE ErrorsInv'
  OBVIOUS
<1>1. ASSUME NEW t \in Task, AddTaskError(t) \/ Decide(t) \/ Recover(t) PROVE ErrorsInv'
  BY <1>1, AddTaskErrorStep, DecideStep, RecoverStep
<1>2. CASE ClearErrors
  BY <1>2, ClearErrorsStep
<1>3. CASE UNCHANGED parallelVars
  BY <1>3 DEF parallelVars, ErrorsInv, ParallelTypeOK, StopDue, TooMany
<1> QED BY <1>1, <1>2, <1>3 DEF ParallelNext

LEMMA ErrorsInvariant == ParallelSpec => []ErrorsInv
BY ErrorsInitOK, ErrorsStepOK, PTL DEF ParallelSpec

-----------------------------------------------------------------------------
(* The tables of the aggregator agree with each other: as many failed      *)
(* tasks are counted as have an error, never more than there are tasks.    *)
THEOREM ErrorsTypeCorrect == ParallelSpec => []ParallelTypeOK
<1>1. ErrorsInv => ParallelTypeOK
  BY DEF ErrorsInv
<1> QED BY ErrorsInvariant, <1>1, PTL

(* Of reports that overlap between the two sections of handle_task_error,  *)
(* at least one is answered with the order to stop, once more tasks have   *)
(* failed than the threshold allows.                                       *)
THEOREM StopIsAnswered == ParallelSpec => []StopAnswered
<1>1. ASSUME ErrorsInv PROVE StopAnswered
  <2>1. (\A t \in Task : reporting[t] = "no") => ~\E t \in Task : reporting[t] = "added"
    OBVIOUS
  <2> QED BY <1>1, <2>1 DEF ErrorsInv, StopDue, TooMany, StopAnswered
<1> QED BY ErrorsInvariant, <1>1, PTL

-----------------------------------------------------------------------------
(***************************************************************************)
(* Timeouts: what is below an operation expires with it, and no callback   *)
(* comes late.  Most actions leave the ends of the operations alone, start *)
(* some anew or end some that lose their callbacks; one lemma is about all *)
(* of these.                                                               *)
(***************************************************************************)
Contexts == [Id -> Mark \cup {Nothing}]

(* Only asynchronous operations have tasks.                                *)
TasksOK == \A i \in Id : task[i].at # "none" => i \in Async

(* An operation that has a callback still runs, or its time is over.       *)
CallbackOK ==
  \A i \in callbacks \ Async :
    ~ctx[i].cancelled /\ (ctx[i].end = Nothing \/ ctx[i].timed_out)

IInv == TimeoutsTypeOK /\ TasksOK /\ CallbackOK

(* What becomes of the context of an operation: nothing that matters here, *)
(* or it is started, or it ends and has no callbacks any more.             *)
Alike(f, g, i) ==
  /\ f[i] = Nothing <=> g[i] = Nothing
  /\ f[i] # Nothing => /\ g[i].end = f[i].end
                    /\ g[i].timed_out = f[i].timed_out
                    /\ g[i].cancelled = f[i].cancelled

Fresh(g, i) == g[i] # Nothing /\ g[i].end = Nothing /\ ~g[i].timed_out /\ ~g[i].cancelled

Over(f, g, i) ==
  g[i] # Nothing =>
    f[i] # Nothing /\ g[i].end # Nothing /\ g[i].timed_out = f[i].timed_out

NoneExpires ==
  \A i \in Id : (ctx'[i] # Nothing /\ ctx'[i].timed_out) => (ctx[i] # Nothing /\ ctx[i].timed_out)

-----------------------------------------------------------------------------
(* Contexts                                                                *)

LEMMA Assumed ==
  /\ Nothing \notin Id /\ Nothing \notin Nat /\ Nothing \notin Mark /\ Async \subseteq Id
  /\ \A i \in Id : Parent[i] \in Id \cup {Nothing}
  /\ Duration \subseteq Nat
  /\ StepDefault \in Nat /\ FlowDefault \in Nat /\ LastTime \in Nat /\ MaxCalls \in Nat
BY TimeoutAssumption

LEMMA Typed ==
  ASSUME TimeoutsTypeOK
  PROVE  /\ ctx \in Contexts /\ clock \in 0..LastTime /\ clock \in Nat
         /\ \A i \in Known : ctx[i] \in Mark
         /\ Known \subseteq Id
BY Assumed DEF TimeoutsTypeOK, Contexts, Known

LEMMA NewContext ==
  ASSUME TimeoutsTypeOK, NEW d \in Nat
  PROVE  /\ Context(d) \in Mark
         /\ Context(d).end = Nothing /\ ~Context(d).timed_out /\ ~Context(d).cancelled
BY Typed DEF Context, Mark

LEMMA RemainingNat ==
  ASSUME TimeoutsTypeOK, NEW c \in Mark
  PROVE  Remaining(c) \in Nat
<1>1. clock \in Nat /\ c.start \in Nat /\ c.limit \in Nat /\ c.end \in Nat \cup {Nothing}
  BY Typed, Assumed DEF Mark
<1>2. Elapsed(c) \in Int
  BY <1>1 DEF Elapsed
<1> QED BY <1>1, <1>2 DEF Remaining

(* Registering an operation starts it and leaves the others alone.         *)
LEMMA CreatedContexts ==
  ASSUME TimeoutsTypeOK, NEW i \in Id, NEW d \in Nat, NEW p \in Id \cup {Nothing}
  PROVE  /\ Created(i, d, p) \in Contexts
         /\ Fresh(Created(i, d, p), i)
         /\ \A j \in Id : j # i => Alike(ctx, Created(i, d, p), j)
<1> DEFINE registered == [ctx EXCEPT ![i] = Context(d)]
           linked == [registered EXCEPT ![p].children = @ \cup {i}]
<1>1. ctx \in Contexts /\ Context(d) \in Mark /\ Nothing \notin Mark
  BY Typed, NewContext, Assumed
<1>2. /\ registered \in Contexts /\ Fresh(registered, i)
      /\ \A j \in Id : j # i => registered[j] = ctx[j]
  BY <1>1, NewContext DEF Contexts, Fresh
<1>3. CASE p # Nothing /\ p \in Known
  <2>1. p \in Id /\ registered[p] \in Mark
    <3>1. p \in Id /\ ctx[p] \in Mark
      BY <1>3, Typed
    <3> QED BY <3>1, <1>1, <1>2
  <2>2. [registered[p] EXCEPT !.children = @ \cup {i}] \in Mark
    BY <2>1 DEF Mark
  <2>3. /\ linked \in Contexts
        /\ \A j \in Id : j # p => linked[j] = registered[j]
        /\ linked[p] = [registered[p] EXCEPT !.children = @ \cup {i}]
    BY <1>2, <2>1, <2>2 DEF Contexts
  <2>4. /\ linked[p].end = registered[p].end
        /\ linked[p].timed_out = registered[p].timed_out
        /\ linked[p].cancelled = registered[p].cancelled
        /\ linked[p] # Nothing /\ registered[p] # Nothing
    BY <2>1, <2>2, <2>3, <1>1 DEF Mark
  <2>5. Fresh(linked, i)
    BY <1>2, <2>3, <2>4 DEF Fresh
  <2>6. \A j \in Id : j # i => Alike(ctx, linked, j)
    BY <1>2, <2>1, <2>3, <2>4 DEF Alike
  <2>7. Created(i, d, p) = linked
    BY <1>3 DEF Created
  <2> QED BY <2>3, <2>5, <2>6, <2>7
<1>4. CASE ~(p # Nothing /\ p \in Known)
  <2>1. Created(i, d, p) = registered
    BY <1>4 DEF Created
  <2> QED BY <2>1, <1>2 DEF Alike
<1> QED BY <1>3, <1>4

(* So does starting one again.                                             *)
LEMMA RestartedContexts ==
  ASSUME TimeoutsTypeOK, NEW i \in Known
  PROVE  LET g == [ctx EXCEPT ![i] = Restarted(@)]
         IN  /\ g \in Contexts
             /\ Fresh(g, i)
             /\ \A j \in Id : j # i => Alike(ctx, g, j)
<1>1. ctx \in Contexts /\ i \in Id /\ ctx[i] \in Mark /\ clock \in 0..LastTime /\ Nothing \notin Mark
  BY Typed, Assumed
<1>2. /\ Restarted(ctx[i]) \in Mark /\ Restarted(ctx[i]).end = Nothing
      /\ ~Restarted(ctx[i]).timed_out /\ ~Restarted(ctx[i]).cancelled
  BY <1>1 DEF Restarted, Mark
<1> DEFINE g == [ctx EXCEPT ![i] = Restarted(@)]
<1>3. g \in Contexts /\ g[i] = Restarted(ctx[i]) /\ \A j \in Id : j # i => g[j] = ctx[j]
  BY <1>1, <1>2 DEF Contexts
<1> QED BY <1>1, <1>2, <1>3 DEF Fresh, Alike

(* A limit that is lowered, and a child more, change nothing else.         *)
LEMMA CoordinatedContexts ==
  ASSUME TimeoutsTypeOK, NEW f \in Contexts, NEW p \in Id, NEW i \in Id, f[p] # Nothing, f[i] # Nothing
  PROVE  /\ Coordinated(f, p, i) \in Contexts
         /\ \A j \in Id : Alike(f, Coordinated(f, p, i), j)
<1> DEFINE left == Remaining(f[p])
           g == [f EXCEPT ![i].limit = IF @ > left THEN left ELSE @]
           h == [g EXCEPT ![p].children = @ \cup {i}]
<1>1. f[p] \in Mark /\ f[i] \in Mark /\ Nothing \notin Mark
  BY Assumed DEF Contexts
<1>2. left \in Nat
  BY <1>1, RemainingNat
<1> HIDE DEF left
<1>3. [f[i] EXCEPT !.limit = IF @ > left THEN left ELSE @] \in Mark
  BY <1>1, <1>2 DEF Mark
<1>4. /\ g \in Contexts /\ \A j \in Id : j # i => g[j] = f[j]
      /\ g[i] = [f[i] EXCEPT !.limit = IF @ > left THEN left ELSE @]
  BY <1>3 DEF Contexts
<1>5. g[i].end = f[i].end /\ g[i].timed_out = f[i].timed_out /\ g[i].cancelled = f[i].cancelled
  BY <1>1, <1>4 DEF Mark
<1>6. g[p] \in Mark
  BY <1>1, <1>3, <1>4
<1> HIDE DEF g
<1>7. [g[p] EXCEPT !.children = @ \cup {i}] \in Mark
  BY <1>6 DEF Mark
<1>8. /\ h \in Contexts /\ \A j \in Id : j # p => h[j] = g[j]
      /\ h[p] = [g[p] EXCEPT !.children = @ \cup {i}]
  BY <1>4, <1>7 DEF Contexts
<1>9. h[p].end = g[p].end /\ h[p].timed_out = g[p].timed_out /\ h[p].cancelled = g[p].cancelled
  BY <1>6, <1>8 DEF Mark
<1>10. h = Coordinated(f, p, i)
  BY DEF g, left, Coordinated
<1> HIDE DEF h
<1>11. \A j \in Id : Alike(f, h, j)
  <2>1. \A j \in Id : Alike(f, g, j)
    BY <1>1, <1>3, <1>4, <1>5 DEF Alike
  <2>2. \A j \in Id : Alike(g, h, j)
    BY <1>1, <1>6, <1>7, <1>8, <1>9 DEF Alike
  <2> QED BY <2>1, <2>2 DEF Alike
<1> QED BY <1>8, <1>10, <1>11

(* A field that is none of the ends                                        *)
LEMMA ChangedContext ==
  ASSUME TimeoutsTypeOK, NEW i \in Known, NEW c \in Mark,
         c.end = ctx[i].end, c.timed_out = ctx[i].timed_out, c.cancelled = ctx[i].cancelled
  PROVE  LET g == [ctx EXCEPT ![i] = c]
         IN  g \in Contexts /\ \A j \in Id : Alike(ctx, g, j)
<1>1. ctx \in Contexts /\ i \in Id /\ ctx[i] # Nothing /\ c # Nothing
  BY Typed, Assumed DEF Known
<1> DEFINE g == [ctx EXCEPT ![i] = c]
<1>2. g \in Contexts /\ g[i] = c /\ \A j \in Id : j # i => g[j] = ctx[j]
  BY <1>1 DEF Contexts
<1> QED BY <1>1, <1>2 DEF Alike

-----------------------------------------------------------------------------
(* The steps in which no time is over                                      *)

LEMMA QuietStep ==
  ASSUME IInv, ctx' \in Contexts,
         \A j \in Id : \/ Alike(ctx, ctx', j)
                       \/ Fresh(ctx', j)
                       \/ Over(ctx, ctx', j) /\ j \notin callbacks' /\ j \notin warners',
         \A j \in callbacks' : j \in callbacks \/ (j \in Id /\ Fresh(ctx', j)),
         \A j \in warners' : j \in warners \/ (j \in Id /\ Fresh(ctx', j)),
         called' \subseteq Id, clock' \in 0..LastTime, monitoring' \in BOOLEAN,
         task' \in [Id -> [at : {"none", "new", "first", "last"}, wake : Nat]], TasksOK',
         calls' \in 0..MaxCalls
  PROVE  IInv' /\ NoneExpires
<1>1. /\ callbacks \subseteq Known /\ warners \subseteq Known /\ Known \subseteq Id
      /\ \A i \in Known : ctx[i].timed_out \/ ctx[i].cancelled => ctx[i].end # Nothing
      /\ \A i \in callbacks \ Async : ~ctx[i].cancelled /\ (ctx[i].end = Nothing \/ ctx[i].timed_out)
  BY DEF IInv, TimeoutsTypeOK, CallbackOK, Known
<1>2. \A j \in Id : (j \in Known <=> ctx[j] # Nothing) /\ (j \in Known' <=> ctx'[j] # Nothing)
  BY DEF Known
<1>3. callbacks' \subseteq Known' /\ warners' \subseteq Known'
  BY <1>1, <1>2 DEF Alike, Fresh
<1>4. ASSUME NEW j \in Known', ctx'[j].timed_out \/ ctx'[j].cancelled
      PROVE  ctx'[j].end # Nothing
  <2>1. j \in Id /\ ctx'[j] # Nothing
    BY <1>4 DEF Known
  <2>2. CASE Alike(ctx, ctx', j)
    BY <2>1, <2>2, <1>1, <1>2, <1>4 DEF Alike
  <2>3. CASE Fresh(ctx', j)
    BY <2>3, <1>4 DEF Fresh
  <2>4. CASE Over(ctx, ctx', j)
    BY <2>1, <2>4 DEF Over
  <2> QED BY <2>1, <2>2, <2>3, <2>4
<1>5. TimeoutsTypeOK'
  BY <1>3, <1>4 DEF TimeoutsTypeOK, Contexts
<1>6. CallbackOK'
  <2>1. SUFFICES ASSUME NEW j \in callbacks' \ Async
                 PROVE  ~ctx'[j].cancelled /\ (ctx'[j].end = Nothing \/ ctx'[j].timed_out)
    BY DEF CallbackOK
  <2>2. CASE Fresh(ctx', j)
    BY <2>2 DEF Fresh
  <2>3. CASE ~Fresh(ctx', j)
    <3>1. j \in callbacks /\ j \in Id /\ ctx[j] # Nothing /\ Alike(ctx, ctx', j)
      BY <2>3, <1>1, <1>2
    <3> QED BY <3>1, <1>1 DEF Alike
  <2> QED BY <2>2, <2>3
<1>7. NoneExpires
  <2>1. SUFFICES ASSUME NEW j \in Id, ctx'[j] # Nothing, ctx'[j].timed_out
                 PROVE  ctx[j] # Nothing /\ ctx[j].timed_out
    BY DEF NoneExpires
  <2> QED BY <2>1 DEF Alike, Fresh, Over
<1> QED BY <1>5, <1>6, <1>7 DEF IInv

(* Steps that start or change operations, and leave everything else alone  *)
LEMMA StartingStep ==
  ASSUME IInv, ctx' \in Contexts, calls' \in 0..MaxCalls,
         \A j \in Id : Alike(ctx, ctx', j) \/ Fresh(ctx', j),
         Quiet, UNCHANGED <<clock, callbacks, warners, task, monitoring>>
  PROVE  IInv' /\ NoneExpires
<1>1. /\ called' = {} /\ clock' \in 0..LastTime /\ monitoring' \in BOOLEAN
      /\ task' \in [Id -> [at : {"none", "new", "first", "last"}, wake : Nat]]
      /\ TasksOK'
  BY DEF IInv, TimeoutsTypeOK, TasksOK, Quiet
<1> QED BY <1>1, QuietStep

(* Steps that end the operations of S, which lose their callbacks          *)
LEMMA EndingStep ==
  ASSUME IInv, ctx' \in Contexts, calls' \in 0..MaxCalls, NEW S,
         \A j \in Id : IF j \in S THEN Over(ctx, ctx', j) ELSE ctx'[j] = ctx[j],
         Forget(S), called' \subseteq Id, UNCHANGED <<clock, monitoring>>,
         task' \in [Id -> [at : {"none", "new", "first", "last"}, wake : Nat]], TasksOK'
  PROVE  IInv' /\ NoneExpires
<1>1. clock' \in 0..LastTime /\ monitoring' \in BOOLEAN
  BY DEF IInv, TimeoutsTypeOK
<1>2. callbacks' = callbacks \ S /\ warners' = warners \ S
  BY DEF Forget
<1>3. \A j \in Id : \/ Alike(ctx, ctx', j)
                    \/ Over(ctx, ctx', j) /\ j \notin callbacks' /\ j \notin warners'
  BY <1>2 DEF Alike
<1> QED BY <1>1, <1>2, <1>3, QuietStep

LEMMA SameTasks ==
  ASSUME IInv, task' = task
  PROVE  task' \in [Id -> [at : {"none", "new", "first", "last"}, wake : Nat]] /\ TasksOK'
BY DEF IInv, TimeoutsTypeOK, TasksOK

-----------------------------------------------------------------------------
(* Calls that start operations                                             *)

LEMMA CreateStep ==
  ASSUME IInv, calls' \in 0..MaxCalls, NEW i \in Id, NEW d \in Duration, Create(i, d)
  PROVE  IInv' /\ NoneExpires
<1>1. /\ ctx' \in Contexts /\ Fresh(ctx', i)
      /\ \A j \in Id : j # i => Alike(ctx, ctx', j)
  BY Assumed, CreatedContexts DEF Create, IInv
<1>2. /\ \A j \in callbacks' : j \in callbacks \/ j = i
      /\ \A j \in warners' : j \in warners \/ j = i
      /\ called' = {} /\ UNCHANGED <<clock, task, monitoring>>
  BY DEF Create, Quiet
<1>3. clock' \in 0..LastTime /\ monitoring' \in BOOLEAN
  BY <1>2 DEF IInv, TimeoutsTypeOK
<1> QED BY <1>1, <1>2, <1>3, SameTasks, QuietStep

LEMMA SetLimitStep ==
  ASSUME IInv, calls' \in 0..MaxCalls, NEW i \in Id, NEW d \in Duration, SetLimit(i, d)
  PROVE  IInv' /\ NoneExpires
<1>1. CASE i \in Known
  <2>1. ctx[i] \in Mark /\ ctx \in Contexts /\ d \in Nat
    BY <1>1, Typed, Assumed DEF IInv
  <2> DEFINE c == [ctx[i] EXCEPT !.limit = d]
  <2>2. /\ c \in Mark /\ c.end = ctx[i].end
        /\ c.timed_out = ctx[i].timed_out /\ c.cancelled = ctx[i].cancelled
    BY <2>1 DEF Mark
  <2>3. ctx' = [ctx EXCEPT ![i] = c]
    BY <1>1, <2>1 DEF SetLimit, Contexts
  <2> HIDE DEF c
  <2>4. ctx' \in Contexts /\ \A j \in Id : Alike(ctx, ctx', j)
    BY <1>1, <2>2, <2>3, ChangedContext DEF IInv
  <2> QED BY <2>4, StartingStep DEF SetLimit
<1>2. CASE i \notin Known
  <2>1. /\ ctx' \in Contexts /\ Fresh(ctx', i)
        /\ \A j \in Id : j # i => Alike(ctx, ctx', j)
    BY <1>2, Assumed, CreatedContexts DEF SetLimit, IInv
  <2> QED BY <2>1, StartingStep DEF SetLimit
<1> QED BY <1>1, <1>2

LEMMA StartWorkflowStep ==
  ASSUME IInv, calls' \in 0..MaxCalls, NEW i \in Id, StartWorkflow(i)
  PROVE  IInv' /\ NoneExpires
<1>1. /\ ctx' \in Contexts /\ Fresh(ctx', i)
      /\ \A j \in Id : j # i => Alike(ctx, ctx', j)
  <2>1. CASE i \in Known
    BY <2>1, RestartedContexts DEF StartWorkflow, IInv
  <2>2. CASE i \notin Known
    BY <2>2, Assumed, CreatedContexts DEF StartWorkflow, IInv
  <2> QED BY <2>1, <2>2
<1> QED BY <1>1, StartingStep DEF StartWorkflow

LEMMA StartStepStep ==
  ASSUME IInv, calls' \in 0..MaxCalls, NEW i \in Id, StartStep(i)
  PROVE  IInv' /\ NoneExpires
<1> DEFINE started == IF i \in Known THEN [ctx EXCEPT ![i] = Restarted(@)]
                                    ELSE Created(i, StepDefault, Parent[i])
<1>1. /\ started \in Contexts /\ Fresh(started, i)
      /\ \A j \in Id : j # i => Alike(ctx, started, j)
  <2>1. CASE i \in Known
    BY <2>1, RestartedContexts DEF IInv
  <2>2. CASE i \notin Known
    BY <2>2, Assumed, CreatedContexts DEF IInv
  <2> QED BY <2>1, <2>2
<1>2. /\ ctx' = IF Parent[i] \in Known THEN Coordinated(started, Parent[i], i) ELSE started
      /\ Quiet /\ UNCHANGED <<clock, callbacks, warners, task, monitoring>>
  BY DEF StartStep
<1> HIDE DEF started
<1>3. CASE Parent[i] \in Known
  <2>1. Parent[i] \in Id /\ started[Parent[i]] # Nothing /\ started[i] # Nothing
    <3>1. Parent[i] \in Id /\ ctx[Parent[i]] # Nothing
      BY <1>3 DEF Known
    <3> QED BY <3>1, <1>1 DEF Alike, Fresh
  <2>2. ctx' \in Contexts /\ \A j \in Id : Alike(started, ctx', j)
    BY <2>1, <1>1, <1>2, <1>3, CoordinatedContexts DEF IInv
  <2>3. \A j \in Id : j # i => Alike(ctx, ctx', j)
    BY <2>2, <1>1 DEF Alike
  <2>4. Fresh(ctx', i)
    BY <2>2, <1>1 DEF Alike, Fresh
  <2> QED BY <2>2, <2>3, <2>4, <1>2, StartingStep
<1>4. CASE Parent[i] \notin Known
  BY <1>1, <1>2, <1>4, StartingStep
<1> QED BY <1>3, <1>4

LEMMA CreateBelowStep ==
  ASSUME IInv, calls' \in 0..MaxCalls, NEW i \in Id, NEW d \in Duration, CreateBelow(i, d)
  PROVE  IInv' /\ NoneExpires
<1> DEFINE left == Remaining(ctx[Parent[i]])
<1>1. ctx[Parent[i]] \in Mark /\ Parent[i] \in Id \cup {Nothing} /\ d \in Nat
  BY Typed, Assumed DEF CreateBelow, IInv
<1>2. left \in Nat
  BY <1>1, RemainingNat DEF IInv
<1>3. PICK k \in Nat : k = IF d > left THEN left ELSE d
  BY <1>1, <1>2
<1>4. ctx' = Created(i, k, Parent[i])
  BY <1>3 DEF CreateBelow
<1>5. /\ ctx' \in Contexts /\ Fresh(ctx', i)
      /\ \A j \in Id : j # i => Alike(ctx, ctx', j)
  BY <1>1, <1>4, CreatedContexts DEF IInv
<1> QED BY <1>5, StartingStep DEF CreateBelow

LEMMA CoordinateStep ==
  ASSUME IInv, calls' \in 0..MaxCalls, NEW i \in Id, Coordinate(i)
  PROVE  IInv' /\ NoneExpires
<1>1. ctx \in Contexts /\ Parent[i] \in Id /\ ctx[Parent[i]] # Nothing /\ ctx[i] # Nothing
  BY Typed DEF Coordinate, Known, IInv
<1>2. ctx' \in Contexts /\ \A j \in Id : Alike(ctx, ctx', j)
  BY <1>1, CoordinatedContexts DEF Coordinate, IInv
<1> QED BY <1>2, StartingStep DEF Coordinate

LEMMA ExtendStep ==
  ASSUME IInv, calls' \in 0..MaxCalls, NEW i \in Id, NEW d \in Duration,
         Extend(i, d) \/ SendWarning(i, d)
  PROVE  IInv' /\ NoneExpires
<1>1. i \in Known /\ ctx[i] \in Mark /\ ctx \in Contexts /\ d \in Nat
  BY Typed, Assumed DEF Extend, SendWarning, IInv
<1>2. ctx' \in Contexts /\ \A j \in Id : Alike(ctx, ctx', j)
  <2>1. CASE Extend(i, d)
    <3> DEFINE c == [ctx[i] EXCEPT !.limit = @ + d]
    <3>1. /\ c \in Mark /\ c.end = ctx[i].end
          /\ c.timed_out = ctx[i].timed_out /\ c.cancelled = ctx[i].cancelled
      BY <1>1 DEF Mark
    <3>2. ctx' = [ctx EXCEPT ![i] = c]
      BY <2>1, <1>1 DEF Extend, Contexts
    <3> HIDE DEF c
    <3> QED BY <1>1, <3>1, <3>2, ChangedContext DEF IInv
  <2>2. CASE SendWarning(i, d)
    <3> DEFINE c == [ctx[i] EXCEPT !.warned = TRUE]
    <3>1. /\ c \in Mark /\ c.end = ctx[i].end
          /\ c.timed_out = ctx[i].timed_out /\ c.cancelled = ctx[i].cancelled
      BY <1>1 DEF Mark
    <3>2. ctx' = [ctx EXCEPT ![i] = c]
      BY <2>2, <1>1 DEF SendWarning, Contexts
    <3> HIDE DEF c
    <3> QED BY <1>1, <3>1, <3>2, ChangedContext DEF IInv
  <2> QED BY <2>1, <2>2
<1>3. Quiet /\ UNCHANGED <<clock, callbacks, warners, task, monitoring>>
  BY DEF Extend, SendWarning
<1> QED BY <1>2, <1>3, StartingStep

-----------------------------------------------------------------------------
(* Calls that end operations                                               *)

LEMMA CompletedContexts ==
  ASSUME IInv, NEW i \in Known, ctx' = [ctx EXCEPT ![i].end = clock]
  PROVE  /\ ctx' \in Contexts
         /\ \A j \in Id : IF j \in {i} THEN Over(ctx, ctx', j) ELSE ctx'[j] = ctx[j]
<1>1. /\ ctx \in Contexts /\ ctx[i] \in Mark /\ i \in Id /\ ctx[i] # Nothing
      /\ clock \in 0..LastTime /\ clock # Nothing /\ Nothing \notin Mark
  BY Typed, Assumed DEF IInv, Known
<1> DEFINE c == [ctx[i] EXCEPT !.end = clock]
<1>2. c \in Mark /\ c.end = clock /\ c.timed_out = ctx[i].timed_out
  BY <1>1 DEF Mark
<1>3. ctx' = [ctx EXCEPT ![i] = c]
  BY <1>1 DEF Contexts
<1> HIDE DEF c
<1>4. ctx' \in Contexts /\ ctx'[i] = c /\ \A j \in Id : j # i => ctx'[j] = ctx[j]
  BY <1>1, <1>2, <1>3 DEF Contexts
<1> QED BY <1>1, <1>2, <1>4 DEF Over

LEMMA CancelledContexts ==
  ASSUME IInv, NEW S \in SUBSET Known, ctx' = Cancelled(S)
  PROVE  /\ ctx' \in Contexts
         /\ \A j \in Id : IF j \in S THEN Over(ctx, ctx', j) ELSE ctx'[j] = ctx[j]
<1>1. /\ ctx \in Contexts /\ \A j \in S : ctx[j] \in Mark /\ j \in Id /\ ctx[j] # Nothing
      /\ clock \in 0..LastTime /\ clock # Nothing /\ Nothing \notin Mark
  BY Typed, Assumed DEF IInv, Known
<1>2. \A j \in S : LET c == [ctx[j] EXCEPT !.cancelled = TRUE, !.end = clock]
                   IN  c \in Mark /\ c.end = clock /\ c.timed_out = ctx[j].timed_out
  BY <1>1 DEF Mark
<1>3. \A j \in Id : ctx'[j] = IF j \in S THEN [ctx[j] EXCEPT !.cancelled = TRUE, !.end = clock] ELSE ctx[j]
  BY DEF Cancelled
<1>4. \A j \in Id : ctx'[j] \in Mark \cup {Nothing}
  BY <1>1, <1>2, <1>3 DEF Contexts
<1>5. ctx' \in Contexts
  BY <1>4 DEF Cancelled, Contexts
<1>6. \A j \in S : Over(ctx, ctx', j)
  BY <1>1, <1>2, <1>3 DEF Over
<1> QED BY <1>3, <1>5, <1>6

LEMMA BelowKnown ==
  ASSUME NEW i
  PROVE  Below({i}, Always) \subseteq Known
BY DEF Below

LEMMA CompleteStep ==
  ASSUME IInv, calls' \in 0..MaxCalls, NEW i \in Id, Complete(i) \/ HandleTimeout(i)
  PROVE  IInv' /\ NoneExpires
<1>1. /\ i \in Known /\ ctx' = [ctx EXCEPT ![i].end = clock] /\ Forget({i})
      /\ UNCHANGED <<clock, task, monitoring>>
  BY DEF Complete, HandleTimeout
<1>2. called' \subseteq Id
  BY DEF Complete, HandleTimeout, Quiet
<1> QED BY <1>1, <1>2, CompletedContexts, SameTasks, EndingStep

LEMMA CancelStep ==
  ASSUME IInv, calls' \in 0..MaxCalls, NEW i \in Id, Cancel(i)
  PROVE  IInv' /\ NoneExpires
<1>1. i \in Known /\ called' = {} /\ UNCHANGED <<clock, task, monitoring>>
  BY DEF Cancel, Quiet
<1>2. PICK S \in {{i}, Below({i}, Always)} : ctx' = Cancelled(S) /\ Forget(S)
  BY DEF Cancel
<1>3. S \in SUBSET Known
  BY <1>1, <1>2, BelowKnown
<1> QED BY <1>1, <1>2, <1>3, CancelledContexts, SameTasks, EndingStep

LEMMA ClearStep ==
  ASSUME IInv, calls' \in 0..MaxCalls, Clear
  PROVE  IInv' /\ NoneExpires
<1>1. PICK old \in SUBSET Known :
        ctx' = [i \in Id |-> IF i \in old THEN Nothing ELSE ctx[i]] /\ Forget(old)
  BY DEF Clear
<1>2. called' = {} /\ UNCHANGED <<clock, task, monitoring>>
  BY DEF Clear, Quiet
<1>3. ctx' \in Contexts
  BY <1>1, Typed DEF IInv, Contexts
<1>4. \A j \in Id : IF j \in old THEN Over(ctx, ctx', j) ELSE ctx'[j] = ctx[j]
  BY <1>1 DEF Over
<1> QED BY <1>1, <1>2, <1>3, <1>4, SameTasks, EndingStep

-----------------------------------------------------------------------------
(* Asynchronous operations                                                 *)

LEMMA CancelledTasks ==
  ASSUME IInv, NEW S, NEW first, TasksCancelled(S, first)
  PROVE  task' \in [Id -> [at : {"none", "new", "first", "last"}, wake : Nat]] /\ TasksOK'
<1>1. \E C : task' = [i \in Id |-> IF i \in C THEN NoTask ELSE task[i]]
  BY DEF TasksCancelled
<1>2. PICK C : task' = [i \in Id |-> IF i \in C THEN NoTask ELSE task[i]]
  BY <1>1
<1>3. NoTask \in [at : {"none", "new", "first", "last"}, wake : Nat] /\ NoTask.at = "none"
  BY DEF NoTask
<1> QED BY <1>2, <1>3 DEF IInv, TimeoutsTypeOK, TasksOK

LEMMA CreateAsyncStep ==
  ASSUME IInv, calls' \in 0..MaxCalls, NEW i \in Id, NEW d \in Duration, CreateAsync(i, d)
  PROVE  IInv' /\ NoneExpires
<1>1. i \in Async /\ d \in Nat
  BY Assumed DEF CreateAsync
<1>2. /\ ctx' \in Contexts /\ Fresh(ctx', i)
      /\ \A j \in Id : j # i => Alike(ctx, ctx', j)
  BY <1>1, Assumed, CreatedContexts DEF CreateAsync, IInv
<1>3. /\ callbacks' = callbacks \cup {i} /\ warners' = warners \cup {i}
      /\ called' = {} /\ UNCHANGED <<clock, monitoring>>
  BY DEF CreateAsync, Quiet
<1>4. clock' \in 0..LastTime /\ monitoring' \in BOOLEAN
  BY <1>3 DEF IInv, TimeoutsTypeOK
<1>5. task' = [task EXCEPT ![i] = [at |-> "new", wake |-> (4 * d) \div 5]]
  BY DEF CreateAsync
<1>6. (4 * d) \div 5 \in Nat
  BY <1>1
<1>7. task' \in [Id -> [at : {"none", "new", "first", "last"}, wake : Nat]]
  BY <1>5, <1>6 DEF IInv, TimeoutsTypeOK
<1>8. TasksOK'
  BY <1>1, <1>5 DEF IInv, TimeoutsTypeOK, TasksOK
<1> QED BY <1>2, <1>3, <1>4, <1>7, <1>8, QuietStep

LEMMA CompleteAsyncStep ==
  ASSUME IInv, calls' \in 0..MaxCalls, NEW i \in Id, CompleteAsync(i)
  PROVE  IInv' /\ NoneExpires
<1>1. /\ i \in Known /\ called' = {} /\ UNCHANGED <<clock, monitoring>>
      /\ task' \in [Id -> [at : {"none", "new", "first", "last"}, wake : Nat]] /\ TasksOK'
  BY CancelledTasks DEF CompleteAsync, Quiet
<1>2. CASE UNCHANGED <<ctx, callbacks, warners>>
  <2>1. ctx' \in Contexts /\ clock' \in 0..LastTime /\ monitoring' \in BOOLEAN
    BY <1>1, <1>2, Typed DEF IInv, TimeoutsTypeOK
  <2> QED BY <2>1, <1>1, <1>2, QuietStep DEF Alike
<1>3. CASE ctx' = [ctx EXCEPT ![i].end = clock] /\ Forget({i})
  BY <1>1, <1>3, CompletedContexts, EndingStep
<1> QED BY <1>2, <1>3 DEF CompleteAsync

LEMMA CancelAsyncStep ==
  ASSUME IInv, calls' \in 0..MaxCalls, NEW i \in Id, CancelAsync(i)
  PROVE  IInv' /\ NoneExpires
<1>1. i \in Known /\ called' = {} /\ UNCHANGED <<clock, monitoring>>
  BY DEF CancelAsync, Quiet
<1>2. task' \in [Id -> [at : {"none", "new", "first", "last"}, wake : Nat]] /\ TasksOK'
  BY CancelledTasks DEF CancelAsync
<1>3. CASE UNCHANGED <<ctx, callbacks, warners>>
  <2>1. ctx' \in Contexts /\ clock' \in 0..LastTime /\ monitoring' \in BOOLEAN
    BY <1>1, <1>3, Typed DEF IInv, TimeoutsTypeOK
  <2> QED BY <2>1, <1>1, <1>2, <1>3, QuietStep DEF Alike
<1>4. CASE ~UNCHANGED <<ctx, callbacks, warners>>
  <2>1. \E S \in {{i}, Below({i}, Always)} : ctx' = Cancelled(S) /\ Forget(S)
    BY <1>4 DEF CancelAsync
  <2>2. PICK S \in {{i}, Below({i}, Always)} : ctx' = Cancelled(S) /\ Forget(S)
    BY <2>1
  <2>3. S \in SUBSET Known
    BY <1>1, <2>2, BelowKnown
  <2> QED BY <1>1, <1>2, <2>2, <2>3, CancelledContexts, EndingStep
<1> QED BY <1>3, <1>4

LEMMA TaskStep ==
  ASSUME IInv, calls' \in 0..MaxCalls, NEW i \in Id, TaskBegins(i) \/ TaskWarns(i)
  PROVE  IInv' /\ NoneExpires
<1>1. called' = {} /\ UNCHANGED <<clock, callbacks, warners, monitoring>> /\ task[i].at # "none"
  BY DEF TaskBegins, TaskWarns, Quiet
<1>2. clock' \in 0..LastTime /\ monitoring' \in BOOLEAN /\ clock \in Nat
  BY <1>1, Typed DEF IInv, TimeoutsTypeOK
<1>3. /\ task' \in [Id -> [at : {"none", "new", "first", "last"}, wake : Nat]]
      /\ \A j \in Id : j # i => task'[j] = task[j]
  <2>1. CASE TaskBegins(i)
    <3>1. PICK k \in Nat : k = clock + task[i].wake
      BY <1>2 DEF IInv, TimeoutsTypeOK
    <3>2. task' = [task EXCEPT ![i].at = "first", ![i].wake = k]
      BY <2>1, <3>1 DEF TaskBegins, IInv, TimeoutsTypeOK
    <3> QED BY <3>2 DEF IInv, TimeoutsTypeOK
  <2>2. CASE TaskWarns(i)
    <3>1. PICK k \in Nat : k = clock + (IF i \in Known THEN Remaining(ctx[i]) ELSE 0)
      <4>1. i \in Known => Remaining(ctx[i]) \in Nat
        BY Typed, RemainingNat DEF IInv
      <4> QED BY <4>1, <1>2
    <3>2. task' = [task EXCEPT ![i].at = "last", ![i].wake = k]
      BY <2>2, <3>1 DEF TaskWarns
    <3> QED BY <3>2 DEF IInv, TimeoutsTypeOK
  <2> QED BY <2>1, <2>2
<1>4. TasksOK'
  BY <1>1, <1>3 DEF IInv, TasksOK
<1>5. ctx' \in Contexts /\ \A j \in Id : Alike(ctx, ctx', j)
  <2>1. CASE UNCHANGED ctx
    BY <2>1, Typed DEF IInv, Alike
  <2>2. CASE i \in Known /\ ctx' = [ctx EXCEPT ![i].warned = TRUE]
    <3>1. ctx[i] \in Mark /\ ctx \in Contexts
      BY <2>2, Typed DEF IInv
    <3> DEFINE c == [ctx[i] EXCEPT !.warned = TRUE]
    <3>2. /\ c \in Mark /\ c.end = ctx[i].end
          /\ c.timed_out = ctx[i].timed_out /\ c.cancelled = ctx[i].cancelled
      BY <3>1 DEF Mark
    <3>3. ctx' = [ctx EXCEPT ![i] = c]
      BY <2>2, <3>1 DEF Contexts
    <3> HIDE DEF c
    <3>4. i \in Known
      BY <2>2
    <3> QED BY <3>2, <3>3, <3>4, ChangedContext DEF IInv
  <2>3. UNCHANGED ctx \/ (Unmarked(i) /\ ctx' = [ctx EXCEPT ![i].warned = TRUE])
    BY DEF TaskBegins, TaskWarns
  <2> QED BY <2>1, <2>2, <2>3 DEF Unmarked
<1> QED BY <1>1, <1>2, <1>3, <1>4, <1>5, QuietStep

-----------------------------------------------------------------------------
(* The steps in which the time of operations is over                       *)

(* The monitor, or a task, marks the operations of E, and warns some of W. *)
LEMMA MarkedContexts ==
  ASSUME IInv, NEW E \in SUBSET Known, NEW W \in SUBSET Known,
         ctx' = [i \in Id |-> IF i \in W THEN [TimedOut(E)[i] EXCEPT !.warned = TRUE]
                                         ELSE TimedOut(E)[i]]
  PROVE  /\ ctx' \in Contexts
         /\ \A j \in Id :
              /\ ctx'[j] = Nothing <=> ctx[j] = Nothing
              /\ ctx[j] # Nothing =>
                   /\ ctx'[j].cancelled = ctx[j].cancelled
                   /\ ctx'[j].timed_out = (j \in E \/ ctx[j].timed_out)
                   /\ ctx'[j].end = IF j \in E THEN clock ELSE ctx[j].end
<1>1. /\ ctx \in Contexts /\ Known \subseteq Id /\ clock \in 0..LastTime /\ Nothing \notin Mark
      /\ \A j \in Known : ctx[j] \in Mark
      /\ \A j \in Id \ Known : ctx[j] = Nothing
  BY Typed, Assumed DEF IInv, Known
<1>2. ASSUME NEW j \in Known
      PROVE  /\ TimedOut(E)[j] \in Mark
             /\ TimedOut(E)[j].cancelled = ctx[j].cancelled
             /\ TimedOut(E)[j].timed_out = (j \in E \/ ctx[j].timed_out)
             /\ TimedOut(E)[j].end = IF j \in E THEN clock ELSE ctx[j].end
  <2>1. TimedOut(E)[j] = IF j \in E THEN [ctx[j] EXCEPT !.timed_out = TRUE, !.end = clock] ELSE ctx[j]
    BY <1>1 DEF TimedOut
  <2>2. ctx[j] \in Mark /\ ctx[j].timed_out \in BOOLEAN
    BY <1>1 DEF Mark
  <2>3. CASE j \in E
    BY <2>1, <2>2, <2>3, <1>1 DEF Mark
  <2>4. CASE j \notin E
    <3>1. TimedOut(E)[j] = ctx[j]
      BY <2>1, <2>4
    <3> QED BY <3>1, <2>2, <2>4
  <2> QED BY <2>3, <2>4
<1>3. ASSUME NEW j \in Known
      PROVE  /\ ctx'[j] \in Mark
             /\ ctx'[j].cancelled = TimedOut(E)[j].cancelled
             /\ ctx'[j].timed_out = TimedOut(E)[j].timed_out
             /\ ctx'[j].end = TimedOut(E)[j].end
  <2>1. TimedOut(E)[j] \in Mark /\ j \in Id
    BY <1>1, <1>2
  <2>2. ctx'[j] = IF j \in W THEN [TimedOut(E)[j] EXCEPT !.warned = TRUE] ELSE TimedOut(E)[j]
    BY <2>1
  <2> QED BY <2>1, <2>2 DEF Mark
<1>4. ASSUME NEW j \in Id \ Known
      PROVE  ctx'[j] = Nothing
  <2>1. j \notin E /\ j \notin W
    BY <1>4
  <2>2. TimedOut(E)[j] = Nothing
    BY <2>1, <1>1 DEF TimedOut
  <2> QED BY <2>1, <2>2
<1>5. ctx' \in Contexts
  <2>1. \A j \in Id : ctx'[j] \in Mark \cup {Nothing}
    BY <1>3, <1>4
  <2> QED BY <2>1 DEF Contexts
<1>6. \A j \in Id : ctx'[j] = Nothing <=> ctx[j] = Nothing
  BY <1>1, <1>3, <1>4 DEF Known
<1> QED BY <1>1, <1>2, <1>3, <1>5, <1>6 DEF Known

LEMMA MarkingStep ==
  ASSUME IInv, calls' \in 0..MaxCalls, NEW E \in SUBSET Known, NEW W \in SUBSET Known,
         ctx' = [i \in Id |-> IF i \in W THEN [TimedOut(E)[i] EXCEPT !.warned = TRUE]
                                         ELSE TimedOut(E)[i]],
         called' \subseteq Id, UNCHANGED <<clock, callbacks, warners, monitoring>>,
         task' \in [Id -> [at : {"none", "new", "first", "last"}, wake : Nat]], TasksOK'
  PROVE  IInv'
<1>1. ctx' \in Contexts
  BY MarkedContexts
<1>2. \A j \in Id :
        /\ ctx'[j] = Nothing <=> ctx[j] = Nothing
        /\ ctx[j] # Nothing =>
             /\ ctx'[j].cancelled = ctx[j].cancelled
             /\ ctx'[j].timed_out = (j \in E \/ ctx[j].timed_out)
             /\ ctx'[j].end = IF j \in E THEN clock ELSE ctx[j].end
  BY MarkedContexts
<1>3. /\ callbacks \subseteq Known /\ warners \subseteq Known /\ clock # Nothing
      /\ \A i \in Known : ctx[i].timed_out \/ ctx[i].cancelled => ctx[i].end # Nothing
      /\ \A i \in callbacks \ Async : ~ctx[i].cancelled /\ (ctx[i].end = Nothing \/ ctx[i].timed_out)
  BY Typed, Assumed DEF IInv, TimeoutsTypeOK, CallbackOK
<1>4. Known' = Known /\ \A j \in Known : j \in Id /\ ctx[j] # Nothing
  BY <1>2 DEF Known
<1>5. \A i \in Known' : ctx'[i].timed_out \/ ctx'[i].cancelled => ctx'[i].end # Nothing
  <2>1. SUFFICES ASSUME NEW i \in Known, ctx'[i].timed_out \/ ctx'[i].cancelled
                 PROVE  ctx'[i].end # Nothing
    BY <1>4
  <2>2. i \in Id /\ ctx[i] # Nothing
    BY <1>4
  <2>3. CASE i \in E
    BY <2>2, <2>3, <1>2, <1>3
  <2>4. CASE i \notin E
    <3>1. ctx[i].timed_out \/ ctx[i].cancelled
      BY <2>1, <2>2, <2>4, <1>2
    <3> QED BY <3>1, <2>2, <2>4, <1>2, <1>3
  <2> QED BY <2>3, <2>4
<1>6. TimeoutsTypeOK'
  BY <1>1, <1>3, <1>4, <1>5 DEF IInv, TimeoutsTypeOK, Contexts
<1>7. CallbackOK'
  BY <1>2, <1>3, <1>4 DEF CallbackOK
<1> QED BY <1>6, <1>7 DEF IInv

(* The monitor: what is below an overdue operation is marked or was.       *)
LEMMA CheckTimeoutsMarks ==
  ASSUME IInv, CheckTimeouts
  PROVE  \E E \in SUBSET Known, W \in SUBSET Known :
           /\ ctx' = [i \in Id |-> IF i \in W THEN [TimedOut(E)[i] EXCEPT !.warned = TRUE]
                                            ELSE TimedOut(E)[i]]
           /\ called' \subseteq (E \cap callbacks) \ Async
           /\ \A p \in E : \A c \in ctx[p].children \cap Known : c \in E \/ ctx[c].timed_out
           /\ UNCHANGED <<clock, callbacks, warners, task, monitoring>>
<1> DEFINE E == Below(OverdueIds, NotTimedOut)
<1>1. PICK W \in SUBSET MayWarn :
        ctx' = [i \in Id |-> IF i \in W THEN [TimedOut(E)[i] EXCEPT !.warned = TRUE]
                                        ELSE TimedOut(E)[i]]
  BY DEF CheckTimeouts, Expire
<1>2. /\ called' = (E \cap callbacks) \ Async
      /\ UNCHANGED <<clock, callbacks, warners, task, monitoring>>
  BY DEF CheckTimeouts, Expire
<1>3. E \subseteq Known
  BY DEF Below
<1>4. W \subseteq Known
  BY DEF MayWarn, Running, Known, IInv, TimeoutsTypeOK
<1>5. ASSUME NEW p \in E, NEW c \in ctx[p].children \cap Known, ~ctx[c].timed_out
      PROVE  c \in E
  <2>1. NotTimedOut(c)
    BY <1>5 DEF NotTimedOut
  <2> QED BY <1>5, <2>1 DEF Below
<1> QED BY <1>1, <1>2, <1>3, <1>4, <1>5

LEMMA CheckTimeoutsStep ==
  ASSUME IInv, calls' \in 0..MaxCalls, CheckTimeouts
  PROVE  IInv'
<1>1. PICK E \in SUBSET Known, W \in SUBSET Known :
        /\ ctx' = [i \in Id |-> IF i \in W THEN [TimedOut(E)[i] EXCEPT !.warned = TRUE]
                                         ELSE TimedOut(E)[i]]
        /\ called' \subseteq (E \cap callbacks) \ Async
        /\ UNCHANGED <<clock, callbacks, warners, task, monitoring>>
  BY CheckTimeoutsMarks
<1>2. called' \subseteq Id
  BY <1>1 DEF Known
<1> QED BY <1>1, <1>2, SameTasks, MarkingStep

(* A task marks its own operation, and no other.                           *)
LEMMA TaskExpiresMarks ==
  ASSUME IInv, NEW i \in Id, TaskExpires(i)
  PROVE  /\ i \in Async /\ called' \subseteq {i}
         /\ \E E \in SUBSET (Known \cap {i}) :
              ctx' = [j \in Id |-> IF j \in {} THEN [TimedOut(E)[j] EXCEPT !.warned = TRUE]
                                             ELSE TimedOut(E)[j]]
         /\ UNCHANGED <<clock, callbacks, warners, monitoring>>
         /\ task' = [task EXCEPT ![i] = NoTask]
<1>1. i \in Async
  BY DEF TaskExpires, IInv, TasksOK
<1>2. CASE Unmarked(i)
  <2>1. ctx' = TimedOut({i}) /\ called' = {i} /\ {i} \in SUBSET (Known \cap {i})
    BY <1>2 DEF TaskExpires, Unmarked
  <2>2. ctx' = [j \in Id |-> TimedOut({i})[j]]
    BY <2>1 DEF TimedOut
  <2>3. ctx' = [j \in Id |-> IF j \in {} THEN [TimedOut({i})[j] EXCEPT !.warned = TRUE]
                                       ELSE TimedOut({i})[j]]
    BY <2>2
  <2> QED BY <2>1, <2>3, <1>1 DEF TaskExpires
<1>3. CASE ~Unmarked(i)
  <2>1. ctx' = ctx /\ called' = {}
    BY <1>3 DEF TaskExpires, Quiet
  <2>2. ctx = [j \in Id |-> ctx[j]]
    BY DEF IInv, TimeoutsTypeOK
  <2>3. ctx' = [j \in Id |-> TimedOut({})[j]]
    BY <2>1, <2>2 DEF TimedOut
  <2>4. ctx' = [j \in Id |-> IF j \in {} THEN [TimedOut({})[j] EXCEPT !.warned = TRUE]
                                       ELSE TimedOut({})[j]]
    BY <2>3
  <2> QED BY <2>1, <2>4, <1>1 DEF TaskExpires
<1> QED BY <1>2, <1>3

LEMMA TaskExpiresStep ==
  ASSUME IInv, calls' \in 0..MaxCalls, NEW i \in Id, TaskExpires(i)
  PROVE  IInv'
<1>1. PICK E \in SUBSET (Known \cap {i}) :
        ctx' = [j \in Id |-> IF j \in {} THEN [TimedOut(E)[j] EXCEPT !.warned = TRUE]
                                       ELSE TimedOut(E)[j]]
  BY TaskExpiresMarks
<1>2. /\ i \in Async /\ called' \subseteq Id
      /\ UNCHANGED <<clock, callbacks, warners, monitoring>>
      /\ task' = [task EXCEPT ![i] = NoTask]
  BY TaskExpiresMarks
<1>3. task' \in [Id -> [at : {"none", "new", "first", "last"}, wake : Nat]] /\ TasksOK'
  BY <1>2 DEF IInv, TimeoutsTypeOK, TasksOK, NoTask
<1>4. E \in SUBSET Known /\ {} \in SUBSET Known
  BY <1>1
<1> QED BY <1>1, <1>2, <1>3, <1>4, MarkingStep

-----------------------------------------------------------------------------
(* The inductive invariant                                                 *)

LEMMA InitOK == TimeoutsInit => IInv
<1> SUFFICES ASSUME TimeoutsInit PROVE IInv
  OBVIOUS
<1>1. TimeoutsTypeOK
  BY Assumed DEF TimeoutsInit, TimeoutsTypeOK, Known
<1> QED BY <1>1 DEF TimeoutsInit, IInv, TasksOK, CallbackOK

(* In a step in which no time is over nothing is marked.                   *)
LEMMA StepOK ==
  ASSUME IInv, TimeoutsNext
  PROVE  /\ IInv'
         /\ NoneExpires \/ CheckTimeouts \/ \E i \in Id : TaskExpires(i)
<1>1. calls' \in 0..MaxCalls
  BY Assumed DEF TimeoutsNext, IInv, TimeoutsTypeOK
<1>2. ASSUME NEW i \in Id, NEW d \in Duration,
             \/ Create(i, d) \/ SetLimit(i, d) \/ CreateBelow(i, d) \/ Extend(i, d)
             \/ SendWarning(i, d) \/ CreateAsync(i, d)
      PROVE  IInv' /\ NoneExpires
  BY <1>1, <1>2, CreateStep, SetLimitStep, CreateBelowStep, ExtendStep, CreateAsyncStep
<1>3. ASSUME NEW i \in Id,
             \/ StartWorkflow(i) \/ StartStep(i) \/ Coordinate(i) \/ Complete(i)
             \/ Cancel(i) \/ HandleTimeout(i) \/ CompleteAsync(i) \/ CancelAsync(i)
      PROVE  IInv' /\ NoneExpires
  BY <1>1, <1>3, StartWorkflowStep, StartStepStep, CoordinateStep, CompleteStep,
     CancelStep, CompleteAsyncStep, CancelAsyncStep
<1>4. CASE Clear
  BY <1>1, <1>4, ClearStep
<1>5. CASE StopMonitor \/ ClockTicks
  <2>1. /\ ctx' \in Contexts /\ clock' \in 0..LastTime /\ monitoring' \in BOOLEAN /\ called' = {}
        /\ UNCHANGED <<ctx, callbacks, warners, task>>
    <3>1. ctx \in Contexts /\ clock \in 0..LastTime /\ LastTime \in Nat /\ monitoring \in BOOLEAN
      BY Typed, Assumed DEF IInv, TimeoutsTypeOK
    <3>2. CASE StopMonitor
      BY <3>1, <3>2 DEF StopMonitor, Quiet
    <3>3. CASE ClockTicks
      BY <3>1, <3>3 DEF ClockTicks, Quiet
    <3> QED BY <3>2, <3>3, <1>5
  <2> QED BY <2>1, <1>1, SameTasks, QuietStep DEF Alike
<1>6. ASSUME NEW i \in Id, TaskBegins(i) \/ TaskWarns(i)
      PROVE  IInv' /\ NoneExpires
  BY <1>1, <1>6, TaskStep
<1>7. ASSUME NEW i \in Id, TaskExpires(i)
      PROVE  IInv'
  BY <1>1, <1>7, TaskExpiresStep
<1>8. CASE CheckTimeouts
  BY <1>1, <1>8, CheckTimeoutsStep
<1> QED BY <1>2, <1>3, <1>4, <1>5, <1>6, <1>7, <1>8 DEF TimeoutsNext, CallOperation, Elapse

LEMMA StutterOK == IInv /\ UNCHANGED timeoutVars => IInv'
BY DEF IInv, TimeoutsTypeOK, TasksOK, CallbackOK, Known, timeoutVars

LEMMA Invariant == TimeoutsSpec => []IInv
<1>1. IInv /\ [TimeoutsNext]_timeoutVars => IInv'
  BY StepOK, StutterOK
<1> QED BY InitOK, <1>1, PTL DEF TimeoutsSpec

-----------------------------------------------------------------------------
(* The registries agree with each other: callbacks belong to registered    *)
(* operations, and what timed out or was cancelled has an end.             *)
THEOREM TypeCorrect == TimeoutsSpec => []TimeoutsTypeOK
<1>1. IInv => TimeoutsTypeOK
  BY DEF IInv
<1> QED BY Invariant, <1>1, PTL

(* Whoever starts, extends, completes and cancels operations meanwhile, in *)
(* any hierarchy: the step in which the monitor finds that the time of an  *)
(* operation is over marks the running operations below it too.            *)
THEOREM ExpiryIsPassedOn == TimeoutsSpec => ExpiryReachesChildren
<1>1. ASSUME IInv, TimeoutsNext, NEW p \in Known \ Async,
             Running(p), ctx'[p] # Nothing, ctx'[p].timed_out,
             NEW c \in ctx[p].children \cap Known
      PROVE  ctx'[c].timed_out
  <2>1. p \in Id /\ c \in Id /\ ctx[p] # Nothing /\ ctx[c] # Nothing /\ ~ctx[p].timed_out
    BY <1>1 DEF IInv, TimeoutsTypeOK, Known, Running
  <2>2. ~NoneExpires
    BY <2>1, <1>1 DEF NoneExpires
  <2>3. CASE CheckTimeouts
    <3>1. PICK E \in SUBSET Known, W \in SUBSET Known :
            /\ ctx' = [i \in Id |-> IF i \in W THEN [TimedOut(E)[i] EXCEPT !.warned = TRUE]
                                             ELSE TimedOut(E)[i]]
            /\ \A q \in E : \A d \in ctx[q].children \cap Known : d \in E \/ ctx[d].timed_out
      BY <1>1, <2>3, CheckTimeoutsMarks
    <3>2. \A j \in Id : ctx[j] # Nothing => ctx'[j].timed_out = (j \in E \/ ctx[j].timed_out)
      BY <1>1, <3>1, MarkedContexts
    <3>3. p \in E
      BY <2>1, <3>2, <1>1
    <3>4. c \in E \/ ctx[c].timed_out
      BY <3>1, <3>3
    <3> QED BY <2>1, <3>2, <3>4
  <2>4. ASSUME NEW i \in Id, TaskExpires(i) PROVE FALSE
    <3>1. PICK E \in SUBSET (Known \cap {i}) :
            ctx' = [j \in Id |-> IF j \in {} THEN [TimedOut(E)[j] EXCEPT !.warned = TRUE]
                                           ELSE TimedOut(E)[j]]
      BY <1>1, <2>4, TaskExpiresMarks
    <3>2. i \in Async
      BY <1>1, <2>4, TaskExpiresMarks
    <3>3. E \in SUBSET Known /\ {} \in SUBSET Known /\ p \notin E
      BY <3>1, <3>2
    <3>4. \A j \in Id : ctx[j] # Nothing => ctx'[j].timed_out = (j \in E \/ ctx[j].timed_out)
      BY <1>1, <3>1, <3>3, MarkedContexts
    <3> QED BY <2>1, <3>3, <3>4, <1>1
  <2> QED BY <2>2, <2>3, <2>4, <1>1, StepOK
<1>2. IInv /\ [TimeoutsNext]_timeoutVars =>
        [\A p \in Known \ Async :
           (Running(p) /\ ctx'[p] # Nothing /\ ctx'[p].timed_out)
             => \A c \in ctx[p].children \cap Known : ctx'[c].timed_out]_timeoutVars
  BY <1>1
<1> QED BY Invariant, <1>2, PTL DEF TimeoutsSpec, ExpiryReachesChildren

(* Completing or cancelling an operation in time means that its callback   *)
(* is not called any more, however the monitor and the callers interleave. *)
THEOREM CallbacksInTime == TimeoutsSpec => NoLateCallback
<1>1. ASSUME IInv, TimeoutsNext, NEW i \in called' \ Async
      PROVE  /\ i \in Known /\ ~ctx[i].cancelled
             /\ ctx[i].end = Nothing \/ ctx[i].timed_out
  <2>1. i \in callbacks
    <3>1. CASE CheckTimeouts
      BY <1>1, <3>1, CheckTimeoutsMarks
    <3>2. ASSUME NEW j \in Id, TaskExpires(j) PROVE FALSE
      BY <1>1, <3>2, TaskExpiresMarks
    <3>3. ASSUME NEW j \in Id, HandleTimeout(j) PROVE i \in callbacks
      BY <1>1, <3>3 DEF HandleTimeout
    <3>4. CASE called' = {}
      BY <1>1, <3>4
    <3> QED
      BY <1>1, <3>1, <3>2, <3>3, <3>4
      DEF TimeoutsNext, CallOperation, Elapse, Quiet, Create, SetLimit, CreateBelow, Extend, SendWarning,
          CreateAsync, StartWorkflow, StartStep, Coordinate, Complete, Cancel, CompleteAsync,
          CancelAsync, StopMonitor, Clear, TaskBegins, TaskWarns, ClockTicks
  <2> QED BY <1>1, <2>1 DEF IInv, TimeoutsTypeOK, CallbackOK
<1>2. IInv /\ [TimeoutsNext]_timeoutVars =>
        [\A i \in called' \ Async :
           /\ i \in Known /\ ~ctx[i].cancelled
           /\ ctx[i].end = Nothing \/ ctx[i].timed_out]_timeoutVars
  BY <1>1
<1> QED BY Invariant, <1>2, PTL DEF TimeoutsSpec, NoLateCallback

(* Both: whatever happens to an operation and to those around it, an end   *)
(* is passed on downwards, and is the last that its callback hears of.     *)
THEOREM EndsAreRespected == TimeoutsSpec => EndsRespected
BY ExpiryIsPassedOn, CallbacksInTime, PTL DEF EndsRespected

=============================================================================
