--------------------------- MODULE AnalysisCache ---------------------------
(***************************************************************************)
(* CacheManager: what the analysis of a file gave is kept in memory, among *)
(* the symbols, and in files.  The two caches in memory have a limit, drop *)
(* what was used longest ago, and drop it to the next level.  Each level   *)
(* has a lock; the manager has none, and a call goes through the levels    *)
(* one after the other.  An invalidated key takes along what was declared  *)
(* to depend on it.                                                        *)
(*                                                                         *)
(* A value is abstracted to its version and its size.  What an entry is    *)
(* dropped for goes down under the locks of the levels above, so that this *)
(* is one step; another thread that looks for it meanwhile may miss it.    *)
(*                                                                         *)
(* A definition called a mutant is a plausible mistake in the definition   *)
(* that follows it; no formula uses it.  Some property fails with it.      *)
(***************************************************************************)
EXTENDS Integers, Sequences, FiniteSets, SequencesExt, FiniteSetsExt

CONSTANTS
  Thread,
  Key,
  Uses,        (* the dependencies a key is set with                       *)
  Size,        (* sizes of values                                          *)
  Limit,       (* max_size_mb of a level                                   *)
  Part,        (* 1/Part of the entries goes in a clean-up; 4 in the code  *)
  MaxSets,     (* bound: so many values are set                            *)
  MaxCalls,    (* bound: so many calls are begun                           *)
  Overlap      (* calls that touch a common key may overlap                *)

Memory == 1
Symbol == 2
Files == 3
Level == {Memory, Symbol, Files}

ASSUME CacheAssumption ==
  /\ IsFiniteSet(Key)
  /\ Uses \in [Key -> SUBSET Key]
  /\ Size \subseteq Nat \ {0} /\ Limit \in [Level -> Nat]
  /\ Part \in Nat \ {0} /\ MaxSets \in Nat /\ MaxCalls \in Nat
  /\ Overlap \in BOOLEAN

VARIABLES
  cache,    (* the entries of a level: those that go first come first      *)
  size,     (* current_size_mb of the levels in memory                     *)
  edges,    (* DependencyTracker: a key and one it depends on              *)
  call,     (* the call a thread is in                                     *)
  latest,   (* history: the version of a key; 0 when it is invalid         *)
  declared, (* history: what a key was declared to depend on               *)
  sets, calls

vars == <<cache, size, edges, call, latest, declared, sets, calls>>
history == <<latest, declared, sets, calls>>

NoCall == [op |-> "none"]

Init ==
  /\ cache = [l \in Level |-> <<>>]
  /\ size = [l \in Level |-> 0]
  /\ edges = {}
  /\ call = [t \in Thread |-> NoCall]
  /\ latest = [k \in Key |-> 0]
  /\ declared = [k \in Key |-> {}]
  /\ sets = 0 /\ calls = 0

-----------------------------------------------------------------------------
(* The levels                                                              *)

Total(s) == FoldLeft(LAMBDA n, e : n + e.size, 0, s)
Without(s, k) == FoldLeft(LAMBDA kept, e : IF e.key = k THEN kept ELSE Append(kept, e), <<>>, s)
Entries(s, k) == {s[i] : i \in {j \in DOMAIN s : s[j].key = k}}
Freed(s, k) == FoldLeft(LAMBDA n, e : IF e.key = k THEN n + e.size ELSE n, 0, s)

(* How many entries LRUCache.set drops                                     *)
Excess(s, limit, e) ==
  Min({n \in 0 .. Len(s) : n = Len(s) \/ Total(SubSeq(s, n + 1, Len(s))) + e.size <= limit})

(* _cleanup_if_needed: when the files are too large the oldest ones go.    *)
CleanedUp(files) ==
  LET n == IF Total(files) > Limit[Files] THEN Len(files) \div Part ELSE 0
  IN  SubSeq(files, n + 1, Len(files))

(* FilesystemCache.set                                                     *)
PutFile(lv, e) ==
  [lv EXCEPT !.cache[Files] = CleanedUp(Append(Without(@, e.key), e))]

(* Mutant: the size of a value that is replaced stays in the account.      *)
PutLeaky(lv, l, e) ==
  LET others == Without(lv.cache[l], e.key)
      n == Excess(others, Limit[l], e)
  IN  [lv EXCEPT !.cache[l] = Append(SubSeq(others, n + 1, Len(others)), e),
                 !.size[l] = @ + e.size - Total(SubSeq(others, 1, n))]

(* LRUCache.set                                                            *)
Put(lv, l, e) ==
  LET others == Without(lv.cache[l], e.key)
      n == Excess(others, Limit[l], e)
  IN  [lv EXCEPT !.cache[l] = Append(SubSeq(others, n + 1, Len(others)), e),
                 !.size[l] = @ - Freed(lv.cache[l], e.key)
                               - Total(SubSeq(others, 1, n)) + e.size]

Evicted(lv, l, e) ==
  LET others == Without(lv.cache[l], e.key)
  IN  SubSeq(others, 1, Excess(others, Limit[l], e))

(* What is dropped is demoted: _demote_from_symbol, _demote_from_memory    *)
PutSymbol(lv, e) == FoldLeft(PutFile, Put(lv, Symbol, e), Evicted(lv, Symbol, e))
PutMemory(lv, e) == FoldLeft(PutSymbol, Put(lv, Memory, e), Evicted(lv, Memory, e))

Levels == [cache |-> cache, size |-> size]
Become(lv) == cache' = lv.cache /\ size' = lv.size

PutAt(l, e) ==
  Become(CASE l = Memory -> PutMemory(Levels, e)
           [] l = Symbol -> PutSymbol(Levels, e)
           [] l = Files  -> PutFile(Levels, e))

DropAt(l, k) ==
  /\ cache' = [cache EXCEPT ![l] = Without(@, k)]
  /\ size' = IF l = Files THEN size ELSE [size EXCEPT ![l] = @ - Freed(cache[l], k)]

-----------------------------------------------------------------------------
(* DependencyTracker                                                       *)

(* get_transitively_affected                                               *)
Affected(k, E) ==
  LET reach[n \in 0 .. Cardinality(Key)] ==
        IF n = 0 THEN {d \in Key : <<d, k>> \in E}
        ELSE reach[n - 1] \cup {d \in Key : \E m \in reach[n - 1] : <<d, m>> \in E}
  IN  reach[Cardinality(Key)]

Declared == {p \in Key \X Key : p[2] \in declared[p[1]]}

-----------------------------------------------------------------------------
(* Calls                                                                   *)

Touched(c) ==
  CASE c.op = "get" -> {c.key}
    [] c.op = "set" -> {c.key} \cup Uses[c.key]
    [] c.op = "invalidate" -> {c.key} \cup c.affected
    [] OTHER -> {}

Begin(t, c) ==
  /\ call[t] = NoCall
  /\ calls < MaxCalls
  /\ Overlap \/ \A u \in Thread : Touched(call[u]) \cap Touched(c) = {}
  /\ call' = [call EXCEPT ![t] = c]
  /\ calls' = calls + 1

Continue(t, c) == call' = [call EXCEPT ![t] = c]

(* get looks in one level after the other.                                 *)
Get(t, k) ==
  /\ Begin(t, [op |-> "get", key |-> k, level |-> Memory])
  /\ UNCHANGED <<cache, size, edges, latest, declared, sets>>

Look(t) ==
  LET c == call[t]
      found == Entries(cache[c.level], c.key)
  IN  /\ c.op = "get" /\ "entry" \notin DOMAIN c
      /\ IF found = {}
         THEN /\ Continue(t, IF c.level = Files THEN NoCall ELSE [c EXCEPT !.level = @ + 1])
              /\ UNCHANGED cache
         ELSE LET e == CHOOSE e \in found : TRUE
              IN  /\ Continue(t, IF c.level = Memory THEN NoCall
                                 ELSE [op |-> "get", key |-> c.key, level |-> c.level,
                                       entry |-> e, next |-> Memory])
                  /\ cache' = IF c.level = Files THEN cache
                              ELSE [cache EXCEPT ![c.level] = Append(Without(@, c.key), e)]
      /\ UNCHANGED <<size, edges, history>>

(* _promote_to_higher_levels: the value that was read is set in the levels *)
(* above the one it was found in.                                          *)
Promote(t) ==
  LET c == call[t]
  IN  /\ c.op = "get" /\ "entry" \in DOMAIN c
      /\ PutAt(c.next, c.entry)
      /\ Continue(t, IF c.next + 1 = c.level THEN NoCall ELSE [c EXCEPT !.next = @ + 1])
      /\ UNCHANGED <<edges, history>>

(* Mutant: the levels in the other order                                   *)
FromFiles == <<Files, Symbol, Memory>>

FromMemory == <<Memory, Symbol, Files>>

(* set, in all levels                                                      *)
Set(t, k, s) ==
  /\ sets < MaxSets
  /\ sets' = sets + 1
  /\ Begin(t, [op |-> "set", key |-> k, at |-> 1,
               entry |-> [key |-> k, version |-> sets', size |-> s]])
  /\ UNCHANGED <<cache, size, edges, latest, declared>>

SetLevel(t) ==
  LET c == call[t]
  IN  /\ c.op = "set" /\ c.at <= Len(FromMemory)
      /\ PutAt(FromMemory[c.at], c.entry)
      /\ Continue(t, [c EXCEPT !.at = @ + 1])
      /\ UNCHANGED <<edges, history>>

(* add_dependency for each dependency                                      *)
SetDependencies(t) ==
  LET c == call[t]
  IN  /\ c.op = "set" /\ c.at > Len(FromMemory)
      /\ edges' = edges \cup ({c.key} \X Uses[c.key])
      /\ latest' = [latest EXCEPT ![c.key] = c.entry.version]
      /\ declared' = [declared EXCEPT ![c.key] = Uses[c.key]]
      /\ Continue(t, NoCall)
      /\ UNCHANGED <<cache, size, sets, calls>>

(* invalidate looks for what depends on the key, ...                       *)
Invalidate(t, k) ==
  LET affected == Affected(k, edges)
  IN  /\ Begin(t, [op |-> "invalidate", key |-> k, affected |-> affected,
                   keys |-> <<k>> \o SetToSeq(affected), at |-> 1])
      /\ UNCHANGED <<cache, size, edges, latest, declared, sets>>

(* ... drops the key and the others from all levels ...                    *)
DropLevel(t) ==
  LET c == call[t]
  IN  /\ c.op = "invalidate" /\ c.keys # <<>>
      /\ DropAt(FromMemory[c.at], Head(c.keys))
      /\ Continue(t, IF c.at < Len(FromMemory) THEN [c EXCEPT !.at = @ + 1]
                     ELSE [c EXCEPT !.at = 1, !.keys = Tail(@)])
      /\ UNCHANGED <<edges, history>>

(* ... and then forgets their dependencies, in both directions.            *)
Forget(t) ==
  LET c == call[t]
      gone == {c.key} \cup c.affected
      lost == {c.key} \cup Affected(c.key, Declared)
  IN  /\ c.op = "invalidate" /\ c.keys = <<>>
      /\ edges' = {e \in edges : e[1] \notin gone /\ e[2] \notin gone}
      /\ latest' = [k \in Key |-> IF k \in lost THEN 0 ELSE latest[k]]
      /\ declared' = [k \in Key |-> IF k \in lost THEN {} ELSE declared[k]]
      /\ Continue(t, NoCall)
      /\ UNCHANGED <<cache, size, sets, calls>>

(* cleanup_memory drops from the symbols, without demoting.                *)
CleanupMemory ==
  LET n == Len(cache[Symbol]) \div Part
      gone == SubSeq(cache[Symbol], 1, n)
  IN  /\ n > 0
      /\ cache' = [cache EXCEPT ![Symbol] = SubSeq(@, n + 1, Len(@))]
      /\ size' = [size EXCEPT ![Symbol] = @ - Total(gone)]
      /\ UNCHANGED <<edges, call, history>>

Next ==
  \/ CleanupMemory
  \/ \E t \in Thread :
       \/ Look(t) \/ Promote(t) \/ SetLevel(t) \/ SetDependencies(t)
       \/ DropLevel(t) \/ Forget(t)
       \/ \E k \in Key : Get(t, k) \/ Invalidate(t, k) \/ \E s \in Size : Set(t, k, s)

Spec == Init /\ [][Next]_vars

-----------------------------------------------------------------------------
Entry == [key : Key, version : 1..MaxSets, size : Size]

TypeOK ==
  /\ \A l \in Level : \A e \in Range(cache[l]) : e \in Entry
  /\ size \in [Level -> Int]
  /\ edges \subseteq Key \X Key
  /\ latest \in [Key -> 0..MaxSets]
  /\ declared \in [Key -> SUBSET Key]

(* The accounts of the levels in memory are what their entries take, and   *)
(* no more than the limit, but for one entry that is larger than it.       *)
WithinLimits ==
  \A l \in {Memory, Symbol} :
    /\ size[l] = Total(cache[l])
    /\ size[l] <= Limit[l] \/ Len(cache[l]) = 1

(* While no call is about it, each copy of a key, in whichever level       *)
(* promotions and demotions by other calls have left it, is of the value   *)
(* that was set last; and no copy is left once the key, or one it was      *)
(* declared to depend on by however many steps, has been invalidated.      *)
Coherent ==
  \A k \in Key : (\A t \in Thread : k \notin Touched(call[t])) =>
    \A l \in Level : \A e \in Entries(cache[l], k) : e.version = latest[k]
=============================================================================
