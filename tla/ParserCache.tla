---------------------------- MODULE ParserCache ----------------------------
(***************************************************************************)
(* TypeScriptParser: a cache of syntax trees, of limited size, with the    *)
(* times at which the files were modified, and MemoryManager, which makes  *)
(* it smaller when memory runs short.  A file is read and parsed, and its  *)
(* time is asked for afterwards: an editor may come in between.            *)
(*                                                                         *)
(* A content is the set of what it declares, which stands for the text and *)
(* for its tree; its size is their number.  A tree is stored as it is, for *)
(* its class is local to a method and so it cannot be pickled.  Files that *)
(* are too large or in an excluded directory are left out.                 *)
(*                                                                         *)
(* A definition called a mutant is a plausible mistake in the definition   *)
(* that follows it; no formula uses it.  Some property fails with it.      *)
(***************************************************************************)
EXTENDS Integers, Sequences, FiniteSets, SequencesExt, FiniteSetsExt

CONSTANTS
  SourceFile,  (* the files                                                *)
  Contents,    (* of every file, the contents that an editor may give it   *)
  Wide,        (* the contents with characters of more than one byte       *)
  CacheLimit,  (* cache_size_mb                                            *)
  MaxClock,    (* bound on the times files change                          *)
  Gone         (* in place of a content: there is no file                  *)

ASSUME ParserAssumption ==
  /\ CacheLimit \in Nat /\ MaxClock \in Nat
  /\ \A f \in SourceFile : \A c \in Contents[f] : c # Gone /\ IsFiniteSet(c)

VARIABLES
  sources,        (* every file's content, and when it was modified           *)
  clock,       (* the last time a file changed                             *)
  astCache,    (* _ast_cache: trees and times, the oldest used first       *)
  cacheSize,   (* _cache_size_bytes                                        *)
  parsing,     (* how far parse_file is                                    *)
  tainted      (* the files that changed between being read and asked for  *)
               (* their time, and not since                                *)

parserVars == <<sources, clock, astCache, cacheSize, parsing, tainted>>

NoParse == [stage |-> "none", file |-> Gone, tree |-> Gone]

ParserInit ==
  /\ \E c \in [SourceFile -> UNION {Contents[f] : f \in SourceFile}] :
       /\ \A f \in SourceFile : c[f] \in Contents[f]
       /\ sources = [f \in SourceFile |-> [content |-> c[f], mtime |-> 1]]
  /\ clock = 1 /\ astCache = <<>> /\ cacheSize = 0
  /\ parsing = NoParse /\ tainted = {}

Present(f) == sources[f].content # Gone

(* An editor writes, removes or creates a file.                            *)
Edit(f) ==
  /\ clock < MaxClock
  /\ clock' = clock + 1
  /\ \E c \in (Contents[f] \cup {Gone}) \ {sources[f].content} :
       sources' = [sources EXCEPT ![f] = [content |-> c, mtime |-> clock + 1]]
  /\ tainted' = IF parsing.stage = "parsed" /\ parsing.file = f
                THEN tainted \cup {f} ELSE tainted \ {f}
  /\ UNCHANGED <<astCache, cacheSize, parsing>>

-----------------------------------------------------------------------------
(* The size of an entry when it comes, in characters, and when it goes, in *)
(* bytes: _estimate_cache_entry_size.                                      *)
SizeAdded(content) == Cardinality(content)
SizeRemoved(entry) ==
  Cardinality(entry.tree) + IF entry.tree \in Wide THEN 1 ELSE 0

SizeOf(entries) == FoldLeft(LAMBDA s, e : s + SizeRemoved(e), 0, entries)

(* A file has one entry.                                                   *)
Parsed(f) == \E i \in DOMAIN astCache : astCache[i].file = f
IndexOf(f) == CHOOSE i \in DOMAIN astCache : astCache[i].file = f
EntryOf(f) == astCache[IndexOf(f)]
Others(f) == RemoveAt(astCache, IndexOf(f))

(* A cache and its size, without the n entries that were used longest ago. *)
DropOldest(c, n) ==
  LET k == Max({0, Min({n, Len(c.entries)})})
  IN  [entries |-> SubSeq(c.entries, k + 1, Len(c.entries)),
       size |-> c.size - SizeOf(SubSeq(c.entries, 1, k))]

(* invalidate_cache                                                        *)
InvalidateTree(f) ==
  /\ astCache' = IF Parsed(f) THEN Others(f) ELSE astCache
  /\ cacheSize' = cacheSize - IF Parsed(f) THEN SizeRemoved(EntryOf(f)) ELSE 0

-----------------------------------------------------------------------------
(* The callbacks of the parser: _handle_memory_pressure drops a tenth, and *)
(* _handle_emergency_memory keeps a twentieth, but each at least one.      *)
Lighten(c) == DropOldest(c, Max({1, Len(c.entries) \div 10}))
KeepLatest(c) == DropOldest(c, Len(c.entries) - Max({1, Len(c.entries) \div 20}))

(* MemoryManager: "still" says whether memory is short after a first try.  *)
HighPressure(c, still) == IF still THEN KeepLatest(Lighten(c)) ELSE Lighten(c)
Emergency(c) == Lighten(KeepLatest(c))

(* check_memory_pressure does what the level asks for, and then            *)
(* handle_memory_pressure does it again; every tenth file, if there is a   *)
(* manager and memory is short.                                            *)
Relieved(c) ==
  {c} \cup {HighPressure(HighPressure(c, s), t) : s, t \in BOOLEAN}
      \cup {Emergency(IF s THEN KeepLatest(Emergency(c)) ELSE Emergency(c)) : s \in BOOLEAN}

-----------------------------------------------------------------------------
(* parse_file: the cache is asked, unless the file changed.                *)
ParseFile(f) ==
  /\ parsing.stage = "none"
  /\ IF Parsed(f) /\ Present(f) /\ sources[f].mtime <= EntryOf(f).mtime
     THEN /\ parsing' = [stage |-> "done", file |-> f, tree |-> EntryOf(f).tree]
          /\ astCache' = Append(Others(f), EntryOf(f))
          /\ UNCHANGED cacheSize
     ELSE /\ parsing' = [stage |-> "missed", file |-> f, tree |-> Gone]
          /\ InvalidateTree(f)
  /\ UNCHANGED <<sources, clock, tainted>>

ReadSource ==
  /\ parsing.stage = "missed"
  /\ parsing' = [parsing EXCEPT !.stage = IF Present(parsing.file) THEN "parsed" ELSE "done",
                                !.tree = sources[parsing.file].content]
  /\ UNCHANGED <<sources, clock, astCache, cacheSize, tainted>>

(* Mutant: what is evicted is not subtracted.                              *)
MadeRoomKept(c, size) ==
  LET n == Min({k \in 0..Len(c.entries) :
                  k = Len(c.entries) \/ DropOldest(c, k).size + size <= CacheLimit})
  IN  [DropOldest(c, n) EXCEPT !.size = c.size]

(* The eviction of _cache_result.                                          *)
MadeRoom(c, size) ==
  LET n == Min({k \in 0..Len(c.entries) :
                  k = Len(c.entries) \/ DropOldest(c, k).size + size <= CacheLimit})
  IN  DropOldest(c, n)

(* _cache_result: asks for the time of a file that was read before.  If it *)
(* is gone, an exception leaves parse_file.                                *)
StoreTree ==
  /\ parsing.stage = "parsed"
  /\ \E c \in Relieved([entries |-> astCache, size |-> cacheSize]) :
       LET f == parsing.file
           size == SizeAdded(parsing.tree)
           room == MadeRoom(c, size)
       IN  IF Present(f)
           THEN /\ astCache' = Append(room.entries,
                                      [file |-> f, tree |-> parsing.tree, mtime |-> sources[f].mtime])
                /\ cacheSize' = room.size + size
                /\ parsing' = [parsing EXCEPT !.stage = "done"]
           ELSE /\ astCache' = c.entries /\ cacheSize' = c.size
                /\ parsing' = [parsing EXCEPT !.stage = "done", !.tree = Gone]
  /\ UNCHANGED <<sources, clock, tainted>>

ParseStep == ReadSource \/ StoreTree

-----------------------------------------------------------------------------
(* The size that is kept is that of the entries, and the limit holds, but  *)
(* for one entry that is larger than it.  Refuted with Wide contents.      *)
SizeKept ==
  /\ cacheSize = SizeOf(astCache)
  /\ Len(astCache) > 1 => cacheSize <= CacheLimit

(* "keep only 5% most recent", refuted: after the callback that keeps the  *)
(* latest entry the other one removes it.                                  *)
LatestKept ==
  astCache # <<>> => Emergency([entries |-> astCache, size |-> cacheSize]).entries # <<>>
=============================================================================
