--------------------------- MODULE SourceSymbols ----------------------------
(***************************************************************************)
(* SymbolResolver: the symbols and references of a list of files, by name  *)
(* and kind, from the trees of the parser and the bytes of the files; the  *)
(* answers are cached under the times of the files at the beginning of a   *)
(* call.  One call at a time, while an editor changes the files.           *)
(*                                                                         *)
(* A declaration has a kind, a name, the class and the method it is in;    *)
(* calls and imports are among them.  A symbol that is cut out of the      *)
(* bytes of one content by the tree of another one is Torn.  What the pass *)
(* "dynamic" and include_imports add, which stands partly for analyses     *)
(* that are not there, is left out, with the scores of confidence.         *)
(*                                                                         *)
(* A definition called a mutant is a plausible mistake in the definition   *)
(* that follows it; no formula uses it.  Some property fails with it.      *)
(***************************************************************************)
EXTENDS ParserCache

CONSTANTS
  Requests,    (* what is asked for: files, kinds, a target or Gone, and   *)
               (* continue_on_error                                        *)
  MaxResolved, (* bound on the calls                                       *)
  Torn

ASSUME SymbolsAssumption ==
  MaxResolved \in Nat /\ \A r \in Requests : r.files \in Seq(SourceFile)

VARIABLES
  job,         (* the call under way                                       *)
  resolved,    (* the number of calls                                      *)
  results,     (* result_cache                                             *)
  answer,      (* what the last call returned                              *)
  changed      (* the files that changed since the call began              *)

symbolVars == <<parserVars, job, resolved, results, answer, changed>>

NoJob == [stage |-> "none", request |-> Gone, key |-> Gone, todo |-> <<>>,
          symbols |-> {}, references |-> {}, errors |-> {}]

SymbolsInit ==
  /\ ParserInit
  /\ job = NoJob /\ resolved = 0 /\ results = <<>>
  /\ answer = Gone /\ changed = {}

-----------------------------------------------------------------------------
(* The traversals                                                          *)

Members == {"method", "property"}

(* What a symbol is stored under: of a test, its description.              *)
KeyOf(d) ==
  CASE d.kind \in Members -> <<d.class, d.name>>
    [] d.kind = "test" -> <<"test", d.name>>
    [] OTHER -> <<d.name>>

OfKind(d, r) ==
  r.kinds = {} \/ (IF d.kind = "test" THEN "function" ELSE d.kind) \in r.kinds

(* A method of the target's name, or of its class and name.                *)
MethodAsked(class, name, r) ==
  r.target \in {Gone, <<class, name>>, <<name>>}

(* The traversal turns back at a method that is not the one asked for.     *)
Blocked(d, r) ==
  /\ d.method # Gone /\ (r.kinds = {} \/ "method" \in r.kinds)
  /\ ~MethodAsked(d.class, d.method, r)

Unnamed == {"call", "import", "extends"}

(* _extract_real_symbols                                                   *)
Extracted(content, r) ==
  {d \in content :
     /\ d.kind \notin Unnamed /\ OfKind(d, r) /\ ~Blocked(d, r)
     /\ IF d.kind = "method" THEN MethodAsked(d.class, d.name, r)
        ELSE r.target \in {Gone, <<d.name>>}}

(* _extract_symbols_from_ast: the keys that are not the target go.         *)
SymbolsOf(content, r) ==
  {KeyOf(d) : d \in {e \in Extracted(content, r) : r.target = Gone \/ KeyOf(e) = r.target}}

(* _extract_real_references: what is in a class is traversed once with its *)
(* class, and once without, when no method can turn the traversal back.    *)
Traversals(d, r) ==
  Cardinality({b \in BOOLEAN : /\ b => ~Blocked(d, r)
                               /\ d.class = Gone \/ d.kind = "method" => b})

Referred(d, r) ==
  CASE d.kind \in {"import", "extends"} -> TRUE
    [] d.kind = "method" -> OfKind(d, r) /\ MethodAsked(d.class, d.name, r)
    [] d.kind \in {"call", "test"} -> /\ r.kinds = {} \/ r.kinds \cap {"function", "method"} # {}
                                     /\ r.target \in {Gone, <<d.name>>}
    [] d.kind \in {"class", "interface", "function"} -> OfKind(d, r) /\ r.target \in {Gone, <<d.name>>}
    [] OTHER -> FALSE

ReferencesOf(content, r) ==
  {[name |-> d.name, kind |-> d.kind, times |-> Traversals(d, r)] :
     d \in {e \in content : Referred(e, r) /\ Traversals(e, r) > 0}}

(* The bytes that are read beside a tree are those it was made of, or not. *)
Cut(f, tree, found) ==
  IF ~Present(f) THEN {} ELSE IF sources[f].content = tree THEN found ELSE {Torn}

(* A symbol of a later file replaces one of the same key.                  *)
Replace(symbols, f, keys) ==
  {s \in symbols : s.key \notin keys} \cup {[key |-> k, file |-> f] : k \in keys}

-----------------------------------------------------------------------------
(* resolve_symbols                                                         *)

(* Mutant: without the times.                                              *)
CacheKeyTimeless(r) ==
  [files |-> {<<f, 0>> : f \in ToSet(r.files)}, kinds |-> r.kinds, target |-> r.target]

(* _generate_cache_key: the files are sorted, and continue_on_error is no  *)
(* part of it.                                                             *)
TimeOf(f) == IF Present(f) THEN sources[f].mtime ELSE 0
CacheKey(r) ==
  [files |-> {<<f, TimeOf(f)>> : f \in ToSet(r.files)}, kinds |-> r.kinds, target |-> r.target]

ResolveSymbols(r) ==
  /\ job.stage = "none" /\ resolved < MaxResolved
  /\ resolved' = resolved + 1
  /\ changed' = {}
  /\ IF CacheKey(r) \in DOMAIN results
     THEN /\ answer' = [results[CacheKey(r)] EXCEPT !.request = r]
          /\ UNCHANGED job
     ELSE /\ job' = [NoJob EXCEPT !.stage = IF r.files = <<>> THEN "done" ELSE "parse",
                                  !.request = r, !.key = CacheKey(r), !.todo = r.files]
          /\ answer' = Gone
  /\ UNCHANGED <<parserVars, results>>

AskedFile == Head(job.todo)
NextFile == IF Len(job.todo) > 1 THEN "parse" ELSE "done"

(* _syntactic_resolution: one file after the other.                        *)
StartParse ==
  /\ job.stage = "parse" /\ ParseFile(AskedFile)
  /\ UNCHANGED <<job, resolved, results, answer, changed>>

GoOnParse ==
  /\ ParseStep
  /\ UNCHANGED <<job, resolved, results, answer, changed>>

ExtractSymbols ==
  /\ job.stage = "parse" /\ parsing.stage = "done"
  /\ IF parsing.tree = Gone
     THEN /\ job' = [job EXCEPT !.errors = @ \cup {AskedFile}, !.todo = Tail(@),
                                !.stage = IF job.request.carryOn THEN NextFile ELSE "done"]
          /\ parsing' = NoParse
     ELSE /\ job' = [job EXCEPT !.stage = "references",
                       !.symbols = Replace(@, AskedFile, Cut(AskedFile, parsing.tree,
                                                        SymbolsOf(parsing.tree, job.request)))]
          /\ UNCHANGED parsing
  /\ UNCHANGED <<sources, clock, astCache, cacheSize, tainted, resolved, results, answer, changed>>

ExtractReferences ==
  /\ job.stage = "references"
  /\ LET found == Cut(AskedFile, parsing.tree, ReferencesOf(parsing.tree, job.request))
     IN  job' = [job EXCEPT !.references = @ \cup {<<AskedFile, x>> : x \in found},
                            !.todo = Tail(@), !.stage = NextFile]
  /\ parsing' = NoParse
  /\ UNCHANGED <<sources, clock, astCache, cacheSize, tainted, resolved, results, answer, changed>>

(* The result is kept under the key of the beginning, and returned; the    *)
(* pass "semantic" adds nothing to it without the imports.                 *)
CacheResult ==
  /\ job.stage = "done"
  /\ LET result == [request |-> job.request, symbols |-> job.symbols,
                    references |-> job.references, errors |-> job.errors]
     IN  /\ results' = [k \in DOMAIN results \cup {job.key} |->
                          IF k = job.key THEN result ELSE results[k]]
         /\ answer' = result
  /\ job' = NoJob
  /\ UNCHANGED <<parserVars, resolved, changed>>

-----------------------------------------------------------------------------
(* reanalyze_file                                                          *)
ReanalyzeFile(f) ==
  /\ job.stage = "none" /\ Parsed(f)
  /\ InvalidateTree(f)
  /\ UNCHANGED <<sources, clock, parsing, tainted, job, resolved, results, answer, changed>>

EditFile(f) ==
  /\ Edit(f)
  /\ changed' = changed \cup {f}
  /\ UNCHANGED <<job, resolved, results, answer>>

SymbolsNext ==
  \/ \E r \in Requests : ResolveSymbols(r)
  \/ StartParse \/ GoOnParse \/ ExtractSymbols \/ ExtractReferences \/ CacheResult
  \/ \E f \in SourceFile : EditFile(f) \/ ReanalyzeFile(f)

SymbolsSpec == SymbolsInit /\ [][SymbolsNext]_symbolVars

-----------------------------------------------------------------------------
(* What is declared and asked for, as resolve_symbols describes it.        *)
WantedOf(content, r) ==
  {KeyOf(d) : d \in {e \in content : /\ e.kind \notin Unnamed /\ OfKind(e, r)
                                     /\ r.target = Gone \/ KeyOf(e) = r.target}}
WantedKeys(f, r) == IF Present(f) THEN WantedOf(sources[f].content, r) ELSE {}

(* Of several files that declare a symbol of one key, the last one has it. *)
Wanted(r) ==
  UNION {{[key |-> k, file |-> r.files[i]] :
            k \in WantedKeys(r.files[i], r)
                   \ UNION {WantedKeys(r.files[j], r) : j \in i + 1 .. Len(r.files)}} :
           i \in DOMAIN r.files}

(* The traversal finds what a request asks for.  Without a target it does; *)
(* with one, it finds no properties, and nothing behind other methods.     *)
TargetsReached ==
  \A r \in Requests : r.target # Gone =>
    \A f \in SourceFile : \A c \in Contents[f] : SymbolsOf(c, r) = WantedOf(c, r)

(* The same files are asked for in the same order: the key of the results  *)
(* is without it, but the last file with a symbol has it.                  *)
OrdersAgree ==
  \A q, r \in Requests : ToSet(q.files) = ToSet(r.files) /\ q.kinds = r.kinds /\ q.target = r.target
                            => q.files = r.files

Undisturbed ==
  answer # Gone /\ ToSet(answer.request.files) \cap (changed \cup tainted) = {}

(* A call returns the symbols of the files as they are, whatever an editor *)
(* did before and whatever earlier calls cached, if all its files are      *)
(* there and none of them changed during the call or, before that, between *)
(* the two steps in which the parser reads a file and asks for its time.   *)
ResultsCurrent ==
  Undisturbed /\ (\A f \in ToSet(answer.request.files) : Present(f)) =>
    answer.symbols = Wanted(answer.request) /\ answer.errors = {}

(* Both caches: what they return, and what the lower one keeps.            *)
SymbolsCurrent == ResultsCurrent /\ SizeKept

(* By hand: a file that is missing is always reported.                     *)
MissingReported ==
  Undisturbed => {f \in ToSet(answer.request.files) : ~Present(f)} \subseteq answer.errors

(* By hand: what is in a class is referred to once.                        *)
ReferredOnce == answer # Gone => \A x \in answer.references : x[2] = Torn \/ x[2].times = 1

(* By hand: every symbol is found by its name.                             *)
SymbolsFound ==
  \A f \in {h \in SourceFile : Present(h)} : \A d \in sources[f].content :
    d.kind \notin Unnamed =>
      SymbolsOf(sources[f].content, [files |-> <<f>>, kinds |-> {}, target |-> <<d.name>>, carryOn |-> TRUE]) # {}
=============================================================================
