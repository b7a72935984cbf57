------------------------------ MODULE Imports -------------------------------
(***************************************************************************)
(* ImportTracker: what files import and export, found line by line in      *)
(* their text; the files that imports name, found with the aliases of a    *)
(* folder; and from both the graph of the files and its cycles.  The       *)
(* imports and exports of a file are cached by its name, until             *)
(* analyze_file comes.                                                     *)
(*                                                                         *)
(* A statement is a record: what kind it is of; whether it names a file    *)
(* with a relative path, with an alias or as that of a package; and the    *)
(* files it may stand for, by the order of their extensions.  Pages,       *)
(* positions and the imported names are left out, and so is the parser,    *)
(* which has to find a file but whose trees are not looked at.             *)
(*                                                                         *)
(* A definition called a mutant is a plausible mistake in the definition   *)
(* that follows it; no formula uses it.  Some property fails with it.      *)
(***************************************************************************)
EXTENDS Integers, Sequences, FiniteSets, SequencesExt, FiniteSetsExt

CONSTANTS
  ScriptFile,  (* the files                                                *)
  FolderOf,    (* of every file, the folder it is in                       *)
  Configured,  (* the folders with a tsconfig.json, which has the aliases  *)
  Statements,  (* of every file, the sets of statements it may have        *)
  MadeUp,      (* of every file, the imports that are made up for its name *)
  MaxVersions, (* bound on the changes of the files                        *)
  MaxQueries   (* bound on the calls                                       *)

Unresolved == "unresolved"

ASSUME ImportsAssumption ==
  /\ MaxVersions \in Nat /\ MaxQueries \in Nat
  /\ IsFiniteSet(ScriptFile) /\ Unresolved \notin ScriptFile

VARIABLES
  scripts,     (* the statements of the files that are there               *)
  importCache, (* import_cache: imports with the files they were found in  *)
  exportCache, (* export_cache                                             *)
  root,        (* the folder of module_resolver                            *)
  reported,    (* what the last call returned                              *)
  versions,
  queries,
  straight     (* the files whose cached imports were found, and resolved, *)
               (* since a file changed                                     *)

importVars ==
  <<scripts, importCache, exportCache, root, reported, versions, queries, straight>>

NoReport == [kind |-> "none"]

ImportsInit ==
  /\ scripts \in [ScriptFile -> UNION {Statements[f] : f \in ScriptFile}]
  /\ \A f \in ScriptFile : scripts[f] \in Statements[f]
  /\ importCache = << >> /\ exportCache = << >> /\ root = Unresolved
  /\ reported = NoReport /\ versions = 0 /\ queries = 0 /\ straight = {}

There(f) == f \in DOMAIN scripts

(* A file is written, created or removed.                                  *)
ChangeScript(f) ==
  /\ versions < MaxVersions /\ versions' = versions + 1
  /\ \/ /\ \E t \in Statements[f] \ (IF There(f) THEN {scripts[f]} ELSE {}) :
             scripts' = [g \in DOMAIN scripts \cup {f} |-> IF g = f THEN t ELSE scripts[g]]
        /\ straight' = IF There(f) THEN straight \ {f} ELSE {}
     \/ /\ There(f)
        /\ scripts' = [g \in DOMAIN scripts \ {f} |-> scripts[g]]
        /\ straight' = {}
  /\ UNCHANGED <<importCache, exportCache, root, reported, queries>>

-----------------------------------------------------------------------------
(* What is seen of a file                                                  *)

Flags == [types : BOOLEAN, distinguish : BOOLEAN, dynamic : BOOLEAN, external : BOOLEAN]

(* The defaults of analyze_imports, and what get_file_imports passes.      *)
Defaults == [types |-> TRUE, distinguish |-> FALSE, dynamic |-> FALSE, external |-> FALSE]
FileFlags == [Defaults EXCEPT !.distinguish = TRUE, !.dynamic = TRUE]

(* A path that begins with neither "." nor "/": an alias is external too.  *)
External(s) == s.form # "relative"

(* Mutant: every statement on a line of its own is seen.                   *)
ImportSeenAlways(s, flags) == s.kind \in {"static", "type", "dynamic"}

(* _create_mock_imports_with_params, which does parse the text: of static  *)
(* imports, those on one line.                                             *)
ImportSeen(s, flags) ==
  CASE s.kind = "dynamic" -> flags.dynamic
    [] s.kind = "type" -> flags.types /\ flags.distinguish /\ (flags.external \/ ~External(s))
    [] s.kind = "static" -> flags.external \/ ~External(s)
    [] OTHER -> FALSE

(* _extract_imports_from_ast: if there are none, the name decides.         *)
ImportsFound(f, flags) ==
  LET found == {s \in scripts[f] : ImportSeen(s, flags)}
  IN  IF found = {} THEN MadeUp[f] ELSE found

(* _extract_exports_from_ast: a list with a renaming among other names is  *)
(* skipped, and so are asynchronous functions and abstract classes.        *)
ExportsFound(f, again) ==
  {s \in scripts[f] : s.kind \in {"export"} \cup IF again THEN {"reexport"} ELSE {}}

(* resolve_path: the aliases of the folder, and then the extensions.  No   *)
(* alias begins like a relative path, no package is a path from the root.  *)
Named(s) == {i \in DOMAIN s.files : There(s.files[i])}
ResolvedPath(s, folder) ==
  IF Named(s) # {} /\ (s.form = "relative" \/ (s.form = "alias" /\ folder \in Configured))
  THEN s.files[Min(Named(s))] ELSE Unresolved

-----------------------------------------------------------------------------
(* analyze_imports: of files in their order, with the aliases of the       *)
(* folder of the first one.                                                *)

FolderSet(files, resolve, old) == IF resolve /\ files # <<>> THEN FolderOf[files[1]] ELSE old

CachedImports(cache, files, flags, resolve, folder) ==
  FoldLeft(LAMBDA c, f :
             IF f \in DOMAIN c \/ ~There(f) THEN c
             ELSE [g \in DOMAIN c \cup {f} |->
                     IF g # f THEN c[g]
                     ELSE {[statement |-> s,
                            module |-> IF resolve THEN ResolvedPath(s, folder) ELSE Unresolved] :
                             s \in ImportsFound(f, flags)}],
           cache, files)

ImportsOfFiles(cache, files) == UNION {cache[f] : f \in ToSet(files) \cap DOMAIN cache}

NotThere(cache, files) == {f \in ToSet(files) : f \notin DOMAIN cache /\ ~There(f)}

Ask == queries < MaxQueries /\ queries' = queries + 1

AnalyzeImports(files, flags, resolve) ==
  /\ Ask
  /\ root' = FolderSet(files, resolve, root)
  /\ importCache' = CachedImports(importCache, files, flags, resolve, root')
  /\ reported' = [kind |-> "imports", files |-> files, flags |-> flags,
                  imports |-> ImportsOfFiles(importCache', files),
                  errors |-> NotThere(importCache, files)]
  /\ straight' = straight \cup
       IF flags = Defaults /\ resolve THEN ToSet(files) \cap (DOMAIN importCache' \ DOMAIN importCache) ELSE {}
  /\ UNCHANGED <<scripts, exportCache, versions>>

(* analyze_exports                                                         *)
CachedExports(files, again) ==
  [f \in DOMAIN exportCache \cup {g \in ToSet(files) : There(g)} |->
     IF f \in DOMAIN exportCache THEN exportCache[f] ELSE ExportsFound(f, again)]

AnalyzeExports(files, again) ==
  /\ Ask
  /\ exportCache' = CachedExports(files, again)
  /\ reported' = [kind |-> "exports", files |-> files, again |-> again,
                  exports |-> UNION {exportCache'[f] : f \in ToSet(files) \cap DOMAIN exportCache'},
                  errors |-> NotThere(exportCache, files)]
  /\ UNCHANGED <<scripts, importCache, root, versions, straight>>

(* get_file_imports: does not resolve what it caches.                      *)
GetFileImports(f) ==
  /\ Ask
  /\ importCache' = CachedImports(importCache, <<f>>, FileFlags, FALSE, root)
  /\ reported' = [kind |-> "file", files |-> <<f>>, imports |-> ImportsOfFiles(importCache', <<f>>)]
  /\ UNCHANGED <<scripts, exportCache, root, versions, straight>>

(* analyze_file, after a change; it does not resolve either.  A text that  *)
(* is gone has no imports.                                                 *)
AnalyzeFile(f) ==
  /\ Ask
  /\ importCache' =
       [g \in DOMAIN importCache \cup {f} |->
          IF g # f THEN importCache[g]
          ELSE {[statement |-> s, module |-> Unresolved] :
                  s \in IF There(f) THEN ImportsFound(f, FileFlags) ELSE {}}]
  /\ straight' = straight \ {f}
  /\ reported' = NoReport
  /\ UNCHANGED <<scripts, exportCache, root, versions>>

-----------------------------------------------------------------------------
(* build_dependency_graph calls analyze_imports for one file after the     *)
(* other, and so with the aliases of its own folder.                       *)

(* Mutant: cycles of three and more.                                       *)
CircularDependenciesLong(edges) ==
  {c \in SeqOf(ScriptFile, Cardinality(ScriptFile)) :
     /\ Len(c) > 2 /\ IsInjective(c)
     /\ \A i \in DOMAIN c : <<c[i], c[(i % Len(c)) + 1]>> \in edges}

(* _detect_circular_dependencies: simple_cycles of networkx, each here     *)
(* from every one of its files, without those of a file that imports       *)
(* itself.                                                                 *)
CircularDependencies(edges) ==
  {c \in SeqOf(ScriptFile, Cardinality(ScriptFile)) :
     /\ Len(c) > 1 /\ IsInjective(c)
     /\ \A i \in DOMAIN c : <<c[i], c[(i % Len(c)) + 1]>> \in edges}

GraphCache(files) ==
  FoldLeft(LAMBDA c, f : CachedImports(c, <<f>>, Defaults, TRUE, FolderOf[f]), importCache, files)

EdgesOfImports(cache, files) ==
  {e \in (ToSet(files) \cap DOMAIN cache) \X ToSet(files) :
     \E i \in cache[e[1]] : i.module = e[2] /\ ~External(i.statement)}

BuildDependencyGraph(files, cycles) ==
  /\ Ask
  /\ importCache' = GraphCache(files)
  /\ root' = Last(<<root>> \o [i \in DOMAIN files |-> FolderOf[files[i]]])
  /\ LET edges == EdgesOfImports(importCache', files)
     IN  reported' = [kind |-> "graph", files |-> files, edges |-> edges,
                      circular |-> IF cycles THEN CircularDependencies(edges) ELSE {},
                      cycles |-> cycles]
  /\ straight' = straight \cup (DOMAIN importCache' \ DOMAIN importCache)
  /\ UNCHANGED <<scripts, exportCache, versions>>

(* get_module_info: nobody looks for the dependents.                       *)
GetModuleInfo(f) ==
  /\ Ask
  /\ root' = FolderOf[f]
  /\ importCache' = CachedImports(importCache, <<f>>, Defaults, TRUE, root')
  /\ exportCache' = CachedExports(<<f>>, TRUE)
  /\ reported' = [kind |-> "module", file |-> f,
                  dependencies |-> {i.module : i \in ImportsOfFiles(importCache', <<f>>)} \ {Unresolved},
                  dependents |-> {}]
  /\ straight' = straight \cup (DOMAIN importCache' \ DOMAIN importCache)
  /\ UNCHANGED <<scripts, versions>>

(* resolve_module_path: the project that is asked about counts only the    *)
(* first time.                                                             *)
ResolveModulePath(s, folder) ==
  /\ Ask
  /\ root' = IF root = Unresolved THEN folder ELSE root
  /\ reported' = [kind |-> "path", statement |-> s, folder |-> folder,
                  module |-> ResolvedPath(s, root')]
  /\ UNCHANGED <<scripts, importCache, exportCache, versions, straight>>

FileList == {<<f>> : f \in ScriptFile} \cup {SetToSeq(ScriptFile)}

(* Before anything else happens the caller looks at what was returned.     *)
LookAtReport ==
  /\ reported # NoReport /\ reported' = NoReport
  /\ UNCHANGED <<scripts, importCache, exportCache, root, versions, queries, straight>>

ImportsStep ==
  \/ \E f \in ScriptFile :
       ChangeScript(f) \/ GetFileImports(f) \/ AnalyzeFile(f) \/ GetModuleInfo(f)
  \/ \E files \in FileList :
       \/ \E flags \in {Defaults, [FileFlags EXCEPT !.external = TRUE]} :
            \E resolve \in BOOLEAN : AnalyzeImports(files, flags, resolve)
       \/ \E again \in BOOLEAN : AnalyzeExports(files, again)
       \/ \E cycles \in BOOLEAN : BuildDependencyGraph(files, cycles)
  \/ \E f \in DOMAIN scripts : \E s \in scripts[f] : \E folder \in {FolderOf[g] : g \in ScriptFile} :
       s.kind \in {"static", "type"} /\ ResolveModulePath(s, folder)

ImportsNext == LookAtReport \/ (reported = NoReport /\ ImportsStep)

ImportsSpec == ImportsInit /\ [][ImportsNext]_importVars

-----------------------------------------------------------------------------
(* The imports that a graph is made for: on one line, of values, and by    *)
(* relative path.                                                          *)
ImportsFile(f, g) ==
  \E s \in scripts[f] :
    /\ s.kind = "static" /\ s.form = "relative"
    /\ Named(s) # {} /\ s.files[Min(Named(s))] = g

ReachesScript(edges, f, g) ==
  LET reach[n \in Nat] ==
        IF n = 0 THEN {b \in ScriptFile : <<f, b>> \in edges}
        ELSE reach[n - 1] \cup {b \in ScriptFile : \E a \in reach[n - 1] : <<a, b>> \in edges}
  IN  g \in reach[Cardinality(ScriptFile)]

(* The imports that are made up for a name name no file.  They do if the   *)
(* file ends in user-service.ts, say, and has none of its own, or its      *)
(* statements are not seen: its edges then are not those of its text.      *)
NoneMadeUp == \A f \in ScriptFile : \A s \in MadeUp[f] : External(s) \/ s.files = <<>>

(* If the cached imports are younger than the last change of a file, and   *)
(* none are those of get_file_imports or of other flags, then a graph has  *)
(* the edges that the files make, and the files on the cycles it reports   *)
(* are those that import another one that imports them, in however many    *)
(* steps.                                                                  *)
GraphFollowsImports ==
  reported.kind = "graph" /\ ToSet(reported.files) \subseteq straight =>
    /\ reported.edges =
         {e \in ToSet(reported.files) \X ToSet(reported.files) : ImportsFile(e[1], e[2])}
    /\ reported.cycles =>
         \A f \in ScriptFile :
           (\E c \in reported.circular : f \in ToSet(c))
             <=> \E g \in ScriptFile \ {f} :
                   ReachesScript(reported.edges, f, g) /\ ReachesScript(reported.edges, g, f)

-----------------------------------------------------------------------------
(* Refuted statements.                                                     *)

(* A graph is that of the files as they are: the cache is never checked.   *)
GraphCurrent ==
  reported.kind = "graph" /\ versions > 0 =>
    \A f, g \in ToSet(reported.files) : There(f) /\ ImportsFile(f, g) => <<f, g>> \in reported.edges

(* The flags decide what is returned, and are no part of the cache's key.  *)
FlagsRespected ==
  reported.kind = "imports" /\ versions = 0 =>
    {i.statement : i \in reported.imports}
      = UNION {ImportsFound(f, reported.flags) : f \in ToSet(reported.files) \cap DOMAIN scripts}

(* By hand: the flag of re-exports decides which exports are returned.     *)
ReexportsRespected ==
  reported.kind = "exports" /\ versions = 0 =>
    reported.exports = UNION {ExportsFound(f, reported.again) : f \in ToSet(reported.files) \cap DOMAIN scripts}

(* "include_type_imports: Whether to include type-only imports": without   *)
(* distinguish_type_imports there are none.                                *)
TypesIncluded ==
  reported.kind = "imports" /\ versions = 0 /\ reported.flags.types =>
    \A f \in ToSet(reported.files) : \A s \in scripts[f] :
      s.kind = "type" /\ s.form = "relative" => \E i \in reported.imports : i.statement = s

(* "include_dependents: Whether to include dependent modules"              *)
DependentsGiven ==
  reported.kind = "module" /\ versions = 0 =>
    reported.dependents = {g \in DOMAIN scripts : ImportsFile(g, reported.file)}

(* "project_root: The project root directory"                              *)
RootRespected ==
  reported.kind = "path" => reported.module = ResolvedPath(reported.statement, reported.folder)
=============================================================================
