------------------------ MODULE IncrementalAnalysis ------------------------
(***************************************************************************)
(* The incremental analyzer of a TypeScript project: which files a pass    *)
(* analyses again, and the graph of imports that decides it.  Files are    *)
(* edited, created and deleted at any time, also during a pass.            *)
(*                                                                         *)
(* The content of a file is a version, which stands for its hash and time, *)
(* the files it imports, and whether it can be parsed (a file that is too  *)
(* large cannot).  An edge <<f, g>> of the graph says that g imports f.    *)
(* Imports name the files as the scan does: the project root is absolute   *)
(* and no symbolic link.                                                   *)
(***************************************************************************)
EXTENDS Integers, FiniteSets

CONSTANTS
  File,
  Imports,      (* File -> the sets of files that its content can import   *)
  MaxEdits,     (* bound on changes of files                               *)
  Again,        (* whether analyze_full is called when files were analysed *)
  None

FileVersion == 0..MaxEdits
FileContent == [version : FileVersion, imports : SUBSET File, ok : BOOLEAN]
Absent == None
Disks == [File -> FileContent \cup {Absent}]

ASSUME IncrementalAssumption ==
  /\ Imports \in [File -> SUBSET SUBSET File]
  /\ MaxEdits \in Nat /\ Again \in BOOLEAN
  /\ None \notin FileVersion /\ None \notin FileContent /\ None \notin Disks

VARIABLES
  disk,         (* the project                                             *)
  edits,        (* number of changes so far                                *)
  tracked,      (* tracked_files: the version, or None                     *)
  graph,        (* dependency_graph                                        *)
  symbols,      (* SymbolResolver.symbol_cache: the version, or None       *)
  imports,      (* ImportTracker.import_cache: an entry, or None           *)
  cached,       (* files with entries in analysis_cache                    *)
  stage,        (* "new", "idle", or the pass that works                   *)
  todo,         (* files that the pass has yet to analyse                  *)
  analyzed,     (* files that it has analysed                              *)
  unseen,       (* history: files changed since the last scan              *)
  against,      (* history: the disk when a file was analysed, or None     *)
  revived,      (* history: files parsed while they were not tracked       *)
  known         (* history: imports found when the importer was analysed   *)

analyzerVars == <<tracked, graph, symbols, imports, cached, stage, todo, analyzed, against, revived, known>>
incrementalVars == <<disk, edits, unseen, analyzerVars>>

Exists(f) == disk[f] # Absent
Parses(f) == Exists(f) /\ disk[f].ok
Tracked == {f \in File : tracked[f] # None}

(* What can be reached from f: the least set that contains the ends of all *)
(* edges which begin in f, or in the set.                                  *)
Closed(edges, files) == \A e \in edges : e[1] \in files => e[2] \in files
Reachable(edges, f) ==
  {g \in File : \A files \in SUBSET File :
     /\ Closed(edges, files)
     /\ \A e \in edges : e[1] = f => e[2] \in files
     => g \in files}

(* Content of a file that imports some of the others.                      *)
Content(f, v) == [version : {v}, imports : Imports[f], ok : BOOLEAN]

IncrementalInit ==
  /\ disk \in [File -> [version : {0}, imports : SUBSET File, ok : {TRUE}] \cup {Absent}]
  /\ \A f \in File : disk[f] \in Content(f, 0) \cup {Absent}
  /\ edits = 0
  /\ tracked = [f \in File |-> None]
  /\ graph = {} /\ known = {}
  /\ symbols = [f \in File |-> None]
  /\ imports = [f \in File |-> None]
  /\ against = [f \in File |-> None]
  /\ cached = {}
  /\ stage = "new"
  /\ todo = {} /\ analyzed = {} /\ unseen = {} /\ revived = {}

-----------------------------------------------------------------------------
(* Somebody creates, changes or deletes a file.                            *)
Change(f) ==
  /\ stage # "new" /\ edits < MaxEdits
  /\ \E c \in Content(f, edits + 1) \cup {Absent} :
       /\ c # disk[f]
       /\ disk' = [disk EXCEPT ![f] = c]
  /\ edits' = edits + 1
  /\ unseen' = unseen \cup {f}
  /\ UNCHANGED analyzerVars

-----------------------------------------------------------------------------
(* symbol_cache after get_file_symbols, and after reanalyze_file: a file   *)
(* that cannot be parsed keeps what was cached.                            *)
Loaded(f) == IF symbols[f] = None /\ Parses(f) THEN disk[f].version ELSE symbols[f]
Reanalyzed(f) == IF Parses(f) THEN disk[f].version ELSE symbols[f]

(* The imports of a file as they are read and resolved: those found can be *)
(* told from those that name a file that does not exist.                   *)
ReadImports(f) ==
  IF Parses(f)
  THEN [names |-> disk[f].imports, found |-> {g \in disk[f].imports : Exists(g)}]
  ELSE None

(* The edges made from the entries of import_cache.                        *)
EdgesInto(f, entry) ==
  {<<g, f>> : g \in IF entry = None THEN {}
                    ELSE {h \in entry.names \cap Tracked : h \in entry.found \/ Exists(h)}}

(* What the analysis of these files really found.                          *)
Found(files) == UNION {EdgesInto(f, ReadImports(f)) : f \in files}

Learns(files) ==
  known' = {e \in known : e[2] \notin files} \cup Found(files)

-----------------------------------------------------------------------------
(* analyze_full: all files are tracked, also those that are gone, then     *)
(* analysed.                                                               *)
ScanProject ==
  /\ stage = "new" \/ (Again /\ stage = "idle")
  /\ tracked' = [f \in File |-> IF Exists(f) THEN disk[f].version ELSE tracked[f]]
  /\ todo' = {f \in File : tracked'[f] # None}
  /\ analyzed' = {} /\ unseen' = {}
  /\ stage' = "full"
  /\ UNCHANGED <<disk, edits, graph, symbols, imports, cached, against, revived, known>>

AnalyzeFirst(f) ==
  /\ stage = "full" /\ f \in todo
  /\ symbols' = [symbols EXCEPT ![f] = Loaded(f)]
  /\ against' = [against EXCEPT ![f] = disk]
  /\ cached' = cached \cup {f}
  /\ todo' = todo \ {f} /\ analyzed' = analyzed \cup {f}
  /\ UNCHANGED <<disk, edits, tracked, graph, imports, stage, unseen, revived, known>>

(* _build_dependency_graph reads what is not in import_cache, and adds.    *)
BuildGraph ==
  /\ stage = "full" /\ todo = {}
  /\ imports' = [f \in File |-> IF f \in analyzed /\ imports[f] = None THEN ReadImports(f)
                                                                       ELSE imports[f]]
  /\ graph' = graph \cup UNION {EdgesInto(f, imports'[f]) : f \in analyzed}
  /\ Learns(analyzed)
  /\ stage' = "idle"
  /\ UNCHANGED <<disk, edits, tracked, symbols, cached, todo, analyzed, unseen, against, revived>>

-----------------------------------------------------------------------------
(* analyze_incremental: FileModificationTracker.detect_changes, and what   *)
(* is done with the result.                                                *)
Modified == {f \in Tracked : Exists(f) /\ disk[f].version # tracked[f]}
New == {f \in File \ Tracked : Exists(f)}
Deleted == {f \in Tracked : ~Exists(f)}

(* Mutant: those that import a changed file themselves.                    *)
DirectDependents == {e[2] : e \in {d \in graph : d[1] \in Modified}}

(* get_transitive_dependents of the changed files.                         *)
Dependents == UNION {Reachable(graph, f) : f \in Modified}

DetectChanges ==
  /\ stage = "idle"
  /\ tracked' = [f \in File |-> IF Exists(f) THEN disk[f].version ELSE None]
  /\ todo' = Modified \cup New \cup Dependents
  /\ cached' = cached \ (Modified \cup Dependents \cup Deleted)
  /\ graph' = {e \in graph : e[1] \notin Deleted /\ e[2] \notin Deleted}
  /\ known' = {e \in known : e[1] \notin Deleted /\ e[2] \notin Deleted}
  /\ analyzed' = {} /\ unseen' = {}
  /\ stage' = "incremental"
  /\ UNCHANGED <<disk, edits, symbols, imports, against, revived>>

(* A file gone meanwhile is left out; one that has entries in the cache is *)
(* not parsed again.                                                       *)
AnalyzeAgain(f) ==
  /\ stage = "incremental" /\ f \in todo
  /\ todo' = todo \ {f}
  /\ IF Exists(f)
     THEN /\ symbols' = [symbols EXCEPT ![f] = IF f \in cached THEN Loaded(f) ELSE Reanalyzed(f)]
          /\ against' = [against EXCEPT ![f] = disk]
          /\ cached' = cached \cup {f}
          /\ analyzed' = analyzed \cup {f}
          /\ revived' = (IF f \in cached THEN revived ELSE revived \ {f})
                          \cup (IF f \in Tracked THEN {} ELSE {f})
     ELSE UNCHANGED <<symbols, against, cached, analyzed, revived>>
  /\ UNCHANGED <<disk, edits, tracked, graph, imports, stage, unseen, known>>

(* _update_dependency_graph takes away the edges from the analysed files   *)
(* to those that import them, and adds the edges into the analysed files.  *)
UpdateGraph ==
  /\ stage = "incremental" /\ todo = {}
  /\ imports' = [f \in File |-> IF f \in analyzed THEN ReadImports(f) ELSE imports[f]]
  /\ graph' = {e \in graph : e[1] \notin analyzed} \cup Found(analyzed)
  /\ Learns(analyzed)
  /\ stage' = "idle"
  /\ UNCHANGED <<disk, edits, tracked, symbols, cached, todo, analyzed, unseen, against, revived>>

(* get_symbol_info.                                                        *)
GetSymbols(f) ==
  /\ stage = "idle"
  /\ symbols' = [symbols EXCEPT ![f] = Loaded(f)]
  /\ UNCHANGED <<disk, edits, tracked, graph, imports, cached, stage, todo, analyzed, unseen, against, revived, known>>

IncrementalNext ==
  \/ \E f \in File : Change(f) \/ AnalyzeFirst(f) \/ AnalyzeAgain(f) \/ GetSymbols(f)
  \/ ScanProject \/ BuildGraph \/ DetectChanges \/ UpdateGraph

IncrementalSpec == IncrementalInit /\ [][IncrementalNext]_incrementalVars

-----------------------------------------------------------------------------
Settled == stage = "idle" /\ unseen = {}

(* When no change is left unseen, the symbols of each file that can be     *)
(* parsed are those of its content, but for revived ones (see below), and  *)
(* each file was analysed after the last change of all it imports,         *)
(* directly or not, as far as the imports led to tracked files when they   *)
(* were looked at ("Add transitively affected files",                      *)
(* incremental_analyzer.py:580).                                           *)
AnalysisCurrent ==
  Settled => \A g \in Tracked :
    /\ Parses(g) /\ g \notin revived => symbols[g] = disk[g].version
    /\ \A f \in {h \in Tracked : g \in Reachable(known, h)} :
         against[g] # None /\ against[g][f] = disk[f]

Importing == {e \in File \X File : Parses(e[2]) /\ e[1] \in disk[e[2]].imports}

(* By hand: so are the symbols of a file that was made again while it was  *)
(* about to be analysed as one that imports a changed file: refuted.  It   *)
(* is put into the cache but not tracked, so that after a change the next  *)
(* pass takes it for a new file and leaves what is cached.                 *)
RevivedCurrent ==
  Settled => \A g \in Tracked \cap revived : Parses(g) => symbols[g] = disk[g].version

(* By hand: the same for the imports as the files have them now: an import *)
(* of a file that did not exist then is never found, whatever comes later. *)
ImportersCurrent ==
  Settled => \A g \in Tracked :
    \A f \in {h \in Tracked : g \in Reachable(Importing, h)} :
      against[g] # None /\ against[g][f] = disk[f]
=============================================================================
