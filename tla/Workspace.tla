----------------------------- MODULE Workspace ------------------------------
(***************************************************************************)
(* MonorepoAnalyzer and WorkspaceContext: the projects of a workspace are  *)
(* discovered from the configurations in its folders; a graph says which   *)
(* project is built before which; a context takes the graph there is, and  *)
(* answers what is affected by changed files, what a project consists of   *)
(* and which types several projects share.  Neither the projects nor the   *)
(* graph follow the configurations by themselves.                          *)
(*                                                                         *)
(* A project refers to others by their folders and depends on others by    *)
(* their names.  The content of a file is what it defines and what it      *)
(* uses; the symbols of a file are cached, those of get_file_symbols.      *)
(* Patterns of files, and the search for references to a name, are left    *)
(* out.                                                                    *)
(*                                                                         *)
(* A definition called a mutant is a plausible mistake in the definition   *)
(* that follows it; no formula uses it.  Some property fails with it.      *)
(***************************************************************************)
EXTENDS Integers, Sequences, FiniteSets, SequencesExt, FiniteSetsExt

CONSTANTS
  Place,         (* the folders with a tsconfig.json                       *)
  TopPlace,      (* the folder of the workspace                            *)
  Nested,        (* of every folder, itself and those in it                *)
  Prefixed,      (* ... and those whose path only begins with its path     *)
  SourceText,    (* the source files                                       *)
  PlaceOf,       (* the folder of every source file                        *)
  Configurations,(* of every folder, the configurations it may have        *)
  TextContents,  (* of every source file, the contents it may have         *)
  Wants,         (* the names of packages that every file imports          *)
  Mentions,      (* of every name, the folders whose path it is a part of  *)
  MaxMoves       (* bound on the changes in the workspace                  *)

ASSUME WorkspaceAssumption ==
  TopPlace \in Place /\ IsFiniteSet(Place) /\ MaxMoves \in Nat

VARIABLES
  configured,    (* the configuration in every folder                      *)
  texts,         (* the source files that are there                        *)
  projects,      (* projects, in the order of the dictionary               *)
  projectGraph,  (* dependency_graph, or NoGraph                           *)
  contextGraph,  (* the graph that the context has, or NoGraph             *)
  textSymbols,   (* symbol_cache                                           *)
  outcome,       (* what the last call returned                            *)
  moves,
  unreported,    (* the files that changed and were not reported since     *)
  fresh          (* projects, graph, context: whether the configurations   *)
                 (* are still those that it was made of                    *)

workspaceVars ==
  <<configured, texts, projects, projectGraph, contextGraph, textSymbols, outcome, moves, unreported, fresh>>

NoGraph == [nodes |-> {"none"}, edges |-> {}]
NoOutcome == [kind |-> "none"]
Outdated == [projects |-> FALSE, graph |-> FALSE, context |-> FALSE]

Names == {p.name : p \in ToSet(projects)}
ProjectNamed(name) == CHOOSE p \in ToSet(projects) : p.name = name

-----------------------------------------------------------------------------
(* discover_projects                                                       *)

(* The orders of os.walk: a folder before those in it.                     *)
WalkOrders ==
  {w \in SetToSeqs(Place) :
     \A i, j \in DOMAIN w : w[i] # w[j] /\ w[j] \in Nested[w[i]] => i < j}

(* _analyze_project_config and _find_source_files, which also finds those  *)
(* of the projects inside.                                                 *)
ProjectOf(f) ==
  [name |-> configured[f].name, folder |-> f, references |-> configured[f].references,
   depends |-> configured[f].depends,
   files |-> {t \in DOMAIN texts : PlaceOf[t] \in Nested[f]}]

(* The configuration at the top is skipped if it refers to others.         *)
Skipped(f) == f = TopPlace /\ configured[f].references # {}
InGraph == {f \in Place : ~Skipped(f)}

(* A project of the same name takes the place of the one before.           *)
Stored(ps, p) ==
  IF \E i \in DOMAIN ps : ps[i].name = p.name
  THEN [i \in DOMAIN ps |-> IF ps[i].name = p.name THEN p ELSE ps[i]]
  ELSE Append(ps, p)

Discovered(ps, walk) ==
  FoldLeft(LAMBDA q, f : IF Skipped(f) THEN q ELSE Stored(q, ProjectOf(f)), ps, walk)

WorkspaceInit ==
  /\ configured \in [Place -> UNION {Configurations[f] : f \in Place}]
  /\ \A f \in Place : configured[f] \in Configurations[f]
  /\ texts \in [SourceText -> UNION {TextContents[t] : t \in SourceText}]
  /\ \A t \in SourceText : texts[t] \in TextContents[t]
  /\ \E walk \in WalkOrders : projects = Discovered(<<>>, walk)
  /\ projectGraph = NoGraph /\ contextGraph = NoGraph /\ textSymbols = << >>
  /\ outcome = NoOutcome /\ moves = 0 /\ unreported = {}
  /\ fresh = [Outdated EXCEPT !.projects = TRUE]

(* What was discovered before under a name that there is no more stays.    *)
DiscoverProjects ==
  /\ \E walk \in WalkOrders : projects' = Discovered(projects, walk)
  /\ fresh' = [Outdated EXCEPT !.projects = Names \subseteq {configured[f].name : f \in InGraph}]
  /\ outcome' = NoOutcome
  /\ UNCHANGED <<configured, texts, projectGraph, contextGraph, textSymbols, moves, unreported>>

-----------------------------------------------------------------------------
(* build_project_dependency_graph                                          *)

(* _resolve_project_reference: of several projects of a folder the first   *)
ReferredNames(p) ==
  {projects[i].name : i \in {i \in DOMAIN projects :
     /\ projects[i].folder \in p.references
     /\ \A j \in DOMAIN projects : projects[j].folder = projects[i].folder => i <= j}}

(* Mutant: the names only.                                                 *)
ProjectEdgesByName ==
  UNION {{<<d, p.name>> : d \in p.depends \cap Names} : p \in ToSet(projects)}

(* From what is needed to what needs it.                                   *)
ProjectEdges ==
  UNION {{<<d, p.name>> : d \in ReferredNames(p) \cup (p.depends \cap Names)} : p \in ToSet(projects)}

BuildProjectDependencyGraph ==
  /\ projectGraph' = [nodes |-> Names, edges |-> ProjectEdges]
  /\ fresh' = [fresh EXCEPT !.graph = fresh.projects]
  /\ outcome' = NoOutcome
  /\ UNCHANGED <<configured, texts, projects, contextGraph, textSymbols, moves, unreported>>

(* create_workspace_context: with the graph there is.                      *)
CreateWorkspaceContext ==
  /\ projectGraph' = IF projectGraph = NoGraph THEN [nodes |-> Names, edges |-> ProjectEdges] ELSE projectGraph
  /\ contextGraph' = projectGraph'
  /\ LET new == IF projectGraph = NoGraph THEN fresh.projects ELSE fresh.graph
     IN  fresh' = [fresh EXCEPT !.graph = new, !.context = new]
  /\ outcome' = NoOutcome
  /\ UNCHANGED <<configured, texts, projects, textSymbols, moves, unreported>>

(* get_build_order: topological_sort of networkx raises an exception that  *)
(* is not caught if there is a cycle.                                      *)
TopologicalOrders(g) ==
  {o \in SetToSeqs(g.nodes) :
     \A i, j \in DOMAIN o : <<o[i], o[j]>> \in g.edges => i < j}

GetBuildOrder ==
  /\ projectGraph # NoGraph
  /\ LET orders == TopologicalOrders(projectGraph)
     IN  outcome' \in IF orders = {} THEN {[kind |-> "raised"]}
                      ELSE {[kind |-> "order", order |-> o] : o \in orders}
  /\ UNCHANGED <<configured, texts, projects, projectGraph, contextGraph, textSymbols, moves, unreported, fresh>>

-----------------------------------------------------------------------------
(* The context                                                             *)

(* _find_project_for_file: the first one whose path the file's begins with.*)
OwnersOf(t) ==
  LET owners == {i \in DOMAIN projects : PlaceOf[t] \in Prefixed[projects[i].folder]}
  IN  IF owners = {} THEN {} ELSE {projects[Min(owners)].name}

(* get_file_symbols, of several files; the symbols of one that is not      *)
(* there are not cached.                                                   *)
SymbolsKnown(cache, ts) ==
  [t \in DOMAIN cache \cup (ts \cap DOMAIN texts) |->
     IF t \in DOMAIN cache THEN cache[t] ELSE texts[t].defines]

Count(cache, ts) == SumFunction([t \in ts \cap DOMAIN cache |-> Cardinality(cache[t])])

(* Mutant: the symbols stay.                                               *)
SymbolsRenewedKept(cache, ts) == SymbolsKnown(cache, ts)

(* reanalyze_file of the resolver, and get_file_symbols after it.          *)
SymbolsRenewed(cache, ts) == SymbolsKnown([t \in DOMAIN cache \ ts |-> cache[t]], ts)

(* Mutant: the projects that a changed one needs.                          *)
DependentsOfNeeded(g, name) == {d \in Names : <<d, name>> \in g.edges}

(* get_dependents                                                          *)
DependentsOf(g, name) == {d \in g.nodes : <<name, d>> \in g.edges}

UpdateChangedFiles(ts) ==
  /\ contextGraph # NoGraph
  /\ LET known == {t \in ts : OwnersOf(t) # {}}
         owners == UNION {OwnersOf(t) : t \in known}
         before == SymbolsKnown(textSymbols, known)
     IN  /\ textSymbols' = SymbolsRenewed(before, known)
         /\ outcome' = [kind |-> "update", files |-> ts,
                        affected |-> owners \cup UNION {DependentsOf(contextGraph, n) : n \in owners},
                        added |-> Count(textSymbols', known) - Count(before, known)]
         /\ unreported' = unreported \ known
  /\ UNCHANGED <<configured, texts, projects, projectGraph, contextGraph, moves, fresh>>

(* _can_resolve_workspace_import: the name is a part of the path of a file *)
(* of the project or of one that it depends on by name.                    *)
Resolvable(name, files) == \E t \in files : PlaceOf[t] \in Mentions[name]

AnalyzeProject(name, isolated) ==
  /\ contextGraph # NoGraph /\ name \in Names
  /\ LET p == ProjectNamed(name)
         needed == UNION {q.files : q \in {r \in ToSet(projects) : r.name \in p.depends}}
     IN  /\ textSymbols' = SymbolsKnown(textSymbols, p.files)
         /\ outcome' = [kind |-> "project", project |-> p,
                        files |-> IF isolated THEN p.files ELSE needed \cup p.files,
                        resolved |-> IF isolated THEN {}
                                     ELSE {n \in UNION {Wants[t] : t \in p.files \cap DOMAIN texts} :
                                             Resolvable(n, needed)},
                        total |-> Count(textSymbols', p.files),
                        errors |-> p.references \ Place]
  /\ UNCHANGED <<configured, texts, projects, projectGraph, contextGraph, moves, unreported, fresh>>

(* get_shared_type_stats: what is defined, by the cache, and what is used, *)
(* by the text; to define a type is to use it.                             *)
GetSharedTypeStats ==
  /\ contextGraph # NoGraph
  /\ LET all == UNION {p.files : p \in ToSet(projects)}
         used(p, x) == \E t \in p.files \cap DOMAIN texts : x \in texts[t].uses \cup texts[t].defines
     IN  /\ textSymbols' = SymbolsKnown(textSymbols, all)
         /\ outcome' = [kind |-> "shared",
                        types |-> {x \in UNION {textSymbols'[t] : t \in all \cap DOMAIN textSymbols'} :
                                     Cardinality({p \in ToSet(projects) : used(p, x)}) > 1}]
  /\ UNCHANGED <<configured, texts, projects, projectGraph, contextGraph, moves, unreported, fresh>>

-----------------------------------------------------------------------------
(* What others change in the workspace                                     *)
Configure(f) ==
  /\ moves < MaxMoves /\ moves' = moves + 1
  /\ \E c \in Configurations[f] \ {configured[f]} : configured' = [configured EXCEPT ![f] = c]
  /\ fresh' = Outdated /\ outcome' = NoOutcome
  /\ UNCHANGED <<texts, projects, projectGraph, contextGraph, textSymbols, unreported>>

ChangeText(t) ==
  /\ moves < MaxMoves /\ moves' = moves + 1
  /\ \/ \E c \in TextContents[t] \ (IF t \in DOMAIN texts THEN {texts[t]} ELSE {}) :
          texts' = [u \in DOMAIN texts \cup {t} |-> IF u = t THEN c ELSE texts[u]]
     \/ t \in DOMAIN texts /\ texts' = [u \in DOMAIN texts \ {t} |-> texts[u]]
  /\ unreported' = unreported \cup {t} /\ outcome' = NoOutcome
  /\ UNCHANGED <<configured, projects, projectGraph, contextGraph, textSymbols, fresh>>

(* Before anything else happens the caller looks at what was returned.     *)
LookAtOutcome ==
  /\ outcome # NoOutcome /\ outcome' = NoOutcome
  /\ UNCHANGED <<configured, texts, projects, projectGraph, contextGraph, textSymbols, moves,
                 unreported, fresh>>

WorkspaceStep ==
  \/ DiscoverProjects \/ BuildProjectDependencyGraph \/ CreateWorkspaceContext \/ GetBuildOrder
  \/ GetSharedTypeStats
  \/ \E ts \in {{t} : t \in SourceText} \cup {SourceText} : UpdateChangedFiles(ts)
  \/ \E name \in Names, isolated \in BOOLEAN : AnalyzeProject(name, isolated)
  \/ \E f \in Place : Configure(f)
  \/ \E t \in SourceText : ChangeText(t)

WorkspaceNext == LookAtOutcome \/ (outcome = NoOutcome /\ WorkspaceStep)

WorkspaceSpec == WorkspaceInit /\ [][WorkspaceNext]_workspaceVars

-----------------------------------------------------------------------------
(* What the configurations say.                                            *)

Distinct == \A f, g \in InGraph : configured[f].name = configured[g].name => f = g
Needs(f, g) == g \in configured[f].references \/ configured[g].name \in configured[f].depends

(* While the configurations are those that the context was made of, and no *)
(* two projects have one name, what update_changed_files returns has every *)
(* project in whose folder, and not also in that of another one, a file    *)
(* changed, and every project that refers to it or depends on it; and a    *)
(* build order puts each project behind those it needs.  The symbols that  *)
(* a project is said to have are those of its files, of which every change *)
(* was reported.                                                           *)
WorkspaceFollowed ==
  /\ outcome.kind = "update" /\ fresh.context /\ Distinct =>
       \A t \in outcome.files : \A f \in InGraph :
         {g \in InGraph : PlaceOf[t] \in Prefixed[g]} = {f} =>
           {configured[f].name} \cup {configured[g].name : g \in {h \in InGraph : Needs(h, f)}}
             \subseteq outcome.affected
  /\ outcome.kind = "order" /\ fresh.graph /\ Distinct =>
       \A f, g \in InGraph : Needs(f, g) =>
         \E i, j \in DOMAIN outcome.order :
           outcome.order[i] = configured[g].name /\ outcome.order[j] = configured[f].name /\ i < j
  /\ outcome.kind = "project" /\ outcome.project.files \cap unreported = {} =>
       outcome.total = SumFunction([t \in outcome.project.files \cap DOMAIN texts |->
                                      Cardinality(texts[t].defines)])

-----------------------------------------------------------------------------
(* Refuted statements.                                                     *)

(* "Find transitively affected projects": only those that depend directly. *)
AffectedTransitively ==
  outcome.kind = "update" /\ fresh.context =>
    \A e \in contextGraph.edges : e[1] \in outcome.affected => e[2] \in outcome.affected

(* A file belongs to the project in whose folder it is.                    *)
OwnerFound ==
  outcome.kind = "update" /\ fresh.context /\ Distinct =>
    \A t \in outcome.files : \A f \in InGraph :
      (PlaceOf[t] \in Nested[f] /\ \A g \in InGraph : PlaceOf[t] \in Nested[g] => f \in Nested[g])
        => configured[f].name \in outcome.affected

(* "Handle cycles by returning partial order"                              *)
OrderReturned == outcome.kind # "raised"

(* Every configuration makes a project.                                    *)
ProjectsKept == {p.folder : p \in ToSet(projects)} = InGraph \/ moves > 0

(* Discovery forgets what there is no more.                                *)
RenamedForgotten ==
  [][DiscoverProjects => Names' = {configured[f].name : f \in InGraph}]_workspaceVars

(* What is resolved is a dependency.                                       *)
ResolvedDeclared == outcome.kind = "project" => outcome.resolved \subseteq outcome.project.depends
=============================================================================
