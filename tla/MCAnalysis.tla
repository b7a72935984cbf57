----------------------------- MODULE MCAnalysis -----------------------------
(* The analysis server, and the standards server, are made of parts that   *)
(* share nothing: in a behaviour only one of them moves, which MCInit      *)
(* chooses, and the others keep one initial state.                         *)
(*                                                                         *)
(* Cache: a file kb that uses a file ka, and a file kc of which nothing is *)
(* known; memory holds one small entry, the symbols two or one large one.  *)
(* Project: g1 may import g2, which may import g3 and g1; where files are  *)
(* revived, g1 may import g2.  Call graph: any calls between three         *)
(* functions, in any order.  Symbols: h1 and h2 change three times, and    *)
(* two calls are made.  Imports: e1 imports e2 or e3, and these two what   *)
(* makes a cycle.  Workspace: a project at the top, one in core, one in    *)
(* coreui, whose path begins alike, and one in app; names are n followed   *)
(* by a letter.  Standards: r1 and r2 are rules of s1, r3 of s2; the id of *)
(* s1 is a prefix of that of s2.  Types: of three names all but one are    *)
(* classes, interfaces or unknown.                                         *)
EXTENDS AnalysisCache, IncrementalAnalysis, CallGraph, Standards, TypeResolution,
        SourceSymbols, Imports, Workspace, ProjectTools, FunctionDetails
CONSTANTS ka, kb, kc, g1, g2, g3, s1, s2, r1, r2, r3, y1,
          h1, h2, sA, sm, sn, so, sp, e1, e2, e3, d1, d2,
          top, core, coreui, app, w1, w2, w3, nt, nc, nu, na, T1, T2, x1, x2, x3

MCUses == [k \in Key |-> IF k = kb THEN {ka} ELSE {}]
MCLimit == <<1, 2, 3>>

MCImports == (g1 :> {{}, {g2}}) @@ (g2 :> {{}, {g3}, {g1, g3}}) @@ (g3 :> {{}})

MCStandardOf == (r1 :> s1) @@ (r2 :> s1) @@ (r3 :> s2)
MCLike == (s1 :> {s1, s2}) @@ (s2 :> {s2})

D(kind, name, class, method) ==
  [kind |-> kind, name |-> name, class |-> class, method |-> method]

MCContents ==
  (h1 :> {{D("class", sA, Gone, Gone), D("method", sm, sA, Gone),
           D("function", sn, sA, sm), D("call", sp, sA, sm)},
          {D("class", sA, Gone, Gone), D("extends", so, Gone, Gone),
           D("property", sn, sA, Gone), D("function", so, Gone, Gone)}})
  @@ (h2 :> {{D("function", sp, Gone, Gone), D("import", sA, Gone, Gone)},
             {D("function", sp, Gone, Gone), D("function", so, Gone, Gone),
              D("test", sn, Gone, Gone)}})

MCRequests ==
  {[files |-> <<h1, h2>>, kinds |-> {}, target |-> Gone, carryOn |-> TRUE],
   [files |-> <<h2, h1>>, kinds |-> {"method"}, target |-> <<sA, sm>>, carryOn |-> FALSE]}

(* The hypotheses of the theorem about symbols.                            *)
ASSUME MCSymbols == Requests = MCRequests => TargetsReached /\ OrdersAgree

(* The hypothesis of the theorem about graphs of imports.                  *)
ASSUME MCNoneMadeUp == NoneMadeUp

(* Not in Analysis.cfg: the files of the first request in the other order  *)
MCBothOrders ==
  MCRequests \cup {[files |-> <<h2, h1>>, kinds |-> {}, target |-> Gone, carryOn |-> TRUE]}

(* Contents with wide characters, none in Analysis.cfg: with these the     *)
(* parser's account of its cache is wrong.                                 *)
MCWide == UNION {MCContents[f] : f \in SourceFile}

Statement(kind, form, files) == [kind |-> kind, form |-> form, files |-> files]

MCStatements ==
  (e1 :> {{Statement("static", "relative", <<e2>>), Statement("export", "relative", <<>>)},
          {Statement("static", "relative", <<e3, e2>>), Statement("type", "relative", <<e2>>),
           Statement("static", "alias", <<e2>>)}})
  @@ (e2 :> {{Statement("static", "relative", <<e3>>), Statement("reexport", "relative", <<e1>>)},
             {Statement("split", "relative", <<e1>>)}})
  @@ (e3 :> {{}, {Statement("static", "relative", <<e1>>)},
             {Statement("dynamic", "relative", <<e2>>), Statement("static", "package", <<>>)}})

MCFolderOf == (e1 :> d1) @@ (e2 :> d1) @@ (e3 :> d2)
MCMadeUp == [f \in ScriptFile |-> {}]

Configuration(name, references, depends) ==
  [name |-> name, references |-> references, depends |-> depends]

MCConfigurations ==
  (top :> {Configuration(nt, {core, app}, {}), Configuration(nt, {}, {})})
  @@ (core :> {Configuration(nc, {}, {}), Configuration(nc, {}, {na})})
  @@ (coreui :> {Configuration(nu, {core}, {}), Configuration(nc, {}, {})})
  @@ (app :> {Configuration(na, {}, {nu})})

MCNested == [f \in Place |-> IF f = top THEN Place ELSE {f}]
MCPrefixed == [MCNested EXCEPT ![core] = {core, coreui}]
MCPlaceOf == (w1 :> core) @@ (w2 :> coreui) @@ (w3 :> app)
MCTexts ==
  (w1 :> {[defines |-> {T1}, uses |-> {}], [defines |-> {T1, T2}, uses |-> {}]})
  @@ (w2 :> {[defines |-> {}, uses |-> {T1}], [defines |-> {T2}, uses |-> {}]})
  @@ (w3 :> {[defines |-> {}, uses |-> {}]})
MCWants == (w1 :> {}) @@ (w2 :> {nc}) @@ (w3 :> {nu, nc})
MCMentions == (nt :> {}) @@ (nc :> {core, coreui}) @@ (nu :> {coreui}) @@ (na :> {app})

MCTokens == <<1, 2, 1, 3>>
MCPatterns == <<{1, 2}, {2, 3, 4}>>
MCKeys == {<<1, 2, 3, 4>>, <<4, 1, 2, 3>>, <<1, 1, 2, 2>>}

LinterState(next_, standards_, eslint_) ==
  [next |-> next_, standards |-> standards_, eslint |-> eslint_]

MCLinters ==
  {LinterState("none", "none", "issues"), LinterState("dies", "dies", "issues"),
   LinterState("clean", "dies", "clean"), LinterState("issues", "none", "none"),
   LinterState("none", "issues", "dies"), LinterState("clean", "clean", "none")}

(* The third function is not in x1 and x2; x2 may not exist.               *)
FirstTwo(s) == {[a \in FnName |-> IF a = 3 THEN "missing" ELSE g[a]] : g \in [1..2 -> s]}

MCAnalyses ==
  {(x1 :> a) @@ (x2 :> b) @@ (x3 :> c) :
     a \in FirstTwo({"missing", "found", "flawed", "raises"}),
     b \in FirstTwo({"missing", "found", "raises"}) \cup {[f \in FnName |-> "gone"]},
     c \in [FnName -> {"missing", "found"}]}

FnRequest(way, names, files, batch, fallback) ==
  [way |-> way, names |-> names, files |-> files, batch |-> batch, fallback |-> fallback]

MCFnRequests ==
  {FnRequest("details", <<1, 2>>, <<x1, x2>>, FALSE, FALSE),
   FnRequest("details", <<2, 1, 2>>, Everywhere, TRUE, FALSE),
   FnRequest("details", <<1, 2, 3>>, <<x2, x3>>, FALSE, TRUE),
   FnRequest("details", <<>>, <<x1>>, TRUE, FALSE),
   FnRequest("details", <<3>>, <<x2>>, FALSE, FALSE),
   FnRequest("details", <<3>>, Everywhere, FALSE, TRUE),
   FnRequest("request", <<1, 2>>, <<x1>>, TRUE, FALSE),
   FnRequest("request", <<>>, <<x1>>, TRUE, FALSE),
   FnRequest("several", <<1, 2>>, <<x1, x2>>, FALSE, FALSE)}

VARIABLE moving  (* the part that moves *)

allVars == <<vars, incrementalVars, callVars, standardVars, typeVars, symbolVars,
             importVars, workspaceVars, toolVars, detailVars, moving>>

CallsAtRest ==
  /\ callees = [f \in Function |-> <<>>] /\ depth = 1 /\ networkx = TRUE
  /\ callGraph = <<>> /\ paths = {} /\ cycles = {} /\ broken = {} /\ traceStage = "start"

MCTypesInit ==
  /\ TypesInit
  /\ \A t \in TypeName :
       t # y1 \/ limit = MaxLimit => declarations[t].kind \in {"none", "interface", "class"}

TypesAtRest ==
  /\ declarations = [t \in TypeName |-> Plain("none")]
  /\ limit = 1 /\ annotation = Nothing /\ definition = Nothing

ProjectAtRest ==
  /\ disk = [f \in File |-> [version |-> 0, imports |-> {}, ok |-> TRUE]]
  /\ edits = 0 /\ graph = {} /\ known = {} /\ cached = {} /\ stage = "new"
  /\ tracked = [f \in File |-> None] /\ symbols = [f \in File |-> None]
  /\ imports = [f \in File |-> None] /\ against = [f \in File |-> None]
  /\ todo = {} /\ analyzed = {} /\ unseen = {} /\ revived = {}

(* Two changes of any files, or four of two of which one may import the    *)
(* other, which always parses                                              *)
Edited ==
  IF moving = "project" THEN edits <= 2
  ELSE disk[g3] = Absent /\ (Exists(g2) => disk[g2].imports = {} /\ disk[g2].ok)

SourcesAtRest ==
  /\ sources = [f \in SourceFile |-> [content |-> Gone, mtime |-> 1]]
  /\ clock = 1 /\ astCache = <<>> /\ cacheSize = 0 /\ parsing = NoParse /\ tainted = {}
  /\ job = NoJob /\ resolved = 0 /\ results = <<>> /\ answer = Gone /\ changed = {}

ImportsAtRest ==
  /\ scripts = << >> /\ importCache = << >> /\ exportCache = << >> /\ root = Unresolved
  /\ reported = NoReport /\ versions = 0 /\ queries = 0 /\ straight = {}

MCWorkspaceInit ==
  /\ WorkspaceInit
  /\ texts = [t \in SourceText |-> CHOOSE c \in MCTexts[t] : TRUE]

WorkspaceAtRest ==
  /\ configured = [f \in Place |-> Configuration(f, {}, {})] /\ texts = << >>
  /\ projects = Discovered(<<>>, CHOOSE w \in WalkOrders : TRUE) /\ fresh = Outdated
  /\ projectGraph = NoGraph /\ contextGraph = NoGraph /\ textSymbols = << >>
  /\ outcome = NoOutcome /\ moves = 0 /\ unreported = {}

ToolsAtRest ==
  /\ tool = "list_files" /\ project = <<>> /\ sort_key = MCTokens
  /\ linters = LinterState("none", "none", "none") /\ requested = {} /\ stayed = {}
  /\ cursor = NoCursor /\ page = NoPage /\ received = <<>> /\ asked = 0 /\ projectEdits = 0

DetailsAtRest ==
  /\ analysis = <<>> /\ asking = FnRequest("details", <<>>, <<x1>>, FALSE, FALSE)
  /\ searched = <<>> /\ next = 1 /\ details = <<>> /\ problems = {} /\ lost = {}
  /\ response = NoDetails /\ phase = "asked"

MCInit ==
  /\ moving \in {"cache", "project", "revival", "calls", "standards", "types", "symbols",
                "imports", "workspace", "tools", "details"}
  /\ Init
  /\ StandardsInit
  /\ IF moving \in {"project", "revival"} THEN IncrementalInit /\ Edited ELSE ProjectAtRest
  /\ IF moving = "calls" THEN CallGraphInit ELSE CallsAtRest
  /\ IF moving = "types" THEN MCTypesInit ELSE TypesAtRest
  /\ IF moving = "symbols" THEN SymbolsInit ELSE SourcesAtRest
  /\ IF moving = "imports" THEN ImportsInit ELSE ImportsAtRest
  /\ IF moving = "workspace" THEN MCWorkspaceInit ELSE WorkspaceAtRest
  /\ IF moving = "tools" THEN ToolsInit ELSE ToolsAtRest
  /\ IF moving = "details" THEN DetailsInit ELSE DetailsAtRest

MCNext ==
  \/ /\ moving = "cache" /\ Next
     /\ UNCHANGED <<incrementalVars, callVars, standardVars, typeVars, symbolVars,
                    importVars, workspaceVars, toolVars, detailVars, moving>>
  \/ /\ moving \in {"project", "revival"}
     /\ UNCHANGED <<vars, callVars, standardVars, typeVars, symbolVars, importVars,
                    workspaceVars, toolVars, detailVars, moving>>
     /\ IncrementalNext /\ Edited'
  \/ /\ moving = "calls" /\ CallNext
     /\ UNCHANGED <<vars, incrementalVars, standardVars, typeVars, symbolVars,
                    importVars, workspaceVars, toolVars, detailVars, moving>>
  \/ /\ moving = "standards" /\ StandardsNext
     /\ UNCHANGED <<vars, incrementalVars, callVars, typeVars, symbolVars, importVars,
                    workspaceVars, toolVars, detailVars, moving>>
  \/ /\ moving = "types" /\ TypesNext
     /\ UNCHANGED <<vars, incrementalVars, callVars, standardVars, symbolVars,
                    importVars, workspaceVars, toolVars, detailVars, moving>>
  \/ /\ moving = "symbols" /\ SymbolsNext
     /\ UNCHANGED <<vars, incrementalVars, callVars, standardVars, typeVars,
                    importVars, workspaceVars, toolVars, detailVars, moving>>
  \/ /\ moving = "imports" /\ ImportsNext
     /\ UNCHANGED <<vars, incrementalVars, callVars, standardVars, typeVars,
                    symbolVars, workspaceVars, toolVars, detailVars, moving>>
  \/ /\ moving = "workspace" /\ WorkspaceNext
     /\ UNCHANGED <<vars, incrementalVars, callVars, standardVars, typeVars,
                    symbolVars, importVars, toolVars, detailVars, moving>>
  \/ /\ moving = "tools" /\ ToolsNext
     /\ UNCHANGED <<vars, incrementalVars, callVars, standardVars, typeVars,
                    symbolVars, importVars, workspaceVars, detailVars, moving>>
  \/ /\ moving = "details" /\ DetailsNext
     /\ UNCHANGED <<vars, incrementalVars, callVars, standardVars, typeVars,
                    symbolVars, importVars, workspaceVars, toolVars, moving>>

MCSpec == MCInit /\ [][MCNext]_allVars
=============================================================================
