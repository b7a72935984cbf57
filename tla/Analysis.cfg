SPECIFICATION MCSpec
CONSTANTS
  ka = ka
  kb = kb
  kc = kc
  Thread = {t1, t2}
  Key = {ka, kb, kc}
  Uses <- MCUses
  Size = {1, 2}
  Limit <- MCLimit
  Part = 2
  MaxSets = 3
  MaxCalls = 5
  Overlap = FALSE
  g1 = g1
  g2 = g2
  g3 = g3
  File = {g1, g2, g3}
  Imports <- MCImports
  MaxEdits = 4
  Again = FALSE
  None = None
  Function = {f1, f2, f3}
  EntryPoint = f1
  MaxDepth = 2
  s1 = s1
  s2 = s2
  r1 = r1
  r2 = r2
  r3 = r3
  Standard = {s1, s2}
  Rule = {r1, r2, r3}
  Client = {c1}
  StandardOf <- MCStandardOf
  Like <- MCLike
  MaxChanges = 3
  MaxBudget = 4
  y1 = y1
  TypeName = {y1, y2, y3}
  Parameter = {p1, p2}
  MaxLimit = 2
  MaxEdges = 2
  Nothing = Nothing
  h1 = h1
  h2 = h2
  sA = sA
  sm = sm
  sn = sn
  so = so
  sp = sp
  SourceFile = {h1, h2}
  Contents <- MCContents
  Wide = {}
  CacheLimit = 6
  MaxClock = 4
  Gone = Gone
  Requests <- MCRequests
  MaxResolved = 2
  Torn = Torn
  e1 = e1
  e2 = e2
  e3 = e3
  d1 = d1
  d2 = d2
  top = top
  core = core
  coreui = coreui
  app = app
  w1 = w1
  w2 = w2
  w3 = w3
  nt = nt
  nc = nc
  nu = nu
  na = na
  T1 = T1
  T2 = T2
  ScriptFile = {e1, e2, e3}
  FolderOf <- MCFolderOf
  Configured = {d1}
  Statements <- MCStatements
  MadeUp <- MCMadeUp
  MaxVersions = 2
  MaxQueries = 2
  Place = {top, core, coreui, app}
  TopPlace = top
  Nested <- MCNested
  Prefixed <- MCPrefixed
  SourceText = {w1, w2, w3}
  PlaceOf <- MCPlaceOf
  Configurations <- MCConfigurations
  TextContents <- MCTexts
  Wants <- MCWants
  Mentions <- MCMentions
  MaxMoves = 1
  Item = {1, 2, 3, 4}
  Tokens <- MCTokens
  Overhead = 1
  MaxTokens = 4
  FewItems = 2
  OddItems = {}
  PatternItems <- MCPatterns
  IssueKeys <- MCKeys
  LinterStates <- MCLinters
  MaxProjectEdits = 2
  MaxPages = 6
  x1 = x1
  x2 = x2
  x3 = x3
  FnName = {1, 2, 3}
  FnFile = {x1, x2, x3}
  TestFile = {x3}
  Analyses <- MCAnalyses
  FnRequests <- MCFnRequests
  FewNames = 2
  PageNames = 2
  MaxSearched = 2
  Everywhere = Everywhere
INVARIANTS Coherent AnalysisCurrent TraceSound HintsRight DepthLimited SymbolsCurrent GraphFollowsImports WorkspaceFollowed PagesComplete DetailsComplete
CHECK_DEADLOCK FALSE
