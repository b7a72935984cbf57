SPECIFICATION MCSpec
CONSTANTS
  f1 = f1
  f2 = f2
  f3 = f3
  Field = {f1, f2, f3}
  Graph <- MCGraph
  From <- MCFrom
  OnError <- MCOnError
  Written = {"inputs", "state"}
  MaxUpdates = 2
  Instance = {w1, w2}
  Reload = TRUE
  MaxBatches = 2
  None = None
  MaxTokens = 7
  Thread = {t1, t2}
  Nobody = Nobody
  MaxLines = 5
  CustomNames = FALSE
  Unused = Unused
  plan = plan
  fix = fix
  lint = lint
  FlowName = {plan, fix, lint}
  Libraries <- MCLibraries
  NoFile = NoFile
  NoId = NoId
  MaxInstances = 4
  MaxSeconds = 3
  MaxAge = 1
INVARIANTS OrderRight UpToDate ExpressionsAgree NothingLeftBehind ReferencesScoped InclusionsKept
PROPERTIES UpdatesContained
CHECK_DEADLOCK FALSE
