SPECIFICATION MCSpec
CONSTANTS
  f1 = f1
  f2 = f2
  f3 = f3
  Field = {f1, f2, f3}
  Graph <- MCGraph
  From <- MCFrom
  OnError <- MCOnError
  Written = {"inputs", "state"}
  MaxUpdates = 2
  Instance = {w1, w2}
  Reload = TRUE
  MaxBatches = 2
  None = None
  MaxTokens = 7
  Thread = {t1, t2}
  Nobody = Nobody
  MaxLines = 0
  CustomNames = FALSE
  Unused = Unused
  plan = plan
  fix = fix
  lint = lint
  FlowName = {plan, fix, lint}
  Libraries <- MCLibraries
  NoFile = NoFile
  NoId = NoId
  MaxInstances = 1
  MaxSeconds = 1
  MaxAge = 1
INVARIANTS OwnContext
CHECK_DEADLOCK FALSE
