SPECIFICATION TimeoutsFairSpec
CONSTANTS
  flow = flow
  step = step
  wait = wait
  Nothing = Nothing
  Id = {flow, step, wait}
  Async = {wait}
  Parent <- MCParent
  Duration = {1}
  StepDefault = 1
  FlowDefault = 2
  Retention = 1
  LastTime = 2
  MaxLimit = 2
  MaxCalls = 4
CHECK_DEADLOCK FALSE
PROPERTIES EndsRespected OverdueEnds
