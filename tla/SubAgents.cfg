SPECIFICATION MCSpec
CONSTANTS
  a1 = a1
  a2 = a2
  a3 = a3
  Parent = Parent
  Free = Free
  None = None
  Agent = {a1, a2, a3}
  TaskOf <- MCTaskOf
  Items = 3
  MaxParallel = 2
  Program <- MCProgram
  Expected <- MCExpected
  MaxRounds = 2
  Overlap = FALSE
  TaskCount = 3
  Slots = 2
  MaxWork = 2
  Workflows <- MCWorkflows
  MaxWaits = 2
  Nothing = Nothing
INVARIANTS RunsTask TasksLimited TasksInSequence
PROPERTIES AgentsStop
CHECK_DEADLOCK FALSE
