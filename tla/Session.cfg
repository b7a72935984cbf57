CONSTANTS
  w1 = w1
  Worker = worker
  None = none
  Workflow = {w1}
  Client = {c1, c2}
  Program <- MixedProgram
SPECIFICATION FairSpec
INVARIANTS OneCallAtATime StepsInOrder ShutdownSettles
PROPERTIES EveryCallEnds
CHECK_DEADLOCK FALSE
