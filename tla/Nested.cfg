CONSTANTS
  Def <- NestedDef
  Main <- NestedMain
  NoStep <- None
SPECIFICATION FairSpec
INVARIANTS IterationBound LoopsNested
PROPERTIES WorkflowCompletes ImplementsProgram
