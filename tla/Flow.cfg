CONSTANTS
  Def <- FlowDef
  Main <- FlowMain
  NoStep <- None
SPECIFICATION Spec
INVARIANTS BreakEndsIteration
