CONSTANTS
  Def <- InnerBreakDef
  Main <- InnerBreakMain
  NoStep <- None
SPECIFICATION Spec
INVARIANTS LoopEnteredOnce
