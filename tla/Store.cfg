CONSTANTS
  Agent = {a1, a2}
  Direct = {d1}
  Keeper = {k1}
  Checkpoint = {c1, c2}
  FieldCount = 2
  MaxUpdates = 2
  Quiet = TRUE
  Once = TRUE
  Success = {TRUE}
  None = none
SPECIFICATION FairSpec
INVARIANTS AtomicUpdates CheckpointsWhole
PROPERTIES ImplementsStore OperationsReturn
