CONSTANTS
  Agent = {a1}
  Direct = {d1}
  Keeper = {k1}
  Checkpoint = {c1}
  FieldCount = 2
  MaxUpdates = 2
  Quiet = FALSE
  Once = TRUE
  Success = {TRUE}
  None = none
SPECIFICATION Spec
INVARIANT CheckpointsWhole
