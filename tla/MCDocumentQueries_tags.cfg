SPECIFICATION Spec
CONSTANTS
  t1 = t1
  t2 = t2
  x = x
  Ids <- MCIds
  Paths <- MCPaths
  Tags <- MCTags
  Targets <- MCTargets
  Batches <- MCBatches
  Closed = Closed
  Nothing = Nothing
  Readers = {r1}
  MaxRebuilds = 2
INVARIANTS
  ExactWhenQuiet
  KeysNeverHit
PROPERTY RebuiltWhole
CHECK_DEADLOCK FALSE
