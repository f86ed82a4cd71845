SPECIFICATION Spec
CONSTANTS
  Sample <- MCSample
  SubvolList <- MCSubvolList
  NoRatio = NoRatio
  MAX_SHARERS = 2
  Unit = 6
  MaxSamples = 3
  MaxNodes = 8
  Path <- MCPath
  Batch <- MCBatch
  MaxInc = 9
INVARIANTS ExclIsFreed
CHECK_DEADLOCK FALSE
