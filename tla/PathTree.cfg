SPECIFICATION Spec
CONSTANTS
  Sample <- MCSample
  SubvolList <- MCSubvolList
  NoRatio = NoRatio
  MAX_SHARERS = 2
  Unit = 6
  MaxSamples = 3
  MaxNodes = 6
  Path <- MCPath
  Batch <- MCBatch
  MaxInc = 9
INVARIANTS TypeOK CountersExact SharersSound RoundTrip
PROPERTIES ImplementsEntryTree
CHECK_DEADLOCK FALSE
