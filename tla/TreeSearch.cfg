SPECIFICATION FairSpec
CONSTANTS
  MaxObj = 1
  MaxType = 1
  MaxOff = 1
  Item <- MCItem
  Search <- MCSearch
  MaxBatch = 2
  End = End
INVARIANTS TypeOK Complete IdsExact
PROPERTIES Ends
CHECK_DEADLOCK FALSE
