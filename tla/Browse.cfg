SPECIFICATION Spec
CONSTANTS
  Path <- MCPath
  Top = ""
  Up <- MCUp
  Batch <- MCBatch
  MaxInc = 1
  Name <- MCName
  Page = 2
  MaxSamples = 3
  MaxDeletes = 2
INVARIANTS TypeOK KeyHitsDrawn
PROPERTIES LeaveReturns
