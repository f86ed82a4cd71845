SPECIFICATION Spec
CONSTANTS
  Path <- MCPath
  Top = ""
  Up <- MCUp
  Batch <- MCBatch
  MaxInc = 0
  Special <- MCSpecial
  Mounts = {{}, {"d/s"}}
  SubvolPath = {"d/s"}
  ListingFails = FALSE
  NoNode = NoNode
  MaxRequests = 1
  MaxCreates = 1
INVARIANTS TypeOK DirLive TargetsAllowed
CHECK_DEADLOCK FALSE
