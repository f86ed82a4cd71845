SPECIFICATION Spec
CONSTANTS
  Path <- BesidePath
  Top = ""
  Up <- BesideUp
  Batch <- BesideBatch
  MaxInc = 1
  Special = {}
  Mounts = {{}}
  SubvolPath = {"d/s"}
  ListingFails = TRUE
  NoNode = NoNode
  MaxRequests = 1
  MaxCreates = 0
PROPERTIES AskTwice
CHECK_DEADLOCK FALSE
