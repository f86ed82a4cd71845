SPECIFICATION FairSpec
CONSTANTS
  Path <- NestedPath
  Top = ""
  Up <- NestedUp
  Batch <- NestedBatch
  MaxInc = 1
  Special = {}
  Mounts = {{}}
  SubvolPath = {"d/s"}
  ListingFails = FALSE
  NoNode = NoNode
  MaxRequests = 2
  MaxCreates = 0
INVARIANTS DeletingExact TargetsAllowed
PROPERTIES AskTwice FailureShown DeletesReported
CHECK_DEADLOCK FALSE
