SPECIFICATION Spec
CONSTANTS
  Ref <- MCRef
  SvPath <- MCSvPath
  LinkPath <- MCLinkPath
  MinBuf = 1
  MaxBuf = 2
  PathSlots = 2
  NoRef = NoRef
INVARIANTS TypeOK ExclusiveSound OwnersRight GivesUpLate
