SPECIFICATION FairSpec
CONSTANTS
  Worker = {w1, w2}
  Capacity = 1
  BatchMax = 1
  Cli <- MCCli
  NoSamples = NoSamples
  MaxTotal = 2
INVARIANTS SamplerTypeOK PauseHolds ExportExact
PROPERTIES Progress
CHECK_DEADLOCK FALSE
