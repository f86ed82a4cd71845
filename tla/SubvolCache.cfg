SPECIFICATION CacheSpec
CONSTANTS
  Caller = {w1, w2}
  Deleter = {d1, d2}
  Root = {r1, r2}
  Loc = {p, q, s}
  NotCached = NotCached
  None = None
  MaxGen = 2
SYMMETRY CacheSymmetry
INVARIANTS CacheTypeOK NoDeadEntry FreshLookup RightSubvol
CHECK_DEADLOCK FALSE
