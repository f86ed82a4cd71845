SPECIFICATION Spec
CONSTANTS
  top = top
  p = p
  t = t
  s = s
  v = v
  f = f
  g = g
  out = out
  h = h
  l = l
  n = n
  a = a
  b = b
  none = none
  Obj <- MCObj
  Top = top
  Kind <- MCKind
  LinkTo <- MCLinkTo
  Name = {a, b}
  Nil = none
  Start <- MCStart
  Target <- MCTarget
  MaxForeign = 2
INVARIANTS TypeOK OnlyTarget OkMeansGone
PROPERTIES WholeSubvolumes
CHECK_DEADLOCK FALSE
