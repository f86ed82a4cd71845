SPECIFICATION FairSpec
CONSTANTS
  Path <- MCPath
  Tables <- MCRooted
  Dir = {d1, d2}
  Thread = {t1, t2, t3}
  Node = {n1, n2}
  Nothing = Nothing
INVARIANTS TypeOK HandleRight Tidy
PROPERTIES ExactAnswered
