SPECIFICATION Spec
CONSTANTS
  None = None
  a = a
  b = b
  t1 = t1
  t2 = t2
  k1 = k1
  k2 = k2
  r1 = r1
  r2 = r2
  o1 = o1
  o2 = o2
  s1 = s1
  s2 = s2
  Table = {t1, t2}
  Order = {o1, o2}
  Sitting = {s1, s2}
  Request = {r1, r2}
  Party = {a, b}
  Key = {k1, k2}
  Carts <- BothTables
  MaxAttempts = 2
  ByHand = {"AVAILABLE"}
  Ops = {"place", "complete", "swap", "fail"}
SYMMETRY Symmetry
CHECK_DEADLOCK FALSE
INVARIANTS
  OneSitting
  PlacedInSequence
