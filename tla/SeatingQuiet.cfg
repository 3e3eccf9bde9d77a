SPECIFICATION Spec
CONSTANTS
  None = None
  a = a
  b = b
  t1 = t1
  t2 = t2
  k1 = k1
  k2 = k2
  r1 = r1
  o1 = o1
  o2 = o2
  o3 = o3
  s1 = s1
  s2 = s2
  Table = {t1, t2}
  Order = {o1, o2, o3}
  Sitting = {s1, s2}
  Request = {r1}
  Party = {a, b}
  Key = {k1, k2}
  Carts <- EveryoneEverywhere
  MaxAttempts = 1
  ByHand = {}
  Ops = {"place", "complete", "cancel", "pay", "swap", "fail"}
CHECK_DEADLOCK FALSE
INVARIANTS
  FloorAgrees
  StrangersApart
