\* Lines, points, a guest edit and a change of customer on one bill that is settled or cancelled meanwhile.
SPECIFICATION Spec
CONSTANTS
  o1 = o1
  o2 = o2
  l1 = l1
  l2 = l2
  l3 = l3
  c1 = c1
  c2 = c2
  None = None
  Order = {o1}
  Line = {l1, l2}
  Customer = {c1}
  Payment = {p1, p2}
  Key = {k1}
  Request = {r1, r2}
  LineOf <- OneOrder
  Placed <- OnePlaced
  Net <- Prices
  Opening <- OnePoint
  EarnRate = 1
  MaxAmount = 1
  MaxTip = 0
  MaxPoints = 1
  MaxSpent = 1
  MaxGiven = 1
  Ops = {"void", "discount", "edit", "add", "redeem", "attach", "cancel", "capture"}
SYMMETRY Symmetry
CHECK_DEADLOCK FALSE
INVARIANTS
  TypeOK
  
