\* Two bills of one customer: points earned, spent, returned and taken back.
SPECIFICATION Spec
CONSTANTS
  o1 = o1
  o2 = o2
  l1 = l1
  l2 = l2
  l3 = l3
  c1 = c1
  c2 = c2
  None = None
  Order = {o1, o2}
  Line = {l1, l2, l3}
  Customer = {c1}
  Payment = {p1, p2}
  Key = {k1, k2}
  Request = {r1, r2}
  LineOf <- OrderEach
  Placed <- AllPlaced
  Net <- Prices
  Opening <- OnePoint
  EarnRate = 1
  MaxAmount = 1
  MaxTip = 0
  MaxPoints = 2
  MaxSpent = 2
  MaxGiven = 2
  Ops = {"capture", "refund", "redeem"}
SYMMETRY Symmetry
CHECK_DEADLOCK FALSE
INVARIANTS
  BalanceExplained
  InvoicesNumbered
PROPERTIES
  PointsOnce
