\* Two tills settle, refund, present and move one bill at once.
SPECIFICATION Spec
CONSTANTS
  o1 = o1
  o2 = o2
  l1 = l1
  l2 = l2
  l3 = l3
  c1 = c1
  c2 = c2
  None = None
  Order = {o1}
  Line = {l1, l2}
  Customer = {c1}
  Payment = {p1, p2}
  Key = {k1, k2}
  Request = {r1, r2}
  LineOf <- OneOrder
  Placed <- TwoPlaced
  Net <- Prices
  Opening <- NoPoints
  EarnRate = 1
  MaxAmount = 2
  MaxTip = 1
  MaxPoints = 1
  MaxSpent = 2
  MaxGiven = 2
  Ops = {"capture", "refund", "status", "present", "intent", "cancel"}
SYMMETRY Symmetry
CHECK_DEADLOCK FALSE
INVARIANTS
  RowsAddUp
  PaidAsBilled
PROPERTIES
  KeepsTakings
  SettlementFinal
