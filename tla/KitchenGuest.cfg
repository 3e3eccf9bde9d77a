\* A guest order waits at the till, is edited from the phone, accepted or turned away.
SPECIFICATION Spec
CONSTANTS
  o1 = o1
  l1 = l1
  l2 = l2
  l3 = l3
  Order = {o1}
  Line = {l1, l2}
  Request = {r1, r2}
  LineOf <- OneOrder
  Placed = {l1}
  Guest = {o1}
  Delivery = {}
  OffShelf = {}
  MaxQuantity = 2
  Ops = {"tap", "accept", "progress", "edit", "reject"}
SYMMETRY Symmetry
CHECK_DEADLOCK FALSE
INVARIANTS
  CountersInOrder
PROPERTIES
  TillFirst
