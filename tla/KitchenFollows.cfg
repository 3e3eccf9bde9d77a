\* One invocation at a time, run to its end: the order catches up with its lines.
SPECIFICATION FairSpec
CONSTANTS
  o1 = o1
  l1 = l1
  l2 = l2
  l3 = l3
  Order = {o1}
  Line = {l1, l2}
  Request = {r1}
  LineOf <- OneOrder
  Placed = {l1}
  Guest = {o1}
  Delivery = {}
  OffShelf = {l2}
  MaxQuantity = 2
  Ops = {"tap", "serve", "accept", "reject", "progress", "start", "add", "section", "pay"}
CHECK_DEADLOCK FALSE
PROPERTIES
  EventuallyServed
