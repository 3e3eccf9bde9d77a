\* A staff order: boards move it and its lines, lines join and are voided, while it is paid, cancelled, handed over or left half done.
SPECIFICATION Spec
CONSTANTS
  o1 = o1
  l1 = l1
  l2 = l2
  l3 = l3
  Order = {o1}
  Line = {l1, l2}
  Request = {r1, r2}
  LineOf <- OneOrder
  Placed = {l1}
  Guest = {}
  Delivery = {o1}
  OffShelf = {}
  MaxQuantity = 1
  Ops = {"tap", "serve", "progress", "add", "void", "section", "pay", "deliver", "fail", "cancel"}
SYMMETRY Symmetry
CHECK_DEADLOCK FALSE

  
PROPERTIES
  CountersClimb
  HistorySound
