\* Bills, transfers and counts on one item's stock, or one person's sign-ins.
SPECIFICATION Spec
CONSTANTS
  Branch = {"b1", "b2"}
  Opening <- Layers
  MaxLayers = 2
  Order = {o1, o2}
  Line = {l1, l2, l3, p1}
  Caller = {c1, c2}
  Plain = {p1}
  NoOrder = NoOrder
  Site = "b1"
  MaxDeliveries = 1
  Transfer = {o1, o2}
  Count = {k1}
  Clerk = {c1, c2}
  MaxAsked = 2
  MaxMoves = 1
  Row = {l1, l2, l3}
  Browser = {browser}
  Request = {c1, c2}
  Nobody = Nobody
  MaxResets = 1
SYMMETRY Symmetric
CHECK_DEADLOCK FALSE
INVARIANTS
  StockAccounted
  
  
  PostedOnce
  OneLiveEach
PROPERTIES
  RefusedOnlyLate
