\* The drawers of two tills, a purchase order, a payment or the shifts of two: two calls in flight.
SPECIFICATION OfficeSpec
CONSTANTS
  m = m
  giver = u
  None = None
  Session = {1, 2, 3}
  Register = {g1, g2}
  Staff = {u, m}
  Manager = {m}
  Owner = {m}
  Handover = {1, 2}
  Expense = {1, 2}
  Call = {r1, r2}
  ReviewAbove = 1
  ApprovalAbove = 1
  Floats = {1}
  Tins = {1}
  MaxMoved = 1
  Rosters <- EachDuty
  Item = {1, 2, 3}
  Approval = {1, 2}
  Delivery = {"d1", "d2"}
  Errand = {r1, r2}
  Buyer = {u, m}
  Unconfined = {m}
  Nobody = Nobody
  Load <- Loads
  MaxOrdered = 2
  MaxItems = 2
  Payment = {1, 2, 3}
  Supplier = {x}
  Officer = {u, m, o}
  Approver = {m, o}
  SelfApprover = {o}
  Task = {r1, r2}
  NoOfficer = NoOfficer
  NoSupplier = NoSupplier
  NoPayment = NoPayment
  Amounts = {1}
  Person = {u, m}
  Site = {"north", "south"}
  Duty = {1, 2, 3}
  Rota <- Turns
  Shift = {1, 2, 3}
  Pass = {1, 2}
  Visit = {r1, r2}
  NoDuty = NoDuty
  NoShift = NoShift
  NoOne = NoOne
SYMMETRY Symmetry
CHECK_DEADLOCK FALSE
INVARIANTS
  DrawersApart
  
  ReceivedAsOrdered
  ReviewedBeforeStock
  OnceOutOnceBack
  RotaWorkedOnce
  TillFollowsShift
PROPERTIES
  CountedTakesNoMore
  DecidedOnce
  
