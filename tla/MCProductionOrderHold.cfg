CONSTANTS
  o1 = o1
  u1 = u1
  u2 = u2
  u3 = u3
  c1 = c1
  c2 = c2
  NoUser = NoUser
  NoOrder = NoOrder
  Users <- MCUsers
  Orders <- MCOrders
  NeedsStock <- MCOrders
  Amounts <- MCAmounts
  Threshold = 1
  Ordered = 3
  OverBp = 3333
  UnderBp = 3333
  ReportSizes <- MCReportSizes
  Calls <- MCCalls
  MaxVersion = 7
SPECIFICATION Spec
INVARIANTS
  CancelledHoldsNothing
CHECK_DEADLOCK FALSE
