CONSTANTS
  Caller = {c1, c2}
  Period = {p1}
  Source = {i1, i2, r1}
  Invoice = {i1, i2}
  Receipt = {r1}
  MaxAmount = 2
  Totals = {2}
  WithYear = TRUE
  Manual = {}
  ByHand = {}
SPECIFICATION Spec
SYMMETRY Symmetry
INVARIANTS
  TypeOK
  EntriesMatchDocuments
  SettlementsHoldTogether
  BilledAtMostDelivered
  ClosedYearIsCleared
PROPERTIES
  ClosedIsFinal
CHECK_DEADLOCK FALSE
