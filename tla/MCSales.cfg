CONSTANTS
  Caller = {c1, c2}
  Number = {n1}
  MaxRevision = 3
  Order = {o1, o2}
  Note = {d1, d2}
  MaxQty = 2
  Limit = 3
  Stock = 3
  Elsewhere = 2
  Sheet = {s1, s2}
  Transfer = {t1}
  MaxVariance = 1
  MaxManual = 1
SPECIFICATION MCSpec
SYMMETRY Symmetry
INVARIANTS
  TypeOK
  DeliveriesHoldTogether
  QuotationsHoldTogether
  CreditIsWatched
  StockFollowsDocuments
  AdjustedAsApproved
CHECK_DEADLOCK FALSE
