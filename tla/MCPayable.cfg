CONSTANTS
  Caller = {c1, c2}
  Period = {p1}
  Source = {i1, i2, v1, v2}
  Invoice = {i1, i2}
  Voucher = {v1, v2}
  Batch = {b1, b2}
  Requisition = {q1, q2}
  Order = {o1, o2}
  GoodsReceipt = {g1, g2}
  Rule = {r1, r2}
  Groups = {{r1, r2}}
  Sweeper = {s1, s2}
  MaxQty = 2
  WithYear = FALSE
  Manual <- Manuals
  ByHand <- Payments
SPECIFICATION MCSpec
SYMMETRY Symmetry
INVARIANTS
  TypeOK
  EntriesMatchDocuments
  PaymentsHoldTogether
  PurchasesHoldTogether
CHECK_DEADLOCK FALSE
