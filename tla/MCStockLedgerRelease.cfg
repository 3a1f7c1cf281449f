CONSTANTS
  early = early
  late = late
  order1 = order1
  order2 = order2
  c1 = c1
  c2 = c2
  NoRow = NoRow
  NoDocument = NoDocument
  Balances <- OneBalance
  Documents <- MCDocuments
  Calls <- MCCalls
  Opening <- OneOpening
  LineLists <- SingleLines
  ReceiptLists <- ReceiptOfOne
  MaxVersion <- OneMaxVersion
  MaxHolds = 3
SPECIFICATION Spec
SYMMETRY MCSymmetry
INVARIANT HoldsAreBacked
