CONSTANTS
  early = early
  late = late
  order1 = order1
  order2 = order2
  c1 = c1
  c2 = c2
  NoRow = NoRow
  NoDocument = NoDocument
  Balances <- MCBalances
  Documents <- MCDocuments
  Calls <- MCCalls
  Opening <- MCOpening
  LineLists <- MCLineLists
  ReceiptLists <- MCReceiptLists
  MaxVersion <- MCMaxVersion
  MaxHolds = 2
SPECIFICATION Spec
SYMMETRY MCSymmetry
INVARIANTS
  TypeOK
  BalanceIsItsMovements
  ReservationsHoldTogether
