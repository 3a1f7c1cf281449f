--------------------------- MODULE MCStockLedger ---------------------------
(* One item in two lots, two documents, two overlapping calls; for the two   *)
(* violations one lot, and lines that name it.                               *)
EXTENDS StockLedger, TLC

CONSTANTS early, late, order1, order2, c1, c2

MCBalances == {early, late}
MCDocuments == {order1, order2}
MCCalls == {c1, c2}
MCSymmetry == Permutations(MCCalls) \union Permutations(MCDocuments)

AnyLot(n) == [from |-> <<early, late>>, qty |-> n]
MCOpening == [b \in MCBalances |-> IF b = early THEN 2 ELSE 1]
MCMaxVersion == [b \in MCBalances |-> IF b = early THEN 5 ELSE 2]
MCLineLists == {<<AnyLot(1)>>, <<AnyLot(3)>>, <<AnyLot(1), AnyLot(1)>>}
MCReceiptLists == {<<[bal |-> late, qty |-> 1]>>}

OneBalance == {early}
OneOpening == [b \in OneBalance |-> 2]
OneMaxVersion == [b \in OneBalance |-> 6]
FromEarly(n) == [from |-> <<early>>, qty |-> n]
SingleLines == {<<FromEarly(1)>>, <<FromEarly(2)>>}
TwoLines == {<<FromEarly(1), FromEarly(1)>>}
ReceiptOfOne == {<<[bal |-> early, qty |-> 1]>>}
=============================================================================
