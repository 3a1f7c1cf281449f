---------------------------- MODULE Sales_proofs ----------------------------
(***************************************************************************)
(* Proofs about sales orders (SalesOrder) and about stock taking beside    *)
(* them (Stocktake), for any numbers, orders, notes, quantities, sheets    *)
(* and overlapping calls.                                                  *)
(*                                                                         *)
(* Quotations: a quotation becomes one order at most, and what a customer  *)
(* was sent is never edited.  Two calls decide on a copy.  A revision      *)
(* stays sound because a row that was sent is never a draft again          *)
(* (Revisions, CallsInv); a conversion because the link is checked once    *)
(* more in the transaction of the order, on a row that is the last to say  *)
(* whether an order names it.                                              *)
(*                                                                         *)
(* Sheets: a count posts the variance that was approved and no other.  A   *)
(* sheet leaves REVIEW in three ways and comes back by one, which asks for *)
(* a new approval; so the request of a sheet under review is for what the  *)
(* sheet says (SheetSafe), however old the request before it is.           *)
(*                                                                         *)
(* Deliveries, credit and stock (SaleInv): what an order owes is held for  *)
(* it (HoldSafe), all that is held is there (HeldIsThere), and so a note   *)
(* may ship what its order holds without asking what others hold.  Sums    *)
(* over the rows that count are taken over whole tables, where rows that   *)
(* do not count weigh 0: then a step changes one weight.                   *)
(***************************************************************************)
EXTENDS Stocktake, SumLemmas

OrderStatus == {"DRAFT", "PENDING_APPROVAL", "CONFIRMED", "PARTIALLY_DELIVERED",
                "DELIVERED", "REJECTED", "CANCELLED"}

\* Rows without the bounds on quantities, which nothing here depends on.
OrderShape == [status : OrderStatus, qty : Int, delivered : Int,
               credit : {"NOT_CHECKED", "OK", "EXCEEDED"},
               quotation : Quotation \cup {NoQuotation}]

TablesInv ==
  /\ quotations \in QuotationTable
  /\ orders \in [Order -> OrderShape \cup {NoDoc}]
  /\ notes \in [Note -> NoteRow \cup {NoDoc}]

\* Behind a revision stand all the earlier ones, and none of them is a draft.
Revisions ==
  \A q, r \in Quotation :
    q[1] = r[1] /\ r[2] < q[2] /\ quotations[q] # NoDoc =>
      quotations[r] # NoDoc /\ quotations[r].status # "DRAFT"

LinkedIsAccepted ==
  \A q \in Quotation :
    quotations[q] # NoDoc /\ quotations[q].order # NoOrder =>
      quotations[q].status = "ACCEPTED"

\* What a call has read and may rely on when it writes.
CallsInv ==
  /\ call = [c \in Caller |-> call[c]]
  /\ \A c \in Caller :
       /\ call[c].op = "revise" =>
            /\ call[c].of \in Quotation
            /\ quotations[call[c].of] # NoDoc
            /\ quotations[call[c].of].status # "DRAFT"
       /\ call[c].op = "convert" => call[c].of \in Quotation
       /\ call[c].op = "submit" => call[c].of \in Order

QuotationsInv == Revisions /\ LinkedIsAccepted

Inv == TablesInv /\ QuotationsInv /\ CallsInv /\ ConvertedOnce

(***************************************************************************)
(* Rows                                                                    *)
(***************************************************************************)
\* The status tells a row from no row.
LEMMA QuotationRows ==
  ASSUME quotations \in QuotationTable, NEW q \in Quotation
  PROVE  /\ quotations[q] \in QuotationRow \cup {NoDoc}
         /\ quotations[q] # NoDoc => quotations[q] \in QuotationRow
         /\ quotations[q].status = "NONE" <=> quotations[q] = NoDoc
  BY DEF QuotationTable, QuotationRow, NoDoc

\* The same of orders.
LEMMA OrderRows ==
  ASSUME orders \in [Order -> OrderShape \cup {NoDoc}], NEW o \in Order
  PROVE  /\ orders[o] # NoDoc => orders[o] \in OrderShape
         /\ orders[o].status = "NONE" <=> orders[o] = NoDoc
  BY DEF OrderShape, OrderStatus, NoDoc

\* Revisions and new quotations begin without an order.
LEMMA NewQuotationIsARow ==
  ASSUME NEW overdue \in BOOLEAN
  PROVE  /\ NewQuotation(overdue) \in QuotationRow
         /\ NewQuotation(overdue) # NoDoc
         /\ NewQuotation(overdue).order = NoOrder
  BY DEF NewQuotation, QuotationRow, NoDoc

\* A new revision behind earlier ones that are no drafts.
LEMMA InsertKeeps ==
  ASSUME Inv, NEW q \in Quotation, NEW overdue \in BOOLEAN,
         InsertQuotation(q, NewQuotation(overdue)), UNCHANGED saleVars,
         \A r \in Quotation : r[1] = q[1] /\ r[2] < q[2] =>
           quotations[r] # NoDoc /\ quotations[r].status # "DRAFT"
  PROVE  TablesInv' /\ QuotationsInv' /\ ConvertedOnce'
<1> DEFINE row == NewQuotation(overdue)
<1>1. /\ row \in QuotationRow /\ row # NoDoc /\ row.order = NoOrder
  BY NewQuotationIsARow
<1> HIDE DEF row
<1>2. /\ quotations[q] = NoDoc
      /\ quotations' = [quotations EXCEPT ![q] = row]
      /\ orders' = orders /\ notes' = notes
  BY DEF InsertQuotation, saleVars, row
<1>3. quotations' \in QuotationTable
  BY <1>1, <1>2 DEF Inv, TablesInv, QuotationTable
<1>4. \A r \in Quotation : quotations'[r] = IF r = q THEN row ELSE quotations[r]
  BY <1>2 DEF Inv, TablesInv, QuotationTable
<1>5. TablesInv'
  BY <1>2, <1>3 DEF Inv, TablesInv
<1>6. Revisions'
  <2> SUFFICES ASSUME NEW p \in Quotation, NEW r \in Quotation,
                      p[1] = r[1], r[2] < p[2], quotations'[p] # NoDoc
               PROVE  quotations'[r] # NoDoc /\ quotations'[r].status # "DRAFT"
    BY DEF Revisions
  <2>1. CASE p = q
    BY <2>1, <1>4 DEF Quotation
  <2>2. CASE p # q
    <3>1. quotations[p] # NoDoc
      BY <2>2, <1>4
    <3>2. quotations[r] # NoDoc /\ quotations[r].status # "DRAFT"
      BY <3>1 DEF Inv, QuotationsInv, Revisions
    <3>. QED  BY <3>2, <1>2, <1>4
  <2>. QED  BY <2>1, <2>2
<1>7. LinkedIsAccepted'
  BY <1>1, <1>4 DEF Inv, QuotationsInv, LinkedIsAccepted
<1>8. ConvertedOnce'
  BY <1>1, <1>2, <1>4, SalesAssumption DEF Inv, ConvertedOnce
<1>. QED  BY <1>5, <1>6, <1>7, <1>8 DEF QuotationsInv

\* A row that moves on and keeps its order.
LEMMA SaveKeeps ==
  ASSUME Inv, NEW q \in Quotation, NEW row \in QuotationRow,
         SaveQuotation(q, row), UNCHANGED saleVars,
         quotations[q] # NoDoc,
         row.status = "DRAFT" => quotations[q].status = "DRAFT",
         row.order = quotations[q].order,
         row.order # NoOrder => row.status = "ACCEPTED"
  PROVE  TablesInv' /\ QuotationsInv' /\ ConvertedOnce'
<1>1. row # NoDoc
  BY DEF QuotationRow, NoDoc
<1>2. /\ quotations' = [quotations EXCEPT ![q] = row]
      /\ orders' = orders /\ notes' = notes
  BY DEF SaveQuotation, saleVars
<1>3. quotations' \in QuotationTable
  BY <1>2 DEF Inv, TablesInv, QuotationTable
<1>4. \A r \in Quotation : quotations'[r] = IF r = q THEN row ELSE quotations[r]
  BY <1>2 DEF Inv, TablesInv, QuotationTable
<1>5. TablesInv'
  BY <1>2, <1>3 DEF Inv, TablesInv
<1>6. Revisions'
  BY <1>1, <1>4 DEF Inv, QuotationsInv, Revisions
<1>7. LinkedIsAccepted'
  BY <1>4 DEF Inv, QuotationsInv, LinkedIsAccepted
<1>8. ConvertedOnce'
  BY <1>1, <1>2, <1>4 DEF Inv, ConvertedOnce
<1>. QED  BY <1>5, <1>6, <1>7, <1>8 DEF QuotationsInv

\* An order that keeps the quotation it came from.
LEMMA SaveOrderKeeps ==
  ASSUME Inv, NEW o \in Order, NEW row \in OrderShape,
         SaveOrder(o, row), quotations' = quotations, notes' = notes,
         orders[o] # NoDoc, row.quotation = orders[o].quotation
  PROVE  TablesInv' /\ QuotationsInv' /\ ConvertedOnce'
<1>1. row # NoDoc
  BY DEF OrderShape, OrderStatus, NoDoc
<1>2. orders' = [orders EXCEPT ![o] = row]
  BY DEF SaveOrder
<1>3. orders' \in [Order -> OrderShape \cup {NoDoc}]
  BY <1>2 DEF Inv, TablesInv
<1>4. \A p \in Order : orders'[p] = IF p = o THEN row ELSE orders[p]
  BY <1>2 DEF Inv, TablesInv
<1>5. ConvertedOnce'
  BY <1>1, <1>4 DEF Inv, ConvertedOnce
<1>6. QuotationsInv'
  BY DEF Inv, QuotationsInv, Revisions, LinkedIsAccepted
<1>. QED  BY <1>3, <1>5, <1>6 DEF Inv, TablesInv

\* Steps that touch neither quotations nor orders.
LEMMA OthersKeep ==
  ASSUME Inv, quotations' = quotations, orders' = orders,
         notes' \in [Note -> NoteRow \cup {NoDoc}]
  PROVE  TablesInv' /\ QuotationsInv' /\ ConvertedOnce'
  BY DEF Inv, TablesInv, QuotationsInv, Revisions, LinkedIsAccepted, ConvertedOnce

\* A call that ends, or goes on while quotations move on.
LEMMA CallsKeep ==
  ASSUME Inv,
         \/ call' = call
         \/ \E c \in Caller : Finish(c),
         \A q \in Quotation :
           quotations[q] # NoDoc /\ quotations[q].status # "DRAFT" =>
             quotations'[q] # NoDoc /\ quotations'[q].status # "DRAFT"
  PROVE  CallsInv'
<1>1. CASE call' = call
  BY <1>1 DEF Inv, CallsInv
<1>2. CASE \E c \in Caller : Finish(c)
  <2> PICK c \in Caller : Finish(c)
    BY <1>2
  <2>1. call' = [call EXCEPT ![c] = NoCall]
    BY DEF Finish
  <2>2. call' = [d \in Caller |-> IF d = c THEN NoCall ELSE call[d]]
    BY <2>1 DEF Inv, CallsInv
  <2>3. call' = [d \in Caller |-> call'[d]]
    BY <2>2
  <2>4. \A d \in Caller : call'[d].op # "none" => call'[d] = call[d]
    BY <2>2 DEF NoCall
  <2>. QED  BY <2>3, <2>4 DEF Inv, CallsInv
<1>. QED  BY <1>1, <1>2

(***************************************************************************)
(* Steps                                                                   *)
(***************************************************************************)
\* With empty tables nothing refers to anything.
LEMMA InitInv == Init => Inv
<1> SUFFICES ASSUME Init PROVE Inv
  OBVIOUS
<1>1. \A q \in Quotation : quotations[q] = NoDoc
  BY DEF Init, QuoteInit
<1>2. \A o \in Order : orders[o] = NoDoc
  BY DEF Init
<1>3. TablesInv
  BY DEF Init, QuoteInit, TablesInv, QuotationTable
<1>4. QuotationsInv
  BY <1>1 DEF QuotationsInv, Revisions, LinkedIsAccepted
<1>5. CallsInv
  BY DEF Init, QuoteInit, CallsInv, NoCall
<1>6. ConvertedOnce
  BY <1>1, <1>2 DEF ConvertedOnce
<1>. QED  BY <1>3, <1>4, <1>5, <1>6 DEF Inv

\* A row that is no draft never becomes one.
LEMMA QuotationSteps ==
  ASSUME Inv, QuotationNext
  PROVE  Inv'
<1> DEFINE Settled ==
      \A q \in Quotation :
        quotations[q] # NoDoc /\ quotations[q].status # "DRAFT" =>
          quotations'[q] # NoDoc /\ quotations'[q].status # "DRAFT"
<1> DEFINE Kept == TablesInv' /\ QuotationsInv' /\ ConvertedOnce'
<1>0. UNCHANGED saleVars /\ quotations \in QuotationTable
  BY DEF QuotationNext, Inv, TablesInv
<1>1. ASSUME NEW n \in Number, NEW overdue \in BOOLEAN, CreateQuotation(n, overdue)
      PROVE  Inv'
  <2>1. <<n, 1>> \in Quotation
    BY QuotationAssumption DEF Quotation
  <2>2. \A r \in Quotation : ~ r[2] < 1
    BY DEF Quotation
  <2>3. InsertQuotation(<<n, 1>>, NewQuotation(overdue)) /\ call' = call
    BY <1>1 DEF CreateQuotation
  <2>4. Kept
    BY <1>0, <2>1, <2>2, <2>3, InsertKeeps
  <2>5. Settled
    BY <1>0, <2>3 DEF InsertQuotation, QuotationTable
  <2>6. CallsInv'
    BY <2>3, <2>5, CallsKeep
  <2>. QED  BY <2>4, <2>6 DEF Inv
<1>2. ASSUME NEW q \in Quotation, NEW row \in QuotationRow, SaveQuotation(q, row),
             call' = call, quotations[q] # NoDoc,
             row.status = "DRAFT" => quotations[q].status = "DRAFT",
             row.order = quotations[q].order,
             row.order # NoOrder => row.status = "ACCEPTED"
      PROVE  Inv'
  <2>1. Kept
    BY <1>0, <1>2, SaveKeeps
  <2>2. row # NoDoc
    BY DEF QuotationRow, NoDoc
  <2>3. Settled
    BY <1>0, <1>2, <2>2 DEF SaveQuotation, QuotationTable
  <2>4. CallsInv'
    BY <1>2, <2>3, CallsKeep
  <2>. QED  BY <2>1, <2>4 DEF Inv
<1>3. ASSUME NEW q \in Quotation, quotations[q].status \in {"DRAFT", "SENT", "ACCEPTED"}
      PROVE  /\ quotations[q] \in QuotationRow /\ quotations[q] # NoDoc
             /\ quotations[q].order # NoOrder => quotations[q].status = "ACCEPTED"
  BY <1>0, <1>3, QuotationRows DEF Inv, QuotationsInv, LinkedIsAccepted
<1>4. ASSUME NEW q \in Quotation, NEW overdue \in BOOLEAN,
             \/ UpdateQuotation(q, overdue)
             \/ overdue = TRUE /\ ValidityEnds(q)
      PROVE  Inv'
  <2> DEFINE row == [quotations[q] EXCEPT !.overdue = overdue]
  <2>1. quotations[q].status \in {"DRAFT", "SENT"} /\ call' = call
    BY <1>4 DEF UpdateQuotation, ValidityEnds
  <2>2. /\ row \in QuotationRow
        /\ row.status = quotations[q].status /\ row.order = quotations[q].order
    BY <1>3, <2>1 DEF QuotationRow
  <2>3. SaveQuotation(q, row)
    BY <1>0, <1>4 DEF UpdateQuotation, ValidityEnds, SaveQuotation, EditedQuotation,
                      QuotationTable
  <2>. QED  BY <1>2, <1>3, <2>1, <2>2, <2>3
<1>5. ASSUME NEW q \in Quotation,
             NEW to \in {"SENT", "ACCEPTED", "REJECTED", "EXPIRED", "CANCELLED"},
             MoveQuotation(q, to)
      PROVE  Inv'
  <2> DEFINE row == [quotations[q] EXCEPT !.status = to]
  <2>1. quotations[q].status \in {"DRAFT", "SENT"}
    BY <1>5 DEF MoveQuotation, MayMove, QuotationMoves
  <2>2. /\ row \in QuotationRow /\ row.status # "DRAFT"
        /\ row.order = quotations[q].order
    BY <1>3, <2>1 DEF QuotationRow
  <2>3. SaveQuotation(q, row) /\ call' = call
    BY <1>5 DEF MoveQuotation
  <2>. QED  BY <1>2, <1>3, <2>1, <2>2, <2>3
<1>6. ASSUME NEW c \in Caller, NEW q \in Quotation, BeginRevise(c, q) \/ BeginConvert(c, q)
      PROVE  Inv'
  <2>1. quotations' = quotations
    BY <1>6 DEF BeginRevise, BeginConvert
  <2>2. Kept
    BY <1>0, <2>1, OthersKeep DEF Inv, TablesInv, saleVars
  <2>3. PICK job \in {[op |-> "revise", of |-> q], [op |-> "convert", of |-> q]} :
          /\ call' = [call EXCEPT ![c] = job]
          /\ job.op = "revise" =>
               quotations[q] # NoDoc /\ quotations[q].status # "DRAFT"
    BY <1>0, <1>6, QuotationRows
       DEF BeginRevise, BeginConvert, Start, IsRevisable, Revisable, NoDoc
  <2>4. call' = [d \in Caller |-> IF d = c THEN job ELSE call[d]]
    BY <2>3 DEF Inv, CallsInv
  <2>5. /\ job.of = q /\ job.op \in {"revise", "convert"}
    BY <2>3
  <2>6. call' = [d \in Caller |-> call'[d]]
    BY <2>4
  <2>7. CallsInv'
    BY <2>1, <2>3, <2>4, <2>5, <2>6 DEF Inv, CallsInv
  <2>. QED  BY <2>2, <2>7 DEF Inv
<1>7. ASSUME NEW c \in Caller, Revise(c)
      PROVE  Inv'
  <2> DEFINE q == call[c].of
  <2> DEFINE s == Successor(q)
  <2>1. q \in Quotation /\ quotations[q] # NoDoc /\ quotations[q].status # "DRAFT"
    BY <1>7 DEF Revise, Inv, CallsInv
  <2>2. InsertQuotation(s, NewQuotation(FALSE)) /\ Finish(c)
    BY <1>7 DEF Revise
  <2>3. CASE s \in Quotation
    <3>1. \A r \in Quotation : r[1] = s[1] /\ r[2] < s[2] => r = q
          \/ (r[1] = q[1] /\ r[2] < q[2])
      BY <2>1 DEF Quotation, Successor
    <3>2. \A r \in Quotation : r[1] = s[1] /\ r[2] < s[2] =>
            quotations[r] # NoDoc /\ quotations[r].status # "DRAFT"
      BY <2>1, <3>1 DEF Inv, QuotationsInv, Revisions
    <3>3. Kept
      BY <1>0, <2>2, <2>3, <3>2, InsertKeeps
    <3>4. Settled
      BY <1>0, <2>2 DEF InsertQuotation, QuotationTable
    <3>5. CallsInv'
      BY <2>2, <3>4, CallsKeep
    <3>. QED  BY <3>3, <3>5 DEF Inv
  <2>4. CASE s \notin Quotation
    <3>1. quotations' = quotations
      BY <1>0, <2>2, <2>4 DEF InsertQuotation, QuotationTable
    <3>2. Kept
      BY <1>0, <3>1, OthersKeep DEF Inv, TablesInv, saleVars
    <3>3. CallsInv'
      BY <2>2, <3>1, CallsKeep
    <3>. QED  BY <3>2, <3>3 DEF Inv
  <2>. QED  BY <2>3, <2>4
<1>8. ASSUME NEW c \in Caller, GiveUp(c)
      PROVE  Inv'
  <2>1. quotations' = quotations /\ Finish(c)
    BY <1>8 DEF GiveUp
  <2>2. Kept
    BY <1>0, <2>1, OthersKeep DEF Inv, TablesInv, saleVars
  <2>3. CallsInv'
    BY <2>1, CallsKeep
  <2>. QED  BY <2>2, <2>3 DEF Inv
<1>. QED
  BY <1>1, <1>4, <1>5, <1>6, <1>7, <1>8
     DEF QuotationNext, QuoteNext, SendQuotation, AcceptQuotation, RejectQuotation,
         CancelQuotation, ExpireQuotation

\* Approval requests change nothing the invariant speaks of.
LEMMA ApprovalSteps ==
  ASSUME Inv, ApprovalNext
  PROVE  Inv'
<1>1. UNCHANGED <<quotations, call, orders, notes>>
  BY DEF ApprovalNext, AskDirectly, Settle
<1>. QED  BY <1>1, OthersKeep, CallsKeep DEF Inv, TablesInv

\* Conversion included, the one step that writes both tables.
LEMMA OrderSteps ==
  ASSUME Inv, OrderNext
  PROVE  Inv'
<1> DEFINE Kept == TablesInv' /\ QuotationsInv' /\ ConvertedOnce'
<1>0. /\ quotations \in QuotationTable
      /\ orders \in [Order -> OrderShape \cup {NoDoc}]
      /\ notes \in [Note -> NoteRow \cup {NoDoc}]
      /\ Qty \subseteq Int
  BY SalesAssumption DEF Inv, TablesInv, Qty
\* An order comes with a quotation that no order and no row has named.
<1>1. ASSUME NEW o \in Order, NEW qty \in Qty, NEW q \in Quotation \cup {NoQuotation},
             InsertOrder(o, NewOrder(qty, q))
      PROVE  /\ NewOrder(qty, q) \in OrderShape /\ NewOrder(qty, q) # NoDoc
             /\ NewOrder(qty, q).quotation = q
             /\ orders' \in [Order -> OrderShape \cup {NoDoc}]
             /\ \A p \in Order : orders'[p] = IF p = o THEN NewOrder(qty, q) ELSE orders[p]
             /\ \A r \in Quotation : quotations[r] # NoDoc => quotations[r].order # o
  <2>1. NewOrder(qty, q) \in OrderShape /\ NewOrder(qty, q).quotation = q
    BY <1>0 DEF NewOrder, OrderShape, OrderStatus
  <2>2. NewOrder(qty, q) # NoDoc
    BY DEF NewOrder, NoDoc
  <2>3. orders[o] = NoDoc /\ orders' = [orders EXCEPT ![o] = NewOrder(qty, q)]
    BY <1>1 DEF InsertOrder
  <2>4. \A r \in Quotation : quotations[r] # NoDoc => quotations[r].order # o
    BY <2>3 DEF Inv, ConvertedOnce
  <2>. QED  BY <1>0, <2>1, <2>2, <2>3, <2>4
<1>2. ASSUME NEW o \in Order, NEW qty \in Qty, CreateOrder(o, qty)
      PROVE  Inv'
  <2>1. /\ InsertOrder(o, NewOrder(qty, NoQuotation))
        /\ quotations' = quotations /\ call' = call /\ notes' = notes
    BY <1>2 DEF CreateOrder
  <2>2. NoQuotation \notin Quotation
    BY DEF NoQuotation, Quotation
  <2> DEFINE row == NewOrder(qty, NoQuotation)
  <2>3. /\ row # NoDoc /\ row.quotation = NoQuotation
        /\ orders' \in [Order -> OrderShape \cup {NoDoc}]
        /\ \A p \in Order : orders'[p] = IF p = o THEN row ELSE orders[p]
        /\ \A r \in Quotation : quotations[r] # NoDoc => quotations[r].order # o
    BY <1>1, <2>1
  <2> HIDE DEF row
  <2>4. ConvertedOnce'
    BY <2>1, <2>2, <2>3 DEF Inv, ConvertedOnce
  <2>5. QuotationsInv' /\ TablesInv'
    BY <1>0, <2>1, <2>3 DEF Inv, QuotationsInv, Revisions, LinkedIsAccepted, TablesInv
  <2>6. CallsInv'
    BY <2>1, CallsKeep
  <2>. QED  BY <2>4, <2>5, <2>6 DEF Inv
<1>3. ASSUME NEW c \in Caller, NEW o \in Order, NEW qty \in Qty,
             ConvertQuotation(c, o, qty)
      PROVE  Inv'
  <2> DEFINE q == call[c].of
  <2> DEFINE row == NewOrder(qty, q)
  <2> DEFINE linked == LinkedQuotation(quotations[q], o)
  <2>1. /\ InsertOrder(o, row) /\ Finish(c) /\ notes' = notes
        /\ quotations[q].status = "ACCEPTED"
        /\ quotations[q].order \in {NoOrder, o}
        /\ quotations' = [quotations EXCEPT ![q] = linked]
    BY <1>3 DEF ConvertQuotation, LinkSalesOrder, CanLink, SaveQuotation
  <2>2. q \in Quotation
    BY <1>3 DEF ConvertQuotation, Inv, CallsInv
  <2>3. quotations[q] \in QuotationRow /\ quotations[q] # NoDoc
    BY <1>0, <2>1, <2>2, QuotationRows
  <2>4. /\ row # NoDoc /\ row.quotation = q
        /\ orders' \in [Order -> OrderShape \cup {NoDoc}]
        /\ \A p \in Order : orders'[p] = IF p = o THEN row ELSE orders[p]
        /\ \A r \in Quotation : quotations[r] # NoDoc => quotations[r].order # o
    BY <1>1, <2>1, <2>2
  <2>5. /\ linked \in QuotationRow /\ linked # NoDoc
        /\ linked.status = "ACCEPTED" /\ linked.order = o
    BY <2>1, <2>3 DEF LinkedQuotation, QuotationRow, NoDoc
  <2>6. quotations[q].order = NoOrder
    BY <2>1, <2>2, <2>3, <2>4
  <2> HIDE DEF row, linked, q
  <2>7. /\ quotations' \in QuotationTable
        /\ \A r \in Quotation : quotations'[r] = IF r = q THEN linked ELSE quotations[r]
    BY <1>0, <2>1, <2>2, <2>5 DEF QuotationTable
  <2>8. QuotationsInv' /\ TablesInv'
    <3>1. Revisions'
      BY <2>3, <2>5, <2>7 DEF Inv, QuotationsInv, Revisions
    <3>2. LinkedIsAccepted'
      BY <2>5, <2>7 DEF Inv, QuotationsInv, LinkedIsAccepted
    <3>. QED  BY <1>0, <2>1, <2>4, <2>7, <3>1, <3>2 DEF QuotationsInv, TablesInv
  <2>9. ConvertedOnce'
    BY <2>2, <2>3, <2>4, <2>5, <2>6, <2>7, SalesAssumption DEF Inv, ConvertedOnce
  <2>10. CallsInv'
    <3>1. \A r \in Quotation :
            quotations[r] # NoDoc /\ quotations[r].status # "DRAFT" =>
              quotations'[r] # NoDoc /\ quotations'[r].status # "DRAFT"
      BY <2>5, <2>7
    <3>. QED  BY <2>1, <3>1, CallsKeep
  <2>. QED  BY <2>8, <2>9, <2>10 DEF Inv
<1>4. ASSUME NEW o \in Order, NEW row \in OrderShape, SaveOrder(o, row),
             quotations' = quotations, notes' = notes, orders[o] # NoDoc,
             row.quotation = orders[o].quotation, CallsInv'
      PROVE  Inv'
  BY <1>4, SaveOrderKeeps DEF Inv
<1>5. ASSUME NEW o \in Order, NEW qty \in Qty, UpdateOrder(o, qty)
      PROVE  Inv'
  <2> DEFINE row == EditedOrder(orders[o], qty)
  <2>1. /\ orders[o].status = "DRAFT" /\ SaveOrder(o, row)
        /\ quotations' = quotations /\ notes' = notes /\ call' = call
    BY <1>5 DEF UpdateOrder
  <2>2. orders[o] \in OrderShape /\ orders[o] # NoDoc
    BY <1>0, <2>1, OrderRows
  <2>3. row \in OrderShape /\ row.quotation = orders[o].quotation
    BY <1>0, <2>2 DEF EditedOrder, OrderShape
  <2>4. CallsInv'
    BY <2>1, CallsKeep
  <2>. QED  BY <1>4, <2>1, <2>2, <2>3, <2>4
<1>6. ASSUME NEW o \in Order, NEW to \in OrderStatus, MoveOrder(o, to),
             UNCHANGED <<quotations, call, notes>>
      PROVE  Inv'
  <2> DEFINE row == [orders[o] EXCEPT !.status = to]
  <2>1. SaveOrder(o, row) /\ orders[o].status # "NONE"
    BY <1>6 DEF MoveOrder, OrderMoves
  <2>2. orders[o] \in OrderShape /\ orders[o] # NoDoc
    BY <1>0, <2>1, OrderRows
  <2>3. row \in OrderShape /\ row.quotation = orders[o].quotation
    BY <2>2 DEF OrderShape
  <2>4. CallsInv'
    BY <1>6, CallsKeep
  <2>. QED  BY <1>4, <1>6, <2>1, <2>2, <2>3, <2>4
<1>7. ASSUME NEW o \in Order, ReopenOrder(o)
      PROVE  Inv'
  <2> DEFINE row == ReopenedOrder(orders[o])
  <2>1. /\ SaveOrder(o, row) /\ orders[o].status # "NONE"
        /\ quotations' = quotations /\ notes' = notes /\ call' = call
    BY <1>7 DEF ReopenOrder, OrderMoves
  <2>2. orders[o] \in OrderShape /\ orders[o] # NoDoc
    BY <1>0, <2>1, OrderRows
  <2>3. row \in OrderShape /\ row.quotation = orders[o].quotation
    BY <2>2 DEF ReopenedOrder, OrderShape, OrderStatus
  <2>4. CallsInv'
    BY <2>1, CallsKeep
  <2>. QED  BY <1>4, <2>1, <2>2, <2>3, <2>4
<1>8. ASSUME NEW c \in Caller, NEW o \in Order, BeginSubmit(c, o)
      PROVE  Inv'
  <2> DEFINE job == [op |-> "submit", of |-> o, open |-> OpenExposure(Order \ {o})]
  <2>1. /\ call' = [call EXCEPT ![c] = job]
        /\ quotations' = quotations /\ orders' = orders /\ notes' = notes
    BY <1>8 DEF BeginSubmit, Start, saleVars
  <2>2. job.op = "submit" /\ job.of = o
    OBVIOUS
  <2> HIDE DEF job
  <2>3. call' = [d \in Caller |-> IF d = c THEN job ELSE call[d]]
    BY <2>1 DEF Inv, CallsInv
  <2>4. call' = [d \in Caller |-> call'[d]]
    BY <2>3
  <2>5. CallsInv'
    BY <2>1, <2>2, <2>3, <2>4 DEF Inv, CallsInv
  <2>6. Kept
    BY <1>0, <2>1, OthersKeep
  <2>. QED  BY <2>5, <2>6 DEF Inv
<1>9. ASSUME NEW c \in Caller, NEW outcome \in {"APPROVED", "PENDING"}, Submit(c, outcome)
      PROVE  Inv'
  <2> DEFINE o == call[c].of
  <2> DEFINE credit == EvaluateCredit(call[c].open, orders[o].qty)
  <2> DEFINE row == Submitted(orders[o], credit, outcome)
  <2>1. /\ orders[o].status = "DRAFT" /\ SaveOrder(o, row) /\ Finish(c)
        /\ quotations' = quotations /\ notes' = notes
    BY <1>9 DEF Submit
  <2>2. o \in Order
    BY <1>9 DEF Submit, Inv, CallsInv
  <2>3. orders[o] \in OrderShape /\ orders[o] # NoDoc
    BY <1>0, <2>1, <2>2, OrderRows
  <2>4. credit \in {"EXCEEDED", "OK"}
    BY DEF EvaluateCredit
  <2> HIDE DEF credit, o
  <2>5. row \in OrderShape /\ row.quotation = orders[o].quotation
    BY <2>3, <2>4 DEF Submitted, OrderShape, OrderStatus
  <2>6. CallsInv'
    BY <2>1, CallsKeep
  <2>. QED  BY <1>4, <2>1, <2>2, <2>3, <2>5, <2>6
<1>10. ASSUME NEW o \in Order, ConfirmOrder(o) \/ CancelOrder(o)
       PROVE  Inv'
  <2>1. UNCHANGED <<quotations, call, notes>>
    BY <1>10 DEF ConfirmOrder, CancelOrder
  <2>2. \E to \in OrderStatus : MoveOrder(o, to)
    BY <1>10 DEF ConfirmOrder, CancelOrder, MoveOrder, OrderMoves, OrderStatus
  <2>. QED  BY <1>6, <2>1, <2>2
<1>. QED
  BY <1>2, <1>3, <1>5, <1>7, <1>8, <1>9, <1>10 DEF OrderNext

\* Delivery notes change the status of an order, never its quotation.
LEMMA NoteSteps ==
  ASSUME Inv, NoteNext
  PROVE  Inv'
<1>0. /\ orders \in [Order -> OrderShape \cup {NoDoc}]
      /\ notes \in [Note -> NoteRow \cup {NoDoc}]
      /\ Qty \subseteq Int
  BY SalesAssumption DEF Inv, TablesInv, Qty
<1>1. UNCHANGED <<quotations, call>>
  BY DEF NoteNext, CreateNote, ShipNote, CancelNote
<1>2. CallsInv'
  BY <1>1, CallsKeep
<1>3. ASSUME NEW n \in Note, NEW to \in {"SHIPPED", "CANCELLED"}, MoveNote(n, to)
      PROVE  /\ notes[n] \in NoteRow
             /\ notes' \in [Note -> NoteRow \cup {NoDoc}]
  <2>1. notes[n].status = "DRAFT"
        /\ notes' = [notes EXCEPT ![n] = [notes[n] EXCEPT !.status = to]]
    BY <1>3 DEF MoveNote, SaveNote
  <2>2. notes[n] \in NoteRow
    BY <1>0, <2>1 DEF NoDoc
  <2>3. [notes[n] EXCEPT !.status = to] \in NoteRow
    BY <2>2 DEF NoteRow
  <2>. QED  BY <1>0, <2>1, <2>2, <2>3
<1>4. ASSUME NEW n \in Note, NEW o \in Order, NEW qty \in Qty, NEW from \in Warehouse,
             CreateNote(n, o, qty, from)
      PROVE  Inv'
  <2>1. notes' = [notes EXCEPT ![n] = NewNote(o, qty, from)] /\ orders' = orders
    BY <1>4 DEF CreateNote, InsertNote
  <2>2. notes' \in [Note -> NoteRow \cup {NoDoc}]
    BY <1>0, <2>1 DEF NewNote, NoteRow
  <2>. QED  BY <1>1, <1>2, <2>1, <2>2, OthersKeep DEF Inv
<1>5. ASSUME NEW n \in Note, CancelNote(n)
      PROVE  Inv'
  <2>1. MoveNote(n, "CANCELLED") /\ orders' = orders
    BY <1>5 DEF CancelNote
  <2>. QED  BY <1>1, <1>2, <1>3, <2>1, OthersKeep DEF Inv
<1>6. ASSUME NEW n \in Note, ShipNote(n)
      PROVE  Inv'
  <2> DEFINE o == notes[n].order
  <2> DEFINE qty == notes[n].qty
  <2> DEFINE row == DeliveredOrder(orders[o], qty)
  <2>1. /\ MoveNote(n, "SHIPPED") /\ SaveOrder(o, row)
        /\ orders[o].status \in {"CONFIRMED", "PARTIALLY_DELIVERED"}
    BY <1>6 DEF ShipNote, CanDeliver
  <2>2. /\ notes[n] \in NoteRow
        /\ notes' \in [Note -> NoteRow \cup {NoDoc}]
    BY <1>3, <2>1
  <2>3. o \in Order /\ qty \in Int
    BY <1>0, <2>2 DEF NoteRow
  <2>4. orders[o] \in OrderShape /\ orders[o] # NoDoc
    BY <1>0, <2>1, <2>3, OrderRows
  <2> HIDE DEF o, qty
  <2>5. row \in OrderShape /\ row.quotation = orders[o].quotation
    <3> DEFINE status == IF orders[o].delivered + qty >= orders[o].qty THEN "DELIVERED"
                         ELSE "PARTIALLY_DELIVERED"
    <3>1. status \in OrderStatus
      BY DEF OrderStatus
    <3>2. row = [orders[o] EXCEPT !.delivered = orders[o].delivered + qty,
                                  !.status = status]
      BY DEF DeliveredOrder
    <3> HIDE DEF status, row
    <3>3. /\ orders[o].delivered + qty \in Int
          /\ orders[o] = [status |-> orders[o].status, qty |-> orders[o].qty,
                          delivered |-> orders[o].delivered, credit |-> orders[o].credit,
                          quotation |-> orders[o].quotation]
      BY <2>3, <2>4 DEF OrderShape
    <3>. QED  BY <2>4, <3>1, <3>2, <3>3 DEF OrderShape
  <2> HIDE DEF row
  <2>6. row # NoDoc
    BY <2>5 DEF OrderShape, OrderStatus, NoDoc
  <2>7. /\ orders' \in [Order -> OrderShape \cup {NoDoc}]
        /\ \A p \in Order : orders'[p] = IF p = o THEN row ELSE orders[p]
    BY <1>0, <2>1, <2>3, <2>5 DEF SaveOrder
  <2>8. ConvertedOnce'
    BY <1>1, <2>4, <2>5, <2>6, <2>7 DEF Inv, ConvertedOnce
  <2>9. QuotationsInv' /\ TablesInv'
    BY <1>1, <2>2, <2>7 DEF Inv, QuotationsInv, Revisions, LinkedIsAccepted, TablesInv
  <2>. QED  BY <1>2, <2>8, <2>9 DEF Inv
<1>. QED  BY <1>4, <1>5, <1>6 DEF NoteNext

\* Every use case of quotations, orders, notes and approvals keeps the invariant.
LEMMA NextInv == Inv /\ [Next]_vars => Inv'
<1> SUFFICES ASSUME Inv, [Next]_vars PROVE Inv'
  OBVIOUS
<1>1. CASE Next
  <2>1. CASE HandNext
    <3>1. UNCHANGED <<quotations, call, orders, notes>>
      BY <2>1 DEF HandNext, ReserveByHand, ReleaseByHand
    <3>. QED  BY <3>1, OthersKeep, CallsKeep DEF Inv, TablesInv
  <2>. QED
    BY <1>1, <2>1, QuotationSteps, ApprovalSteps, OrderSteps, NoteSteps DEF Next
<1>2. CASE UNCHANGED vars
  BY <1>2, OthersKeep, CallsKeep DEF vars, saleVars, Inv, TablesInv
<1>. QED  BY <1>1, <1>2

\* The invariant is stronger than the property: contiguous numbers follow from
\* the existence of all earlier revisions.
LEMMA InvHolds == Inv => QuotationsHoldTogether
<1> SUFFICES ASSUME Inv PROVE QuotationsHoldTogether
  OBVIOUS
<1>1. \A q \in Quotation : q[2] = 1 \/ quotations[q] = NoDoc
                          \/ quotations[<<q[1], q[2] - 1>>] # NoDoc
  <2> SUFFICES ASSUME NEW q \in Quotation, q[2] # 1, quotations[q] # NoDoc
               PROVE  quotations[<<q[1], q[2] - 1>>] # NoDoc
    OBVIOUS
  <2> DEFINE r == <<q[1], q[2] - 1>>
  <2>1. r \in Quotation /\ r[1] = q[1] /\ r[2] < q[2]
    BY QuotationAssumption DEF Quotation
  <2>. QED  BY <2>1 DEF Inv, QuotationsInv, Revisions
<1>2. \A q \in Quotation : quotations[q].status = "DRAFT" => Later(q) = {}
  BY DEF Inv, QuotationsInv, Revisions, Later
<1>3. OnlyLastIsDraft
  BY <1>1, <1>2 DEF Inv, QuotationsInv, LinkedIsAccepted, OnlyLastIsDraft
<1>. QED  BY <1>3 DEF Inv, QuotationsHoldTogether

\* What a customer was sent stays as it was, and a quotation and its order name
\* each other and nobody else, for any calls, numbers, revisions and orders
\* (quotation.use-cases.ts: Revise; quotation-conversion.gateway.ts).
THEOREM QuotationsSafe == Spec => []QuotationsHoldTogether
<1>. QED  BY InitInv, NextInv, InvHolds, PTL DEF Spec

-----------------------------------------------------------------------------
(***************************************************************************)
(* Stock taking                                                            *)
(***************************************************************************)
\* Rows without the bounds that keep stock from going negative.
SheetShape == [status : {"FROZEN", "DRAFT", "COUNTING", "REVIEW", "POSTED", "CANCELLED"},
               at : Warehouse, system : Int, counted : Int]

StockTables ==
  /\ onHand \in [Warehouse -> Int]
  /\ sheets \in [Sheet -> SheetShape \cup {NoDoc}]
  /\ transfers \in [Transfer -> TransferRow \cup {NoDoc}]
  /\ adjustments \in
       [Sheet -> [status : {"NONE", "PENDING", "APPROVED", "REJECTED", "CANCELLED"},
                  amount : Int, direct : BOOLEAN]]
  /\ agreed = [s \in Sheet |-> agreed[s]]

\* The request of a sheet under review is for its variance; a posted sheet was
\* posted on such a request.
SheetSafe(s) ==
  /\ sheets[s].status = "REVIEW" =>
       /\ adjustments[s].status # "NONE"
       /\ adjustments[s].direct \/ adjustments[s].amount = VarianceValue(s)
  /\ sheets[s].status = "POSTED" /\ Variance(s) # 0 =>
       /\ agreed[s].status = "APPROVED"
       /\ agreed[s].direct \/ agreed[s].amount = VarianceValue(s)

StockInv == StockTables /\ \A s \in Sheet : SheetSafe(s)

SheetKept(s) == /\ sheets'[s] = sheets[s]
                /\ adjustments'[s] = adjustments[s] /\ agreed'[s] = agreed[s]

\* A status other than NONE is that of a row.
LEMMA SheetRows ==
  ASSUME StockTables, NEW s \in Sheet, sheets[s].status # "NONE"
  PROVE  sheets[s] \in SheetShape
  BY DEF StockTables, NoDoc

\* A variance is a difference of two quantities.
LEMMA VarianceIsAnInteger ==
  ASSUME StockTables, NEW s \in Sheet, sheets[s].status # "NONE"
  PROVE  Variance(s) \in Int /\ VarianceValue(s) \in Int
  BY SheetRows DEF SheetShape, Variance, VarianceValue

\* What speaks of one sheet is kept when the others stay as they are.
LEMMA OneSheet ==
  ASSUME StockInv, NEW s \in Sheet, StockTables', SheetSafe(s)',
         \A r \in Sheet \ {s} : SheetKept(r)
  PROVE  StockInv'
<1>1. ASSUME NEW r \in Sheet \ {s}
      PROVE  SheetSafe(r)'
  <2>1. SheetSafe(r) /\ SheetKept(r)
    BY DEF StockInv
  <2>2. Variance(r)' = Variance(r) /\ VarianceValue(r)' = VarianceValue(r)
    BY <2>1 DEF SheetKept, Variance, VarianceValue
  <2>. QED  BY <2>1, <2>2 DEF SheetSafe, SheetKept
<1>. QED  BY <1>1 DEF StockInv

\* The same when no sheet changes.
LEMMA NoSheet ==
  ASSUME StockInv, StockTables', UNCHANGED <<sheets, adjustments, agreed>>
  PROVE  StockInv'
<1>1. ASSUME NEW r \in Sheet
      PROVE  SheetSafe(r)'
  <2>1. SheetSafe(r)
    BY DEF StockInv
  <2>2. Variance(r)' = Variance(r) /\ VarianceValue(r)' = VarianceValue(r)
    BY DEF Variance, VarianceValue
  <2>. QED  BY <2>1, <2>2 DEF SheetSafe
<1>. QED  BY <1>1 DEF StockInv

\* A sheet that goes into a state where no approval is spoken of.
LEMMA SheetAtWork ==
  ASSUME StockInv, NEW s \in Sheet, NEW row \in SheetShape, SaveSheet(s, row),
         row.status \notin {"REVIEW", "POSTED"},
         UNCHANGED <<onHand, transfers, adjustments, agreed>>
  PROVE  StockInv'
<1>1. /\ sheets' \in [Sheet -> SheetShape \cup {NoDoc}]
      /\ \A r \in Sheet : sheets'[r] = IF r = s THEN row ELSE sheets[r]
  BY DEF SaveSheet, StockInv, StockTables
<1>2. StockTables'
  BY <1>1 DEF StockInv, StockTables
<1>3. SheetSafe(s)'
  BY <1>1 DEF SheetSafe
<1>4. \A r \in Sheet \ {s} : SheetKept(r)
  BY <1>1 DEF SheetKept
<1>. QED  BY <1>2, <1>3, <1>4, OneSheet

\* A save that changes the status alone keeps the variance.
LEMMA SaveStatus ==
  ASSUME StockInv, NEW s \in Sheet, NEW to \in {"COUNTING", "REVIEW", "POSTED", "CANCELLED"},
         sheets[s].status # "NONE",
         SaveSheet(s, [sheets[s] EXCEPT !.status = to])
  PROVE  /\ sheets' \in [Sheet -> SheetShape \cup {NoDoc}]
         /\ sheets'[s].status = to
         /\ \A r \in Sheet \ {s} : sheets'[r] = sheets[r]
         /\ Variance(s)' = Variance(s) /\ VarianceValue(s)' = VarianceValue(s)
         /\ Variance(s) \in Int /\ VarianceValue(s) \in Int
<1> DEFINE row == [sheets[s] EXCEPT !.status = to]
<1>1. sheets[s] \in SheetShape
  BY SheetRows DEF StockInv
<1>2. /\ row \in SheetShape /\ row.status = to
      /\ row.counted = sheets[s].counted /\ row.system = sheets[s].system
  BY <1>1 DEF SheetShape
<1>3. sheets' = [sheets EXCEPT ![s] = row]
  BY DEF SaveSheet
<1> HIDE DEF row
<1>4. /\ sheets' \in [Sheet -> SheetShape \cup {NoDoc}]
      /\ \A r \in Sheet : sheets'[r] = IF r = s THEN row ELSE sheets[r]
  BY <1>2, <1>3 DEF StockInv, StockTables
<1>5. Variance(s)' = Variance(s)
  BY <1>2, <1>4 DEF Variance
<1>6. VarianceValue(s)' = VarianceValue(s)
  BY <1>5 DEF VarianceValue
<1>7. Variance(s) \in Int /\ VarianceValue(s) \in Int
  BY VarianceIsAnInteger DEF StockInv
<1>. QED  BY <1>2, <1>4, <1>5, <1>6, <1>7

(***************************************************************************)
(* Steps                                                                   *)
(***************************************************************************)
\* Beside a count, everything else changes stock by whole numbers.
LEMMA SalesSteps ==
  ASSUME Inv, StockInv, Next, UNCHANGED stockVars
  PROVE  StockInv'
<1>1. UNCHANGED <<sheets, adjustments, agreed, transfers>>
  BY DEF stockVars
<1>2. onHand' \in [Warehouse -> Int]
  <2>1. CASE \E n \in Note : ShipNote(n)
    <3> PICK n \in Note : ShipNote(n)
      BY <2>1
    <3>1. /\ notes[n].status = "DRAFT"
          /\ onHand' = [onHand EXCEPT ![notes[n].from] = @ - notes[n].qty]
      BY DEF ShipNote, MoveNote
    <3>2. notes[n] \in NoteRow
      BY <3>1 DEF Inv, TablesInv, NoDoc
    <3>3. notes[n].qty \in Int /\ notes[n].from \in Warehouse
      BY <3>2, SalesAssumption DEF NoteRow, Qty
    <3>. QED  BY <3>1, <3>3 DEF StockInv, StockTables
  <2>2. CASE QuotationNext
    BY <2>2 DEF QuotationNext, saleVars, StockInv, StockTables
  <2>3. CASE ApprovalNext
    <3>1. onHand' = onHand
      BY <2>3 DEF ApprovalNext, AskDirectly, Settle
    <3>. QED  BY <3>1 DEF StockInv, StockTables
  <2>4. CASE OrderNext
    <3>1. onHand' = onHand
      BY <2>4 DEF OrderNext, CreateOrder, UpdateOrder, ConvertQuotation, ConfirmOrder,
                  ReopenOrder, CancelOrder, BeginSubmit, Submit, saleVars
    <3>. QED  BY <3>1 DEF StockInv, StockTables
  <2>5. CASE \E n \in Note :
               \/ \E o \in Order, qty \in Qty, from \in Warehouse : CreateNote(n, o, qty, from)
               \/ CancelNote(n)
    <3>1. onHand' = onHand
      BY <2>5 DEF CreateNote, CancelNote
    <3>. QED  BY <3>1 DEF StockInv, StockTables
  <2>6. CASE HandNext
    <3>1. onHand' = onHand
      BY <2>6 DEF HandNext, ReserveByHand, ReleaseByHand
    <3>. QED  BY <3>1 DEF StockInv, StockTables
  <2>. QED  BY <2>1, <2>2, <2>3, <2>4, <2>5, <2>6 DEF Next, NoteNext
<1>3. StockTables'
  BY <1>1, <1>2 DEF StockInv, StockTables
<1>. QED  BY <1>1, <1>3, NoSheet

\* A movement adds a whole number to one warehouse.
LEMMA MovedIsStock ==
  ASSUME StockInv, NEW w \in Warehouse, NEW qty \in Int
  PROVE  Moved(w, qty) \in [Warehouse -> Int]
  BY DEF Moved, StockInv, StockTables

\* A movement's type gives its quantity a sign.
LEMMA SignedIsAnInteger ==
  ASSUME NEW type, NEW qty \in Qty
  PROVE  Signed(type, qty) \in Int
  BY SalesAssumption DEF Signed, Qty

\* Movements by hand and transfers leave sheets alone.
LEMMA MovementSteps ==
  ASSUME StockInv, MovementNext \/ TransferNext
  PROVE  StockInv'
<1>1. UNCHANGED <<sheets, adjustments, agreed>>
  BY DEF MovementNext, MoveByHand, TransferNext, CreateTransfer, ShipTransfer,
         ReceiveTransfer, CancelTransfer, TransferRest
<1>2. CASE MovementNext
  <2>1. PICK w \in Warehouse, qty \in Qty, type \in {"RECEIPT", "ISSUE"} :
          MoveByHand(w, Signed(type, qty))
    BY <1>2 DEF MovementNext
  <2>2. onHand' = Moved(w, Signed(type, qty)) /\ transfers' = transfers
    BY <2>1 DEF MoveByHand
  <2>3. onHand' \in [Warehouse -> Int]
    BY <2>2, MovedIsStock, SignedIsAnInteger
  <2>4. StockTables'
    BY <1>1, <2>2, <2>3 DEF StockInv, StockTables
  <2>. QED  BY <1>1, <2>4, NoSheet
<1>3. CASE TransferNext
  <2>1. PICK t \in Transfer :
          \/ \E from, to \in Warehouse, qty \in Qty : CreateTransfer(t, from, to, qty)
          \/ ShipTransfer(t) \/ ReceiveTransfer(t) \/ CancelTransfer(t)
    BY <1>3 DEF TransferNext
  <2>2. ASSUME NEW to \in {"IN_TRANSIT", "RECEIVED", "CANCELLED"}, MoveTransfer(t, to)
        PROVE  /\ transfers[t] \in TransferRow
               /\ transfers' \in [Transfer -> TransferRow \cup {NoDoc}]
    <3>1. /\ transfers[t].status # "NONE"
          /\ transfers' = [transfers EXCEPT ![t] = [transfers[t] EXCEPT !.status = to]]
      BY <2>2 DEF MoveTransfer, SaveTransfer, TransferMoves
    <3>2. transfers[t] \in TransferRow
      BY <3>1 DEF StockInv, StockTables, NoDoc
    <3>3. [transfers[t] EXCEPT !.status = to] \in TransferRow
      BY <3>2 DEF TransferRow
    <3>. QED  BY <3>1, <3>2, <3>3 DEF StockInv, StockTables
  <2>3. CASE \E from, to \in Warehouse, qty \in Qty : CreateTransfer(t, from, to, qty)
    <3> PICK from \in Warehouse, to \in Warehouse, qty \in Qty : CreateTransfer(t, from, to, qty)
      BY <2>3
    <3>1. /\ transfers' = [transfers EXCEPT ![t] = NewTransfer(from, to, qty)]
          /\ onHand' = onHand
      BY DEF CreateTransfer, InsertTransfer
    <3>2. transfers' \in [Transfer -> TransferRow \cup {NoDoc}]
      BY <3>1 DEF NewTransfer, TransferRow, StockInv, StockTables
    <3>3. StockTables'
      BY <1>1, <3>1, <3>2 DEF StockInv, StockTables
    <3>. QED  BY <1>1, <3>3, NoSheet
  <2>4. CASE ShipTransfer(t) \/ ReceiveTransfer(t) \/ CancelTransfer(t)
    <3>1. PICK to \in {"IN_TRANSIT", "RECEIVED", "CANCELLED"} : MoveTransfer(t, to)
      BY <2>4 DEF ShipTransfer, ReceiveTransfer, CancelTransfer
    <3>2. /\ transfers[t].qty \in Qty
          /\ transfers[t].from \in Warehouse /\ transfers[t].to \in Warehouse
      BY <2>2, <3>1 DEF TransferRow
    <3>3. \/ onHand' = onHand
          \/ \E w \in {transfers[t].from, transfers[t].to},
              type \in {"TRANSFER_OUT", "TRANSFER_IN"} :
               onHand' = Moved(w, Signed(type, transfers[t].qty))
      BY <2>4 DEF ShipTransfer, ReceiveTransfer, CancelTransfer
    <3>4. onHand' \in [Warehouse -> Int]
      <4>1. CASE onHand' = onHand
        BY <4>1 DEF StockInv, StockTables
      <4>2. ASSUME NEW w \in Warehouse, NEW type,
                   onHand' = Moved(w, Signed(type, transfers[t].qty))
            PROVE  onHand' \in [Warehouse -> Int]
        <5>1. Signed(type, transfers[t].qty) \in Int
          BY <3>2, SignedIsAnInteger
        <5>. QED  BY <4>2, <5>1, MovedIsStock
      <4>. QED  BY <3>2, <3>3, <4>1, <4>2
    <3>5. StockTables'
      BY <1>1, <2>2, <3>1, <3>4 DEF StockInv, StockTables
    <3>. QED  BY <1>1, <3>5, NoSheet
  <2>. QED  BY <2>1, <2>3, <2>4
<1>. QED  BY <1>2, <1>3

\* What a sheet posts is a whole number, and the request it goes on is kept.
LEMMA PostsStock ==
  ASSUME StockInv, NEW s \in Sheet, sheets[s].status # "NONE", PostAdjustment(s)
  PROVE  /\ onHand' \in [Warehouse -> Int]
         /\ agreed' = [r \in Sheet |-> IF r = s THEN adjustments'[s] ELSE agreed[r]]
<1>1. sheets[s].at \in Warehouse
  BY SheetRows DEF StockInv, SheetShape
<1>2. Variance(s) \in Int
  BY VarianceIsAnInteger DEF StockInv
<1>3. onHand' \in [Warehouse -> Int]
  BY <1>1, <1>2, MovedIsStock DEF PostAdjustment
<1>4. agreed' = [r \in Sheet |-> IF r = s THEN adjustments'[s] ELSE agreed[r]]
  BY DEF PostAdjustment, StockInv, StockTables
<1>. QED  BY <1>3, <1>4

\* A sheet is made, counted, recounted or dropped.
LEMMA SheetWorkSteps ==
  ASSUME StockInv, NEW s \in Sheet,
         \/ \E w \in Warehouse : FreezeSheet(s, w)
         \/ CreateSheet(s) \/ StartCount(s) \/ RecordCounts(s) \/ Recount(s) \/ CancelCount(s)
  PROVE  StockInv'
<1>0. /\ UNCHANGED <<onHand, transfers, adjustments, agreed>>
      /\ onHand \in [Warehouse -> Int]
  BY DEF FreezeSheet, CreateSheet, StartCount, RecordCounts, Recount, CancelCount, CountRest,
         StockInv, StockTables
<1>1. CASE \E w \in Warehouse : FreezeSheet(s, w)
  <2>1. PICK w \in Warehouse : SaveSheet(s, NewSheet(w))
    BY <1>1 DEF FreezeSheet, SaveSheet
  <2>2. NewSheet(w) \in SheetShape /\ NewSheet(w).status = "FROZEN"
    BY <1>0 DEF NewSheet, SheetShape, Uncounted
  <2>. QED  BY <1>0, <2>1, <2>2, SheetAtWork
<1>2. CASE CreateSheet(s)
  <2> DEFINE row == [sheets[s] EXCEPT !.status = "DRAFT"]
  <2>1. sheets[s].status = "FROZEN" /\ SaveSheet(s, row)
    BY <1>2 DEF CreateSheet, InsertSheet, SaveSheet, StockInv, StockTables
  <2>2. row \in SheetShape /\ row.status = "DRAFT"
    BY <2>1, SheetRows DEF StockInv, SheetShape
  <2>. QED  BY <1>0, <2>1, <2>2, SheetAtWork
<1>3. CASE StartCount(s) \/ Recount(s) \/ CancelCount(s)
  <2>1. PICK to \in {"COUNTING", "CANCELLED"} : MoveSheet(s, to)
    BY <1>3 DEF StartCount, Recount, CancelCount
  <2> DEFINE row == [sheets[s] EXCEPT !.status = to]
  <2>2. sheets[s].status # "NONE" /\ SaveSheet(s, row)
    BY <2>1 DEF MoveSheet, SheetMoves
  <2>3. row \in SheetShape /\ row.status = to
    BY <2>2, SheetRows DEF StockInv, SheetShape
  <2>. QED  BY <1>0, <2>2, <2>3, SheetAtWork
<1>4. CASE RecordCounts(s)
  <2>1. /\ sheets[s].status = "COUNTING"
        /\ \E n \in Nat : SaveSheet(s, [sheets[s] EXCEPT !.counted = n])
    BY <1>4 DEF RecordCounts, Counts
  <2>2. PICK n \in Nat : SaveSheet(s, [sheets[s] EXCEPT !.counted = n])
    BY <2>1
  <2> DEFINE row == [sheets[s] EXCEPT !.counted = n]
  <2>3. row \in SheetShape /\ row.status = "COUNTING"
    BY <2>1, SheetRows DEF StockInv, SheetShape
  <2>. QED  BY <1>0, <2>2, <2>3, SheetAtWork
<1>. QED  BY <1>1, <1>2, <1>3, <1>4

\* A count that is handed in: nothing differs, or an approval is asked for.
LEMMA SubmitSteps ==
  ASSUME StockInv, NEW s \in Sheet, NEW outcome \in {"NONE", "PENDING", "APPROVED"},
         SubmitCount(s, outcome)
  PROVE  StockInv'
<1>0. sheets[s].status = "COUNTING" /\ transfers' = transfers
  BY DEF SubmitCount, CanSubmitCount, CountRest
<1>1. CASE Variance(s) = 0
  <2>1. /\ SaveSheet(s, [sheets[s] EXCEPT !.status = "POSTED"])
        /\ UNCHANGED <<adjustments, onHand, agreed>>
    BY <1>1 DEF SubmitCount, PostedSheet
  <2>2. /\ sheets' \in [Sheet -> SheetShape \cup {NoDoc}] /\ sheets'[s].status = "POSTED"
        /\ \A r \in Sheet \ {s} : sheets'[r] = sheets[r]
        /\ Variance(s)' = 0
    BY <1>0, <1>1, <2>1, SaveStatus
  <2>3. StockTables'
    BY <1>0, <2>1, <2>2 DEF StockInv, StockTables
  <2>4. SheetSafe(s)'
    BY <2>2 DEF SheetSafe
  <2>5. \A r \in Sheet \ {s} : SheetKept(r)
    BY <2>1, <2>2 DEF SheetKept
  <2>. QED  BY <2>3, <2>4, <2>5, OneSheet
<1>2. CASE Variance(s) # 0
  <2> DEFINE request == [status |-> outcome, amount |-> VarianceValue(s), direct |-> FALSE]
  <2> DEFINE to == IF outcome = "APPROVED" THEN "POSTED" ELSE "REVIEW"
  <2>1. /\ outcome # "NONE"
        /\ adjustments' = [adjustments EXCEPT ![s] = request]
        /\ SaveSheet(s, [sheets[s] EXCEPT !.status = to])
        /\ IF outcome = "APPROVED" THEN PostAdjustment(s) ELSE UNCHANGED <<onHand, agreed>>
    BY <1>2 DEF SubmitCount, AskAdjustment, PostsAtOnce, PostedSheet, UnderReview
  <2>2. /\ sheets' \in [Sheet -> SheetShape \cup {NoDoc}] /\ sheets'[s].status = to
        /\ \A r \in Sheet \ {s} : sheets'[r] = sheets[r]
        /\ VarianceValue(s)' = VarianceValue(s) /\ VarianceValue(s) \in Int
    BY <1>0, <2>1, SaveStatus
  <2>3. /\ onHand' \in [Warehouse -> Int]
        /\ agreed' = [r \in Sheet |-> IF r = s /\ outcome = "APPROVED" THEN adjustments'[s]
                                      ELSE agreed[r]]
    <3>1. CASE outcome = "APPROVED"
      BY <1>0, <2>1, <3>1, PostsStock
    <3>2. CASE outcome # "APPROVED"
      BY <2>1, <3>2 DEF StockInv, StockTables
    <3>. QED  BY <3>1, <3>2
  <2>4. adjustments'[s] = request
    BY <2>1 DEF StockInv, StockTables
  <2>5. StockTables'
    <3>1. request \in [status : {"NONE", "PENDING", "APPROVED", "REJECTED", "CANCELLED"},
                       amount : Int, direct : BOOLEAN]
      BY <2>2
    <3> HIDE DEF request
    <3>2. agreed' = [r \in Sheet |-> agreed'[r]]
      BY <2>3
    <3>. QED  BY <1>0, <2>1, <2>2, <2>3, <3>1, <3>2 DEF StockInv, StockTables
  <2>6. SheetSafe(s)'
    BY <2>1, <2>2, <2>3, <2>4 DEF SheetSafe
  <2>7. \A r \in Sheet \ {s} : SheetKept(r)
    BY <2>1, <2>2, <2>3 DEF SheetKept, StockInv, StockTables
  <2>. QED  BY <2>5, <2>6, <2>7, OneSheet
<1>. QED  BY <1>1, <1>2

\* A review that ends goes on the request of the sheet as it stands.
LEMMA PostSteps ==
  ASSUME StockInv, NEW s \in Sheet, PostCount(s)
  PROVE  StockInv'
<1>0. transfers' = transfers /\ adjustments' = adjustments
  BY DEF PostCount, CountRest
<1>1. CASE /\ adjustments[s].status \in {"APPROVED", "NONE"}
           /\ MoveSheet(s, "POSTED") /\ PostAdjustment(s)
  <2>1. /\ sheets[s].status = "REVIEW"
        /\ SaveSheet(s, [sheets[s] EXCEPT !.status = "POSTED"])
    BY <1>1 DEF MoveSheet, SheetMoves
  <2>2. /\ sheets' \in [Sheet -> SheetShape \cup {NoDoc}] /\ sheets'[s].status = "POSTED"
        /\ \A r \in Sheet \ {s} : sheets'[r] = sheets[r]
        /\ VarianceValue(s)' = VarianceValue(s)
    BY <2>1, SaveStatus
  <2>3. /\ onHand' \in [Warehouse -> Int]
        /\ agreed' = [r \in Sheet |-> IF r = s THEN adjustments'[s] ELSE agreed[r]]
    BY <1>1, <2>1, PostsStock
  <2>4. /\ adjustments[s].status = "APPROVED"
        /\ adjustments[s].direct \/ adjustments[s].amount = VarianceValue(s)
    BY <1>1, <2>1 DEF StockInv, SheetSafe
  <2>5. StockTables'
    <3>1. agreed' = [r \in Sheet |-> agreed'[r]]
      BY <2>3
    <3>. QED  BY <1>0, <2>2, <2>3, <3>1 DEF StockInv, StockTables
  <2>6. SheetSafe(s)'
    BY <1>0, <2>2, <2>3, <2>4 DEF SheetSafe
  <2>7. \A r \in Sheet \ {s} : SheetKept(r)
    BY <1>0, <2>2, <2>3 DEF SheetKept
  <2>. QED  BY <2>5, <2>6, <2>7, OneSheet
<1>2. CASE MoveSheet(s, "COUNTING") /\ UNCHANGED <<onHand, agreed>>
  <2> DEFINE row == [sheets[s] EXCEPT !.status = "COUNTING"]
  <2>1. sheets[s].status # "NONE" /\ SaveSheet(s, row)
    BY <1>2 DEF MoveSheet, SheetMoves
  <2>2. row \in SheetShape /\ row.status = "COUNTING"
    BY <2>1, SheetRows DEF StockInv, SheetShape
  <2>. QED  BY <1>0, <1>2, <2>1, <2>2, SheetAtWork
<1>. QED  BY <1>1, <1>2 DEF PostCount

\* Requests: an answer keeps what was asked for, a direct request says so.
LEMMA AdjustmentSteps ==
  ASSUME StockInv, AdjustmentNext
  PROVE  StockInv'
<1>0. UNCHANGED <<onHand, transfers, sheets, agreed>>
  BY DEF AdjustmentNext, AnswerAdjustment, AskAdjustmentDirectly, CountRest
<1>1. PICK s \in Sheet, status \in {"PENDING", "APPROVED", "REJECTED", "CANCELLED"} :
        \/ /\ adjustments[s].status # "NONE"
           /\ adjustments' = [adjustments EXCEPT ![s].status = status]
        \/ adjustments' = [adjustments EXCEPT ![s] =
             [status |-> status, amount |-> 0, direct |-> TRUE]]
  BY DEF AdjustmentNext, AnswerAdjustment, AskAdjustmentDirectly, AskAdjustment
<1>2. StockTables'
  <2> DEFINE Requests == [status : {"NONE", "PENDING", "APPROVED", "REJECTED", "CANCELLED"},
                          amount : Int, direct : BOOLEAN]
  <2>1. StockTables /\ adjustments \in [Sheet -> Requests]
    BY DEF StockInv, StockTables
  <2>2. [adjustments[s] EXCEPT !.status = status] \in Requests
    BY <2>1
  <2>3. [status |-> status, amount |-> 0, direct |-> TRUE] \in Requests
    OBVIOUS
  <2> HIDE DEF Requests
  <2>4. adjustments' \in [Sheet -> Requests]
    BY <1>1, <2>1, <2>2, <2>3
  <2>. QED  BY <1>0, <2>1, <2>4 DEF StockTables, Requests
<1>3. VarianceValue(s)' = VarianceValue(s) /\ Variance(s)' = Variance(s)
  BY <1>0 DEF VarianceValue, Variance
<1>4. /\ adjustments'[s].status # "NONE"
      /\ \/ adjustments'[s].direct
         \/ /\ adjustments'[s].direct = adjustments[s].direct
            /\ adjustments'[s].amount = adjustments[s].amount
  BY <1>1 DEF StockInv, StockTables
<1>5. SheetSafe(s)'
  BY <1>0, <1>3, <1>4 DEF SheetSafe, StockInv
<1>6. \A r \in Sheet \ {s} : SheetKept(r)
  BY <1>0, <1>1 DEF SheetKept, StockInv, StockTables
<1>. QED  BY <1>2, <1>5, <1>6, OneSheet

\* Counts and transfers write neither quotations nor orders.
LEMMA StockKeepsSales ==
  ASSUME Inv, StockNext
  PROVE  Inv'
<1>1. UNCHANGED <<quotations, call, orders, notes>>
  BY DEF StockNext, MovementNext, MoveByHand, TransferNext, CreateTransfer, ShipTransfer,
         ReceiveTransfer, CancelTransfer, TransferRest, CountNext, FreezeSheet, CreateSheet,
         StartCount, RecordCounts, SubmitCount, PostCount, Recount, CancelCount,
         AdjustmentNext, AnswerAdjustment, AskAdjustmentDirectly, CountRest
<1>. QED  BY <1>1, OthersKeep, CallsKeep DEF Inv, TablesInv

\* At first there are no sheets.
LEMMA StocktakeInit ==
  ASSUME Init, StockInit
  PROVE  Inv /\ StockInv
<1>1. \A s \in Sheet : sheets[s] = NoDoc
  BY DEF StockInit
<1>2. \A s \in Sheet : SheetSafe(s)
  BY <1>1 DEF SheetSafe, NoDoc
<1>3. StockTables
  BY SalesAssumption DEF Init, StockInit, StockTables, NoAdjustment
<1>. QED  BY <1>2, <1>3, InitInv DEF StockInv

\* Every step of sales and of the warehouse keeps both invariants.
LEMMA StocktakeNext ==
  ASSUME Inv, StockInv, [(Next /\ UNCHANGED stockVars) \/ StockNext]_allVars
  PROVE  Inv' /\ StockInv'
<1>1. CASE Next /\ UNCHANGED stockVars
  BY <1>1, NextInv, SalesSteps
<1>2. CASE StockNext
  BY <1>2, StockKeepsSales, MovementSteps, SheetWorkSteps, SubmitSteps, PostSteps,
     AdjustmentSteps DEF StockNext, CountNext
<1>3. CASE UNCHANGED allVars
  <2>1. UNCHANGED vars /\ UNCHANGED <<onHand, sheets, adjustments, agreed, transfers>>
    BY <1>3 DEF allVars, stockVars, vars, saleVars
  <2>2. StockTables'
    BY <2>1 DEF StockInv, StockTables
  <2>. QED  BY <2>1, <2>2, NextInv, NoSheet
<1>. QED  BY <1>1, <1>2, <1>3

\* A variance reaches the stock on an approval of just that variance, or on one
\* asked for through the approval API, for any warehouses' stock, sheets,
\* recounts, answers and documents beside them (physical-count.use-cases.ts).
THEOREM AdjustmentsSafe == StocktakeSpec => []AdjustedAsApproved
<1>1. Inv /\ StockInv => AdjustedAsApproved
  BY DEF StockInv, SheetSafe, AdjustedAsApproved
<1>. QED  BY <1>1, StocktakeInit, StocktakeNext, PTL DEF StocktakeSpec

\* Beside counts and transfers, too, a quotation becomes one order at most and
\* what was sent is never edited (quotation.use-cases.ts).
THEOREM QuotationsSafeBesideStock == StocktakeSpec => []QuotationsHoldTogether
<1>. QED  BY InvHolds, StocktakeInit, StocktakeNext, PTL DEF StocktakeSpec

-----------------------------------------------------------------------------
(***************************************************************************)
(* Deliveries, credit and stock                                            *)
(***************************************************************************)
\* The sums of the properties, over whole tables: a row that is not counted
\* weighs 0.
ShippedFor(o) ==
  [n \in Note |-> IF notes[n].status = "SHIPPED" /\ notes[n].order = o
                  THEN notes[n].qty ELSE 0]
ShippedFrom(w) ==
  [n \in Note |-> IF notes[n].status = "SHIPPED" /\ notes[n].from = w
                  THEN notes[n].qty ELSE 0]
LeftFrom(w) ==
  [t \in Transfer |->
     IF transfers[t].status \in {"IN_TRANSIT", "RECEIVED"} /\ transfers[t].from = w
     THEN transfers[t].qty ELSE 0]
CameTo(w) ==
  [t \in Transfer |-> IF transfers[t].status = "RECEIVED" /\ transfers[t].to = w
                      THEN transfers[t].qty ELSE 0]
PostedAt(w) ==
  [s \in Sheet |-> IF sheets[s].status = "POSTED" /\ sheets[s].at = w
                   THEN Variance(s) ELSE 0]
Unwatched ==
  [o \in Order |-> IF orders[o].status \in ExposureStatuses /\ orders[o].credit = "OK"
                   THEN orders[o].qty ELSE 0]

Shipped(o) == SumFunction(ShippedFor(o))
AtFirst(w) == IF w = "default" THEN Stock ELSE Elsewhere

\* What an order still owes is held unless that was released by hand, what was
\* delivered are its notes, and the request it waits for was not approved by nobody.
Live == {"CONFIRMED", "PARTIALLY_DELIVERED"}
HoldSafe(o) ==
  /\ orders[o].status \in Live =>
       o \in freed \/ held[o] >= orders[o].qty - orders[o].delivered
  /\ held[o] > 0 => o \in given \/ orders[o].status \in Live \cup {"CANCELLED"}

DeliverySafe(o) ==
  /\ orders[o] = NoDoc => Shipped(o) = 0
  /\ orders[o] # NoDoc =>
       /\ orders[o].delivered = Shipped(o)
       /\ orders[o].delivered <= orders[o].qty
       /\ orders[o].delivered > 0 <=>
            orders[o].status \in {"PARTIALLY_DELIVERED", "DELIVERED"}
       /\ orders[o].delivered = orders[o].qty <=> orders[o].status = "DELIVERED"

BackedSafe(o) ==
  /\ orders[o].status = "PENDING_APPROVAL" => requests[o].direct \/ ~ requests[o].atOnce
  /\ orders[o].status \in Live \cup {"DELIVERED"} /\ orders[o].credit = "EXCEEDED" =>
       backing[o].status = "APPROVED" /\ (backing[o].direct \/ ~ backing[o].atOnce)

OrderSafe(o) == HoldSafe(o) /\ DeliverySafe(o) /\ BackedSafe(o)

HeldIsThere == HeldByAll <= onHand["default"]
WithinLimit == raced \/ SumFunction(Unwatched) <= Limit
StockSafe(w) ==
  onHand[w] = AtFirst(w) + manual[w]
              + SumFunction(CameTo(w)) + SumFunction(PostedAt(w))
              - SumFunction(LeftFrom(w)) - SumFunction(ShippedFrom(w))

SaleInv ==
  /\ TypeOK /\ HeldIsThere /\ WithinLimit
  /\ \A o \in Order : OrderSafe(o)
  /\ \A w \in Warehouse : StockSafe(w)

(***************************************************************************)
(* Sums and rows                                                           *)
(***************************************************************************)
\* A status other than NONE is that of a row.
RowFacts ==
  /\ Qty \subseteq Nat \ {0} /\ NoDoc.status = "NONE"
  /\ \A o \in Order :
       /\ orders[o].status # "NONE" \/ orders[o] # NoDoc => orders[o] \in OrderRow
       /\ orders[o] \in OrderRow => orders[o] # NoDoc
  /\ \A n \in Note : notes[n].status # "NONE" => notes[n] \in NoteRow
  /\ \A s \in Sheet : sheets[s].status # "NONE" => sheets[s] \in SheetRow
  /\ \A t \in Transfer : transfers[t].status # "NONE" => transfers[t] \in TransferRow

LEMMA Rows == TypeOK => RowFacts
  BY SalesAssumption
     DEF TypeOK, SalesTypeOK, RowFacts, OrderTable, OrderRow, NoteTable, NoteRow,
         SheetTable, SheetRow, TransferTable, TransferRow, NoDoc, Qty

\* The documents, with what they weigh, are finitely many whole numbers.
WeightTypes ==
  /\ IsFiniteSet(Order) /\ IsFiniteSet(Note) /\ IsFiniteSet(Sheet) /\ IsFiniteSet(Transfer)
  /\ \A o \in Order : ShippedFor(o) \in [Note -> Int]
  /\ \A w \in Warehouse :
       /\ ShippedFrom(w) \in [Note -> Int]
       /\ LeftFrom(w) \in [Transfer -> Int] /\ CameTo(w) \in [Transfer -> Int]
       /\ PostedAt(w) \in [Sheet -> Int]
  /\ Unwatched \in [Order -> Nat] /\ Unwatched \in [Order -> Int]
  /\ held \in [Order -> Nat] /\ held \in [Order -> Int]

LEMMA Weights == TypeOK => WeightTypes
<1> SUFFICES ASSUME TypeOK PROVE WeightTypes
  OBVIOUS
<1>1. RowFacts
  BY Rows
<1>2. ASSUME NEW n \in Note, notes[n].status = "SHIPPED" PROVE notes[n].qty \in Int
  <2>1. notes[n] \in NoteRow /\ Qty \subseteq Int
    BY <1>1, <1>2 DEF RowFacts
  <2>. QED  BY <2>1 DEF NoteRow
<1>3. ASSUME NEW t \in Transfer, transfers[t].status \in {"IN_TRANSIT", "RECEIVED"}
      PROVE  transfers[t].qty \in Int
  <2>1. transfers[t] \in TransferRow /\ Qty \subseteq Int
    BY <1>1, <1>3 DEF RowFacts
  <2>. QED  BY <2>1 DEF TransferRow
<1>4. ASSUME NEW s \in Sheet, sheets[s].status = "POSTED" PROVE Variance(s) \in Int
  <2>1. sheets[s] \in SheetRow
    BY <1>1, <1>4 DEF RowFacts
  <2>. QED  BY <2>1 DEF SheetRow, Variance, Uncounted
<1>5. ASSUME NEW o \in Order, orders[o].status \in ExposureStatuses
      PROVE  orders[o].qty \in Nat
  <2>1. orders[o] \in OrderRow /\ Qty \subseteq Nat
    BY <1>1, <1>5 DEF RowFacts, ExposureStatuses
  <2>. QED  BY <2>1 DEF OrderRow
<1>6. Unwatched \in [Order -> Nat] /\ Unwatched \in [Order -> Int]
  BY <1>5 DEF Unwatched
<1>7. held \in [Order -> Nat] /\ held \in [Order -> Int]
  BY DEF TypeOK, SalesTypeOK
<1>8. \A o \in Order : ShippedFor(o) \in [Note -> Int]
  BY <1>2 DEF ShippedFor
<1>9. ASSUME NEW w \in Warehouse
      PROVE  /\ ShippedFrom(w) \in [Note -> Int]
             /\ LeftFrom(w) \in [Transfer -> Int] /\ CameTo(w) \in [Transfer -> Int]
             /\ PostedAt(w) \in [Sheet -> Int]
  BY <1>2, <1>3, <1>4 DEF ShippedFrom, LeftFrom, CameTo, PostedAt
<1>. QED  BY <1>6, <1>7, <1>8, <1>9, SalesAssumption, StocktakeAssumption DEF WeightTypes

\* The same after a step.
LEMMA WeightsAfter == TypeOK' => WeightTypes'
  BY Weights, PTL

\* What is held is the sum over the orders; one order changes it by what it holds.
LEMMA HeldChanges ==
  ASSUME TypeOK, TypeOK', NEW o \in Order, \A p \in Order \ {o} : held'[p] = held[p]
  PROVE  /\ HeldByAll \in Int /\ HeldByAll' \in Int
         /\ HeldByAll' = HeldByAll - held[o] + held'[o]
<1>1. IsFiniteSet(Order) /\ held \in [Order -> Int] /\ held' \in [Order -> Int]
  BY Weights, WeightsAfter DEF WeightTypes
<1>. QED  BY <1>1, OneWeight DEF HeldByAll

\* The credit nobody looked at, likewise.
LEMMA UnwatchedChanges ==
  ASSUME TypeOK, TypeOK', NEW o \in Order, \A p \in Order \ {o} : orders'[p] = orders[p]
  PROVE  /\ SumFunction(Unwatched) \in Int /\ SumFunction(Unwatched)' \in Int
         /\ SumFunction(Unwatched)' = SumFunction(Unwatched) - Unwatched[o] + Unwatched'[o]
<1>1. IsFiniteSet(Order) /\ Unwatched \in [Order -> Int] /\ Unwatched' \in [Order -> Int]
  BY Weights, WeightsAfter DEF WeightTypes
<1>2. \A p \in Order \ {o} : Unwatched'[p] = Unwatched[p]
  BY DEF Unwatched
<1>. QED  BY <1>1, <1>2, OneWeight

\* The sums over notes stay while no note is shipped.
LEMMA NotesStay ==
  ASSUME TypeOK, TypeOK',
         \A n \in Note : \/ notes'[n] = notes[n]
                         \/ notes[n].status # "SHIPPED" /\ notes'[n].status # "SHIPPED"
  PROVE  /\ \A o \in Order : Shipped(o)' = Shipped(o)
         /\ \A w \in Warehouse : SumFunction(ShippedFrom(w))' = SumFunction(ShippedFrom(w))
<1>1. ASSUME NEW o PROVE ShippedFor(o)' = ShippedFor(o)
  BY DEF ShippedFor
<1>2. ASSUME NEW w PROVE ShippedFrom(w)' = ShippedFrom(w)
  BY DEF ShippedFrom
<1>. QED  BY <1>1, <1>2 DEF Shipped

(***************************************************************************)
(* Types                                                                   *)
(***************************************************************************)
CallJob == [op : {"revise", "convert"}, of : Quotation] \cup {NoCall}
           \cup [op : {"submit"}, of : Order, open : Nat]

\* Open orders add up to a natural number, whichever are left out.
LEMMA ExposureIsNat ==
  ASSUME TypeOK, NEW os \in SUBSET Order
  PROVE  OpenExposure(os) \in Nat
<1> DEFINE S == {o \in os : orders[o].status \in ExposureStatuses}
           f == [o \in S |-> orders[o].qty]
<1>1. IsFiniteSet(S)
  BY SalesAssumption, FS_Subset
<1>2. \A o \in S : orders[o].qty \in Nat
  <2> SUFFICES ASSUME NEW o \in S PROVE orders[o].qty \in Nat
    OBVIOUS
  <2>1. orders[o] \in OrderRow /\ Qty \subseteq Nat
    BY Rows DEF RowFacts, ExposureStatuses
  <2>. QED  BY <2>1 DEF OrderRow
<1>3. f \in [S -> Nat]
  BY <1>2
<1>4. SumFunction(f) \in Nat
  <2> HIDE DEF f, S
  <2>. QED  BY <1>1, <1>3, SumBounds
<1>. QED  BY <1>4 DEF OpenExposure

\* A call begins with a job of its kind, or ends.
LEMMA CallTypes ==
  ASSUME TypeOK, Next \/ StockNext
  PROVE  call' \in [Caller -> CallJob]
<1>1. call \in [Caller -> CallJob] /\ NoCall \in CallJob
  BY DEF TypeOK, SalesTypeOK, CallJob
<1>2. \/ call' = call
      \/ \E c \in Caller : Finish(c)
      \/ \E c \in Caller, q \in Quotation : BeginRevise(c, q) \/ BeginConvert(c, q)
      \/ \E c \in Caller, o \in Order : BeginSubmit(c, o)
  <2>1. CASE QuotationNext
    BY <2>1 DEF QuotationNext, QuoteNext, CreateQuotation, UpdateQuotation, ValidityEnds,
         SendQuotation, AcceptQuotation, RejectQuotation, CancelQuotation, ExpireQuotation,
         MoveQuotation, Revise, GiveUp
  <2>2. CASE ApprovalNext
    BY <2>2 DEF ApprovalNext, AskDirectly, Settle
  <2>3. CASE OrderNext
    BY <2>3 DEF OrderNext, CreateOrder, UpdateOrder, ConvertQuotation, ConfirmOrder,
                ReopenOrder, CancelOrder, Submit
  <2>4. CASE NoteNext
    BY <2>4 DEF NoteNext, CreateNote, ShipNote, CancelNote
  <2>5. CASE StockNext
    BY <2>5 DEF StockNext, MovementNext, MoveByHand, TransferNext, CreateTransfer,
         ShipTransfer, ReceiveTransfer, CancelTransfer, TransferRest, CountNext, FreezeSheet,
         CreateSheet, StartCount, RecordCounts, SubmitCount, PostCount, Recount, CancelCount,
         AdjustmentNext, AnswerAdjustment, AskAdjustmentDirectly, CountRest
  <2>6. CASE HandNext
    BY <2>6 DEF HandNext, ReserveByHand, ReleaseByHand
  <2>. QED  BY <2>1, <2>2, <2>3, <2>4, <2>5, <2>6 DEF Next
<1>3. ASSUME NEW c \in Caller, NEW job \in CallJob, call' = [call EXCEPT ![c] = job]
      PROVE  call' \in [Caller -> CallJob]
  BY <1>1, <1>3
<1>4. ASSUME NEW c \in Caller, Finish(c) PROVE call' \in [Caller -> CallJob]
  BY <1>1, <1>3, <1>4 DEF Finish
<1>5. ASSUME NEW c \in Caller, NEW q \in Quotation, BeginRevise(c, q) \/ BeginConvert(c, q)
      PROVE  call' \in [Caller -> CallJob]
  <2>1. /\ [op |-> "revise", of |-> q] \in CallJob
        /\ [op |-> "convert", of |-> q] \in CallJob
    BY DEF CallJob
  <2>. QED  BY <1>3, <1>5, <2>1 DEF BeginRevise, BeginConvert, Start
<1>6. ASSUME NEW c \in Caller, NEW o \in Order, BeginSubmit(c, o)
      PROVE  call' \in [Caller -> CallJob]
  <2>1. PICK open : open = OpenExposure(Order \ {o})
    OBVIOUS
  <2>2. open \in Nat
    BY <2>1, ExposureIsNat
  <2>3. [op |-> "submit", of |-> o, open |-> open] \in CallJob
    BY <2>2 DEF CallJob
  <2>. QED  BY <1>3, <1>6, <2>1, <2>3 DEF BeginSubmit, Start
<1>. QED  BY <1>1, <1>2, <1>4, <1>5, <1>6

\* A request is asked for or answered; an order is confirmed on what it is now.
LEMMA RequestTypes ==
  ASSUME TypeOK, Next
  PROVE  requests' \in [Order -> Request] /\ backing' \in [Order -> Request]
<1>1. requests \in [Order -> Request] /\ backing \in [Order -> Request]
  BY DEF TypeOK, SalesTypeOK
<1>2. ASSUME NEW o, NEW outcome \in {"APPROVED", "PENDING"}, NEW direct \in BOOLEAN,
             Ask(o, outcome, direct)
      PROVE  requests' \in [Order -> Request]
  BY <1>1, <1>2 DEF Ask, Request
<1>3. ASSUME NEW o \in Order, NEW verdict \in {"APPROVED", "REJECTED", "CANCELLED"},
             Settle(o, verdict)
      PROVE  requests' \in [Order -> Request]
  BY <1>1, <1>3 DEF Settle, Request
<1>4. ASSUME NEW o, NEW confirmed, HoldIf(confirmed, o),
             requests' \in [Order -> Request]
      PROVE  backing' \in [Order -> Request]
  <2>1. CASE o \in Order
    BY <1>1, <1>4, <2>1 DEF HoldIf
  <2>2. CASE o \notin Order
    BY <1>1, <1>4, <2>2 DEF HoldIf
  <2>. QED  BY <2>1, <2>2
<1>5. \/ UNCHANGED <<requests, backing>>
      \/ UNCHANGED backing /\ \E o \in Order :
           \/ \E outcome \in {"APPROVED", "PENDING"}, direct \in BOOLEAN :
               Ask(o, outcome, direct)
           \/ \E verdict \in {"APPROVED", "REJECTED", "CANCELLED"} : Settle(o, verdict)
      \/ \E o : UNCHANGED requests /\ \E to : HoldIf(to = "CONFIRMED", o)
      \/ \E o : \E outcome \in {"APPROVED", "PENDING"} :
           Ask(o, outcome, FALSE) /\ HoldIf(outcome = "APPROVED", o)
  <2>1. CASE QuotationNext
    BY <2>1 DEF QuotationNext, saleVars
  <2>2. CASE ApprovalNext
    BY <2>2 DEF ApprovalNext, AskDirectly, Settle
  <2>3. CASE \E c \in Caller, outcome \in {"APPROVED", "PENDING"} : Submit(c, outcome)
    <3>1. PICK c \in Caller, outcome \in {"APPROVED", "PENDING"} : Submit(c, outcome)
      BY <2>3
    <3>2. Ask(call[c].of, outcome, FALSE) /\ HoldIf(outcome = "APPROVED", call[c].of)
      BY <3>1 DEF Submit
    <3>. QED  BY <3>2
  <2>4. CASE \E o \in Order : ConfirmOrder(o)
    BY <2>4 DEF ConfirmOrder
  <2>5. CASE \/ \E o \in Order, qty \in Qty : CreateOrder(o, qty) \/ UpdateOrder(o, qty)
             \/ \E c \in Caller, o \in Order, qty \in Qty : ConvertQuotation(c, o, qty)
             \/ \E o \in Order : ReopenOrder(o) \/ CancelOrder(o)
             \/ \E c \in Caller, o \in Order : BeginSubmit(c, o)
    BY <2>5 DEF CreateOrder, UpdateOrder, ConvertQuotation, ReopenOrder, CancelOrder,
                BeginSubmit, saleVars
  <2>6. CASE NoteNext
    BY <2>6 DEF NoteNext, CreateNote, ShipNote, CancelNote
  <2>7. CASE HandNext
    BY <2>7 DEF HandNext, ReserveByHand, ReleaseByHand
  <2>. QED  BY <2>1, <2>2, <2>3, <2>4, <2>5, <2>6, <2>7 DEF Next, OrderNext
<1>. QED  BY <1>1, <1>2, <1>3, <1>4, <1>5

\* Sheets are frozen, counted and posted in natural numbers.
LEMMA SheetTypes ==
  ASSUME TypeOK, StockNext
  PROVE  /\ sheets' \in SheetTable /\ adjustments' \in [Sheet -> Adjustment]
         /\ agreed' \in [Sheet -> Adjustment] /\ manual' \in [Warehouse -> Int]
<1> DEFINE Goal == /\ sheets' \in SheetTable /\ adjustments' \in [Sheet -> Adjustment]
                   /\ agreed' \in [Sheet -> Adjustment] /\ manual' \in [Warehouse -> Int]
<1>1. /\ sheets \in SheetTable /\ adjustments \in [Sheet -> Adjustment]
      /\ agreed \in [Sheet -> Adjustment] /\ manual \in [Warehouse -> Int]
      /\ onHand \in [Warehouse -> Nat] /\ Qty \subseteq Int
  BY Rows DEF TypeOK, SalesTypeOK, RowFacts
<1>2. CASE MovementNext
  <2>1. PICK w \in Warehouse, qty \in Int : MoveByHand(w, qty)
    BY <1>2, SignedIsAnInteger DEF MovementNext
  <2>. QED  BY <1>1, <2>1 DEF MoveByHand
<1>3. CASE TransferNext
  BY <1>1, <1>3 DEF TransferNext, CreateTransfer, ShipTransfer, ReceiveTransfer, CancelTransfer,
                    TransferRest
<1>4. ASSUME NEW s \in Sheet, NEW row \in SheetRow, sheets' = [sheets EXCEPT ![s] = row]
      PROVE  sheets' \in SheetTable
  BY <1>1, <1>4 DEF SheetTable
<1>5. ASSUME NEW s \in Sheet, sheets[s].status # "NONE"
      PROVE  /\ sheets[s] \in SheetRow
             /\ \A to \in {"FROZEN", "DRAFT", "COUNTING", "REVIEW", "POSTED", "CANCELLED"} :
                  [sheets[s] EXCEPT !.status = to] \in SheetRow
             /\ \A n \in Nat : [sheets[s] EXCEPT !.counted = n] \in SheetRow
             /\ VarianceValue(s) \in Nat
  <2>1. sheets[s] \in SheetRow
    BY <1>5, Rows DEF RowFacts
  <2>. QED  BY <2>1 DEF SheetRow, VarianceValue, Variance, Uncounted
<1>6. ASSUME NEW s \in Sheet,
             NEW to \in {"FROZEN", "DRAFT", "COUNTING", "REVIEW", "POSTED", "CANCELLED"},
             sheets[s].status # "NONE",
             SaveSheet(s, [sheets[s] EXCEPT !.status = to])
      PROVE  sheets' \in SheetTable
  BY <1>4, <1>5, <1>6 DEF SaveSheet
<1>7. ASSUME NEW s \in Sheet, adjustments' \in [Sheet -> Adjustment],
             \/ UNCHANGED agreed
             \/ agreed' = [agreed EXCEPT ![s] = adjustments'[s]]
      PROVE  agreed' \in [Sheet -> Adjustment]
  BY <1>1, <1>7
<1>8. ASSUME NEW s \in Sheet, NEW outcome \in {"PENDING", "APPROVED"}, NEW amount \in Nat,
             NEW direct \in BOOLEAN, AskAdjustment(s, outcome, amount, direct)
      PROVE  adjustments' \in [Sheet -> Adjustment]
  BY <1>1, <1>8 DEF AskAdjustment, Adjustment
<1>9. CASE AdjustmentNext
  <2>1. PICK s \in Sheet :
          \/ \E verdict \in {"APPROVED", "REJECTED", "CANCELLED"} : AnswerAdjustment(s, verdict)
          \/ \E outcome \in {"PENDING", "APPROVED"} : AskAdjustmentDirectly(s, outcome)
    BY <1>9 DEF AdjustmentNext
  <2>2. UNCHANGED <<sheets, agreed, manual>>
    BY <2>1 DEF AnswerAdjustment, AskAdjustmentDirectly, CountRest
  <2>3. ASSUME NEW verdict \in {"APPROVED", "REJECTED", "CANCELLED"},
               AnswerAdjustment(s, verdict)
        PROVE  adjustments' \in [Sheet -> Adjustment]
    BY <1>1, <2>3 DEF AnswerAdjustment, Adjustment
  <2>4. ASSUME NEW outcome \in {"PENDING", "APPROVED"}, AskAdjustmentDirectly(s, outcome)
        PROVE  adjustments' \in [Sheet -> Adjustment]
    BY <1>8, <2>4 DEF AskAdjustmentDirectly
  <2>. QED  BY <1>1, <2>1, <2>2, <2>3, <2>4
<1>10. CASE CountNext
  <2>1. PICK s \in Sheet :
          \/ \E w \in Warehouse : FreezeSheet(s, w)
          \/ \E outcome \in {"NONE", "PENDING", "APPROVED"} : SubmitCount(s, outcome)
          \/ CreateSheet(s) \/ StartCount(s) \/ RecordCounts(s) \/ PostCount(s)
          \/ Recount(s) \/ CancelCount(s)
    BY <1>10 DEF CountNext
  <2>2. manual' = manual
    BY <2>1 DEF FreezeSheet, SubmitCount, CreateSheet, StartCount, RecordCounts, PostCount,
                Recount, CancelCount, CountRest
  <2>3. ASSUME NEW w \in Warehouse, FreezeSheet(s, w) PROVE Goal
    <3>1. NewSheet(w) \in SheetRow
      BY <1>1 DEF NewSheet, SheetRow
    <3>2. sheets' \in SheetTable
      BY <1>4, <2>3, <3>1 DEF FreezeSheet
    <3>. QED  BY <1>1, <2>2, <2>3, <3>2 DEF FreezeSheet
  <2>4. CASE CreateSheet(s)
    <3>1. /\ sheets[s].status = "FROZEN" /\ SaveSheet(s, [sheets[s] EXCEPT !.status = "DRAFT"])
          /\ UNCHANGED <<adjustments, agreed>>
      BY <1>1, <2>4 DEF CreateSheet, InsertSheet, SaveSheet, SheetTable
    <3>. QED  BY <1>1, <1>6, <2>2, <3>1
  <2>5. CASE StartCount(s) \/ Recount(s) \/ CancelCount(s)
    <3>1. PICK to \in {"COUNTING", "CANCELLED"} :
            MoveSheet(s, to) /\ UNCHANGED <<adjustments, agreed>>
      BY <2>5 DEF StartCount, Recount, CancelCount
    <3>2. sheets[s].status # "NONE" /\ SaveSheet(s, [sheets[s] EXCEPT !.status = to])
      BY <3>1 DEF MoveSheet, SheetMoves
    <3>. QED  BY <1>1, <1>6, <2>2, <3>1, <3>2
  <2>6. CASE RecordCounts(s)
    <3>1. /\ sheets[s].status = "COUNTING"
          /\ \E n \in Nat : SaveSheet(s, [sheets[s] EXCEPT !.counted = n])
          /\ UNCHANGED <<adjustments, agreed>>
      BY <2>6 DEF RecordCounts, Counts
    <3>2. PICK n \in Nat : sheets' = [sheets EXCEPT ![s] = [sheets[s] EXCEPT !.counted = n]]
      BY <3>1 DEF SaveSheet
    <3>3. [sheets[s] EXCEPT !.counted = n] \in SheetRow
      BY <1>5, <3>1
    <3>. QED  BY <1>1, <1>4, <2>2, <3>1, <3>2, <3>3
  <2>7. CASE PostCount(s)
    <3>1. /\ UNCHANGED adjustments
          /\ \E to \in {"POSTED", "COUNTING"} : MoveSheet(s, to)
          /\ UNCHANGED agreed \/ agreed' = [agreed EXCEPT ![s] = adjustments'[s]]
      BY <2>7 DEF PostCount, PostAdjustment
    <3>2. PICK to \in {"POSTED", "COUNTING"} :
            sheets[s].status # "NONE" /\ SaveSheet(s, [sheets[s] EXCEPT !.status = to])
      BY <3>1 DEF MoveSheet, SheetMoves
    <3>. QED  BY <1>1, <1>6, <1>7, <2>2, <3>1, <3>2
  <2>8. ASSUME NEW outcome \in {"NONE", "PENDING", "APPROVED"}, SubmitCount(s, outcome)
        PROVE  Goal
    <3>1. /\ sheets[s].status = "COUNTING"
          /\ \E to \in {"POSTED", "REVIEW"} : SaveSheet(s, [sheets[s] EXCEPT !.status = to])
          /\ \/ UNCHANGED adjustments
             \/ outcome # "NONE" /\ AskAdjustment(s, outcome, VarianceValue(s), FALSE)
          /\ UNCHANGED agreed \/ agreed' = [agreed EXCEPT ![s] = adjustments'[s]]
      BY <2>8 DEF SubmitCount, CanSubmitCount, PostedSheet, UnderReview, PostAdjustment
    <3>2. sheets' \in SheetTable
      BY <1>6, <3>1
    <3>3. PICK amount \in Nat : amount = VarianceValue(s)
      BY <1>5, <3>1
    <3>4. adjustments' \in [Sheet -> Adjustment]
      BY <1>1, <1>8, <3>1, <3>3
    <3>. QED  BY <1>7, <2>2, <3>1, <3>2, <3>4, <1>1
  <2>. QED  BY <2>1, <2>3, <2>4, <2>5, <2>6, <2>7, <2>8
<1>. QED  BY <1>2, <1>3, <1>9, <1>10 DEF StockNext

\* Only the steps by hand write who was helped or robbed by them.
LEMMA HandTypes ==
  ASSUME TypeOK, (Next /\ UNCHANGED stockVars) \/ StockNext
  PROVE  freed' \subseteq Order /\ given' \subseteq Order
<1>1. freed \subseteq Order /\ given \subseteq Order
  BY DEF TypeOK, SalesTypeOK
<1>2. CASE HandNext
  BY <1>1, <1>2 DEF HandNext, ReserveByHand, ReleaseByHand
<1>3. CASE UNCHANGED <<freed, given>>
  BY <1>1, <1>3
<1>4. HandNext \/ UNCHANGED <<freed, given>>
  <2>1. CASE StockNext
    BY <2>1 DEF StockNext, MovementNext, MoveByHand, TransferNext, CreateTransfer,
         ShipTransfer, ReceiveTransfer, CancelTransfer, TransferRest, CountNext, FreezeSheet,
         CreateSheet, StartCount, RecordCounts, SubmitCount, PostCount, Recount, CancelCount,
         AdjustmentNext, AnswerAdjustment, AskAdjustmentDirectly, CountRest
  <2>2. CASE OrderNext
    BY <2>2 DEF OrderNext, CreateOrder, UpdateOrder, ConvertQuotation, ConfirmOrder,
                ReopenOrder, CancelOrder, BeginSubmit, Submit, HoldIf, saleVars
  <2>3. CASE QuotationNext \/ ApprovalNext \/ NoteNext
    BY <2>3 DEF QuotationNext, saleVars, ApprovalNext, AskDirectly, Settle,
                NoteNext, CreateNote, ShipNote, CancelNote
  <2>. QED  BY <2>1, <2>2, <2>3 DEF Next
<1>. QED  BY <1>2, <1>3, <1>4

\* What the steps below do not show themselves.
LEMMA TypesKept ==
  ASSUME TypeOK, Inv', StockInv', (Next /\ UNCHANGED stockVars) \/ StockNext,
         orders' \in OrderTable, held' \in [Order -> Nat], onHand' \in [Warehouse -> Nat]
  PROVE  TypeOK'
<1>1. call' \in [Caller -> CallJob]
  BY CallTypes
<1>2. requests' \in [Order -> Request] /\ backing' \in [Order -> Request]
  <2>1. CASE Next
    BY <2>1, RequestTypes
  <2>2. CASE StockNext
    <3>1. UNCHANGED <<requests, backing>>
      BY <2>2 DEF StockNext, MovementNext, MoveByHand, TransferNext, CreateTransfer,
           ShipTransfer, ReceiveTransfer, CancelTransfer, TransferRest, CountNext, FreezeSheet,
           CreateSheet, StartCount, RecordCounts, SubmitCount, PostCount, Recount, CancelCount,
           AdjustmentNext, AnswerAdjustment, AskAdjustmentDirectly, CountRest
    <3>. QED  BY <3>1 DEF TypeOK, SalesTypeOK
  <2>. QED  BY <2>1, <2>2
<1>3. /\ sheets' \in SheetTable /\ adjustments' \in [Sheet -> Adjustment]
      /\ agreed' \in [Sheet -> Adjustment] /\ manual' \in [Warehouse -> Int]
  BY SheetTypes DEF stockVars, TypeOK
<1>4. raced' \in BOOLEAN
  <2>0. CASE HandNext
    BY <2>0 DEF HandNext, ReserveByHand, ReleaseByHand, TypeOK, SalesTypeOK
  <2>1. raced \in BOOLEAN
    BY DEF TypeOK, SalesTypeOK
  <2>2. CASE \E c \in Caller, outcome \in {"APPROVED", "PENDING"} : Submit(c, outcome)
    BY <2>2 DEF Submit
  <2>3. CASE UNCHANGED raced
    BY <2>1, <2>3
  <2>4. \/ UNCHANGED raced \/ HandNext
        \/ \E c \in Caller, outcome \in {"APPROVED", "PENDING"} : Submit(c, outcome)
    <3>1. CASE StockNext
      BY <3>1 DEF StockNext, MovementNext, MoveByHand, TransferNext, CreateTransfer,
           ShipTransfer, ReceiveTransfer, CancelTransfer, TransferRest, CountNext, FreezeSheet,
           CreateSheet, StartCount, RecordCounts, SubmitCount, PostCount, Recount, CancelCount,
           AdjustmentNext, AnswerAdjustment, AskAdjustmentDirectly, CountRest
    <3>2. CASE OrderNext
      BY <3>2 DEF OrderNext, CreateOrder, UpdateOrder, ConvertQuotation, ConfirmOrder,
                  ReopenOrder, CancelOrder, BeginSubmit, saleVars
    <3>3. CASE QuotationNext \/ ApprovalNext \/ NoteNext
      BY <3>3 DEF QuotationNext, saleVars, ApprovalNext, AskDirectly, Settle,
                  NoteNext, CreateNote, ShipNote, CancelNote
    <3>. QED  BY <3>1, <3>2, <3>3 DEF Next
  <2>. QED  BY <2>0, <2>2, <2>3, <2>4
<1>5. quotations' \in QuotationTable /\ notes' \in NoteTable /\ transfers' \in TransferTable
  BY DEF Inv, TablesInv, StockInv, StockTables, NoteTable, TransferTable
<1>6. freed' \subseteq Order /\ given' \subseteq Order
  BY HandTypes
<1>. QED  BY <1>1, <1>2, <1>3, <1>4, <1>5, <1>6 DEF TypeOK, SalesTypeOK, CallJob

(***************************************************************************)
(* What a step leaves alone                                                *)
(***************************************************************************)
OrderKept(o) == /\ orders'[o] = orders[o] /\ held'[o] = held[o]
                /\ requests'[o] = requests[o] /\ backing'[o] = backing[o]
                /\ o \in freed => o \in freed'
                /\ o \in given => o \in given'

\* What speaks of one order is kept while nothing about it changes.
LEMMA KeptIsSafe ==
  ASSUME NEW o \in Order, OrderSafe(o), OrderKept(o), Shipped(o)' = Shipped(o)
  PROVE  OrderSafe(o)'
<1>1. HoldSafe(o)'
  BY DEF OrderSafe, HoldSafe, OrderKept
<1>2. DeliverySafe(o)'
  BY DEF OrderSafe, DeliverySafe, OrderKept
<1>3. BackedSafe(o)'
  BY DEF OrderSafe, BackedSafe, OrderKept
<1>. QED  BY <1>1, <1>2, <1>3 DEF OrderSafe

\* A warehouse follows its documents while they and its stock stay.
LEMMA StockStays ==
  ASSUME NEW w, StockSafe(w), UNCHANGED <<onHand, stockVars>>,
         SumFunction(ShippedFrom(w))' = SumFunction(ShippedFrom(w))
  PROVE  StockSafe(w)'
<1>1. UNCHANGED <<sheets, transfers, manual>>
  BY DEF stockVars
<1>2. LeftFrom(w)' = LeftFrom(w) /\ CameTo(w)' = CameTo(w) /\ PostedAt(w)' = PostedAt(w)
  BY <1>1 DEF LeftFrom, CameTo, PostedAt, Variance
<1>. QED  BY <1>1, <1>2 DEF StockSafe, AtFirst

\* A step of one order that moves no stock.
LEMMA OneOrder ==
  ASSUME SaleInv, TypeOK', NEW o \in Order, OrderSafe(o)', HeldIsThere', WithinLimit',
         \A p \in Order \ {o} : OrderKept(p), UNCHANGED <<notes, onHand, stockVars>>
  PROVE  SaleInv'
<1>1. /\ \A p \in Order : Shipped(p)' = Shipped(p)
      /\ \A w \in Warehouse : SumFunction(ShippedFrom(w))' = SumFunction(ShippedFrom(w))
  BY NotesStay DEF SaleInv
<1>2. ASSUME NEW p \in Order \ {o} PROVE OrderSafe(p)'
  BY <1>1, KeptIsSafe DEF SaleInv
<1>3. ASSUME NEW w \in Warehouse PROVE StockSafe(w)'
  BY <1>1, StockStays DEF SaleInv
<1>. QED  BY <1>2, <1>3 DEF SaleInv

\* A step that touches no order: stock moves with its documents.
LEMMA StockMoves ==
  ASSUME SaleInv, TypeOK', HeldIsThere', \A w \in Warehouse : StockSafe(w)',
         UNCHANGED <<orders, held, freed, given, requests, backing, raced>>,
         \A p \in Order : Shipped(p)' = Shipped(p)
  PROVE  SaleInv'
<1>1. ASSUME NEW p \in Order PROVE OrderSafe(p)'
  BY KeptIsSafe DEF SaleInv, OrderKept
<1>2. WithinLimit'
  BY DEF SaleInv, WithinLimit, Unwatched
<1>. QED  BY <1>1, <1>2 DEF SaleInv

\* A step of which nothing here speaks.
LEMMA NothingMoves ==
  ASSUME SaleInv, TypeOK',
         UNCHANGED <<orders, held, freed, given, requests, backing, raced>>,
         UNCHANGED <<onHand, stockVars>>,
         \A n \in Note : \/ notes'[n] = notes[n]
                         \/ notes[n].status # "SHIPPED" /\ notes'[n].status # "SHIPPED"
  PROVE  SaleInv'
<1>1. /\ \A p \in Order : Shipped(p)' = Shipped(p)
      /\ \A w \in Warehouse : SumFunction(ShippedFrom(w))' = SumFunction(ShippedFrom(w))
  BY NotesStay DEF SaleInv
<1>2. ASSUME NEW w \in Warehouse PROVE StockSafe(w)'
  BY <1>1, StockStays DEF SaleInv
<1>3. HeldIsThere'
  BY DEF SaleInv, HeldIsThere, HeldByAll
<1>. QED  BY <1>1, <1>2, <1>3, StockMoves

\* What nobody looked at does not grow by an order that counts no more than before.
LEMMA LimitKept ==
  ASSUME SaleInv, TypeOK', NEW o \in Order, \A p \in Order \ {o} : orders'[p] = orders[p],
         raced => raced', Unwatched'[o] <= Unwatched[o]
  PROVE  WithinLimit'
<1>1. /\ SumFunction(Unwatched) \in Int /\ SumFunction(Unwatched)' \in Int
      /\ SumFunction(Unwatched)' = SumFunction(Unwatched) - Unwatched[o] + Unwatched'[o]
  BY UnwatchedChanges DEF SaleInv
<1>2. Unwatched[o] \in Nat /\ Unwatched'[o] \in Nat
  BY Weights, WeightsAfter DEF SaleInv, WeightTypes
<1>. QED  BY <1>1, <1>2, SalesAssumption DEF SaleInv, WithinLimit

(***************************************************************************)
(* Orders before their delivery                                            *)
(***************************************************************************)
\* Before it is confirmed, nothing is shipped for an order, and nothing held but
\* what was reserved by hand.
LEMMA Undelivered ==
  ASSUME SaleInv, NEW o \in Order,
         \/ orders[o].status \in {"NONE", "DRAFT", "PENDING_APPROVAL", "REJECTED"}
         \/ orders[o] # NoDoc /\ orders[o].delivered = 0
  PROVE  /\ Shipped(o) = 0
         /\ orders[o] # NoDoc => orders[o] \in OrderRow /\ orders[o].delivered = 0
         /\ orders[o].status \in {"NONE", "DRAFT", "PENDING_APPROVAL", "REJECTED"} =>
              held[o] = 0 \/ o \in given
<1>1. RowFacts /\ held[o] \in Nat
  BY Rows DEF SaleInv, TypeOK, SalesTypeOK
<1>2. OrderSafe(o)
  BY DEF SaleInv
<1>3. orders[o].status \in {"NONE", "DRAFT", "PENDING_APPROVAL", "REJECTED"} =>
        held[o] = 0 \/ o \in given
  BY <1>1, <1>2 DEF OrderSafe, HoldSafe, Live
<1>4. CASE orders[o] = NoDoc
  BY <1>2, <1>3, <1>4 DEF OrderSafe, DeliverySafe
<1>5. CASE orders[o] # NoDoc
  <2>1. orders[o] \in OrderRow /\ orders[o].status # "NONE"
    BY <1>1, <1>5 DEF RowFacts, OrderRow
  <2>2. orders[o].delivered \in Nat
    BY <2>1, SalesAssumption DEF OrderRow
  <2>3. orders[o].delivered = 0 /\ orders[o].delivered = Shipped(o)
    BY <1>2, <1>5, <2>2 DEF OrderSafe, DeliverySafe
  <2>. QED  BY <1>3, <2>1, <2>3
<1>. QED  BY <1>4, <1>5

\* An order of which nothing was delivered takes a new row, and holds stock when
\* it is confirmed.
LEMMA UndeliveredStep ==
  ASSUME SaleInv, Inv', StockInv', Next, UNCHANGED <<notes, onHand, stockVars>>,
         NEW o \in Order, NEW row \in OrderRow, orders' = [orders EXCEPT ![o] = row],
         Shipped(o) = 0, row.delivered = 0,
         row.status \notin {"PARTIALLY_DELIVERED", "DELIVERED"},
         \A p \in Order \ {o} : requests'[p] = requests[p] /\ backing'[p] = backing[p],
         BackedSafe(o)', raced => raced', UNCHANGED <<freed, given>>,
         \/ ~ raced' => SumFunction(Unwatched) - Unwatched[o] + Unwatched'[o] <= Limit
         \/ Unwatched'[o] <= Unwatched[o],
         \/ /\ held' = held /\ row.status # "CONFIRMED"
            /\ row.status = "CANCELLED" \/ held[o] = 0 \/ o \in given
         \/ /\ row.status = "CONFIRMED" /\ CanReserve(row.qty)
            /\ held' = [held EXCEPT ![o] = @ + row.qty]
  PROVE  SaleInv'
<1>1. /\ orders \in OrderTable /\ held \in [Order -> Nat] /\ onHand \in [Warehouse -> Nat]
      /\ RowFacts
  BY Rows DEF SaleInv, TypeOK, SalesTypeOK
<1>2. row.qty \in Nat \ {0} /\ row # NoDoc
  BY <1>1 DEF RowFacts, OrderRow, NoDoc
<1>3. /\ orders' \in OrderTable
      /\ \A p \in Order : orders'[p] = IF p = o THEN row ELSE orders[p]
  BY <1>1 DEF OrderTable
<1>4. /\ held' \in [Order -> Nat]
      /\ \A p \in Order \ {o} : held'[p] = held[p]
      /\ held'[o] = held[o] \/ held'[o] = held[o] + row.qty
  BY <1>1, <1>2
<1>5. TypeOK'
  BY <1>1, <1>3, <1>4, TypesKept DEF SaleInv
<1>6. Shipped(o)' = 0
  BY <1>5, NotesStay DEF SaleInv
<1>7. HoldSafe(o)'
  <2>1. CASE held' = held /\ row.status # "CONFIRMED"
             /\ (row.status = "CANCELLED" \/ held[o] = 0 \/ o \in given)
    BY <1>1, <1>3, <2>1 DEF HoldSafe, Live
  <2>2. CASE row.status = "CONFIRMED" /\ held' = [held EXCEPT ![o] = @ + row.qty]
    <3>1. held'[o] = held[o] + row.qty /\ held[o] \in Nat
      BY <1>1, <2>2
    <3>. QED  BY <1>2, <1>3, <2>2, <3>1 DEF HoldSafe, Live
  <2>. QED  BY <2>1, <2>2
<1>8. DeliverySafe(o)'
  BY <1>2, <1>3, <1>6 DEF DeliverySafe
<1>9. HeldIsThere'
  <2>1. CASE held' = held
    BY <2>1 DEF SaleInv, HeldIsThere, HeldByAll
  <2>2. CASE CanReserve(row.qty) /\ held' = [held EXCEPT ![o] = @ + row.qty]
    <3>1. /\ HeldByAll \in Int /\ HeldByAll' \in Int
          /\ HeldByAll' = HeldByAll - held[o] + held'[o]
      BY <1>4, <1>5, HeldChanges DEF SaleInv
    <3>2. held'[o] = held[o] + row.qty /\ held[o] \in Nat /\ onHand["default"] \in Nat
      BY <1>1, <2>2 DEF Warehouse
    <3>3. row.qty <= onHand["default"] - HeldByAll
      BY <2>2 DEF CanReserve, Available
    <3>. QED  BY <1>2, <3>1, <3>2, <3>3 DEF HeldIsThere
  <2>. QED  BY <2>1, <2>2
<1>10. WithinLimit'
  <2>1. CASE ~ raced' => SumFunction(Unwatched) - Unwatched[o] + Unwatched'[o] <= Limit
    <3>1. SumFunction(Unwatched)' = SumFunction(Unwatched) - Unwatched[o] + Unwatched'[o]
      BY <1>3, <1>5, UnwatchedChanges DEF SaleInv
    <3>. QED  BY <2>1, <3>1 DEF WithinLimit
  <2>2. CASE Unwatched'[o] <= Unwatched[o]
    BY <1>3, <1>5, <2>2, LimitKept
  <2>. QED  BY <2>1, <2>2
<1>11. \A p \in Order \ {o} : OrderKept(p)
  BY <1>3, <1>4 DEF OrderKept
<1>. QED  BY <1>5, <1>7, <1>8, <1>9, <1>10, <1>11, OneOrder DEF OrderSafe

\* What a row adds to the credit nobody looked at.
LEMMA UnwatchedOf ==
  ASSUME TypeOK, NEW o \in Order
  PROVE  /\ Unwatched[o] \in Nat
         /\ orders[o].status \notin ExposureStatuses => Unwatched[o] = 0
         /\ orders[o].credit # "OK" => Unwatched[o] = 0
         /\ orders[o].status \in ExposureStatuses /\ orders[o].credit = "OK" =>
              Unwatched[o] = orders[o].qty
<1>1. Unwatched[o] \in Nat
  BY Weights DEF WeightTypes
<1>. QED  BY <1>1 DEF Unwatched

\* A draft, or an order that is dropped, holds no more and counts no longer.
LEMMA DraftStep ==
  ASSUME SaleInv, Inv', StockInv', Next, UNCHANGED <<notes, onHand, stockVars>>,
         NEW o \in Order, NEW row \in OrderRow, orders' = [orders EXCEPT ![o] = row],
         row.status \in {"DRAFT", "REJECTED", "CANCELLED"}, row.delivered = 0,
         \/ orders[o].status \in {"NONE", "DRAFT", "PENDING_APPROVAL", "REJECTED"}
         \/ orders[o] # NoDoc /\ orders[o].delivered = 0 /\ row.status = "CANCELLED",
         UNCHANGED <<requests, backing, held, freed, given, raced>>
  PROVE  SaleInv'
<1>1. /\ Shipped(o) = 0
      /\ orders[o].status \in {"NONE", "DRAFT", "PENDING_APPROVAL", "REJECTED"} =>
           held[o] = 0 \/ o \in given
  BY Undelivered
<1>2. orders'[o] = row
  BY DEF SaleInv, TypeOK, SalesTypeOK, OrderTable
<1>3. BackedSafe(o)'
  BY <1>2 DEF BackedSafe, Live
<1>4. Unwatched'[o] <= Unwatched[o]
  <2>1. Unwatched'[o] = 0
    BY <1>2 DEF Unwatched, ExposureStatuses
  <2>2. Unwatched[o] \in Nat
    BY UnwatchedOf DEF SaleInv
  <2>. QED  BY <2>1, <2>2
<1>. QED  BY <1>1, <1>3, <1>4, UndeliveredStep

\* Orders are created, by conversion too.
LEMMA CreateSteps ==
  ASSUME SaleInv, Inv, Inv', StockInv', Next, UNCHANGED stockVars,
         NEW o \in Order, NEW qty \in Qty,
         CreateOrder(o, qty) \/ \E c \in Caller : ConvertQuotation(c, o, qty)
  PROVE  SaleInv'
<1>1. PICK q \in Quotation \cup {NoQuotation} : InsertOrder(o, NewOrder(qty, q))
  BY DEF CreateOrder, ConvertQuotation, Inv, CallsInv
<1>2. UNCHANGED <<notes, onHand, requests, backing, held, freed, given, raced>>
  BY DEF CreateOrder, ConvertQuotation
<1> DEFINE row == NewOrder(qty, q)
<1>3. /\ row \in OrderRow /\ row.status = "DRAFT" /\ row.delivered = 0
  BY SalesAssumption DEF NewOrder, OrderRow
<1>4. orders[o].status = "NONE" /\ orders' = [orders EXCEPT ![o] = row]
  BY <1>1 DEF InsertOrder, NoDoc
<1> HIDE DEF row
<1>. QED  BY <1>2, <1>3, <1>4, DraftStep

\* Drafts are edited, orders reopened, refused and cancelled.
LEMMA DraftSteps ==
  ASSUME SaleInv, Inv', StockInv', Next, UNCHANGED stockVars, NEW o \in Order,
         \/ \E qty \in Qty : UpdateOrder(o, qty)
         \/ ReopenOrder(o) \/ CancelOrder(o)
         \/ \E to \in {"DRAFT", "REJECTED"} :
              /\ orders[o].status = "PENDING_APPROVAL" /\ MoveOrder(o, to)
              /\ UNCHANGED <<notes, onHand, requests, backing, held, freed, given, raced>>
  PROVE  SaleInv'
<1>1. UNCHANGED <<notes, onHand, requests, backing, held, freed, given, raced>>
  BY DEF UpdateOrder, ReopenOrder, CancelOrder
<1>2. /\ orders[o].status # "NONE"
      /\ \/ orders[o].status \in {"DRAFT", "PENDING_APPROVAL", "REJECTED"}
         \/ CancelOrder(o)
  BY DEF UpdateOrder, ReopenOrder, CancelOrder, MoveOrder, OrderMoves
<1>3. orders[o] \in OrderRow /\ orders[o] # NoDoc /\ Qty \subseteq Nat
  BY <1>2, Rows DEF SaleInv, RowFacts
<1>4. orders[o].delivered = 0
  BY <1>2, <1>3, Undelivered DEF CancelOrder, CanCancelOrder
<1>5. ASSUME NEW row \in OrderRow, orders' = [orders EXCEPT ![o] = row],
             \/ row.status \in {"DRAFT", "REJECTED"} /\ ~ CancelOrder(o)
             \/ row.status = "CANCELLED",
             row.delivered = 0
      PROVE  SaleInv'
  BY <1>1, <1>2, <1>3, <1>4, <1>5, DraftStep
<1>6. CASE CancelOrder(o)
  <2> DEFINE row == [orders[o] EXCEPT !.status = "CANCELLED"]
  <2>1. orders' = [orders EXCEPT ![o] = row]
    BY <1>6 DEF CancelOrder, MoveOrder, SaveOrder
  <2>2. row \in OrderRow /\ row.status = "CANCELLED" /\ row.delivered = 0
    BY <1>3, <1>4 DEF OrderRow
  <2>. QED  BY <1>5, <2>1, <2>2
<1>7. CASE ~ CancelOrder(o)
  <2>1. ASSUME NEW qty \in Qty, UpdateOrder(o, qty) PROVE SaleInv'
    <3> DEFINE row == EditedOrder(orders[o], qty)
    <3>1. orders' = [orders EXCEPT ![o] = row] /\ orders[o].status = "DRAFT"
      BY <2>1 DEF UpdateOrder, SaveOrder
    <3>2. row \in OrderRow /\ row.status = "DRAFT" /\ row.delivered = 0
      BY <1>3, <1>4, <3>1 DEF OrderRow, EditedOrder
    <3>. QED  BY <1>5, <1>7, <3>1, <3>2
  <2>2. CASE ReopenOrder(o)
    <3> DEFINE row == ReopenedOrder(orders[o])
    <3>1. orders' = [orders EXCEPT ![o] = row]
      BY <2>2 DEF ReopenOrder, SaveOrder
    <3>2. row \in OrderRow /\ row.status = "DRAFT" /\ row.delivered = 0
      BY <1>3, <1>4 DEF OrderRow, ReopenedOrder
    <3>. QED  BY <1>5, <1>7, <3>1, <3>2
  <2>3. ASSUME NEW to \in {"DRAFT", "REJECTED"}, MoveOrder(o, to) PROVE SaleInv'
    <3> DEFINE row == [orders[o] EXCEPT !.status = to]
    <3>1. orders' = [orders EXCEPT ![o] = row]
      BY <2>3 DEF MoveOrder, SaveOrder
    <3>2. row \in OrderRow /\ row.status = to /\ row.delivered = 0
      BY <1>3, <1>4 DEF OrderRow
    <3>. QED  BY <1>5, <1>7, <3>1, <3>2
  <2>. QED  BY <1>7, <2>1, <2>2, <2>3
<1>. QED  BY <1>6, <1>7

\* An order is confirmed on the answer of people, or of a direct request.
LEMMA ConfirmSteps ==
  ASSUME SaleInv, Inv', StockInv', Next, UNCHANGED stockVars, NEW o \in Order, ConfirmOrder(o)
  PROVE  SaleInv'
<1>1. /\ orders[o].status = "PENDING_APPROVAL"
      /\ UNCHANGED <<notes, onHand, requests, raced>>
      /\ \E to \in {"CONFIRMED", "REJECTED", "DRAFT"} :
           /\ MoveOrder(o, to) /\ HoldIf(to = "CONFIRMED", o)
           /\ to = "CONFIRMED" => requests[o].status = "APPROVED"
  <2>1. PICK to \in Answered(requests[o].status) :
          MoveOrder(o, to) /\ HoldIf(to = "CONFIRMED", o)
    BY DEF ConfirmOrder
  <2>2. requests[o].status \in {"NONE", "PENDING", "APPROVED", "REJECTED", "CANCELLED"}
    BY DEF SaleInv, TypeOK, SalesTypeOK, Request
  <2>3. /\ to \in {"CONFIRMED", "REJECTED", "DRAFT"}
        /\ to = "CONFIRMED" => requests[o].status = "APPROVED"
    BY <2>1, <2>2 DEF Answered
  <2>. QED  BY <2>1, <2>3 DEF ConfirmOrder
<1>2. CASE \E to \in {"REJECTED", "DRAFT"} : MoveOrder(o, to) /\ HoldIf(to = "CONFIRMED", o)
  <2>1. PICK to \in {"REJECTED", "DRAFT"} :
          MoveOrder(o, to) /\ UNCHANGED <<held, freed, given, backing>>
    BY <1>2 DEF HoldIf
  <2>. QED  BY <1>1, <2>1, DraftSteps
<1>3. CASE /\ MoveOrder(o, "CONFIRMED") /\ HoldIf(TRUE, o)
           /\ requests[o].status = "APPROVED"
  <2> DEFINE row == [orders[o] EXCEPT !.status = "CONFIRMED"]
  <2>1. /\ Shipped(o) = 0
        /\ orders[o] # NoDoc => orders[o] \in OrderRow /\ orders[o].delivered = 0
    BY <1>1, Undelivered
  <2>2. orders[o] \in OrderRow
    BY <1>1, Rows DEF SaleInv, RowFacts
  <2>3. orders[o] # NoDoc
    BY <1>1 DEF NoDoc
  <2>4. /\ row \in OrderRow /\ row.status = "CONFIRMED" /\ row.delivered = 0
        /\ row.qty = orders[o].qty /\ row.credit = orders[o].credit
    BY <2>1, <2>2, <2>3 DEF OrderRow
  <2>5. orders' = [orders EXCEPT ![o] = row]
    BY <1>3 DEF MoveOrder, SaveOrder
  <2> HIDE DEF row
  <2>6. /\ CanReserve(row.qty) /\ held' = [held EXCEPT ![o] = @ + row.qty]
        /\ backing' = [backing EXCEPT ![o] = requests[o]]
        /\ UNCHANGED <<freed, given>>
    BY <1>1, <1>3, <2>4 DEF HoldIf
  <2>7. /\ orders'[o] = row /\ backing'[o] = requests[o]
        /\ \A p \in Order \ {o} : requests'[p] = requests[p] /\ backing'[p] = backing[p]
    BY <1>1, <2>5, <2>6 DEF SaleInv, TypeOK, SalesTypeOK, OrderTable
  <2>8. BackedSafe(o)'
    <3>1. requests[o].direct \/ ~ requests[o].atOnce
      BY <1>1 DEF SaleInv, OrderSafe, BackedSafe
    <3>. QED  BY <1>3, <2>4, <2>7, <3>1 DEF BackedSafe
  <2>9. Unwatched'[o] = Unwatched[o] /\ Unwatched[o] \in Nat
    <3>1. Unwatched'[o] = Unwatched[o]
      BY <1>1, <2>4, <2>7 DEF Unwatched, ExposureStatuses
    <3>. QED  BY <3>1, UnwatchedOf DEF SaleInv
  <2>10. Unwatched'[o] <= Unwatched[o]
    BY <2>9
  <2>. QED  BY <1>1, <2>1, <2>4, <2>5, <2>6, <2>7, <2>8, <2>10, UndeliveredStep
<1>. QED  BY <1>1, <1>2, <1>3

\* The open orders of a customer are at least those nobody looked at.
LEMMA ExposureCovers ==
  ASSUME TypeOK, NEW o \in Order, orders[o].status \notin ExposureStatuses
  PROVE  SumFunction(Unwatched) <= OpenExposure(Order \ {o})
<1> DEFINE T == {p \in Order \ {o} : orders[p].status \in ExposureStatuses}
           open == [p \in T |-> orders[p].qty]
           all == [p \in Order |-> IF p \in T THEN orders[p].qty ELSE 0]
<1>1. ASSUME NEW p \in Order, orders[p].status \in ExposureStatuses
      PROVE  orders[p].qty \in Nat
  <2>1. orders[p] \in OrderRow /\ Qty \subseteq Nat
    BY <1>1, Rows DEF RowFacts, ExposureStatuses
  <2>. QED  BY <2>1 DEF OrderRow
<1>2. /\ T \in SUBSET Order /\ open \in [T -> Int] /\ all \in [Order -> Int]
      /\ \A p \in Order \ T : all[p] = 0
      /\ \A p \in T : open[p] = all[p]
  BY <1>1
<1>3. \A p \in Order : Unwatched[p] <= all[p]
  <2> SUFFICES ASSUME NEW p \in Order PROVE Unwatched[p] <= all[p]
    OBVIOUS
  <2>1. CASE p \in T
    BY <1>1, <2>1 DEF Unwatched
  <2>2. CASE p \notin T
    BY <2>2 DEF Unwatched
  <2>. QED  BY <2>1, <2>2
<1>4. IsFiniteSet(Order) /\ Unwatched \in [Order -> Int]
  BY Weights DEF WeightTypes
<1>5. OpenExposure(Order \ {o}) = SumFunction(open)
  BY DEF OpenExposure
<1> HIDE DEF T, open, all
<1>6. SumFunction(open) = SumFunction(all)
  BY <1>2, <1>4, SumNonZeros
<1>7. SumFunction(Unwatched) <= SumFunction(all)
  BY <1>2, <1>3, <1>4, SumMonotone
<1>. QED  BY <1>5, <1>6, <1>7

\* An order is checked against the limit when it is submitted; a breach is never
\* approved at once, and two submissions that meet are recorded.
LEMMA SubmitOrderSteps ==
  ASSUME SaleInv, Inv', StockInv', Next, UNCHANGED stockVars,
         NEW c \in Caller, NEW outcome \in {"APPROVED", "PENDING"}, Submit(c, outcome)
  PROVE  SaleInv'
<1>1. PICK o, open : o = call[c].of /\ open = call[c].open
  OBVIOUS
<1>2. o \in Order /\ open \in Nat
  <2>1. call[c] \in CallJob /\ call[c].op = "submit"
    BY DEF Submit, SaleInv, TypeOK, SalesTypeOK, CallJob
  <2>. QED  BY <1>1, <2>1 DEF CallJob, NoCall
<1>3. PICK credit : credit = EvaluateCredit(open, orders[o].qty)
  OBVIOUS
<1> DEFINE row == Submitted(orders[o], credit, outcome)
<1>4. /\ orders[o].status = "DRAFT" /\ Ask(o, outcome, FALSE)
      /\ CanSubmit(credit, outcome)
      /\ orders' = [orders EXCEPT ![o] = row]
      /\ HoldIf(outcome = "APPROVED", o)
      /\ raced' = (raced \/ open < OpenExposure(Order \ {o}))
      /\ UNCHANGED <<notes, onHand>>
  BY <1>1, <1>3 DEF Submit, SaveOrder
<1>5. /\ Shipped(o) = 0 /\ (held[o] = 0 \/ o \in given) /\ orders[o] \in OrderRow /\ orders[o].delivered = 0
      /\ orders[o].qty \in Nat
  <2>1. orders[o] \in OrderRow /\ orders[o] # NoDoc /\ Qty \subseteq Nat
    BY <1>2, <1>4, Rows DEF SaleInv, RowFacts
  <2>. QED  BY <1>2, <1>4, <2>1, Undelivered DEF OrderRow
<1>6. /\ credit \in {"OK", "EXCEEDED"}
      /\ credit = "OK" => open + orders[o].qty <= Limit
  BY <1>2, <1>3, <1>5, SalesAssumption DEF EvaluateCredit
<1>7. /\ row \in OrderRow /\ row.delivered = 0 /\ row.qty = orders[o].qty
      /\ row.credit = credit
      /\ row.status = IF outcome = "APPROVED" THEN "CONFIRMED" ELSE "PENDING_APPROVAL"
  BY <1>5, <1>6 DEF Submitted, OrderRow
<1> HIDE DEF row
<1>8. /\ orders'[o] = row
      /\ requests'[o] = [status |-> outcome, direct |-> FALSE, atOnce |-> outcome = "APPROVED"]
      /\ \A p \in Order \ {o} : requests'[p] = requests[p]
  BY <1>2, <1>4 DEF Ask, SaleInv, TypeOK, SalesTypeOK, OrderTable
<1>9. \A p \in Order \ {o} : backing'[p] = backing[p]
  BY <1>4 DEF HoldIf, SaleInv, TypeOK, SalesTypeOK
<1>10. BackedSafe(o)'
  <2>1. outcome = "APPROVED" => credit # "EXCEEDED"
    BY <1>4 DEF CanSubmit
  <2>2. CASE outcome = "APPROVED"
    BY <1>7, <1>8, <2>1, <2>2 DEF BackedSafe
  <2>3. CASE outcome = "PENDING"
    <3>0. requests'[o].atOnce = (outcome = "APPROVED")
      BY <1>8
    <3>1. ~ requests'[o].atOnce
      BY <2>3, <3>0
    <3>. QED  BY <1>7, <1>8, <2>3, <3>1 DEF BackedSafe, Live
  <2>. QED  BY <2>2, <2>3
<1>11. Unwatched[o] = 0 /\ SumFunction(Unwatched) <= OpenExposure(Order \ {o})
  BY <1>2, <1>4, UnwatchedOf, ExposureCovers DEF SaleInv, ExposureStatuses
<1>12. Unwatched'[o] = IF credit = "OK" THEN orders[o].qty ELSE 0
  BY <1>2, <1>7, <1>8 DEF Unwatched, ExposureStatuses
<1>13. \/ ~ raced' => SumFunction(Unwatched) - Unwatched[o] + Unwatched'[o] <= Limit
       \/ Unwatched'[o] <= Unwatched[o]
  <2>1. CASE credit = "OK" /\ ~ raced'
    <3>1. SumFunction(Unwatched) \in Int /\ OpenExposure(Order \ {o}) \in Nat
      BY Weights, ExposureIsNat, SumIsAnInteger DEF SaleInv, WeightTypes
    <3>0. ~ (open < OpenExposure(Order \ {o}))
      BY <1>4, <2>1
    <3>2. OpenExposure(Order \ {o}) <= open /\ open + orders[o].qty <= Limit
      BY <1>2, <1>6, <2>1, <3>0, <3>1
    <3>3. Unwatched'[o] = orders[o].qty /\ Limit \in Nat
      BY <1>12, <2>1, SalesAssumption
    <3>. QED  BY <1>2, <1>5, <1>11, <3>1, <3>2, <3>3
  <2>2. CASE credit = "EXCEEDED"
    BY <1>11, <1>12, <2>2
  <2>. QED  BY <1>6, <2>1, <2>2
<1>14. raced => raced'
  BY <1>4
<1>15. \/ /\ held' = held /\ row.status # "CONFIRMED"
          /\ row.status = "CANCELLED" \/ held[o] = 0 \/ o \in given
       \/ /\ row.status = "CONFIRMED" /\ CanReserve(row.qty)
          /\ held' = [held EXCEPT ![o] = @ + row.qty]
  BY <1>4, <1>5, <1>7 DEF HoldIf
<1>16. UNCHANGED <<freed, given>>
  BY <1>4 DEF HoldIf
<1>. QED
  BY <1>2, <1>4, <1>5, <1>7, <1>8, <1>9, <1>10, <1>13, <1>14, <1>15, <1>16, UndeliveredStep

\* Reading the open orders, quotations and requests of orders move nothing.
LEMMA QuietSteps ==
  ASSUME SaleInv, Inv', StockInv', Next, UNCHANGED stockVars,
         \/ QuotationNext
         \/ \E c \in Caller, o \in Order : BeginSubmit(c, o)
  PROVE  SaleInv'
<1>1. UNCHANGED saleVars
  BY DEF QuotationNext, BeginSubmit
<1>2. UNCHANGED <<orders, notes, requests, backing, onHand, held, freed, given, raced>>
  BY <1>1 DEF saleVars
<1>3. TypeOK'
  BY <1>2, TypesKept DEF SaleInv, TypeOK, SalesTypeOK
<1>. QED  BY <1>2, <1>3, NothingMoves

\* Whoever asks directly says so, and answers keep who asked.
LEMMA RequestSteps ==
  ASSUME SaleInv, Inv', StockInv', Next, UNCHANGED stockVars, ApprovalNext
  PROVE  SaleInv'
<1>1. PICK o \in Order :
        \/ \E outcome \in {"APPROVED", "PENDING"} : AskDirectly(o, outcome)
        \/ \E verdict \in {"APPROVED", "REJECTED", "CANCELLED"} : Settle(o, verdict)
  BY DEF ApprovalNext
<1>2. UNCHANGED <<orders, notes, backing, onHand, held, freed, given, raced>>
  BY <1>1 DEF AskDirectly, Settle
<1>3. TypeOK'
  BY <1>2, TypesKept DEF SaleInv, TypeOK, SalesTypeOK
<1>4. /\ \A p \in Order \ {o} : requests'[p] = requests[p]
      /\ \/ requests'[o].direct
         \/ /\ requests'[o].direct = requests[o].direct
            /\ requests'[o].atOnce = requests[o].atOnce
  BY <1>1 DEF AskDirectly, Ask, Settle, SaleInv, TypeOK, SalesTypeOK, Request
<1>5. \A p \in Order : Shipped(p)' = Shipped(p)
  BY <1>2, <1>3, NotesStay DEF SaleInv
<1>6. OrderSafe(o)'
  <2>1. OrderSafe(o)
    BY DEF SaleInv
  <2>2. HoldSafe(o)' /\ DeliverySafe(o)'
    BY <1>2, <1>5, <2>1 DEF OrderSafe, HoldSafe, DeliverySafe
  <2>3. BackedSafe(o)'
    BY <1>2, <1>4, <2>1 DEF OrderSafe, BackedSafe
  <2>. QED  BY <2>2, <2>3 DEF OrderSafe
<1>7. HeldIsThere' /\ WithinLimit'
  BY <1>2 DEF SaleInv, HeldIsThere, HeldByAll, WithinLimit, Unwatched
<1>8. \A p \in Order \ {o} : OrderKept(p)
  BY <1>2, <1>4 DEF OrderKept
<1>. QED  BY <1>2, <1>3, <1>6, <1>7, <1>8, OneOrder

\* What is reserved by hand is there; what is released by hand is recorded.
LEMMA HoldSteps ==
  ASSUME SaleInv, Inv', StockInv', Next, UNCHANGED stockVars, HandNext
  PROVE  SaleInv'
<1>1. PICK o \in Order : ReleaseByHand(o) \/ \E qty \in Qty : ReserveByHand(o, qty)
  BY DEF HandNext
<1>2. /\ UNCHANGED <<orders, notes, requests, backing, onHand, raced>>
      /\ freed \subseteq freed' /\ given \subseteq given'
  BY <1>1 DEF ReleaseByHand, ReserveByHand
<1>3. /\ orders \in OrderTable /\ held \in [Order -> Nat] /\ onHand \in [Warehouse -> Nat]
      /\ Qty \subseteq Nat
  BY Rows DEF SaleInv, RowFacts, TypeOK, SalesTypeOK
<1>4. PICK left \in Nat :
        /\ held' = [held EXCEPT ![o] = left]
        /\ \/ left = 0 /\ o \in freed'
           \/ left >= held[o] /\ o \in given' /\ left - held[o] <= Available("default")
  <2>1. CASE ReleaseByHand(o)
    BY <2>1 DEF ReleaseByHand
  <2>2. CASE \E qty \in Qty : ReserveByHand(o, qty)
    <3>1. PICK qty \in Nat : ReserveByHand(o, qty)
      BY <1>3, <2>2
    <3>2. PICK more, free : more = held[o] + qty /\ free = Available("default")
      OBVIOUS
    <3>3. /\ qty <= free /\ held' = [held EXCEPT ![o] = more] /\ o \in given'
      BY <3>1, <3>2 DEF ReserveByHand, CanReserve
    <3>4. more \in Nat /\ more >= held[o] /\ more - held[o] = qty
      BY <1>3, <3>2
    <3>. QED  BY <3>2, <3>3, <3>4
  <2>. QED  BY <1>1, <2>1, <2>2
<1>5. /\ held' \in [Order -> Nat] /\ held'[o] = left
      /\ \A p \in Order \ {o} : held'[p] = held[p]
  BY <1>3, <1>4
<1>6. TypeOK'
  BY <1>2, <1>3, <1>5, TypesKept DEF SaleInv
<1>7. OrderSafe(o) /\ Shipped(o)' = Shipped(o)
  BY <1>2, <1>6, NotesStay DEF SaleInv
<1>8. HoldSafe(o)'
  <2>1. CASE orders[o].status \in Live
    <3>1. orders[o].qty \in Nat /\ orders[o].delivered \in Nat
      <4>1. orders[o] \in OrderRow
        BY <2>1, Rows DEF SaleInv, RowFacts, Live
      <4>2. orders[o].delivered \in Nat
        BY <4>1, SalesAssumption DEF OrderRow
      <4>. QED  BY <1>3, <4>1, <4>2 DEF OrderRow
    <3>2. held[o] \in Nat
      BY <1>3
    <3>. QED  BY <1>2, <1>4, <1>5, <1>7, <2>1, <3>1, <3>2 DEF OrderSafe, HoldSafe
  <2>2. CASE orders[o].status \notin Live
    BY <1>2, <1>4, <1>5, <2>2 DEF HoldSafe
  <2>. QED  BY <2>1, <2>2
<1>9. DeliverySafe(o)' /\ BackedSafe(o)'
  BY <1>2, <1>7 DEF OrderSafe, DeliverySafe, BackedSafe
<1>10. HeldIsThere'
  <2>1. /\ HeldByAll \in Int /\ HeldByAll' \in Int
        /\ HeldByAll' = HeldByAll - held[o] + left
    BY <1>5, <1>6, HeldChanges DEF SaleInv
  <2>2. /\ held[o] \in Nat /\ onHand["default"] \in Nat /\ HeldByAll <= onHand["default"]
        /\ Available("default") = onHand["default"] - HeldByAll
    BY <1>3 DEF SaleInv, HeldIsThere, Warehouse, Available
  <2>. QED  BY <1>2, <1>4, <2>1, <2>2 DEF HeldIsThere
<1>11. WithinLimit'
  BY <1>2 DEF SaleInv, WithinLimit, Unwatched
<1>12. \A p \in Order \ {o} : OrderKept(p)
  BY <1>2, <1>5 DEF OrderKept
<1>. QED  BY <1>2, <1>6, <1>8, <1>9, <1>10, <1>11, <1>12, OneOrder DEF OrderSafe

(***************************************************************************)
(* Delivery notes                                                          *)
(***************************************************************************)
\* A note that is drafted or dropped has shipped nothing.
LEMMA NoteWorkSteps ==
  ASSUME SaleInv, Inv', StockInv', Next, UNCHANGED stockVars, NEW n \in Note,
         \/ \E o \in Order, qty \in Qty, from \in Warehouse : CreateNote(n, o, qty, from)
         \/ CancelNote(n)
  PROVE  SaleInv'
<1>1. UNCHANGED <<orders, held, freed, given, requests, backing, raced, onHand>>
  BY DEF CreateNote, CancelNote
<1>2. TypeOK'
  BY <1>1, TypesKept DEF SaleInv, TypeOK, SalesTypeOK
<1>3. notes[n].status # "SHIPPED" /\ notes'[n].status # "SHIPPED"
  <2>1. CASE CancelNote(n)
    <3>1. /\ notes' = [notes EXCEPT ![n] = [notes[n] EXCEPT !.status = "CANCELLED"]]
          /\ notes[n].status = "DRAFT"
      BY <2>1 DEF CancelNote, MoveNote, SaveNote
    <3>2. notes[n] \in NoteRow
      BY <3>1, Rows DEF SaleInv, RowFacts
    <3>3. [notes[n] EXCEPT !.status = "CANCELLED"].status = "CANCELLED"
      BY <3>2 DEF NoteRow
    <3>. QED  BY <3>1, <3>3 DEF SaleInv, TypeOK, SalesTypeOK, NoteTable
  <2>2. CASE \E o \in Order, qty \in Qty, from \in Warehouse : CreateNote(n, o, qty, from)
    BY <2>2 DEF CreateNote, InsertNote, NewNote, NoDoc, SaleInv, TypeOK, SalesTypeOK, NoteTable
  <2>. QED  BY <2>1, <2>2
<1>4. \A m \in Note : \/ notes'[m] = notes[m]
                      \/ notes[m].status # "SHIPPED" /\ notes'[m].status # "SHIPPED"
  BY <1>3 DEF CreateNote, InsertNote, CancelNote, MoveNote, SaveNote,
              SaleInv, TypeOK, SalesTypeOK, NoteTable
<1>. QED  BY <1>1, <1>2, <1>4, NothingMoves

\* What a note that ships adds to the sums over notes.
LEMMA NotesShip ==
  ASSUME TypeOK, TypeOK', NEW n \in Note, notes[n] \in NoteRow, notes[n].status # "SHIPPED",
         notes' = [notes EXCEPT ![n] = [notes[n] EXCEPT !.status = "SHIPPED"]]
  PROVE  /\ \A o \in Order :
              /\ Shipped(o) \in Int
              /\ Shipped(o)' = Shipped(o) + (IF notes[n].order = o THEN notes[n].qty ELSE 0)
         /\ \A w \in Warehouse :
              /\ SumFunction(ShippedFrom(w)) \in Int
              /\ SumFunction(ShippedFrom(w))' = SumFunction(ShippedFrom(w))
                                       + (IF notes[n].from = w THEN notes[n].qty ELSE 0)
<1> DEFINE row == [notes[n] EXCEPT !.status = "SHIPPED"]
<1>1. /\ row.status = "SHIPPED" /\ row.order = notes[n].order
      /\ row.qty = notes[n].qty /\ row.from = notes[n].from
  BY DEF NoteRow
<1> HIDE DEF row
<1>2. \A m \in Note : notes'[m] = IF m = n THEN row ELSE notes[m]
  BY DEF row, TypeOK, SalesTypeOK, NoteTable
<1>3. notes[n].qty \in Nat
  BY Rows DEF RowFacts, NoteRow
<1>4. ASSUME NEW o \in Order
      PROVE  /\ Shipped(o) \in Int
             /\ Shipped(o)' = Shipped(o) + (IF notes[n].order = o THEN notes[n].qty ELSE 0)
  <2>1. /\ IsFiniteSet(Note)
        /\ ShippedFor(o) \in [Note -> Int] /\ ShippedFor(o)' \in [Note -> Int]
    BY Weights, WeightsAfter DEF WeightTypes
  <2>2. \A m \in Note \ {n} : ShippedFor(o)'[m] = ShippedFor(o)[m]
    BY <1>2 DEF ShippedFor
  <2>3. /\ ShippedFor(o)[n] = 0
        /\ ShippedFor(o)'[n] = IF notes[n].order = o THEN notes[n].qty ELSE 0
    BY <1>1, <1>2 DEF ShippedFor
  <2>4. /\ SumFunction(ShippedFor(o)) \in Int
        /\ SumFunction(ShippedFor(o)') = SumFunction(ShippedFor(o)) - ShippedFor(o)[n]
                                         + ShippedFor(o)'[n]
    BY <2>1, <2>2, OneWeight
  <2>. QED  BY <1>3, <2>3, <2>4 DEF Shipped
<1>5. ASSUME NEW w \in Warehouse
      PROVE  /\ SumFunction(ShippedFrom(w)) \in Int
             /\ SumFunction(ShippedFrom(w))' = SumFunction(ShippedFrom(w))
                                      + (IF notes[n].from = w THEN notes[n].qty ELSE 0)
  <2>1. /\ IsFiniteSet(Note)
        /\ ShippedFrom(w) \in [Note -> Int] /\ ShippedFrom(w)' \in [Note -> Int]
    BY Weights, WeightsAfter DEF WeightTypes
  <2>2. \A m \in Note \ {n} : ShippedFrom(w)'[m] = ShippedFrom(w)[m]
    BY <1>2 DEF ShippedFrom
  <2>3. /\ ShippedFrom(w)[n] = 0
        /\ ShippedFrom(w)'[n] = IF notes[n].from = w THEN notes[n].qty ELSE 0
    BY <1>1, <1>2 DEF ShippedFrom
  <2>4. /\ SumFunction(ShippedFrom(w)) \in Int
        /\ SumFunction(ShippedFrom(w)') = SumFunction(ShippedFrom(w)) - ShippedFrom(w)[n]
                                          + ShippedFrom(w)'[n]
    BY <2>1, <2>2, OneWeight
  <2>. QED  BY <1>3, <2>3, <2>4
<1>. QED  BY <1>4, <1>5

\* A delivery takes what it ships from the stock and, in the warehouse orders are
\* held in, from the hold of its order first.
LEMMA ShipSteps ==
  ASSUME SaleInv, Inv', StockInv', Next, UNCHANGED stockVars, NEW n \in Note, ShipNote(n)
  PROVE  SaleInv'
<1>1. /\ notes[n] \in NoteRow /\ notes[n].status = "DRAFT"
      /\ notes' = [notes EXCEPT ![n] = [notes[n] EXCEPT !.status = "SHIPPED"]]
  BY Rows DEF ShipNote, MoveNote, SaveNote, SaleInv, RowFacts
<1>2. PICK o, qty, from : o = notes[n].order /\ qty = notes[n].qty /\ from = notes[n].from
  OBVIOUS
<1>3. o \in Order /\ qty \in Nat \ {0} /\ from \in Warehouse
  BY <1>1, <1>2, Rows DEF SaleInv, RowFacts, NoteRow
<1>4. PICK consumed : consumed = IF from = "default" THEN Min({held[o], qty}) ELSE 0
  OBVIOUS
<1>5. PICK complete \in BOOLEAN :
        complete <=> orders[o].delivered + qty >= orders[o].qty
  OBVIOUS
<1> DEFINE row == [orders[o] EXCEPT !.delivered = orders[o].delivered + qty,
                                    !.status = IF complete THEN "DELIVERED"
                                               ELSE "PARTIALLY_DELIVERED"]
<1> DEFINE left == IF complete THEN 0 ELSE held[o] - consumed
<1>6. DeliveredOrder(orders[o], qty) = row
  BY <1>5 DEF DeliveredOrder
<1>7. /\ orders[o].status \in Live /\ orders[o] \in OrderRow
      /\ qty <= orders[o].qty - orders[o].delivered
      /\ orders[o].delivered \in Nat /\ orders[o].qty \in Nat
      /\ held[o] \in Nat /\ onHand \in [Warehouse -> Nat] /\ held \in [Order -> Nat]
      /\ orders \in OrderTable
  <2>1. /\ orders[o].status \in Live /\ qty <= orders[o].qty - orders[o].delivered
    BY <1>2 DEF ShipNote, CanDeliver, Live
  <2>2. orders[o] \in OrderRow /\ Qty \subseteq Nat
    BY <1>3, <2>1, Rows DEF SaleInv, RowFacts, Live
  <2>3. orders[o].delivered \in Nat
    BY <2>2, SalesAssumption DEF OrderRow
  <2>4. orders[o].qty \in Nat
    BY <2>2 DEF OrderRow
  <2>. QED  BY <1>3, <2>1, <2>2, <2>3, <2>4 DEF SaleInv, TypeOK, SalesTypeOK
<1>8. PICK delivered, status :
        /\ delivered = orders[o].delivered + qty
        /\ status = IF complete THEN "DELIVERED" ELSE "PARTIALLY_DELIVERED"
  OBVIOUS
<1>9. /\ delivered \in 0 .. MaxQty /\ delivered <= orders[o].qty /\ delivered > 0
      /\ complete <=> delivered = orders[o].qty
  <2>1. orders[o].qty <= MaxQty /\ MaxQty \in Nat
    BY <1>7, SalesAssumption DEF OrderRow, Qty
  <2>. QED  BY <1>3, <1>5, <1>7, <1>8, <2>1
<1>10. /\ row \in OrderRow /\ row.status = status
       /\ row.delivered = delivered /\ row.qty = orders[o].qty /\ row.credit = orders[o].credit
  <2>0. PICK st, q, d, c, qn : orders[o] = [status |-> st, qty |-> q, delivered |-> d,
                                            credit |-> c, quotation |-> qn]
    BY <1>7 DEF OrderRow
  <2>1. row = [status |-> status, qty |-> orders[o].qty, delivered |-> delivered,
               credit |-> orders[o].credit, quotation |-> orders[o].quotation]
    <3>1. row = [orders[o] EXCEPT !.delivered = delivered, !.status = status]
      BY <1>8
    <3> HIDE DEF row
    <3>. QED  BY <2>0, <3>1
  <2> HIDE DEF row
  <2>2. status \in {"DELIVERED", "PARTIALLY_DELIVERED"}
    BY <1>8
  <2>. QED  BY <1>7, <1>9, <2>1, <2>2 DEF OrderRow
<1> HIDE DEF row
<1>11. complete <=> row.status = "DELIVERED"
  BY <1>8, <1>10
<1>12. /\ orders' = [orders EXCEPT ![o] = row]
       /\ onHand' = [onHand EXCEPT ![from] = @ - qty]
       /\ held' = [held EXCEPT ![o] = left]
       /\ qty - consumed <= Available(from)
       /\ UNCHANGED <<requests, backing, freed, given, raced>>
  BY <1>2, <1>4, <1>6, <1>11 DEF ShipNote, SaveOrder, HeldAfter
<1>13. consumed \in Nat /\ consumed <= held[o] /\ consumed <= qty
       /\ (consumed = qty \/ consumed = held[o] \/ from # "default")
  <2>1. CASE from = "default"
    <3>1. \E m \in {held[o], qty} : Min({held[o], qty}) = m /\ m <= held[o] /\ m <= qty
      <4>1. \E m \in {held[o], qty} : \A k \in {held[o], qty} : m <= k
        BY <1>3, <1>7
      <4>. QED  BY <4>1 DEF Min
    <3>. QED  BY <1>3, <1>4, <1>7, <2>1, <3>1
  <2>2. CASE from # "default"
    BY <1>3, <1>4, <1>7, <2>2
  <2>. QED  BY <2>1, <2>2
<1>14. left \in Nat /\ left <= held[o] - consumed
  BY <1>7, <1>13
<1> HIDE DEF left
<1>15. /\ orders' \in OrderTable /\ orders'[o] = row
       /\ \A p \in Order \ {o} : orders'[p] = orders[p]
  BY <1>3, <1>7, <1>10, <1>12 DEF OrderTable
<1>16. /\ held' \in [Order -> Nat] /\ held'[o] = left
       /\ \A p \in Order \ {o} : held'[p] = held[p]
  BY <1>3, <1>7, <1>12, <1>14
<1>17. HeldByAll \in Nat
  BY Weights, SumBounds DEF SaleInv, WeightTypes, HeldByAll
<1>18. /\ onHand'[from] = onHand[from] - qty
       /\ \A w \in Warehouse \ {from} : onHand'[w] = onHand[w]
       /\ onHand' \in [Warehouse -> Nat]
  <2>1. /\ onHand'[from] = onHand[from] - qty
        /\ \A w \in Warehouse \ {from} : onHand'[w] = onHand[w]
    BY <1>3, <1>7, <1>12
  <2>2. onHand[from] - qty \in Nat
    <3>1. CASE from = "default"
      <4>1. qty - consumed <= onHand[from] - HeldByAll
        BY <1>12, <3>1 DEF Available
      <4>2. consumed <= HeldByAll
        <5>1. held[o] <= HeldByAll
          BY <1>3, Weights, SumBounds DEF SaleInv, WeightTypes, HeldByAll
        <5>. QED  BY <1>7, <1>13, <1>17, <5>1
      <4>. QED  BY <1>3, <1>7, <1>13, <1>17, <4>1, <4>2
    <3>2. CASE from # "default"
      <4>1. qty <= onHand[from]
        BY <1>3, <1>4, <1>7, <1>12, <3>2 DEF Available
      <4>. QED  BY <1>3, <1>7, <4>1
    <3>. QED  BY <3>1, <3>2
  <2>. QED  BY <1>3, <1>7, <1>12, <2>2, <2>1
<1>19. TypeOK'
  BY <1>15, <1>16, <1>18, TypesKept DEF SaleInv
<1>20. /\ \A p \in Order : /\ Shipped(p) \in Int
                           /\ Shipped(p)' = Shipped(p) + (IF o = p THEN qty ELSE 0)
       /\ \A w \in Warehouse :
            /\ SumFunction(ShippedFrom(w)) \in Int
            /\ SumFunction(ShippedFrom(w))' = SumFunction(ShippedFrom(w))
                                              + (IF from = w THEN qty ELSE 0)
  BY <1>1, <1>2, <1>19, NotesShip DEF SaleInv
<1>21. OrderSafe(o)
  BY <1>3 DEF SaleInv
<1>22. OrderSafe(o)'
  <2>1. HoldSafe(o)'
    <3>0. CASE o \in freed /\ ~ complete
      BY <1>8, <1>10, <1>12, <1>15, <3>0 DEF HoldSafe, Live
    <3>1. o \in freed \/ held[o] >= orders[o].qty - orders[o].delivered
      BY <1>7, <1>21 DEF OrderSafe, HoldSafe
    <3>2. CASE complete
      BY <1>8, <1>10, <1>15, <1>16, <3>2 DEF HoldSafe, Live, left
    <3>3. CASE ~ complete /\ o \notin freed
      <4>1. left = held[o] - consumed /\ row.status = "PARTIALLY_DELIVERED"
        BY <1>8, <1>10, <3>3 DEF left
      <4>2. left >= orders[o].qty - delivered
        BY <1>3, <1>7, <1>8, <1>13, <3>1, <3>3, <4>1
      <4>. QED  BY <1>10, <1>15, <1>16, <4>1, <4>2 DEF HoldSafe, Live
    <3>. QED  BY <3>0, <3>2, <3>3
  <2>2. DeliverySafe(o)'
    <3>1. Shipped(o)' = delivered
      <4>1. orders[o] # NoDoc /\ orders[o].delivered = Shipped(o)
        BY <1>3, <1>7, <1>21, Rows DEF SaleInv, RowFacts, OrderSafe, DeliverySafe
      <4>. QED  BY <1>3, <1>8, <1>20, <4>1
    <3>2. row # NoDoc
      BY <1>10, Rows DEF SaleInv, RowFacts, OrderRow, NoDoc
    <3>. QED  BY <1>8, <1>9, <1>10, <1>15, <3>1, <3>2 DEF DeliverySafe
  <2>3. BackedSafe(o)'
    <3>1. row.status \in {"PARTIALLY_DELIVERED", "DELIVERED"}
      BY <1>8, <1>10
    <3>. QED  BY <1>7, <1>10, <1>12, <1>15, <1>21, <3>1 DEF OrderSafe, BackedSafe, Live
  <2>. QED  BY <2>1, <2>2, <2>3 DEF OrderSafe
<1>23. ASSUME NEW p \in Order \ {o} PROVE OrderSafe(p)'
  <2>1. Shipped(p)' = Shipped(p)
    BY <1>20
  <2>2. OrderKept(p)
    BY <1>12, <1>15, <1>16 DEF OrderKept
  <2>. QED  BY <2>1, <2>2, KeptIsSafe DEF SaleInv
<1>24. HeldIsThere'
  <2>1. HeldByAll \in Int /\ HeldByAll' \in Int /\ HeldByAll' = HeldByAll - held[o] + left
    BY <1>3, <1>16, <1>19, HeldChanges DEF SaleInv
  <2>2. HeldByAll <= onHand["default"] /\ onHand["default"] \in Nat /\ "default" \in Warehouse
    BY <1>7 DEF SaleInv, HeldIsThere, Warehouse
  <2>3. CASE from = "default"
    <3>1. qty - consumed <= onHand["default"] - HeldByAll
      BY <1>12, <2>3 DEF Available
    <3>. QED  BY <1>3, <1>7, <1>13, <1>14, <1>18, <2>1, <2>2, <2>3, <3>1 DEF HeldIsThere
  <2>4. CASE from # "default"
    <3>1. onHand'["default"] = onHand["default"]
      BY <1>18, <2>2, <2>4
    <3>. QED  BY <1>7, <1>13, <1>14, <2>1, <2>2, <3>1 DEF HeldIsThere
  <2>. QED  BY <2>3, <2>4
<1>25. WithinLimit'
  <2>1. Unwatched'[o] <= Unwatched[o]
    <3>1. Unwatched'[o] = Unwatched[o]
      BY <1>3, <1>7, <1>8, <1>10, <1>15 DEF Unwatched, ExposureStatuses, Live
    <3>2. Unwatched[o] \in Nat
      BY <1>3, UnwatchedOf DEF SaleInv
    <3>. QED  BY <3>1, <3>2
  <2>. QED  BY <1>3, <1>12, <1>15, <1>19, <2>1, LimitKept
<1>26. ASSUME NEW w \in Warehouse PROVE StockSafe(w)'
  <2>1. /\ LeftFrom(w)' = LeftFrom(w) /\ CameTo(w)' = CameTo(w)
        /\ PostedAt(w)' = PostedAt(w) /\ manual' = manual
    BY DEF stockVars, LeftFrom, CameTo, PostedAt, Variance
  <2>2. onHand'[w] = onHand[w] - (IF from = w THEN qty ELSE 0)
    BY <1>7, <1>18
  <2>3. SumFunction(ShippedFrom(w))' = SumFunction(ShippedFrom(w))
                                       + (IF from = w THEN qty ELSE 0)
    BY <1>20
  <2>4. StockSafe(w)
    BY DEF SaleInv
  <2>5. /\ SumFunction(LeftFrom(w)) \in Int /\ SumFunction(CameTo(w)) \in Int
        /\ SumFunction(PostedAt(w)) \in Int /\ SumFunction(ShippedFrom(w)) \in Int
        /\ AtFirst(w) \in Int /\ manual[w] \in Int
    BY Weights, SumIsAnInteger, SalesAssumption
       DEF SaleInv, WeightTypes, AtFirst, TypeOK
  <2>6. onHand[w] \in Int /\ qty \in Int
    BY <1>3, <1>7
  <2>7. StockSafe(w)' <=> onHand'[w] = AtFirst(w) + manual[w]
              + SumFunction(CameTo(w)) + SumFunction(PostedAt(w))
              - SumFunction(LeftFrom(w)) - SumFunction(ShippedFrom(w))'
    BY <2>1 DEF StockSafe, AtFirst
  <2>. QED  BY <2>2, <2>3, <2>4, <2>5, <2>6, <2>7 DEF StockSafe
<1>. QED  BY <1>19, <1>22, <1>23, <1>24, <1>25, <1>26 DEF SaleInv

(***************************************************************************)
(* Counts, transfers and movements                                         *)
(***************************************************************************)
\* What the papers of the warehouse itself say was added to it.
Papers(w) == manual[w] + SumFunction(CameTo(w)) + SumFunction(PostedAt(w))
             - SumFunction(LeftFrom(w))

PapersCount ==
  \A w \in Warehouse :
    /\ Papers(w) \in Int /\ SumFunction(ShippedFrom(w)) \in Int /\ AtFirst(w) \in Int
    /\ StockSafe(w) <=> onHand[w] = AtFirst(w) + Papers(w) - SumFunction(ShippedFrom(w))

\* Stock is what the papers of the warehouse say, less what notes shipped.
LEMMA PapersAreStock == TypeOK => PapersCount
<1> SUFFICES ASSUME TypeOK PROVE PapersCount
  OBVIOUS
<1> SUFFICES ASSUME NEW w \in Warehouse
             PROVE  /\ Papers(w) \in Int /\ SumFunction(ShippedFrom(w)) \in Int
                    /\ AtFirst(w) \in Int
                    /\ StockSafe(w) <=>
                         onHand[w] = AtFirst(w) + Papers(w) - SumFunction(ShippedFrom(w))
  BY DEF PapersCount
<1>1. PICK came, posted, left, shipped :
        /\ came = SumFunction(CameTo(w)) /\ posted = SumFunction(PostedAt(w))
        /\ left = SumFunction(LeftFrom(w)) /\ shipped = SumFunction(ShippedFrom(w))
  OBVIOUS
<1>2. came \in Int /\ posted \in Int /\ left \in Int /\ shipped \in Int
  BY <1>1, Weights, SumIsAnInteger DEF WeightTypes
<1>3. manual[w] \in Int /\ onHand[w] \in Int /\ AtFirst(w) \in Int
  BY SalesAssumption DEF TypeOK, SalesTypeOK, AtFirst
<1>4. /\ Papers(w) = manual[w] + came + posted - left
      /\ StockSafe(w) <=> onHand[w] = AtFirst(w) + manual[w] + came + posted - left - shipped
  BY <1>1 DEF Papers, StockSafe
<1>. QED  BY <1>1, <1>2, <1>3, <1>4

\* The same after a step.
LEMMA PapersAfter == TypeOK' => PapersCount'
  BY PapersAreStock, PTL

\* What happens in the warehouse leaves the documents of sales alone.
LEMMA SalesStay ==
  ASSUME StockNext
  PROVE  UNCHANGED <<orders, notes, requests, backing, held, freed, given, raced>>
  BY DEF StockNext, MovementNext, MoveByHand, TransferNext, CreateTransfer, ShipTransfer,
         ReceiveTransfer, CancelTransfer, TransferRest, CountNext, FreezeSheet, CreateSheet,
         StartCount, RecordCounts, SubmitCount, PostCount, Recount, CancelCount,
         AdjustmentNext, AnswerAdjustment, AskAdjustmentDirectly, CountRest

\* A movement that leaves alone what is held, and is on paper.
LEMMA PaperMoves ==
  ASSUME SaleInv, Inv', StockInv', StockNext,
         NEW w \in Warehouse, NEW qty \in Int, CanMove(w, qty), onHand' = Moved(w, qty),
         TypeOK' => \A v \in Warehouse : Papers(v)' = Papers(v) + (IF v = w THEN qty ELSE 0)
  PROVE  SaleInv'
<1>1. /\ UNCHANGED <<orders, notes, requests, backing, held, freed, given, raced>>
      /\ TypeOK /\ orders \in OrderTable /\ held \in [Order -> Nat]
      /\ onHand \in [Warehouse -> Nat] /\ "default" \in Warehouse
  BY SalesStay DEF SaleInv, TypeOK, SalesTypeOK, Warehouse
<1>2. HeldByAll \in Nat /\ HeldByAll' = HeldByAll /\ HeldByAll <= onHand["default"]
  BY <1>1, Weights, SumBounds DEF SaleInv, WeightTypes, HeldByAll, HeldIsThere
<1>3. \A v \in Warehouse : onHand'[v] = onHand[v] + (IF v = w THEN qty ELSE 0)
  BY <1>1 DEF Moved
<1>4. /\ qty < 0 => -qty <= onHand[w]
      /\ qty < 0 /\ w = "default" => -qty <= onHand[w] - HeldByAll
  BY <1>1, <1>2 DEF CanMove, Available
<1>5. onHand' \in [Warehouse -> Nat]
  <2>1. onHand[w] + qty \in Nat
    BY <1>1, <1>4
  <2>. QED  BY <1>1, <2>1 DEF Moved
<1>6. TypeOK'
  BY <1>1, <1>5, TypesKept DEF SaleInv
<1>7. HeldIsThere'
  <2>1. HeldByAll <= onHand'["default"]
    BY <1>1, <1>2, <1>3, <1>4
  <2>. QED  BY <1>2, <2>1 DEF HeldIsThere
<1>8. /\ \A p \in Order : Shipped(p)' = Shipped(p)
      /\ \A v \in Warehouse : SumFunction(ShippedFrom(v))' = SumFunction(ShippedFrom(v))
  BY <1>1, <1>6, NotesStay
<1>9. ASSUME NEW v \in Warehouse PROVE StockSafe(v)'
  <2>1. PICK papers, shipped, first, more :
          /\ papers = Papers(v) /\ shipped = SumFunction(ShippedFrom(v))
          /\ first = AtFirst(v) /\ more = IF v = w THEN qty ELSE 0
    OBVIOUS
  <2>2. /\ papers \in Int /\ shipped \in Int /\ first \in Int /\ more \in Int
        /\ onHand[v] = first + papers - shipped
    BY <1>1, <2>1, PapersAreStock DEF PapersCount, SaleInv
  <2>3. onHand'[v] = first + (papers + more) - shipped
    BY <1>3, <2>1, <2>2
  <2>4. /\ Papers(v)' = papers + more /\ SumFunction(ShippedFrom(v))' = shipped
        /\ AtFirst(v)' = first
    BY <1>6, <1>8, <2>1 DEF AtFirst
  <2>5. StockSafe(v)' <=>
          onHand'[v] = AtFirst(v)' + Papers(v)' - SumFunction(ShippedFrom(v))'
    BY <1>6, PapersAfter DEF PapersCount
  <2>. QED  BY <2>3, <2>4, <2>5
<1>. QED  BY <1>1, <1>6, <1>7, <1>8, <1>9, StockMoves

\* Papers that add nothing.
LEMMA PaperStays ==
  ASSUME SaleInv, Inv', StockInv', StockNext, onHand' = onHand,
         TypeOK' => \A v \in Warehouse : Papers(v)' = Papers(v)
  PROVE  SaleInv'
<1>1. onHand \in [Warehouse -> Nat] /\ "default" \in Warehouse
  BY DEF SaleInv, TypeOK, SalesTypeOK, Warehouse
<1>2. CanMove("default", 0) /\ onHand' = Moved("default", 0)
  BY <1>1 DEF CanMove, Moved
<1>3. TypeOK' => \A v \in Warehouse : Papers(v)' = Papers(v) + (IF v = "default" THEN 0 ELSE 0)
  BY PapersAreStock DEF SaleInv, PapersCount
<1>. QED  BY <1>1, <1>2, <1>3, PaperMoves

\* One transfer changes the papers by what it weighs.
LEMMA TransferPapers ==
  ASSUME TypeOK, TypeOK', NEW t \in Transfer, NEW v \in Warehouse,
         \A u \in Transfer \ {t} : transfers'[u] = transfers[u], UNCHANGED <<sheets, manual>>
  PROVE  /\ CameTo(v)[t] \in Int /\ CameTo(v)'[t] \in Int
         /\ LeftFrom(v)[t] \in Int /\ LeftFrom(v)'[t] \in Int
         /\ Papers(v)' = Papers(v) + (CameTo(v)'[t] - CameTo(v)[t])
                                   - (LeftFrom(v)'[t] - LeftFrom(v)[t])
<1>1. /\ IsFiniteSet(Transfer)
      /\ CameTo(v) \in [Transfer -> Int] /\ CameTo(v)' \in [Transfer -> Int]
      /\ LeftFrom(v) \in [Transfer -> Int] /\ LeftFrom(v)' \in [Transfer -> Int]
      /\ IsFiniteSet(Sheet) /\ PostedAt(v) \in [Sheet -> Int]
  BY Weights, WeightsAfter DEF WeightTypes
<1>2. \A u \in Transfer \ {t} : CameTo(v)'[u] = CameTo(v)[u] /\ LeftFrom(v)'[u] = LeftFrom(v)[u]
  BY DEF CameTo, LeftFrom
<1>3. PostedAt(v)' = PostedAt(v)
  BY DEF PostedAt, Variance
<1>4. /\ SumFunction(CameTo(v)) \in Int /\ SumFunction(CameTo(v)') \in Int
      /\ SumFunction(CameTo(v)') = SumFunction(CameTo(v)) - CameTo(v)[t] + CameTo(v)'[t]
  BY <1>1, <1>2, OneWeight
<1>5. /\ SumFunction(LeftFrom(v)) \in Int /\ SumFunction(LeftFrom(v)') \in Int
      /\ SumFunction(LeftFrom(v)') = SumFunction(LeftFrom(v)) - LeftFrom(v)[t] + LeftFrom(v)'[t]
  BY <1>1, <1>2, OneWeight
<1>6. PICK came, left, posted, a, b, c, d :
        /\ came = SumFunction(CameTo(v)) /\ left = SumFunction(LeftFrom(v))
        /\ posted = SumFunction(PostedAt(v))
        /\ a = CameTo(v)[t] /\ b = CameTo(v)'[t] /\ c = LeftFrom(v)[t] /\ d = LeftFrom(v)'[t]
  OBVIOUS
<1>7. /\ Papers(v) = manual[v] + came + posted - left
      /\ Papers(v)' = manual[v] + (came - a + b) + posted - (left - c + d)
  BY <1>3, <1>4, <1>5, <1>6 DEF Papers
<1>8. /\ came \in Int /\ left \in Int /\ posted \in Int /\ manual[v] \in Int
      /\ a \in Int /\ b \in Int /\ c \in Int /\ d \in Int
  BY <1>1, <1>4, <1>5, <1>6, SumIsAnInteger DEF TypeOK
<1>9. Papers(v)' = Papers(v) + (b - a) - (d - c)
  BY <1>7, <1>8
<1>. QED  BY <1>6, <1>8, <1>9

\* One sheet changes them by the variance it has posted.
LEMMA SheetPapers ==
  ASSUME TypeOK, TypeOK', NEW s \in Sheet, NEW v \in Warehouse,
         \A r \in Sheet \ {s} : sheets'[r] = sheets[r], UNCHANGED <<transfers, manual>>
  PROVE  /\ PostedAt(v)[s] \in Int /\ PostedAt(v)'[s] \in Int
         /\ Papers(v)' = Papers(v) + (PostedAt(v)'[s] - PostedAt(v)[s])
<1>1. /\ IsFiniteSet(Transfer) /\ CameTo(v) \in [Transfer -> Int]
      /\ LeftFrom(v) \in [Transfer -> Int]
      /\ IsFiniteSet(Sheet) /\ PostedAt(v) \in [Sheet -> Int] /\ PostedAt(v)' \in [Sheet -> Int]
  BY Weights, WeightsAfter DEF WeightTypes
<1>2. \A r \in Sheet \ {s} : PostedAt(v)'[r] = PostedAt(v)[r]
  BY DEF PostedAt, Variance
<1>3. CameTo(v)' = CameTo(v) /\ LeftFrom(v)' = LeftFrom(v)
  BY DEF CameTo, LeftFrom
<1>4. /\ SumFunction(PostedAt(v)) \in Int /\ SumFunction(PostedAt(v)') \in Int
      /\ SumFunction(PostedAt(v)') = SumFunction(PostedAt(v)) - PostedAt(v)[s] + PostedAt(v)'[s]
  BY <1>1, <1>2, OneWeight
<1>5. PICK came, left, posted, a, b :
        /\ came = SumFunction(CameTo(v)) /\ left = SumFunction(LeftFrom(v))
        /\ posted = SumFunction(PostedAt(v)) /\ a = PostedAt(v)[s] /\ b = PostedAt(v)'[s]
  OBVIOUS
<1>6. /\ Papers(v) = manual[v] + came + posted - left
      /\ Papers(v)' = manual[v] + came + (posted - a + b) - left
  BY <1>3, <1>4, <1>5 DEF Papers
<1>7. /\ came \in Int /\ left \in Int /\ posted \in Int /\ manual[v] \in Int
      /\ a \in Int /\ b \in Int
  BY <1>1, <1>4, <1>5, SumIsAnInteger DEF TypeOK
<1>8. Papers(v)' = Papers(v) + (b - a)
  BY <1>6, <1>7
<1>. QED  BY <1>5, <1>7, <1>8

\* Movements by hand are on paper as they happen.
LEMMA HandSteps ==
  ASSUME SaleInv, Inv', StockInv', StockNext, MovementNext
  PROVE  SaleInv'
<1>1. PICK w \in Warehouse, qty \in Int : MoveByHand(w, qty)
  BY SignedIsAnInteger DEF MovementNext
<1>2. /\ CanMove(w, qty) /\ onHand' = Moved(w, qty)
      /\ UNCHANGED <<sheets, transfers>>
      /\ \A v \in Warehouse : manual'[v] = manual[v] + (IF v = w THEN qty ELSE 0)
  BY <1>1 DEF MoveByHand, SaleInv, TypeOK
<1>3. ASSUME TypeOK', NEW v \in Warehouse
      PROVE  Papers(v)' = Papers(v) + (IF v = w THEN qty ELSE 0)
  <2>1. /\ CameTo(v)' = CameTo(v) /\ LeftFrom(v)' = LeftFrom(v)
        /\ PostedAt(v)' = PostedAt(v)
    BY <1>2 DEF CameTo, LeftFrom, PostedAt, Variance
  <2>2. PICK came, left, posted :
          /\ came = SumFunction(CameTo(v)) /\ left = SumFunction(LeftFrom(v))
          /\ posted = SumFunction(PostedAt(v))
    OBVIOUS
  <2>3. came \in Int /\ left \in Int /\ posted \in Int /\ manual[v] \in Int
    BY <2>2, Weights, SumIsAnInteger DEF SaleInv, WeightTypes, TypeOK
  <2>4. /\ Papers(v) = manual[v] + came + posted - left
        /\ Papers(v)' = manual'[v] + came + posted - left
    BY <2>1, <2>2 DEF Papers
  <2>. QED  BY <1>2, <2>3, <2>4
<1>. QED  BY <1>2, <1>3, PaperMoves

\* A transfer takes what it carries from one warehouse when it is shipped and
\* gives it to the other when it is received, and not before.
LEMMA TransferSteps ==
  ASSUME SaleInv, Inv', StockInv', StockNext, TransferNext
  PROVE  SaleInv'
<1>1. PICK t \in Transfer :
        \/ \E from, to \in Warehouse, qty \in Qty : CreateTransfer(t, from, to, qty)
        \/ ShipTransfer(t) \/ ReceiveTransfer(t) \/ CancelTransfer(t)
  BY DEF TransferNext
<1>2. /\ UNCHANGED <<sheets, manual>> /\ TypeOK /\ transfers \in TransferTable
      /\ \A u \in Transfer \ {t} : transfers'[u] = transfers[u]
  BY <1>1 DEF CreateTransfer, InsertTransfer, ShipTransfer, ReceiveTransfer, CancelTransfer,
              MoveTransfer, SaveTransfer, TransferRest, SaleInv, TypeOK, TransferTable
<1>3. ASSUME NEW to \in {"IN_TRANSIT", "RECEIVED", "CANCELLED"}, MoveTransfer(t, to)
      PROVE  /\ transfers[t] \in TransferRow /\ <<transfers[t].status, to>> \in TransferMoves
             /\ transfers'[t].status = to /\ transfers'[t].from = transfers[t].from
             /\ transfers'[t].to = transfers[t].to /\ transfers'[t].qty = transfers[t].qty
  <2>1. transfers[t].status # "NONE" /\ <<transfers[t].status, to>> \in TransferMoves
    BY <1>3 DEF MoveTransfer, TransferMoves
  <2>2. transfers[t] \in TransferRow
    BY <1>2, <2>1, Rows DEF RowFacts
  <2>3. transfers'[t] = [transfers[t] EXCEPT !.status = to]
    BY <1>2, <1>3 DEF MoveTransfer, SaveTransfer, TransferTable
  <2>. QED  BY <2>1, <2>2, <2>3 DEF TransferRow
<1>4. CASE \E from, to \in Warehouse, qty \in Qty : CreateTransfer(t, from, to, qty)
  <2>1. /\ transfers[t].status = "NONE" /\ transfers'[t].status = "DRAFT" /\ onHand' = onHand
    BY <1>2, <1>4 DEF CreateTransfer, InsertTransfer, NewTransfer, NoDoc, TransferTable
  <2>2. ASSUME TypeOK', NEW v \in Warehouse PROVE Papers(v)' = Papers(v)
    <3>1. /\ CameTo(v)[t] = 0 /\ CameTo(v)'[t] = 0
          /\ LeftFrom(v)[t] = 0 /\ LeftFrom(v)'[t] = 0
      BY <2>1 DEF CameTo, LeftFrom
    <3>2. Papers(v) \in Int
      BY <1>2, PapersAreStock DEF PapersCount
    <3>. QED  BY <1>2, <2>2, <3>1, <3>2, TransferPapers
  <2>. QED  BY <2>1, <2>2, PaperStays
<1>5. CASE CancelTransfer(t)
  <2>1. /\ transfers[t].status = "DRAFT" /\ transfers'[t].status = "CANCELLED"
        /\ onHand' = onHand
    BY <1>3, <1>5 DEF CancelTransfer, TransferMoves
  <2>2. ASSUME TypeOK', NEW v \in Warehouse PROVE Papers(v)' = Papers(v)
    <3>1. /\ CameTo(v)[t] = 0 /\ CameTo(v)'[t] = 0
          /\ LeftFrom(v)[t] = 0 /\ LeftFrom(v)'[t] = 0
      BY <2>1 DEF CameTo, LeftFrom
    <3>2. Papers(v) \in Int
      BY <1>2, PapersAreStock DEF PapersCount
    <3>. QED  BY <1>2, <2>2, <3>1, <3>2, TransferPapers
  <2>. QED  BY <2>1, <2>2, PaperStays
<1>6. CASE ShipTransfer(t)
  <2>1. PICK from, qty : from = transfers[t].from /\ qty = transfers[t].qty
    OBVIOUS
  <2>2. /\ transfers[t].status = "DRAFT" /\ transfers'[t].status = "IN_TRANSIT"
        /\ transfers'[t].from = from /\ transfers'[t].qty = qty
        /\ from \in Warehouse /\ qty \in Nat
    BY <1>2, <1>3, <1>6, <2>1, Rows
       DEF ShipTransfer, TransferMoves, TransferRow, RowFacts
  <2>3. CanMove(from, -qty) /\ onHand' = Moved(from, -qty) /\ -qty \in Int
    BY <1>6, <2>1, <2>2 DEF ShipTransfer, Signed, Inbound
  <2>4. ASSUME TypeOK', NEW v \in Warehouse
        PROVE  Papers(v)' = Papers(v) + (IF v = from THEN -qty ELSE 0)
    <3>1. /\ CameTo(v)[t] = 0 /\ CameTo(v)'[t] = 0
          /\ LeftFrom(v)[t] = 0 /\ LeftFrom(v)'[t] = IF v = from THEN qty ELSE 0
      BY <2>2 DEF CameTo, LeftFrom
    <3>2. Papers(v) \in Int
      BY <1>2, PapersAreStock DEF PapersCount
    <3>3. Papers(v)' = Papers(v) + (CameTo(v)'[t] - CameTo(v)[t])
                                 - (LeftFrom(v)'[t] - LeftFrom(v)[t])
      BY <1>2, <2>4, TransferPapers
    <3>. QED  BY <2>2, <3>1, <3>2, <3>3
  <2>. QED  BY <2>2, <2>3, <2>4, PaperMoves
<1>7. CASE ReceiveTransfer(t)
  <2>1. PICK to, from, qty :
          to = transfers[t].to /\ from = transfers[t].from /\ qty = transfers[t].qty
    OBVIOUS
  <2>2. /\ transfers[t].status = "IN_TRANSIT" /\ transfers'[t].status = "RECEIVED"
        /\ transfers'[t].from = from /\ transfers'[t].to = to /\ transfers'[t].qty = qty
        /\ to \in Warehouse /\ qty \in Nat
    BY <1>2, <1>3, <1>7, <2>1, Rows
       DEF ReceiveTransfer, TransferMoves, TransferRow, RowFacts
  <2>3. CanMove(to, qty) /\ onHand' = Moved(to, qty) /\ qty \in Int
    BY <1>7, <2>1, <2>2 DEF ReceiveTransfer, Signed, Inbound, CanMove
  <2>4. ASSUME TypeOK', NEW v \in Warehouse
        PROVE  Papers(v)' = Papers(v) + (IF v = to THEN qty ELSE 0)
    <3>1. /\ CameTo(v)[t] = 0 /\ CameTo(v)'[t] = IF v = to THEN qty ELSE 0
          /\ LeftFrom(v)'[t] = LeftFrom(v)[t]
      BY <2>1, <2>2 DEF CameTo, LeftFrom
    <3>2. Papers(v) \in Int /\ LeftFrom(v)[t] \in Int
      BY <1>2, PapersAreStock, <2>4, TransferPapers DEF PapersCount
    <3>3. Papers(v)' = Papers(v) + (CameTo(v)'[t] - CameTo(v)[t])
                                 - (LeftFrom(v)'[t] - LeftFrom(v)[t])
      BY <1>2, <2>4, TransferPapers
    <3>. QED  BY <2>2, <3>1, <3>2, <3>3
  <2>. QED  BY <2>2, <2>3, <2>4, PaperMoves
<1>. QED  BY <1>1, <1>4, <1>5, <1>6, <1>7

\* A sheet that posts nothing.
LEMMA SheetIdles ==
  ASSUME SaleInv, Inv', StockInv', StockNext, NEW s \in Sheet,
         \A r \in Sheet \ {s} : sheets'[r] = sheets[r],
         UNCHANGED <<transfers, manual, onHand>>,
         sheets[s].status # "POSTED", sheets'[s].status # "POSTED" \/ Variance(s)' = 0
  PROVE  SaleInv'
<1>1. ASSUME TypeOK', NEW v \in Warehouse PROVE Papers(v)' = Papers(v)
  <2>1. PostedAt(v)[s] = 0 /\ PostedAt(v)'[s] = 0
    BY DEF PostedAt
  <2>2. Papers(v) \in Int
    BY PapersAreStock DEF SaleInv, PapersCount
  <2>3. Papers(v)' = Papers(v) + (PostedAt(v)'[s] - PostedAt(v)[s])
    BY <1>1, SheetPapers DEF SaleInv
  <2>. QED  BY <2>1, <2>2, <2>3
<1>. QED  BY <1>1, PaperStays

\* A sheet that posts its variance, once.
LEMMA SheetPosts ==
  ASSUME SaleInv, Inv', StockInv', StockNext, NEW s \in Sheet,
         sheets[s].status \in {"COUNTING", "REVIEW"},
         SaveSheet(s, [sheets[s] EXCEPT !.status = "POSTED"]),
         UNCHANGED <<transfers, manual>>, PostAdjustment(s)
  PROVE  SaleInv'
<1>1. PICK w, more : w = sheets[s].at /\ more = Variance(s)
  OBVIOUS
<1>2. sheets[s] \in SheetRow /\ sheets \in SheetTable
  BY Rows DEF SaleInv, RowFacts, TypeOK
<1>3. w \in Warehouse /\ more \in Int
  BY <1>1, <1>2 DEF SheetRow, Variance, Uncounted
<1>4. /\ sheets' = [sheets EXCEPT ![s] = [sheets[s] EXCEPT !.status = "POSTED"]]
      /\ \A r \in Sheet \ {s} : sheets'[r] = sheets[r]
  BY <1>2 DEF SaveSheet, SheetTable
<1>5. sheets'[s] = [sheets[s] EXCEPT !.status = "POSTED"]
  BY <1>2, <1>4 DEF SheetTable
<1>6. /\ sheets'[s].status = "POSTED" /\ sheets'[s].at = w
      /\ sheets'[s].counted = sheets[s].counted /\ sheets'[s].system = sheets[s].system
  BY <1>1, <1>2, <1>5 DEF SheetRow
<1>7. Variance(s)' = more
  BY <1>1, <1>6 DEF Variance
<1>8. CanMove(w, more) /\ onHand' = Moved(w, more)
  BY <1>1 DEF PostAdjustment
<1>9. ASSUME TypeOK', NEW v \in Warehouse
      PROVE  Papers(v)' = Papers(v) + (IF v = w THEN more ELSE 0)
  <2>1. PostedAt(v)[s] = 0 /\ PostedAt(v)'[s] = IF v = w THEN more ELSE 0
    BY <1>6, <1>7 DEF PostedAt
  <2>2. Papers(v) \in Int
    BY PapersAreStock DEF SaleInv, PapersCount
  <2>3. Papers(v)' = Papers(v) + (PostedAt(v)'[s] - PostedAt(v)[s])
    BY <1>4, <1>9, SheetPapers DEF SaleInv
  <2>. QED  BY <1>3, <2>1, <2>2, <2>3
<1>. QED  BY <1>3, <1>8, <1>9, PaperMoves

\* Counts: everything short of posting leaves the stock alone.
LEMMA CountSteps ==
  ASSUME SaleInv, Inv', StockInv', StockNext, CountNext
  PROVE  SaleInv'
<1>1. PICK s \in Sheet :
        \/ \E w \in Warehouse : FreezeSheet(s, w)
        \/ \E outcome \in {"NONE", "PENDING", "APPROVED"} : SubmitCount(s, outcome)
        \/ CreateSheet(s) \/ StartCount(s) \/ RecordCounts(s) \/ PostCount(s)
        \/ Recount(s) \/ CancelCount(s)
  BY DEF CountNext
<1>2. /\ UNCHANGED <<transfers, manual>> /\ sheets \in SheetTable
      /\ \A r \in Sheet \ {s} : sheets'[r] = sheets[r]
  BY <1>1 DEF FreezeSheet, CreateSheet, InsertSheet, SaveSheet, MoveSheet, StartCount,
              RecordCounts, SubmitCount, PostCount, Recount, CancelCount, CountRest,
              SaleInv, TypeOK, SheetTable
<1>3. ASSUME NEW row, sheets[s].status # "NONE",
             SaveSheet(s, row) PROVE sheets'[s] = row
  BY <1>2, <1>3 DEF SaveSheet, SheetTable
<1>4. ASSUME sheets[s].status # "NONE"
      PROVE  /\ \A to : [sheets[s] EXCEPT !.status = to].status = to
             /\ \A n \in Nat : [sheets[s] EXCEPT !.counted = n].status = sheets[s].status
  <2>1. sheets[s] \in SheetRow
    BY <1>4, Rows DEF SaleInv, RowFacts
  <2>. QED  BY <2>1 DEF SheetRow
<1>5. CASE \E w \in Warehouse : FreezeSheet(s, w)
  <2>1. /\ sheets[s].status = "NONE" /\ sheets'[s].status = "FROZEN" /\ onHand' = onHand
    BY <1>2, <1>5 DEF FreezeSheet, NewSheet, NoDoc, SheetTable
  <2>. QED  BY <1>2, <2>1, SheetIdles
<1>6. CASE CreateSheet(s)
  <2>1. /\ sheets[s].status = "FROZEN" /\ onHand' = onHand
        /\ SaveSheet(s, [sheets[s] EXCEPT !.status = "DRAFT"])
    BY <1>2, <1>6 DEF CreateSheet, InsertSheet, SaveSheet, SheetTable
  <2>2. sheets'[s].status = "DRAFT"
    BY <1>3, <1>4, <2>1
  <2>. QED  BY <1>2, <2>1, <2>2, SheetIdles
<1>7. CASE \/ StartCount(s) \/ Recount(s) \/ CancelCount(s)
           \/ MoveSheet(s, "COUNTING") /\ onHand' = onHand
  <2>1. PICK to \in {"COUNTING", "CANCELLED"} : MoveSheet(s, to) /\ onHand' = onHand
    BY <1>7 DEF StartCount, Recount, CancelCount
  <2>2. /\ sheets[s].status \in {"DRAFT", "COUNTING", "REVIEW"}
        /\ SaveSheet(s, [sheets[s] EXCEPT !.status = to])
    BY <2>1 DEF MoveSheet, SheetMoves
  <2>3. sheets'[s].status = to
    BY <1>3, <1>4, <2>2
  <2>. QED  BY <1>2, <2>1, <2>2, <2>3, SheetIdles
<1>8. CASE RecordCounts(s)
  <2>1. /\ sheets[s].status = "COUNTING" /\ onHand' = onHand
        /\ \E n \in Nat : SaveSheet(s, [sheets[s] EXCEPT !.counted = n])
    BY <1>8 DEF RecordCounts, Counts
  <2>2. sheets'[s].status = "COUNTING"
    BY <1>3, <1>4, <2>1
  <2>. QED  BY <1>2, <2>1, <2>2, SheetIdles
<1>9. CASE PostCount(s)
  <2>1. CASE MoveSheet(s, "POSTED") /\ PostAdjustment(s)
    <3>1. /\ sheets[s].status = "REVIEW"
          /\ SaveSheet(s, [sheets[s] EXCEPT !.status = "POSTED"])
      BY <2>1 DEF MoveSheet, SheetMoves
    <3>. QED  BY <1>2, <2>1, <3>1, SheetPosts
  <2>2. CASE MoveSheet(s, "COUNTING") /\ onHand' = onHand
    BY <1>7, <2>2
  <2>. QED  BY <1>9, <2>1, <2>2 DEF PostCount
<1>10. ASSUME NEW outcome \in {"NONE", "PENDING", "APPROVED"}, SubmitCount(s, outcome)
       PROVE  SaleInv'
  <2>1. sheets[s].status = "COUNTING"
    BY <1>10 DEF SubmitCount, CanSubmitCount
  <2>2. CASE Variance(s) = 0
    <3>1. SaveSheet(s, [sheets[s] EXCEPT !.status = "POSTED"]) /\ onHand' = onHand
      BY <1>10, <2>2 DEF SubmitCount, PostedSheet
    <3>2. Variance(s)' = 0
      <4>1. sheets'[s] = [sheets[s] EXCEPT !.status = "POSTED"] /\ sheets[s] \in SheetRow
        BY <1>3, <2>1, <3>1, Rows DEF SaleInv, RowFacts
      <4>2. sheets'[s].counted = sheets[s].counted /\ sheets'[s].system = sheets[s].system
        BY <4>1 DEF SheetRow
      <4>. QED  BY <2>2, <4>2 DEF Variance
    <3>. QED  BY <1>2, <2>1, <3>1, <3>2, SheetIdles
  <2>3. CASE Variance(s) # 0 /\ outcome = "APPROVED"
    <3>1. SaveSheet(s, [sheets[s] EXCEPT !.status = "POSTED"]) /\ PostAdjustment(s)
      BY <1>10, <2>3 DEF SubmitCount, PostedSheet, PostsAtOnce
    <3>. QED  BY <1>2, <2>1, <3>1, SheetPosts
  <2>4. CASE Variance(s) # 0 /\ outcome # "APPROVED"
    <3>1. SaveSheet(s, [sheets[s] EXCEPT !.status = "REVIEW"]) /\ onHand' = onHand
      BY <1>10, <2>4 DEF SubmitCount, UnderReview, PostsAtOnce
    <3>2. sheets'[s].status = "REVIEW"
      BY <1>3, <1>4, <2>1, <3>1
    <3>. QED  BY <1>2, <2>1, <3>1, <3>2, SheetIdles
  <2>. QED  BY <2>2, <2>3, <2>4
<1>. QED  BY <1>1, <1>5, <1>6, <1>7, <1>8, <1>9, <1>10

\* Requests for adjustments post nothing.
LEMMA AnswerSteps ==
  ASSUME SaleInv, Inv', StockInv', StockNext, AdjustmentNext
  PROVE  SaleInv'
<1>1. UNCHANGED <<sheets, transfers, manual, onHand>>
  BY DEF AdjustmentNext, AnswerAdjustment, AskAdjustmentDirectly, CountRest
<1>2. ASSUME NEW v \in Warehouse PROVE Papers(v)' = Papers(v)
  BY <1>1 DEF Papers, CameTo, LeftFrom, PostedAt, Variance
<1>. QED  BY <1>1, <1>2, PaperStays

(***************************************************************************)
(* The invariant                                                           *)
(***************************************************************************)
\* At first there are no documents, and the warehouses hold what they hold.
LEMMA SaleInit == Init /\ StockInit => SaleInv
<1> SUFFICES ASSUME Init, StockInit PROVE SaleInv
  OBVIOUS
<1>1. TypeOK
  <2>1. quotations \in QuotationTable /\ call \in [Caller -> CallJob]
    BY DEF Init, QuoteInit, QuotationTable, CallJob
  <2>2. /\ orders \in OrderTable /\ notes \in NoteTable
        /\ requests \in [Order -> Request] /\ backing \in [Order -> Request]
        /\ held \in [Order -> Nat] /\ raced \in BOOLEAN
        /\ freed \subseteq Order /\ given \subseteq Order
    BY DEF Init, OrderTable, NoteTable, NoRequest, Request
  <2>3. onHand \in [Warehouse -> Nat]
    BY SalesAssumption DEF Init
  <2>4. /\ sheets \in SheetTable /\ transfers \in TransferTable
        /\ adjustments \in [Sheet -> Adjustment] /\ agreed \in [Sheet -> Adjustment]
        /\ manual \in [Warehouse -> Int]
    BY DEF StockInit, SheetTable, TransferTable, NoAdjustment, Adjustment
  <2>. QED  BY <2>1, <2>2, <2>3, <2>4 DEF TypeOK, SalesTypeOK, CallJob
<1>2. WeightTypes
  BY <1>1, Weights
<1>3. /\ \A o \in Order : orders[o] = NoDoc /\ held[o] = 0
      /\ \A n \in Note : notes[n].status = "NONE"
      /\ \A s \in Sheet : sheets[s].status = "NONE"
      /\ \A t \in Transfer : transfers[t].status = "NONE"
      /\ \A w \in Warehouse : manual[w] = 0 /\ onHand[w] = AtFirst(w)
  BY DEF Init, StockInit, NoDoc, AtFirst
<1>4. HeldByAll = 0 /\ SumFunction(Unwatched) = 0
  <2>1. \A o \in Order : held[o] = 0 /\ Unwatched[o] = 0
    BY <1>3 DEF Unwatched, NoDoc, ExposureStatuses
  <2>. QED  BY <1>2, <2>1, SumZeros DEF WeightTypes, HeldByAll
<1>5. ASSUME NEW o \in Order PROVE OrderSafe(o)
  <2>1. Shipped(o) = 0
    <3>1. \A n \in Note : ShippedFor(o)[n] = 0
      BY <1>3 DEF ShippedFor
    <3>. QED  BY <1>2, <3>1, SumZeros DEF WeightTypes, Shipped
  <2>2. orders[o].status = "NONE"
    BY <1>3 DEF NoDoc
  <2>. QED  BY <1>3, <2>1, <2>2 DEF OrderSafe, HoldSafe, DeliverySafe, BackedSafe, Live
<1>6. ASSUME NEW w \in Warehouse PROVE StockSafe(w)
  <2>1. /\ \A n \in Note : ShippedFrom(w)[n] = 0
        /\ \A t \in Transfer : CameTo(w)[t] = 0 /\ LeftFrom(w)[t] = 0
        /\ \A s \in Sheet : PostedAt(w)[s] = 0
    BY <1>3 DEF ShippedFrom, CameTo, LeftFrom, PostedAt
  <2>2. /\ SumFunction(ShippedFrom(w)) = 0 /\ SumFunction(CameTo(w)) = 0
        /\ SumFunction(LeftFrom(w)) = 0 /\ SumFunction(PostedAt(w)) = 0
    BY <1>2, <2>1, SumZeros DEF WeightTypes
  <2>3. AtFirst(w) \in Int
    BY SalesAssumption DEF AtFirst
  <2>. QED  BY <1>3, <2>2, <2>3 DEF StockSafe
<1>7. HeldIsThere /\ WithinLimit
  BY <1>3, <1>4, SalesAssumption DEF HeldIsThere, WithinLimit, AtFirst, Warehouse
<1>. QED  BY <1>1, <1>5, <1>6, <1>7 DEF SaleInv

\* Every step of sales and of the warehouse keeps it.
LEMMA SaleNext ==
  ASSUME Inv, StockInv, SaleInv, [(Next /\ UNCHANGED stockVars) \/ StockNext]_allVars
  PROVE  SaleInv'
<1>1. Inv' /\ StockInv'
  BY StocktakeNext
<1>2. CASE Next /\ UNCHANGED stockVars
  <2>1. CASE QuotationNext
    BY <1>1, <1>2, <2>1, QuietSteps
  <2>2. CASE ApprovalNext
    BY <1>1, <1>2, <2>2, RequestSteps
  <2>3. CASE OrderNext
    <3>1. CASE \E o \in Order, qty \in Qty :
                 CreateOrder(o, qty) \/ \E c \in Caller : ConvertQuotation(c, o, qty)
      BY <1>1, <1>2, <3>1, CreateSteps
    <3>2. CASE \E o \in Order :
                 (\E qty \in Qty : UpdateOrder(o, qty)) \/ ReopenOrder(o) \/ CancelOrder(o)
      BY <1>1, <1>2, <3>2, DraftSteps
    <3>3. CASE \E o \in Order : ConfirmOrder(o)
      BY <1>1, <1>2, <3>3, ConfirmSteps
    <3>4. CASE \E c \in Caller, o \in Order : BeginSubmit(c, o)
      BY <1>1, <1>2, <3>4, QuietSteps
    <3>5. CASE \E c \in Caller, outcome \in {"APPROVED", "PENDING"} : Submit(c, outcome)
      BY <1>1, <1>2, <3>5, SubmitOrderSteps
    <3>. QED  BY <2>3, <3>1, <3>2, <3>3, <3>4, <3>5 DEF OrderNext
  <2>4. CASE NoteNext
    BY <1>1, <1>2, <2>4, NoteWorkSteps, ShipSteps DEF NoteNext
  <2>5. CASE HandNext
    BY <1>1, <1>2, <2>5, HoldSteps
  <2>. QED  BY <1>2, <2>1, <2>2, <2>3, <2>4, <2>5 DEF Next
<1>3. CASE StockNext
  BY <1>1, <1>3, HandSteps, TransferSteps, CountSteps, AnswerSteps DEF StockNext
<1>4. CASE UNCHANGED allVars
  <2>1. /\ UNCHANGED <<orders, held, freed, given, requests, backing, raced>>
        /\ UNCHANGED <<onHand, notes, stockVars, quotations, call>>
    BY <1>4 DEF allVars, vars, saleVars
  <2>2. UNCHANGED <<sheets, adjustments, agreed, transfers, manual>>
    BY <2>1 DEF stockVars
  <2>3. TypeOK'
    BY <2>1, <2>2 DEF SaleInv, TypeOK, SalesTypeOK
  <2>. QED  BY <2>1, <2>3, NothingMoves
<1>. QED  BY <1>2, <1>3, <1>4

(***************************************************************************)
(* Theorems                                                                *)
(***************************************************************************)
\* A sum over the rows that count is the sum over the whole table.
LEMMA DeliveriesHold ==
  ASSUME SaleInv
  PROVE  DeliveriesHoldTogether
<1>1. HoldsFollowOrders
  BY DEF SaleInv, OrderSafe, HoldSafe, HeldIsThere, HoldsFollowOrders, Live
<1>2. ASSUME NEW o \in Order, orders[o] # NoDoc
      PROVE  LET shipped == {n \in Note : notes[n].status = "SHIPPED" /\ notes[n].order = o}
             IN  orders[o].delivered = SumFunction([n \in shipped |-> notes[n].qty])
  <2> DEFINE T == {n \in Note : notes[n].status = "SHIPPED" /\ notes[n].order = o}
             h == [n \in T |-> notes[n].qty]
  <2>1. IsFiniteSet(Note) /\ ShippedFor(o) \in [Note -> Int]
    BY Weights DEF SaleInv, WeightTypes
  <2>2. /\ T \in SUBSET Note /\ h \in [T -> Int]
        /\ \A n \in Note \ T : ShippedFor(o)[n] = 0
        /\ \A n \in T : h[n] = ShippedFor(o)[n]
    <3>1. \A n \in T : notes[n].qty = ShippedFor(o)[n]
      BY DEF ShippedFor
    <3>. QED  BY <2>1, <3>1 DEF ShippedFor
  <2>3. orders[o].delivered = SumFunction(ShippedFor(o))
    BY <1>2 DEF SaleInv, OrderSafe, DeliverySafe, Shipped
  <2> HIDE DEF T, h
  <2>4. SumFunction(h) = SumFunction(ShippedFor(o))
    BY <2>1, <2>2, SumNonZeros
  <2>. QED  BY <2>3, <2>4 DEF T, h
<1>3. DeliveredIsItsNotes
  BY <1>2 DEF SaleInv, OrderSafe, DeliverySafe, DeliveredIsItsNotes
<1>. QED  BY <1>1, <1>3 DEF DeliveriesHoldTogether

\* The same of the credit nobody looked at.
LEMMA CreditHolds ==
  ASSUME SaleInv
  PROVE  CreditIsWatched
<1> DEFINE T == {o \in Order : /\ orders[o].status \in {"PENDING_APPROVAL", "CONFIRMED",
                                                       "PARTIALLY_DELIVERED", "DELIVERED"}
                               /\ orders[o].credit = "OK"}
           h == [o \in T |-> orders[o].qty]
<1>1. IsFiniteSet(Order) /\ Unwatched \in [Order -> Int]
  BY Weights DEF SaleInv, WeightTypes
<1>2. /\ T \in SUBSET Order /\ h \in [T -> Int]
      /\ \A o \in Order \ T : Unwatched[o] = 0
      /\ \A o \in T : h[o] = Unwatched[o]
  <2>1. \A o \in T : orders[o].qty = Unwatched[o]
    BY DEF Unwatched, ExposureStatuses
  <2>. QED  BY <1>1, <2>1 DEF Unwatched, ExposureStatuses
<1>3. SumFunction(h) = SumFunction(Unwatched)
  <2> HIDE DEF T, h
  <2>. QED  BY <1>1, <1>2, SumNonZeros
<1>4. raced \/ SumFunction(h) <= Limit
  BY <1>3 DEF SaleInv, WithinLimit
<1>5. ASSUME NEW o \in Order,
             orders[o].status \in {"CONFIRMED", "PARTIALLY_DELIVERED", "DELIVERED"},
             orders[o].credit = "EXCEEDED"
      PROVE  backing[o].status = "APPROVED" /\ (backing[o].direct \/ ~ backing[o].atOnce)
  BY <1>5 DEF SaleInv, OrderSafe, BackedSafe, Live
<1>. QED  BY <1>4, <1>5 DEF CreditIsWatched

\* And of stock and its documents, in one warehouse.
StockFollows(w) ==
  LET left == {t \in Transfer : /\ transfers[t] # NoDoc /\ transfers[t].from = w
                                /\ transfers[t].status \in {"IN_TRANSIT", "RECEIVED"}}
      came == {t \in Transfer : /\ transfers[t] # NoDoc /\ transfers[t].to = w
                                /\ transfers[t].status = "RECEIVED"}
      shipped == {n \in Note : notes[n].status = "SHIPPED" /\ notes[n].from = w}
      posted == {s \in Sheet : sheets[s].status = "POSTED" /\ sheets[s].at = w}
  IN onHand[w] = AtFirst(w) + manual[w]
       + SumFunction([t \in came |-> transfers[t].qty])
       + SumFunction([s \in posted |-> Variance(s)])
       - SumFunction([t \in left |-> transfers[t].qty])
       - SumFunction([n \in shipped |-> notes[n].qty])

LEMMA StockHolds ==
  ASSUME SaleInv
  PROVE  StockFollowsDocuments
<1> SUFFICES ASSUME NEW w \in Warehouse
             PROVE  StockFollows(w)
  BY DEF StockFollowsDocuments, StockFollows, AtFirst
<1> DEFINE left == {t \in Transfer : /\ transfers[t] # NoDoc /\ transfers[t].from = w
                                     /\ transfers[t].status \in {"IN_TRANSIT", "RECEIVED"}}
           came == {t \in Transfer : /\ transfers[t] # NoDoc /\ transfers[t].to = w
                                     /\ transfers[t].status = "RECEIVED"}
           shipped == {n \in Note : notes[n].status = "SHIPPED" /\ notes[n].from = w}
           posted == {s \in Sheet : sheets[s].status = "POSTED" /\ sheets[s].at = w}
           L == [t \in left |-> transfers[t].qty]
           C == [t \in came |-> transfers[t].qty]
           N == [n \in shipped |-> notes[n].qty]
           P == [s \in posted |-> Variance(s)]
<1>1. /\ IsFiniteSet(Note) /\ IsFiniteSet(Sheet) /\ IsFiniteSet(Transfer)
      /\ ShippedFrom(w) \in [Note -> Int] /\ PostedAt(w) \in [Sheet -> Int]
      /\ LeftFrom(w) \in [Transfer -> Int] /\ CameTo(w) \in [Transfer -> Int]
  BY Weights DEF SaleInv, WeightTypes
<1>2. SumFunction(L) = SumFunction(LeftFrom(w))
  <2>1. \A t \in left : transfers[t].qty = LeftFrom(w)[t]
    BY DEF LeftFrom
  <2>2. /\ left \in SUBSET Transfer /\ L \in [left -> Int]
        /\ \A t \in left : L[t] = LeftFrom(w)[t]
        /\ \A t \in Transfer \ left : LeftFrom(w)[t] = 0
    BY <1>1, <2>1 DEF LeftFrom, NoDoc
  <2> HIDE DEF left, L
  <2>. QED  BY <1>1, <2>2, SumNonZeros
<1>3. SumFunction(C) = SumFunction(CameTo(w))
  <2>1. \A t \in came : transfers[t].qty = CameTo(w)[t]
    BY DEF CameTo
  <2>2. /\ came \in SUBSET Transfer /\ C \in [came -> Int]
        /\ \A t \in came : C[t] = CameTo(w)[t]
        /\ \A t \in Transfer \ came : CameTo(w)[t] = 0
    BY <1>1, <2>1 DEF CameTo, NoDoc
  <2> HIDE DEF came, C
  <2>. QED  BY <1>1, <2>2, SumNonZeros
<1>4. SumFunction(N) = SumFunction(ShippedFrom(w))
  <2>1. \A n \in shipped : notes[n].qty = ShippedFrom(w)[n]
    BY DEF ShippedFrom
  <2>2. /\ shipped \in SUBSET Note /\ N \in [shipped -> Int]
        /\ \A n \in shipped : N[n] = ShippedFrom(w)[n]
        /\ \A n \in Note \ shipped : ShippedFrom(w)[n] = 0
    BY <1>1, <2>1 DEF ShippedFrom
  <2> HIDE DEF shipped, N
  <2>. QED  BY <1>1, <2>2, SumNonZeros
<1>5. SumFunction(P) = SumFunction(PostedAt(w))
  <2>1. \A s \in posted : Variance(s) = PostedAt(w)[s]
    BY DEF PostedAt
  <2>2. /\ posted \in SUBSET Sheet /\ P \in [posted -> Int]
        /\ \A s \in posted : P[s] = PostedAt(w)[s]
        /\ \A s \in Sheet \ posted : PostedAt(w)[s] = 0
    BY <1>1, <2>1 DEF PostedAt
  <2> HIDE DEF posted, P
  <2>. QED  BY <1>1, <2>2, SumNonZeros
<1>6. onHand[w] = (IF w = "default" THEN Stock ELSE Elsewhere) + manual[w]
                  + SumFunction(C) + SumFunction(P) - SumFunction(L) - SumFunction(N)
  <2>1. StockSafe(w)
    BY DEF SaleInv
  <2> HIDE DEF left, came, shipped, posted, L, C, N, P
  <2>. QED  BY <1>2, <1>3, <1>4, <1>5, <2>1 DEF StockSafe, AtFirst
<1>. QED  BY <1>6 DEF StockFollows, AtFirst

\* Rows keep their types and no balance goes negative, for any stock and any
\* number of orders, notes, sheets, transfers and overlapping calls.
THEOREM TypeCorrect == StocktakeSpec => []TypeOK
<1>1. Inv /\ StockInv /\ SaleInv => TypeOK
  BY DEF SaleInv
<1>. QED  BY <1>1, StocktakeInit, StocktakeNext, SaleInit, SaleNext, PTL DEF StocktakeSpec

\* What an order still owes is held for it unless somebody released its hold by hand,
\* no two orders hold the same stock, and an order has delivered what its shipped notes say, never more than was ordered, however
\* many notes were drafted for it and from wherever they ship
\* (sales-order.use-cases.ts: reserveForOrder; delivery-note.use-cases.ts: Ship).
THEOREM DeliveriesSafe == StocktakeSpec => []DeliveriesHoldTogether
<1>. QED
  BY DeliveriesHold, StocktakeInit, StocktakeNext, SaleInit, SaleNext, PTL DEF StocktakeSpec

\* The orders nobody was asked to look at stay within any credit limit together,
\* unless submissions raced, and an order beyond it was approved by people or on a
\* request of the approval API (sales-order.use-cases.ts: Submit, Confirm).
THEOREM CreditSafe == StocktakeSpec => []CreditIsWatched
<1>. QED
  BY CreditHolds, StocktakeInit, StocktakeNext, SaleInit, SaleNext, PTL DEF StocktakeSpec

\* A warehouse holds what it had, what was moved by hand and what its documents
\* say, each counted once, for any documents in any order
\* (transfer.use-cases.ts: Ship, Receive; physical-count.use-cases.ts: postAdjustments;
\* delivery-note.use-cases.ts: Ship).
THEOREM StockSafelyFollows == StocktakeSpec => []StockFollowsDocuments
<1>. QED
  BY StockHolds, StocktakeInit, StocktakeNext, SaleInit, SaleNext, PTL DEF StocktakeSpec
=============================================================================
