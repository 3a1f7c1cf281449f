--------------------------- MODULE Payable_proofs ---------------------------
(***************************************************************************)
(* Proofs about purchasing and paying, in the composition with the ledger, *)
(* for any documents, callers, periods, sweeps and quantities.             *)
(*                                                                         *)
(* Inv relates one document to the request, sweep or batch it depends on.  *)
(* Books adds the sums: what is settled of an invoice and its posted       *)
(* vouchers, what is received of an order and its posted receipts, what is *)
(* billed of it, and what the entries of a document say of it.  A sum      *)
(* changes by what the saved rows weigh; a posting or a reversal changes   *)
(* the entries of its own documents.  A capture under way is part of Books *)
(* too: what it matched is still open when it is saved, unless another     *)
(* capture of the order met it.                                            *)
(***************************************************************************)
EXTENDS Payable, SumLemmas

(***************************************************************************)
(* Documents and their approval                                            *)
(***************************************************************************)
BuyShape ==
  /\ requisitions \in RequisitionTable /\ orders \in OrderTable
  /\ goodsReceipts \in GoodsReceiptTable
  /\ requests \in [Document -> Request \cup {NoRequest}]
  /\ backing \in [Document -> Request \cup {NoRequest}]

\* A request the document made is for what the document says.
Asked(d, row) == requests[d].own => requests[d].amount = row.qty

RequisitionSafe(q) ==
  /\ requisitions[q].status = "PENDING_APPROVAL" => Asked(q, requisitions[q])
  /\ requisitions[q].status \in {"APPROVED", "CONVERTED"} =>
       BackedByApproval(q, requisitions[q])
OrderSafe(o) ==
  /\ orders[o].status = "PENDING_APPROVAL" => Asked(o, orders[o])
  /\ orders[o].status \in {"ISSUED", "PARTIALLY_RECEIVED", "RECEIVED"} =>
       BackedByApproval(o, orders[o])

\* An order names the requisition that names it.
Linked ==
  \A q \in Requisition :
    /\ requisitions[q].status = "CONVERTED" => requisitions[q].order \in Order
    /\ \A o \in Order :
         orders[o] # NoDoc /\ orders[o].requisition = q <=>
           requisitions[q].status = "CONVERTED" /\ requisitions[q].order = o

BuyInv ==
  /\ BuyShape /\ Linked
  /\ \A q \in Requisition : RequisitionSafe(q)
  /\ \A o \in Order : OrderSafe(o)

\* Nothing but the request and the approval of d changes.
OnlyFor(d) ==
  /\ requests' \in [Document -> Request \cup {NoRequest}]
  /\ backing' \in [Document -> Request \cup {NoRequest}]
  /\ \A e \in Document \ {d} : requests'[e] = requests[e] /\ backing'[e] = backing[e]

\* A requisition that is not converted is saved as an asked or approved one.
LEMMA RequisitionSaved ==
  ASSUME BuyInv, NEW q \in Requisition, NEW row \in RequisitionRow,
         SaveRequisition(q, row), OnlyFor(q), UNCHANGED <<orders, goodsReceipts>>,
         requisitions[q].status # "CONVERTED", row.status # "CONVERTED",
         row.status = "PENDING_APPROVAL" =>
           (requests'[q].own => requests'[q].amount = row.qty),
         row.status = "APPROVED" =>
           /\ backing'[q].status = "APPROVED"
           /\ backing'[q].own => backing'[q].amount = row.qty
  PROVE  BuyInv'
<1>1. BuyShape'
  BY DEF BuyInv, BuyShape, SaveRequisition, OnlyFor, RequisitionTable
<1>2. requisitions'[q] = row
      /\ \A e \in Requisition \ {q} : requisitions'[e] = requisitions[e]
  BY DEF BuyInv, BuyShape, SaveRequisition, RequisitionTable
<1>3. Linked'
  BY <1>2 DEF BuyInv, Linked
<1>4. ASSUME NEW e \in Requisition PROVE RequisitionSafe(e)'
  <2>1. CASE e = q
    BY <1>2, <2>1 DEF RequisitionSafe, Asked, BackedByApproval
  <2>2. CASE e # q
    <3>1. RequisitionSafe(e) /\ e \in Document \ {q}
      BY <2>2 DEF BuyInv, Document
    <3>. QED  BY <1>2, <2>2, <3>1 DEF RequisitionSafe, Asked, BackedByApproval, OnlyFor
  <2>. QED  BY <2>1, <2>2
<1>5. ASSUME NEW o \in Order PROVE OrderSafe(o)'
  <2>1. OrderSafe(o) /\ o \in Document \ {q}
    BY ProcurementAssumption DEF BuyInv, Document
  <2>. QED  BY <2>1 DEF OrderSafe, Asked, BackedByApproval, OnlyFor
<1>. QED  BY <1>1, <1>3, <1>4, <1>5 DEF BuyInv

\* An order is saved, with the requisition it was drawn from before.
LEMMA OrderSaved ==
  ASSUME BuyInv, NEW o \in Order, NEW row \in OrderRow,
         SaveOrder(o, row), OnlyFor(o), UNCHANGED requisitions,
         goodsReceipts' \in GoodsReceiptTable,
         \A q \in Requisition : row.requisition = q <=>
           orders[o] # NoDoc /\ orders[o].requisition = q,
         row.status = "PENDING_APPROVAL" =>
           (requests'[o].own => requests'[o].amount = row.qty),
         row.status \in {"ISSUED", "PARTIALLY_RECEIVED", "RECEIVED"} =>
           /\ backing'[o].status = "APPROVED"
           /\ backing'[o].own => backing'[o].amount = row.qty
  PROVE  BuyInv'
<1>1. BuyShape'
  BY DEF BuyInv, BuyShape, SaveOrder, OnlyFor, OrderTable
<1>2. orders'[o] = row /\ row # NoDoc
      /\ \A e \in Order \ {o} : orders'[e] = orders[e]
  BY DEF BuyInv, BuyShape, SaveOrder, OrderTable, OrderRow, NoDoc
<1>3. Linked'
  BY <1>2 DEF BuyInv, Linked
<1>4. ASSUME NEW e \in Order PROVE OrderSafe(e)'
  <2>1. CASE e = o
    BY <1>2, <2>1 DEF OrderSafe, Asked, BackedByApproval
  <2>2. CASE e # o
    <3>1. OrderSafe(e) /\ e \in Document \ {o}
      BY <2>2 DEF BuyInv, Document
    <3>. QED  BY <1>2, <2>2, <3>1 DEF OrderSafe, Asked, BackedByApproval, OnlyFor
  <2>. QED  BY <2>1, <2>2
<1>5. ASSUME NEW q \in Requisition PROVE RequisitionSafe(q)'
  <2>1. RequisitionSafe(q) /\ q \in Document \ {o}
    BY ProcurementAssumption DEF BuyInv, Document
  <2>. QED  BY <2>1 DEF RequisitionSafe, Asked, BackedByApproval, OnlyFor
<1>. QED  BY <1>1, <1>3, <1>4, <1>5 DEF BuyInv

\* What a submission does to the request and the approval of its document.
LEMMA Submission ==
  ASSUME BuyShape, NEW d \in Document, NEW amount \in Qty, NEW outcome \in Outcome,
         Ask(d, amount, TRUE, outcome), Back(d, outcome = "APPROVED")
  PROVE  /\ OnlyFor(d)
         /\ requests'[d] = [status |-> outcome, amount |-> amount, own |-> TRUE]
         /\ outcome = "APPROVED" => backing'[d] = requests'[d]
<1> DEFINE asked == [status |-> outcome, amount |-> amount, own |-> TRUE]
<1>1. asked \in Request
  BY DEF Request, Outcome
<1>2. /\ requests' \in [Document -> Request \cup {NoRequest}]
      /\ requests'[d] = asked
      /\ \A e \in Document \ {d} : requests'[e] = requests[e]
  BY <1>1 DEF Ask, BuyShape
<1>. HIDE DEF asked
<1>3. CASE outcome = "APPROVED"
  <2>1. backing' = [backing EXCEPT ![d] = requests'[d]]
    BY <1>3 DEF Back
  <2>. QED  BY <1>1, <1>2, <2>1 DEF OnlyFor, BuyShape, asked
<1>4. CASE outcome # "APPROVED"
  <2>1. backing' = backing
    BY <1>4 DEF Back
  <2>. QED  BY <1>2, <1>4, <2>1 DEF OnlyFor, BuyShape, asked
<1>. QED  BY <1>3, <1>4

\* What an answer does to them.
LEMMA Answer ==
  ASSUME BuyShape, NEW d \in Document, NEW approved \in BOOLEAN, UNCHANGED requests,
         Back(d, approved)
  PROVE  /\ OnlyFor(d)
         /\ requests'[d] = requests[d]
         /\ approved => backing'[d] = requests[d]
<1>1. CASE approved
  <2>1. backing' = [backing EXCEPT ![d] = requests[d]]
    BY <1>1 DEF Back
  <2>. QED  BY <2>1 DEF OnlyFor, BuyShape
<1>2. CASE ~ approved
  BY <1>2 DEF Back, OnlyFor, BuyShape
<1>. QED  BY <1>1, <1>2

\* A requisition moves to another status, asked or approved anew.
LEMMA RequisitionMoved ==
  ASSUME BuyInv, NEW q \in Requisition, NEW to, MoveRequisition(q, to), OnlyFor(q),
         to \in {"DRAFT", "PENDING_APPROVAL", "APPROVED", "REJECTED", "CANCELLED"},
         to = "PENDING_APPROVAL" =>
           (requests'[q].own => requests'[q].amount = requisitions[q].qty),
         to = "APPROVED" =>
           /\ backing'[q].status = "APPROVED"
           /\ backing'[q].own => backing'[q].amount = requisitions[q].qty
  PROVE  BuyInv'
<1> DEFINE row == [requisitions[q] EXCEPT !.status = to]
<1>1. requisitions[q] \in RequisitionRow /\ requisitions[q].status # "CONVERTED"
  BY DEF MoveRequisition, RequisitionMoves, BuyInv, BuyShape, RequisitionTable, NoDoc
<1>2. row \in RequisitionRow /\ row.status = to /\ row.qty = requisitions[q].qty
  BY <1>1 DEF RequisitionRow
<1>3. SaveRequisition(q, row) /\ UNCHANGED <<orders, goodsReceipts>>
  BY DEF MoveRequisition
<1>. HIDE DEF row
<1>. QED  BY <1>1, <1>2, <1>3, RequisitionSaved

\* A requisition comes in, not asked for yet.
LEMMA RequisitionCreated ==
  ASSUME BuyInv, NEW q \in Requisition, NEW qty \in Qty, CreateRequisition(q, qty)
  PROVE  BuyInv'
<1>1. NewRequisition(qty) \in RequisitionRow /\ NewRequisition(qty).status = "DRAFT"
  BY DEF NewRequisition, RequisitionRow
<1>2. requisitions[q].status # "CONVERTED" /\ SaveRequisition(q, NewRequisition(qty))
  BY DEF CreateRequisition, InsertRequisition, SaveRequisition, NoDoc
<1>3. OnlyFor(q)
  BY DEF CreateRequisition, OnlyFor, BuyInv, BuyShape
<1>. QED  BY <1>1, <1>2, <1>3, RequisitionSaved DEF CreateRequisition

\* Every step on a requisition.
LEMMA RequisitionSteps ==
  ASSUME BuyInv, RequisitionNext
  PROVE  BuyInv'
<1>1. PICK q \in Requisition :
        \/ \E qty \in Qty : CreateRequisition(q, qty) \/ UpdateRequisition(q, qty)
        \/ \E outcome \in Outcome : SubmitRequisition(q, outcome)
        \/ ConfirmRequisition(q) \/ ReopenRequisition(q) \/ CancelRequisition(q)
  BY DEF RequisitionNext
<1>2. ASSUME UNCHANGED <<requests, backing>> PROVE OnlyFor(q)
  BY <1>2 DEF OnlyFor, BuyInv, BuyShape
<1>4. ASSUME NEW qty \in Qty, UpdateRequisition(q, qty) PROVE BuyInv'
  <2> DEFINE row == EditedRequisition(requisitions[q], qty)
  <2>1. requisitions[q] \in RequisitionRow /\ requisitions[q].status = "DRAFT"
    BY <1>4 DEF UpdateRequisition, BuyInv, BuyShape, RequisitionTable, NoDoc
  <2>2. row \in RequisitionRow /\ row.status = "DRAFT"
    BY <2>1 DEF RequisitionRow, EditedRequisition
  <2>3. SaveRequisition(q, row)
    BY <1>4 DEF UpdateRequisition
  <2>. HIDE DEF row
  <2>. QED  BY <1>2, <1>4, <2>1, <2>2, <2>3, RequisitionSaved DEF UpdateRequisition
<1>5. ASSUME NEW outcome \in Outcome, SubmitRequisition(q, outcome) PROVE BuyInv'
  <2> DEFINE to == SubmittedRequisition(outcome)
  <2>1. MoveRequisition(q, to) /\ Ask(q, requisitions[q].qty, TRUE, outcome)
        /\ Back(q, outcome = "APPROVED")
    BY <1>5 DEF SubmitRequisition
  <2>2. requisitions[q].qty \in Qty
    BY <2>1 DEF MoveRequisition, RequisitionMoves, BuyInv, BuyShape, RequisitionTable,
                RequisitionRow, NoDoc
  <2>3. /\ OnlyFor(q)
        /\ requests'[q] = [status |-> outcome, amount |-> requisitions[q].qty, own |-> TRUE]
        /\ outcome = "APPROVED" => backing'[q] = requests'[q]
    BY <2>1, <2>2, Submission DEF BuyInv, Document
  <2>4. to \in {"APPROVED", "PENDING_APPROVAL"} /\ (to = "APPROVED" => outcome = "APPROVED")
    BY DEF SubmittedRequisition
  <2>. HIDE DEF to
  <2>. QED  BY <2>1, <2>3, <2>4, RequisitionMoved
<1>6. CASE ConfirmRequisition(q)
  <2>1. PICK to \in RequisitionAnswered(q) :
          MoveRequisition(q, to) /\ UNCHANGED requests /\ Back(q, to = "APPROVED")
    BY <1>6 DEF ConfirmRequisition
  <2>2. /\ OnlyFor(q) /\ requests'[q] = requests[q]
        /\ to = "APPROVED" => backing'[q] = requests[q]
    BY <2>1, Answer DEF BuyInv, Document
  <2>3. /\ to \in {"DRAFT", "APPROVED", "REJECTED"}
        /\ to = "APPROVED" => requests[q].status = "APPROVED"
    <3>1. requests[q].status \in {"APPROVED", "REJECTED", "CANCELLED", "NONE", "PENDING"}
      BY DEF BuyInv, BuyShape, Request, NoRequest, Document
    <3>. QED  BY <3>1 DEF RequisitionAnswered, Answered
  <2>4. Asked(q, requisitions[q])
    BY <1>6 DEF ConfirmRequisition, BuyInv, RequisitionSafe
  <2>. QED  BY <2>1, <2>2, <2>3, <2>4, RequisitionMoved DEF Asked
<1>7. CASE ReopenRequisition(q) \/ CancelRequisition(q)
  BY <1>2, <1>7, RequisitionMoved DEF ReopenRequisition, CancelRequisition
<1>. QED  BY <1>1, RequisitionCreated, <1>4, <1>5, <1>6, <1>7

\* A request of a document is made, answered or withdrawn without it.
LEMMA ApprovalSteps ==
  ASSUME BuyInv, ApprovalNext
  PROVE  BuyInv'
<1>1. PICK d \in Document :
        \/ \E amount \in Qty, outcome \in Outcome : AskDirectly(d, amount, outcome)
        \/ \E verdict \in {"APPROVED", "REJECTED", "CANCELLED"} : Settle(d, verdict)
  BY DEF ApprovalNext
<1>2. /\ UNCHANGED <<requisitions, orders, goodsReceipts, backing>>
      /\ requests' \in [Document -> Request \cup {NoRequest}]
      /\ \A e \in Document : requests'[e].own =>
           requests[e].own /\ requests'[e].amount = requests[e].amount
  <2>1. ASSUME NEW amount \in Qty, NEW outcome \in Outcome, AskDirectly(d, amount, outcome)
        PROVE  <1>2!:
    <3>1. [status |-> outcome, amount |-> amount, own |-> FALSE] \in Request
      BY DEF Request, Outcome
    <3>. QED  BY <2>1, <3>1 DEF AskDirectly, Ask, BuyInv, BuyShape
  <2>2. ASSUME NEW verdict \in {"APPROVED", "REJECTED", "CANCELLED"}, Settle(d, verdict)
        PROVE  <1>2!:
    <3>1. requests[d] \in Request
      BY <2>2 DEF Settle, BuyInv, BuyShape, NoRequest
    <3>2. requests' = [requests EXCEPT ![d] = [requests[d] EXCEPT !.status = verdict]]
      BY <2>2 DEF Settle
    <3>3. /\ [requests[d] EXCEPT !.status = verdict] \in Request
          /\ [requests[d] EXCEPT !.status = verdict].own = requests[d].own
          /\ [requests[d] EXCEPT !.status = verdict].amount = requests[d].amount
      BY <3>1 DEF Request
    <3>. QED  BY <2>2, <3>2, <3>3 DEF Settle, BuyInv, BuyShape
  <2>. QED  BY <1>1, <2>1, <2>2
<1>3. BuyShape' /\ Linked'
  BY <1>2 DEF BuyInv, BuyShape, Linked
<1>4. ASSUME NEW q \in Requisition PROVE RequisitionSafe(q)'
  BY <1>2 DEF BuyInv, RequisitionSafe, Asked, BackedByApproval, Document
<1>5. ASSUME NEW o \in Order PROVE OrderSafe(o)'
  BY <1>2 DEF BuyInv, OrderSafe, Asked, BackedByApproval, Document
<1>. QED  BY <1>3, <1>4, <1>5 DEF BuyInv

\* An order moves to another status, asked or approved anew.
LEMMA OrderMoved ==
  ASSUME BuyInv, NEW o \in Order, NEW to, MoveOrder(o, to), OnlyFor(o),
         to \in {"DRAFT", "PENDING_APPROVAL", "ISSUED", "REJECTED", "CANCELLED"},
         to = "PENDING_APPROVAL" =>
           (requests'[o].own => requests'[o].amount = orders[o].qty),
         to = "ISSUED" =>
           /\ backing'[o].status = "APPROVED"
           /\ backing'[o].own => backing'[o].amount = orders[o].qty
  PROVE  BuyInv'
<1> DEFINE row == [orders[o] EXCEPT !.status = to]
<1>1. orders[o] \in OrderRow /\ orders[o] # NoDoc
  BY DEF MoveOrder, OrderMoves, BuyInv, BuyShape, OrderTable, NoDoc
<1>2. /\ row \in OrderRow /\ row.status = to /\ row.qty = orders[o].qty
      /\ row.requisition = orders[o].requisition
  BY <1>1 DEF OrderRow
<1>3. SaveOrder(o, row) /\ UNCHANGED <<requisitions, goodsReceipts>>
  BY DEF MoveOrder
<1>4. goodsReceipts' \in GoodsReceiptTable
  BY <1>3 DEF BuyInv, BuyShape
<1>. HIDE DEF row
<1>. QED  BY <1>1, <1>2, <1>3, <1>4, OrderSaved

\* Both sides of a conversion are saved in one transaction.
LEMMA ConversionKeeps ==
  ASSUME BuyInv, NEW o \in Order, NEW q \in Requisition, NEW qty \in Qty,
         ConvertRequisition(o, q, qty)
  PROVE  BuyInv'
<1> DEFINE row == Converted(requisitions[q], o)
           new == NewOrder(qty, q)
<1>1. /\ requisitions[q] \in RequisitionRow /\ requisitions[q].status = "APPROVED"
      /\ orders[o] = NoDoc
      /\ requisitions' = [requisitions EXCEPT ![q] = row]
      /\ orders' = [orders EXCEPT ![o] = new]
      /\ UNCHANGED <<goodsReceipts, requests, backing>>
  BY DEF ConvertRequisition, IsConvertible, InsertOrder, SaveRequisition, BuyInv,
         BuyShape, RequisitionTable, NoDoc
<1>2. /\ row \in RequisitionRow /\ row.status = "CONVERTED" /\ row.order = o
      /\ row.qty = requisitions[q].qty
  BY <1>1 DEF Converted, RequisitionRow
<1>3. /\ new \in OrderRow /\ new # NoDoc /\ new.requisition = q
      /\ new.status = "DRAFT"
  BY ProcurementAssumption DEF NewOrder, OrderRow, NoDoc, Qty
<1>. HIDE DEF row, new
<1>4. BuyShape'
  BY <1>1, <1>2, <1>3 DEF BuyInv, BuyShape, RequisitionTable, OrderTable
<1>5. /\ requisitions'[q] = row /\ orders'[o] = new
      /\ \A e \in Requisition \ {q} : requisitions'[e] = requisitions[e]
      /\ \A e \in Order \ {o} : orders'[e] = orders[e]
  BY <1>1 DEF BuyInv, BuyShape, RequisitionTable, OrderTable
<1>6. Linked'
  <2> SUFFICES ASSUME NEW e \in Requisition
               PROVE  /\ requisitions'[e].status = "CONVERTED" =>
                           requisitions'[e].order \in Order
                      /\ \A k \in Order :
                           orders'[k] # NoDoc /\ orders'[k].requisition = e <=>
                             requisitions'[e].status = "CONVERTED"
                             /\ requisitions'[e].order = k
    BY DEF Linked
  <2>1. CASE e = q
    BY <1>1, <1>2, <1>3, <1>5, <2>1 DEF BuyInv, Linked
  <2>2. CASE e # q
    BY <1>1, <1>3, <1>5, <2>2 DEF BuyInv, Linked
  <2>. QED  BY <2>1, <2>2
<1>7. ASSUME NEW e \in Requisition PROVE RequisitionSafe(e)'
  <2>1. RequisitionSafe(e) /\ RequisitionSafe(q)
    BY DEF BuyInv
  <2>. QED  BY <1>1, <1>2, <1>5, <2>1 DEF RequisitionSafe, Asked, BackedByApproval
<1>8. ASSUME NEW e \in Order PROVE OrderSafe(e)'
  <2>1. OrderSafe(e)
    BY DEF BuyInv
  <2>. QED  BY <1>1, <1>3, <1>5, <2>1 DEF OrderSafe, Asked, BackedByApproval
<1>. QED  BY <1>4, <1>6, <1>7, <1>8 DEF BuyInv

\* Every step on an order.
LEMMA OrderSteps ==
  ASSUME BuyInv, OrderNext
  PROVE  BuyInv'
<1>1. PICK o \in Order :
        \/ \E qty \in Qty : \/ CreateOrder(o, qty) \/ UpdateOrder(o, qty)
                            \/ \E q \in Requisition : ConvertRequisition(o, q, qty)
        \/ \E outcome \in Outcome : SubmitOrder(o, outcome)
        \/ ConfirmOrder(o) \/ ReopenOrder(o) \/ CancelOrder(o)
  BY DEF OrderNext
<1>2. ASSUME UNCHANGED <<requests, backing>> PROVE OnlyFor(o)
  BY <1>2 DEF OnlyFor, BuyInv, BuyShape
<1>3. ASSUME NEW qty \in Qty, CreateOrder(o, qty) PROVE BuyInv'
  <2>1. /\ NewOrder(qty, NoDoc) \in OrderRow /\ NewOrder(qty, NoDoc).status = "DRAFT"
        /\ NewOrder(qty, NoDoc).requisition \notin Requisition
    BY ProcurementAssumption, NoDocAssumption DEF NewOrder, OrderRow, Qty
  <2>2. orders[o] = NoDoc /\ SaveOrder(o, NewOrder(qty, NoDoc))
        /\ goodsReceipts' \in GoodsReceiptTable
    BY <1>3 DEF CreateOrder, InsertOrder, SaveOrder, BuyInv, BuyShape
  <2>. QED  BY <1>2, <1>3, <2>1, <2>2, OrderSaved DEF CreateOrder
<1>4. ASSUME NEW qty \in Qty, UpdateOrder(o, qty) PROVE BuyInv'
  <2> DEFINE row == EditedOrder(orders[o], qty)
  <2>1. orders[o] \in OrderRow /\ orders[o] # NoDoc /\ orders[o].status = "DRAFT"
        /\ goodsReceipts' \in GoodsReceiptTable
    BY <1>4 DEF UpdateOrder, BuyInv, BuyShape, OrderTable, NoDoc
  <2>2. /\ row \in OrderRow /\ row.status = "DRAFT"
        /\ row.requisition = orders[o].requisition
    BY <2>1 DEF OrderRow, EditedOrder
  <2>3. SaveOrder(o, row)
    BY <1>4 DEF UpdateOrder
  <2>. HIDE DEF row
  <2>. QED  BY <1>2, <1>4, <2>1, <2>2, <2>3, OrderSaved DEF UpdateOrder
<1>5. ASSUME NEW outcome \in Outcome, SubmitOrder(o, outcome) PROVE BuyInv'
  <2> DEFINE to == SubmittedOrder(outcome)
  <2>1. MoveOrder(o, to) /\ Ask(o, orders[o].qty, TRUE, outcome)
        /\ Back(o, outcome = "APPROVED")
    BY <1>5 DEF SubmitOrder
  <2>2. orders[o].qty \in Qty
    BY <2>1 DEF MoveOrder, OrderMoves, BuyInv, BuyShape, OrderTable, OrderRow, NoDoc
  <2>3. /\ OnlyFor(o)
        /\ requests'[o] = [status |-> outcome, amount |-> orders[o].qty, own |-> TRUE]
        /\ outcome = "APPROVED" => backing'[o] = requests'[o]
    BY <2>1, <2>2, Submission DEF BuyInv, Document
  <2>4. to \in {"ISSUED", "PENDING_APPROVAL"} /\ (to = "ISSUED" => outcome = "APPROVED")
    BY DEF SubmittedOrder
  <2>. HIDE DEF to
  <2>. QED  BY <2>1, <2>3, <2>4, OrderMoved
<1>6. CASE ConfirmOrder(o)
  <2>1. PICK to \in OrderAnswered(o) :
          MoveOrder(o, to) /\ UNCHANGED requests /\ Back(o, to = "ISSUED")
    BY <1>6 DEF ConfirmOrder
  <2>2. /\ OnlyFor(o) /\ requests'[o] = requests[o]
        /\ to = "ISSUED" => backing'[o] = requests[o]
    BY <2>1, Answer DEF BuyInv, Document
  <2>3. /\ to \in {"DRAFT", "ISSUED", "REJECTED"}
        /\ to = "ISSUED" => requests[o].status = "APPROVED"
    <3>1. requests[o].status \in {"APPROVED", "REJECTED", "CANCELLED", "NONE", "PENDING"}
      BY DEF BuyInv, BuyShape, Request, NoRequest, Document
    <3>. QED  BY <3>1 DEF OrderAnswered, Answered
  <2>4. Asked(o, orders[o])
    BY <1>6 DEF ConfirmOrder, BuyInv, OrderSafe
  <2>. QED  BY <2>1, <2>2, <2>3, <2>4, OrderMoved DEF Asked
<1>7. CASE ReopenOrder(o) \/ CancelOrder(o)
  BY <1>2, <1>7, OrderMoved DEF ReopenOrder, CancelOrder
<1>. QED  BY <1>1, <1>3, <1>4, <1>5, <1>6, <1>7, ConversionKeeps

\* A receipt adds to what was received of an order and to nothing else.
LEMMA ReceivedRow ==
  ASSUME NEW order \in OrderRow, NEW qty \in Qty, qty <= order.qty - order.received
  PROVE  /\ Received(order, qty) \in OrderRow
         /\ Received(order, qty).qty = order.qty
         /\ Received(order, qty).requisition = order.requisition
         /\ Received(order, qty).status \in {"RECEIVED", "PARTIALLY_RECEIVED"}
<1> DEFINE status == IF order.received + qty >= order.qty THEN "RECEIVED"
                     ELSE "PARTIALLY_RECEIVED"
           counted == [order EXCEPT !.received = order.received + qty]
<1>1. MaxQty \in Nat /\ order.qty \in 1 .. MaxQty /\ order.received \in 0 .. MaxQty
      /\ qty \in 1 .. MaxQty
  BY ProcurementAssumption DEF OrderRow, Qty
<1>2. order.received + qty \in 0 .. MaxQty
  BY <1>1
<1>3. /\ counted \in OrderRow /\ counted.qty = order.qty
      /\ counted.requisition = order.requisition
  BY <1>2 DEF OrderRow
<1>4. Received(order, qty) = [counted EXCEPT !.status = status]
  BY DEF Received
<1>5. status \in {"RECEIVED", "PARTIALLY_RECEIVED"}
  OBVIOUS
<1>. HIDE DEF counted, status
<1>. QED  BY <1>3, <1>4, <1>5 DEF OrderRow

\* Receiving changes no quantity that was approved.
LEMMA GoodsReceiptSteps ==
  ASSUME BuyInv, GoodsReceiptNext
  PROVE  BuyInv'
<1>1. PICK g \in GoodsReceipt :
        \/ \E o \in Order, qty \in Qty : CreateGoodsReceipt(g, o, qty)
        \/ PostGoodsReceipt(g) \/ CancelGoodsReceipt(g)
  BY DEF GoodsReceiptNext
<1>2. ASSUME UNCHANGED <<requisitions, orders, requests, backing>>,
             goodsReceipts' \in GoodsReceiptTable
      PROVE  BuyInv'
  BY <1>2 DEF BuyInv, BuyShape, Linked, RequisitionSafe, OrderSafe, Asked, BackedByApproval
<1>3. ASSUME NEW o \in Order, NEW qty \in Qty, CreateGoodsReceipt(g, o, qty)
      PROVE  BuyInv'
  <2>1. NewGoodsReceipt(o, qty) \in GoodsReceiptRow
    BY DEF NewGoodsReceipt, GoodsReceiptRow
  <2>2. goodsReceipts' \in GoodsReceiptTable
    BY <1>3, <2>1 DEF CreateGoodsReceipt, InsertGoodsReceipt, BuyInv, BuyShape,
                      GoodsReceiptTable
  <2>. QED  BY <1>2, <1>3, <2>2 DEF CreateGoodsReceipt
<1>4. ASSUME NEW to \in {"POSTED", "CANCELLED"}, MoveGoodsReceipt(g, to)
      PROVE  goodsReceipts[g] \in GoodsReceiptRow /\ goodsReceipts' \in GoodsReceiptTable
  <2>1. goodsReceipts[g] \in GoodsReceiptRow
    BY <1>4 DEF MoveGoodsReceipt, BuyInv, BuyShape, GoodsReceiptTable, NoDoc
  <2>2. [goodsReceipts[g] EXCEPT !.status = to] \in GoodsReceiptRow
    BY <2>1 DEF GoodsReceiptRow
  <2>. QED  BY <1>4, <2>1, <2>2 DEF MoveGoodsReceipt, SaveGoodsReceipt, BuyInv, BuyShape,
                                   GoodsReceiptTable
<1>5. CASE CancelGoodsReceipt(g)
  BY <1>2, <1>4, <1>5 DEF CancelGoodsReceipt
<1>6. CASE PostGoodsReceipt(g)
  <2> DEFINE o == goodsReceipts[g].order
             qty == goodsReceipts[g].qty
             row == Received(orders[o], qty)
  <2>1. goodsReceipts[g] \in GoodsReceiptRow /\ goodsReceipts' \in GoodsReceiptTable
    BY <1>4, <1>6 DEF PostGoodsReceipt
  <2>2. o \in Order /\ qty \in Qty
    BY <2>1 DEF GoodsReceiptRow
  <2>3. /\ orders[o].status \in {"ISSUED", "PARTIALLY_RECEIVED"}
        /\ qty <= orders[o].qty - orders[o].received
        /\ SaveOrder(o, row) /\ UNCHANGED <<requisitions, requests, backing>>
    BY <1>6 DEF PostGoodsReceipt, CanReceive
  <2>4. orders[o] \in OrderRow /\ orders[o] # NoDoc
    BY <2>2, <2>3 DEF BuyInv, BuyShape, OrderTable, NoDoc
  <2>. HIDE DEF o, qty
  <2>5. /\ row \in OrderRow /\ row.qty = orders[o].qty
        /\ row.requisition = orders[o].requisition
        /\ row.status \in {"RECEIVED", "PARTIALLY_RECEIVED"}
    BY <2>2, <2>3, <2>4, ReceivedRow
  <2>6. BackedByApproval(o, orders[o])
    BY <2>2, <2>3 DEF BuyInv, OrderSafe
  <2>7. OnlyFor(o)
    BY <2>3 DEF OnlyFor, BuyInv, BuyShape
  <2>. HIDE DEF row
  <2>. QED  BY <2>1, <2>2, <2>3, <2>4, <2>5, <2>6, <2>7, OrderSaved DEF BackedByApproval
<1>. QED  BY <1>1, <1>3, <1>5, <1>6

(***************************************************************************)
(* The reorder sweep                                                       *)
(***************************************************************************)
RuleShape ==
  /\ rules = [r \in Rule |-> [active |-> rules[r].active, quiet |-> rules[r].quiet]]
  /\ sweeps \in [Sweeper -> [toRaise : SUBSET Rule, toMark : SUBSET Rule]]
  /\ reordered \in [inFlight : SUBSET Rule, twice : SUBSET Rule,
                    excused : SUBSET Rule]

\* A rule on order is excused if a sweep still may raise it, and is out of the
\* way of a new sweep otherwise: it is quiet, or a sweep is about to mark it.
RuleSafe(r) ==
  /\ r \in reordered.inFlight =>
       \/ rules[r].quiet \/ r \in reordered.excused
       \/ \E s \in Sweeper : r \in sweeps[s].toMark
  /\ r \in reordered.twice => r \in reordered.excused
  /\ \A s \in Sweeper :
       /\ ~ (r \in sweeps[s].toRaise /\ r \in sweeps[s].toMark)
       /\ r \in sweeps[s].toRaise /\ r \in reordered.inFlight => r \in reordered.excused
       /\ \A other \in Sweeper \ {s} :
            r \in InHand(s) /\ r \in InHand(other) => r \in reordered.excused

SweepInv == RuleShape /\ \A r \in Rule : RuleSafe(r)

\* No rule and no sweep changes.
LEMMA SweepFrame ==
  ASSUME SweepInv, UNCHANGED sweepVars
  PROVE  SweepInv'
  BY DEF SweepInv, RuleShape, RuleSafe, InHand, sweepVars

\* A rule is switched on or off; its cooldown stays.
LEMMA RuleUpserted ==
  ASSUME SweepInv, NEW r \in Rule, UpsertRule(r)
  PROVE  SweepInv'
<1>1. /\ UNCHANGED <<sweeps, reordered>>
      /\ rules' = [rules EXCEPT ![r] = [rules[r] EXCEPT !.active = ~ rules[r].active]]
  BY DEF UpsertRule, SaveRule
<1>2. rules = [e \in Rule |-> [active |-> rules[e].active, quiet |-> rules[e].quiet]]
  BY DEF SweepInv, RuleShape
<1>3. rules[r] = [active |-> rules[r].active, quiet |-> rules[r].quiet]
  BY <1>2
<1>4. [rules[r] EXCEPT !.active = ~ rules[r].active] =
        [active |-> ~ rules[r].active, quiet |-> rules[r].quiet]
  BY <1>3
<1>5. /\ rules' = [e \in Rule |-> [active |-> rules'[e].active, quiet |-> rules'[e].quiet]]
      /\ \A e \in Rule : rules'[e].quiet = rules[e].quiet
  BY <1>1, <1>2, <1>4
<1>. QED  BY <1>1, <1>5 DEF SweepInv, RuleShape, RuleSafe, InHand

\* A sweep takes the rules that are active and not quiet.
LEMMA SweepBegun ==
  ASSUME SweepInv, NEW s \in Sweeper, NEW fired \in SUBSET Rule, BeginSweep(s, fired)
  PROVE  SweepInv'
<1> DEFINE met == {r \in fired : \E other \in Sweeper : r \in InHand(other)}
<1>1. /\ sweeps[s] = Idle /\ rules' = rules
      /\ \A r \in fired : ~ rules[r].quiet
      /\ sweeps' = [sweeps EXCEPT ![s] = [sweeps[s] EXCEPT !.toRaise = fired]]
      /\ reordered' = [reordered EXCEPT !.excused = reordered.excused \cup met]
  BY DEF BeginSweep, MayFire
<1>2. /\ sweeps \in [Sweeper -> [toRaise : SUBSET Rule, toMark : SUBSET Rule]]
      /\ reordered \in [inFlight : SUBSET Rule, twice : SUBSET Rule,
                        excused : SUBSET Rule]
  BY DEF SweepInv, RuleShape
<1>3. /\ reordered' \in [inFlight : SUBSET Rule, twice : SUBSET Rule, excused : SUBSET Rule]
      /\ reordered'.inFlight = reordered.inFlight /\ reordered'.twice = reordered.twice
      /\ reordered'.excused = reordered.excused \cup met
  BY <1>1, <1>2
<1>4. /\ sweeps' \in [Sweeper -> [toRaise : SUBSET Rule, toMark : SUBSET Rule]]
      /\ sweeps[s].toMark = {} /\ sweeps[s].toRaise = {}
      /\ sweeps'[s].toRaise = fired /\ sweeps'[s].toMark = {}
      /\ \A other \in Sweeper \ {s} : sweeps'[other] = sweeps[other]
  BY <1>1, <1>2 DEF Idle
<1>5. ASSUME NEW r \in Rule PROVE RuleSafe(r)'
  <2>1. RuleSafe(r)
    BY DEF SweepInv
  <2>2. r \in fired /\ r \in reordered.inFlight => r \in reordered'.excused
    BY <1>1, <1>3, <2>1 DEF RuleSafe, InHand
  <2>3. /\ r \in reordered'.inFlight =>
             \/ rules'[r].quiet \/ r \in reordered'.excused
             \/ \E e \in Sweeper : r \in sweeps'[e].toMark
        /\ r \in reordered'.twice => r \in reordered'.excused
    BY <1>1, <1>3, <1>4, <2>1 DEF RuleSafe
  <2>4. ASSUME NEW e \in Sweeper
        PROVE  /\ ~ (r \in sweeps'[e].toRaise /\ r \in sweeps'[e].toMark)
               /\ r \in sweeps'[e].toRaise /\ r \in reordered'.inFlight =>
                    r \in reordered'.excused
    BY <1>3, <1>4, <2>1, <2>2 DEF RuleSafe
  <2>5. ASSUME NEW e \in Sweeper, NEW other \in Sweeper \ {e},
               r \in InHand(e)', r \in InHand(other)'
        PROVE  r \in reordered'.excused
    BY <1>3, <1>4, <2>1, <2>5 DEF RuleSafe, InHand
  <2>. QED  BY <2>3, <2>4, <2>5 DEF RuleSafe
<1>. QED  BY <1>1, <1>3, <1>4, <1>5 DEF SweepInv, RuleShape

\* A sweep raises one requisition for a group of its rules.
LEMMA RequisitionRaised ==
  ASSUME SweepInv, NEW s \in Sweeper, NEW rulesOfOne, NEW q, NEW qty,
         RaiseRequisition(s, rulesOfOne, q, qty)
  PROVE  SweepInv'
<1> DEFINE group == sweeps[s].toRaise \cap rulesOfOne
<1>1. /\ sweeps[s].toMark = {} /\ rules' = rules
      /\ sweeps' = [sweeps EXCEPT ![s] = [toRaise |-> sweeps[s].toRaise \ group,
                                          toMark |-> group]]
      /\ reordered' = [[reordered EXCEPT !.inFlight = reordered.inFlight \cup group]
           EXCEPT !.twice = reordered.twice \cup (group \cap reordered.inFlight)]
  BY DEF RaiseRequisition
<1>2. /\ sweeps \in [Sweeper -> [toRaise : SUBSET Rule, toMark : SUBSET Rule]]
      /\ reordered \in [inFlight : SUBSET Rule, twice : SUBSET Rule,
                        excused : SUBSET Rule]
      /\ sweeps[s].toRaise \subseteq Rule
  BY DEF SweepInv, RuleShape
<1>3. /\ reordered' \in [inFlight : SUBSET Rule, twice : SUBSET Rule, excused : SUBSET Rule]
      /\ reordered'.inFlight = reordered.inFlight \cup group
      /\ reordered'.twice = reordered.twice \cup (group \cap reordered.inFlight)
      /\ reordered'.excused = reordered.excused
  BY <1>1, <1>2
<1>4. /\ sweeps' \in [Sweeper -> [toRaise : SUBSET Rule, toMark : SUBSET Rule]]
      /\ sweeps'[s].toRaise = sweeps[s].toRaise \ group /\ sweeps'[s].toMark = group
      /\ \A other \in Sweeper \ {s} : sweeps'[other] = sweeps[other]
  BY <1>1, <1>2
<1>5. ASSUME NEW r \in Rule PROVE RuleSafe(r)'
  <2>1. RuleSafe(r)
    BY DEF SweepInv
  <2>2. /\ r \in reordered'.inFlight =>
             \/ rules'[r].quiet \/ r \in reordered'.excused
             \/ \E e \in Sweeper : r \in sweeps'[e].toMark
        /\ r \in reordered'.twice => r \in reordered'.excused
    BY <1>1, <1>3, <1>4, <2>1 DEF RuleSafe
  <2>3. ASSUME NEW e \in Sweeper
        PROVE  /\ ~ (r \in sweeps'[e].toRaise /\ r \in sweeps'[e].toMark)
               /\ r \in sweeps'[e].toRaise /\ r \in reordered'.inFlight =>
                    r \in reordered'.excused
    BY <1>1, <1>3, <1>4, <2>1 DEF RuleSafe, InHand
  <2>4. ASSUME NEW e \in Sweeper, NEW other \in Sweeper \ {e},
               r \in InHand(e)', r \in InHand(other)'
        PROVE  r \in reordered'.excused
    <3>1. r \in InHand(e) /\ r \in InHand(other)
      BY <1>4, <2>4 DEF InHand
    <3>. QED  BY <1>3, <2>1, <3>1 DEF RuleSafe
  <2>. QED  BY <2>2, <2>3, <2>4 DEF RuleSafe
<1>. QED  BY <1>1, <1>3, <1>4, <1>5 DEF SweepInv, RuleShape

\* A row of a rule, with another value of quiet.
LEMMA QuietSet ==
  ASSUME NEW row, row = [active |-> row.active, quiet |-> row.quiet], NEW value
  PROVE  [row EXCEPT !.quiet = value] = [active |-> row.active, quiet |-> value]
<1>1. DOMAIN row = {"active", "quiet"}
  OBVIOUS
<1>. QED  BY <1>1

\* A sweep marks a rule it raised, which begins its cooldown.
LEMMA RuleMarked ==
  ASSUME SweepInv, NEW s \in Sweeper, NEW r \in Rule, MarkTriggered(s, r)
  PROVE  SweepInv'
<1>1. /\ reordered' = reordered
      /\ rules' = [rules EXCEPT ![r] = [rules[r] EXCEPT !.quiet = TRUE]]
      /\ sweeps' = [sweeps EXCEPT ![s] =
                      [sweeps[s] EXCEPT !.toMark = sweeps[s].toMark \ {r}]]
  BY DEF MarkTriggered
<1>2. /\ rules = [e \in Rule |-> [active |-> rules[e].active, quiet |-> rules[e].quiet]]
      /\ sweeps \in [Sweeper -> [toRaise : SUBSET Rule, toMark : SUBSET Rule]]
  BY DEF SweepInv, RuleShape
<1>3. rules[r] = [active |-> rules[r].active, quiet |-> rules[r].quiet]
  BY <1>2
<1>4. [rules[r] EXCEPT !.quiet = TRUE] = [active |-> rules[r].active, quiet |-> TRUE]
  BY <1>3, QuietSet
<1>5. /\ rules' = [e \in Rule |-> [active |-> rules'[e].active, quiet |-> rules'[e].quiet]]
      /\ rules'[r].quiet
      /\ \A e \in Rule \ {r} : rules'[e] = rules[e]
  BY <1>1, <1>2, <1>4
<1>6. /\ sweeps' \in [Sweeper -> [toRaise : SUBSET Rule, toMark : SUBSET Rule]]
      /\ sweeps'[s].toRaise = sweeps[s].toRaise
      /\ sweeps'[s].toMark = sweeps[s].toMark \ {r}
      /\ \A other \in Sweeper \ {s} : sweeps'[other] = sweeps[other]
  BY <1>1, <1>2
<1>7. ASSUME NEW e \in Rule PROVE RuleSafe(e)'
  <2>1. RuleSafe(e)
    BY DEF SweepInv
  <2>2. e \in reordered'.inFlight =>
          \/ rules'[e].quiet \/ e \in reordered'.excused
          \/ \E k \in Sweeper : e \in sweeps'[k].toMark
    <3>1. CASE e = r
      BY <1>5, <3>1
    <3>2. CASE e # r
      BY <1>1, <1>5, <1>6, <2>1, <3>2 DEF RuleSafe
    <3>. QED  BY <3>1, <3>2
  <2>3. \A k \in Sweeper : /\ sweeps'[k].toRaise = sweeps[k].toRaise
                           /\ sweeps'[k].toMark \subseteq sweeps[k].toMark
    BY <1>6
  <2>. QED  BY <1>1, <2>1, <2>2, <2>3 DEF RuleSafe, InHand
<1>. QED  BY <1>1, <1>5, <1>6, <1>7 DEF SweepInv, RuleShape

\* A sweep stops: what it raised and did not mark is excused.
LEMMA SweepAborted ==
  ASSUME SweepInv, NEW s \in Sweeper, AbortSweep(s)
  PROVE  SweepInv'
<1>1. /\ rules' = rules /\ sweeps' = [sweeps EXCEPT ![s] = Idle]
      /\ reordered' = [reordered EXCEPT !.excused =
                         reordered.excused \cup sweeps[s].toMark]
  BY DEF AbortSweep
<1>2. /\ sweeps \in [Sweeper -> [toRaise : SUBSET Rule, toMark : SUBSET Rule]]
      /\ sweeps[s].toMark \subseteq Rule
      /\ reordered \in [inFlight : SUBSET Rule, twice : SUBSET Rule,
                        excused : SUBSET Rule]
  BY DEF SweepInv, RuleShape
<1>3. /\ reordered' \in [inFlight : SUBSET Rule, twice : SUBSET Rule, excused : SUBSET Rule]
      /\ reordered'.inFlight = reordered.inFlight /\ reordered'.twice = reordered.twice
      /\ reordered'.excused = reordered.excused \cup sweeps[s].toMark
  BY <1>1, <1>2
<1>4. /\ sweeps' \in [Sweeper -> [toRaise : SUBSET Rule, toMark : SUBSET Rule]]
      /\ sweeps'[s].toRaise = {} /\ sweeps'[s].toMark = {}
      /\ \A other \in Sweeper \ {s} : sweeps'[other] = sweeps[other]
  BY <1>1, <1>2 DEF Idle
<1>5. ASSUME NEW r \in Rule PROVE RuleSafe(r)'
  <2>1. RuleSafe(r)
    BY DEF SweepInv
  <2>2. /\ r \in reordered'.inFlight =>
             \/ rules'[r].quiet \/ r \in reordered'.excused
             \/ \E e \in Sweeper : r \in sweeps'[e].toMark
        /\ r \in reordered'.twice => r \in reordered'.excused
    BY <1>1, <1>3, <1>4, <2>1 DEF RuleSafe
  <2>3. ASSUME NEW e \in Sweeper
        PROVE  /\ ~ (r \in sweeps'[e].toRaise /\ r \in sweeps'[e].toMark)
               /\ r \in sweeps'[e].toRaise /\ r \in reordered'.inFlight =>
                    r \in reordered'.excused
    BY <1>3, <1>4, <2>1 DEF RuleSafe
  <2>4. ASSUME NEW e \in Sweeper, NEW other \in Sweeper \ {e},
               r \in InHand(e)', r \in InHand(other)'
        PROVE  r \in reordered'.excused
    BY <1>3, <1>4, <2>1, <2>4 DEF RuleSafe, InHand
  <2>. QED  BY <2>2, <2>3, <2>4 DEF RuleSafe
<1>. QED  BY <1>1, <1>3, <1>4, <1>5 DEF SweepInv, RuleShape

\* The cooldown of a rule is over.
LEMMA CooldownEnded ==
  ASSUME SweepInv, NEW r \in Rule, CooldownEnds(r)
  PROVE  SweepInv'
<1>1. /\ \A s \in Sweeper : r \notin InHand(s)
      /\ sweeps' = sweeps
      /\ rules' = [rules EXCEPT ![r] = [rules[r] EXCEPT !.quiet = FALSE]]
      /\ reordered' = [inFlight |-> reordered.inFlight \ {r},
                       twice |-> reordered.twice \ {r},
                       excused |-> reordered.excused \ {r}]
  BY DEF CooldownEnds
<1>2. /\ rules = [e \in Rule |-> [active |-> rules[e].active, quiet |-> rules[e].quiet]]
      /\ reordered \in [inFlight : SUBSET Rule, twice : SUBSET Rule,
                        excused : SUBSET Rule]
  BY DEF SweepInv, RuleShape
<1>3. rules[r] = [active |-> rules[r].active, quiet |-> rules[r].quiet]
  BY <1>2
<1>4. [rules[r] EXCEPT !.quiet = FALSE] = [active |-> rules[r].active, quiet |-> FALSE]
  BY <1>3, QuietSet
<1>5. /\ rules' = [e \in Rule |-> [active |-> rules'[e].active, quiet |-> rules'[e].quiet]]
      /\ \A e \in Rule \ {r} : rules'[e] = rules[e]
  BY <1>1, <1>2, <1>4
<1>6. reordered' \in [inFlight : SUBSET Rule, twice : SUBSET Rule, excused : SUBSET Rule]
  BY <1>1, <1>2
<1>7. ASSUME NEW e \in Rule PROVE RuleSafe(e)'
  <2>1. RuleSafe(e)
    BY DEF SweepInv
  <2>2. CASE e = r
    BY <1>1, <2>2 DEF RuleSafe, InHand
  <2>3. CASE e # r
    BY <1>1, <1>5, <2>1, <2>3 DEF RuleSafe, InHand
  <2>. QED  BY <2>2, <2>3
<1>. QED  BY <1>1, <1>5, <1>6, <1>7 DEF SweepInv, RuleShape

\* The steps of purchasing keep both invariants.
LEMMA SweepSteps ==
  ASSUME BuyInv, SweepInv, SweepNext
  PROVE  BuyInv' /\ SweepInv'
<1>1. ASSUME UNCHANGED buyVars PROVE BuyInv'
  BY <1>1 DEF BuyInv, BuyShape, Linked, RequisitionSafe, OrderSafe, Asked,
              BackedByApproval, buyVars
<1>2. ASSUME NEW r \in Rule, UpsertRule(r) \/ CooldownEnds(r)
      PROVE  BuyInv' /\ SweepInv'
  <2>1. UNCHANGED buyVars
    BY <1>2 DEF UpsertRule, CooldownEnds
  <2>. QED  BY <1>1, <1>2, <2>1, RuleUpserted, CooldownEnded
<1>3. ASSUME NEW s \in Sweeper, NEW fired \in SUBSET Rule, BeginSweep(s, fired)
      PROVE  BuyInv' /\ SweepInv'
  <2>1. UNCHANGED buyVars
    BY <1>3 DEF BeginSweep
  <2>. QED  BY <1>1, <1>3, <2>1, SweepBegun
<1>4. ASSUME NEW s \in Sweeper, NEW g \in Groups, NEW q \in Requisition, NEW qty \in Qty,
             RaiseRequisition(s, g, q, qty)
      PROVE  BuyInv' /\ SweepInv'
  <2>1. CreateRequisition(q, qty)
    BY <1>4 DEF RaiseRequisition
  <2>. QED  BY <1>4, <2>1, RequisitionCreated, RequisitionRaised
<1>5. ASSUME NEW s \in Sweeper, NEW r \in Rule, MarkTriggered(s, r)
      PROVE  BuyInv' /\ SweepInv'
  <2>1. UNCHANGED buyVars
    BY <1>5 DEF MarkTriggered
  <2>. QED  BY <1>1, <1>5, <2>1, RuleMarked
<1>6. ASSUME NEW s \in Sweeper, AbortSweep(s)
      PROVE  BuyInv' /\ SweepInv'
  <2>1. UNCHANGED buyVars
    BY <1>6 DEF AbortSweep
  <2>. QED  BY <1>1, <1>6, <2>1, SweepAborted
<1>. QED  BY <1>2, <1>3, <1>4, <1>5, <1>6 DEF SweepNext

\* Every step of purchasing.
LEMMA BuySteps ==
  ASSUME BuyInv, SweepInv, BuyNext
  PROVE  BuyInv' /\ SweepInv'
<1>1. CASE RequisitionNext
  <2>1. UNCHANGED sweepVars
    BY <1>1 DEF RequisitionNext, UpdateRequisition, SubmitRequisition, ConfirmRequisition,
                ReopenRequisition, CancelRequisition, MoveRequisition
  <2>. QED  BY <1>1, <2>1, RequisitionSteps, SweepFrame
<1>2. CASE ApprovalNext
  <2>1. UNCHANGED sweepVars
    BY <1>2 DEF ApprovalNext, AskDirectly, Settle
  <2>. QED  BY <1>2, <2>1, ApprovalSteps, SweepFrame
<1>3. CASE OrderNext
  <2>1. UNCHANGED sweepVars
    BY <1>3 DEF OrderNext, CreateOrder, UpdateOrder, ConvertRequisition, SubmitOrder,
                ConfirmOrder, ReopenOrder, CancelOrder, MoveOrder
  <2>. QED  BY <1>3, <2>1, OrderSteps, SweepFrame
<1>4. CASE GoodsReceiptNext
  <2>1. UNCHANGED sweepVars
    BY <1>4 DEF GoodsReceiptNext, CreateGoodsReceipt, PostGoodsReceipt, CancelGoodsReceipt
  <2>. QED  BY <1>4, <2>1, GoodsReceiptSteps, SweepFrame
<1>. QED  BY <1>1, <1>2, <1>3, <1>4, SweepSteps DEF BuyNext

(***************************************************************************)
(* Vouchers, batches and certificates                                      *)
(***************************************************************************)
VoucherShape(row) ==
  row = [status |-> row.status, date |-> row.date, alloc |-> row.alloc,
         wht |-> row.wht, batch |-> row.batch]

PayShape ==
  /\ vouchers = [v \in Voucher |-> vouchers[v]]
  /\ \A v \in Voucher : vouchers[v] = NoDoc \/ VoucherShape(vouchers[v])
  /\ batches = [b \in Batch |-> batches[b]]
  /\ certificates = [v \in Voucher |-> certificates[v]]

\* The batch of a voucher is one of those there are, and stands as it does.
InItsBatch(v) ==
  vouchers[v] # NoDoc /\ vouchers[v].batch # NoBatch =>
    /\ vouchers[v].batch \in Batch
    /\ \/ batches[vouchers[v].batch] = "DRAFT" /\ vouchers[v].status \in {"DRAFT", "VOID"}
       \/ batches[vouchers[v].batch] = "POSTED" /\ vouchers[v].status \in {"POSTED", "VOID"}
       \/ batches[vouchers[v].batch] = "VOID" /\ vouchers[v].status = "VOID"

Certified(v) ==
  certificates[v] = "VALID" <=> vouchers[v].status = "POSTED" /\ vouchers[v].wht

PayInv ==
  /\ PayShape
  /\ \A v \in Voucher : InItsBatch(v) /\ Certified(v)

\* No voucher, batch or certificate changes.
LEMMA PayFrame ==
  ASSUME PayInv, UNCHANGED <<vouchers, batches, certificates>>
  PROVE  PayInv'
  BY DEF PayInv, PayShape, InItsBatch, Certified

\* What the domain does to a voucher.
LEMMA VoucherRows ==
  /\ \A alloc, p, wht : /\ VoucherShape(NewVoucher(alloc, p, wht))
                        /\ NewVoucher(alloc, p, wht) # NoDoc
                        /\ NewVoucher(alloc, p, wht).status = "DRAFT"
                        /\ NewVoucher(alloc, p, wht).batch = NoBatch
  /\ \A row : VoucherShape(row) =>
       /\ row # NoDoc
       /\ \A b : /\ VoucherShape(Attached(row, b)) /\ Attached(row, b).batch = b
                 /\ Attached(row, b).status = row.status
                 /\ Attached(row, b).wht = row.wht
       /\ VoucherShape(PostedVoucher(row)) /\ PostedVoucher(row).status = "POSTED"
       /\ PostedVoucher(row).batch = row.batch /\ PostedVoucher(row).wht = row.wht
       /\ VoucherShape(VoidedVoucher(row)) /\ VoidedVoucher(row).status = "VOID"
       /\ VoidedVoucher(row).batch = row.batch /\ VoidedVoucher(row).wht = row.wht
<1>1. ASSUME NEW alloc, NEW p, NEW wht
      PROVE  /\ VoucherShape(NewVoucher(alloc, p, wht))
             /\ NewVoucher(alloc, p, wht) # NoDoc
             /\ NewVoucher(alloc, p, wht).status = "DRAFT"
             /\ NewVoucher(alloc, p, wht).batch = NoBatch
  BY DEF VoucherShape, NewVoucher, NoDoc
<1>2. ASSUME NEW row, VoucherShape(row)
      PROVE  /\ row # NoDoc
             /\ \A b : /\ VoucherShape(Attached(row, b)) /\ Attached(row, b).batch = b
                       /\ Attached(row, b).status = row.status
                       /\ Attached(row, b).wht = row.wht
             /\ VoucherShape(PostedVoucher(row)) /\ PostedVoucher(row).status = "POSTED"
             /\ PostedVoucher(row).batch = row.batch /\ PostedVoucher(row).wht = row.wht
             /\ VoucherShape(VoidedVoucher(row)) /\ VoidedVoucher(row).status = "VOID"
             /\ VoidedVoucher(row).batch = row.batch /\ VoidedVoucher(row).wht = row.wht
  <2>1. DOMAIN row = {"status", "date", "alloc", "wht", "batch"}
    BY <1>2 DEF VoucherShape
  <2>2. row # NoDoc
    <3>1. "batch" \notin DOMAIN NoDoc
      BY DEF NoDoc
    <3>. QED  BY <2>1, <3>1
  <2>3. ASSUME NEW b
        PROVE  /\ VoucherShape(Attached(row, b)) /\ Attached(row, b).batch = b
               /\ Attached(row, b).status = row.status /\ Attached(row, b).wht = row.wht
    <3>1. Attached(row, b) = [status |-> row.status, date |-> row.date,
                              alloc |-> row.alloc, wht |-> row.wht, batch |-> b]
      BY <2>1 DEF Attached
    <3>. QED  BY <3>1 DEF VoucherShape
  <2>4. PostedVoucher(row) = [status |-> "POSTED", date |-> row.date,
                              alloc |-> row.alloc, wht |-> row.wht, batch |-> row.batch]
    BY <2>1 DEF PostedVoucher
  <2>5. VoidedVoucher(row) = [status |-> "VOID", date |-> row.date,
                              alloc |-> row.alloc, wht |-> row.wht, batch |-> row.batch]
    BY <2>1 DEF VoidedVoucher
  <2>. QED  BY <2>2, <2>3, <2>4, <2>5 DEF VoucherShape
<1>. QED  BY <1>1, <1>2

\* One voucher is saved, in a batch that keeps its status.
LEMMA VoucherSaved ==
  ASSUME PayInv, NEW v \in Voucher, NEW row, VoucherShape(row), SaveVoucher(v, row),
         UNCHANGED batches,
         row.batch # NoBatch =>
           /\ row.batch \in Batch
           /\ \/ batches[row.batch] = "DRAFT" /\ row.status \in {"DRAFT", "VOID"}
              \/ batches[row.batch] = "POSTED" /\ row.status \in {"POSTED", "VOID"}
              \/ batches[row.batch] = "VOID" /\ row.status = "VOID",
         certificates' = [e \in Voucher |-> certificates'[e]],
         \A e \in Voucher \ {v} : certificates'[e] = certificates[e],
         certificates'[v] = "VALID" <=> row.status = "POSTED" /\ row.wht
  PROVE  PayInv'
<1>1. /\ vouchers' = [e \in Voucher |-> vouchers'[e]] /\ vouchers'[v] = row
      /\ \A e \in Voucher \ {v} : vouchers'[e] = vouchers[e]
  BY DEF SaveVoucher, PayInv, PayShape
<1>2. PayShape'
  BY <1>1 DEF PayInv, PayShape
<1>3. ASSUME NEW e \in Voucher PROVE InItsBatch(e)' /\ Certified(e)'
  <2>1. CASE e = v
    BY <1>1, <2>1 DEF InItsBatch, Certified
  <2>2. CASE e # v
    BY <1>1, <2>2 DEF PayInv, InItsBatch, Certified
  <2>. QED  BY <2>1, <2>2
<1>. QED  BY <1>2, <1>3 DEF PayInv

\* The steps of one voucher.
LEMMA VoucherSteps ==
  ASSUME PayInv, NEW v \in Voucher, NEW c, NEW p,
         \/ \E alloc \in Allocations, wht \in BOOLEAN : CreateVoucher(v, alloc, p, wht)
         \/ VoidDraftVoucher(v) \/ PostVoucher(c, v) \/ VoidVoucher(c, v, p)
  PROVE  PayInv'
<1>1. InItsBatch(v) /\ Certified(v) /\ (vouchers[v] = NoDoc \/ VoucherShape(vouchers[v]))
      /\ certificates = [e \in Voucher |-> certificates[e]]
  BY DEF PayInv, PayShape
<1>2. ASSUME NEW alloc \in Allocations, NEW wht \in BOOLEAN, CreateVoucher(v, alloc, p, wht)
      PROVE  PayInv'
  <2>1. /\ vouchers[v] = NoDoc /\ SaveVoucher(v, NewVoucher(alloc, p, wht))
        /\ UNCHANGED <<batches, certificates>>
    BY <1>2 DEF CreateVoucher, InsertVoucher, SaveVoucher
  <2>2. certificates[v] # "VALID"
    BY <1>1, <2>1 DEF Certified, NoDoc
  <2>. QED  BY <1>1, <2>1, <2>2, VoucherRows, VoucherSaved
<1>3. CASE VoidDraftVoucher(v)
  <2>1. /\ vouchers[v].status = "DRAFT" /\ SaveVoucher(v, VoidedVoucher(vouchers[v]))
        /\ UNCHANGED <<batches, certificates>>
    BY <1>3 DEF VoidDraftVoucher
  <2>2. VoucherShape(vouchers[v]) /\ certificates[v] # "VALID"
    BY <1>1, <2>1 DEF Certified, NoDoc
  <2>. QED  BY <1>1, <2>1, <2>2, VoucherRows, VoucherSaved DEF InItsBatch
<1>4. CASE PostVoucher(c, v)
  <2>1. /\ vouchers[v].status = "DRAFT" /\ vouchers[v].batch = NoBatch
        /\ SaveVoucher(v, PostedVoucher(vouchers[v])) /\ UNCHANGED batches
        /\ certificates' = [e \in Voucher |-> IF e = v /\ vouchers[v].wht THEN "VALID"
                                              ELSE certificates[e]]
    BY <1>4 DEF PostVoucher, CanPostAlone, Certify, InsertCertificates
  <2>2. VoucherShape(vouchers[v]) /\ certificates[v] # "VALID"
    BY <1>1, <2>1 DEF Certified, NoDoc
  <2>3. /\ certificates' = [e \in Voucher |-> certificates'[e]]
        /\ \A e \in Voucher \ {v} : certificates'[e] = certificates[e]
        /\ certificates'[v] = "VALID" <=> vouchers[v].wht
    BY <2>1, <2>2
  <2>. QED  BY <2>1, <2>2, <2>3, VoucherRows, VoucherSaved
<1>5. CASE VoidVoucher(c, v, p)
  <2>1. /\ vouchers[v].status = "POSTED" /\ UNCHANGED batches
        /\ SaveVoucher(v, VoidedVoucher(vouchers[v]))
        /\ certificates' = [certificates EXCEPT ![v] =
                              IF certificates[v] = "VALID" THEN "VOID" ELSE certificates[v]]
    BY <1>5 DEF VoidVoucher, MarkCertificateVoid
  <2>2. VoucherShape(vouchers[v])
    BY <1>1, <2>1 DEF NoDoc
  <2>3. /\ certificates' = [e \in Voucher |-> certificates'[e]]
        /\ \A e \in Voucher \ {v} : certificates'[e] = certificates[e]
        /\ certificates'[v] # "VALID"
    BY <1>1, <2>1
  <2>. QED  BY <1>1, <2>1, <2>2, <2>3, VoucherRows, VoucherSaved DEF InItsBatch
<1>. QED  BY <1>2, <1>3, <1>4, <1>5

\* A new batch takes drafts; what else is in it there is nothing.
LEMMA BatchCreated ==
  ASSUME PayInv, NEW b \in Batch, NEW vs \in SUBSET Voucher, CreateBatch(b, vs)
  PROVE  PayInv'
<1>1. /\ \A v \in vs : vouchers[v].status = "DRAFT"
      /\ batches[b] = NoBatch /\ batches' = [batches EXCEPT ![b] = "DRAFT"]
      /\ vouchers' = [v \in Voucher |-> IF v \in vs THEN Attached(vouchers[v], b)
                                        ELSE vouchers[v]]
      /\ UNCHANGED certificates
  BY DEF CreateBatch, CanBatch, InsertBatch, SaveVouchers
<1>2. ASSUME NEW v \in vs
      PROVE  /\ VoucherShape(vouchers'[v]) /\ vouchers'[v] # NoDoc
             /\ vouchers'[v].batch = b
             /\ vouchers'[v].status = "DRAFT" /\ vouchers'[v].wht = vouchers[v].wht
  <2>1. VoucherShape(vouchers[v])
    BY <1>1 DEF PayInv, PayShape, NoDoc
  <2>2. vouchers'[v] = Attached(vouchers[v], b)
    BY <1>1
  <2>3. /\ VoucherShape(Attached(vouchers[v], b))
        /\ Attached(vouchers[v], b).batch = b
        /\ Attached(vouchers[v], b).status = vouchers[v].status
        /\ Attached(vouchers[v], b).wht = vouchers[v].wht
    BY <2>1, VoucherRows
  <2>4. Attached(vouchers[v], b) # NoDoc
    BY <2>3, VoucherRows
  <2>. QED  BY <1>1, <2>2, <2>3, <2>4
<1>3. PayShape'
  BY <1>1, <1>2 DEF PayInv, PayShape
<1>4. batches'[b] = "DRAFT" /\ \A e \in Batch \ {b} : batches'[e] = batches[e]
  BY <1>1 DEF PayInv, PayShape
<1>5. ASSUME NEW v \in Voucher PROVE InItsBatch(v)' /\ Certified(v)'
  <2>1. InItsBatch(v) /\ Certified(v)
    BY DEF PayInv
  <2>2. CASE v \in vs
    BY <1>1, <1>2, <1>4, <2>1, <2>2 DEF InItsBatch, Certified
  <2>3. CASE v \notin vs
    <3>1. vouchers'[v] = vouchers[v]
      BY <1>1, <2>3
    <3>2. vouchers[v] # NoDoc => vouchers[v].batch # b \/ vouchers[v].batch = NoBatch
      BY <1>1, <2>1 DEF InItsBatch, NoBatch
    <3>. QED  BY <1>1, <1>4, <2>1, <3>1, <3>2 DEF InItsBatch, Certified
  <2>. QED  BY <2>2, <2>3
<1>. QED  BY <1>3, <1>5 DEF PayInv

\* A batch of one voucher for what is due.
LEMMA BatchOfDueCreated ==
  ASSUME PayInv, NEW b \in Batch, NEW v \in Voucher, NEW due, NEW p, NEW wht,
         CreateBatchOfDue(b, v, due, p, wht)
  PROVE  PayInv'
<1>1. PICK row : /\ VoucherShape(row) /\ row # NoDoc /\ row.status = "DRAFT" /\ row.batch = b
                 /\ vouchers[v] = NoDoc /\ vouchers' = [vouchers EXCEPT ![v] = row]
                 /\ batches[b] = NoBatch /\ batches' = [batches EXCEPT ![b] = "DRAFT"]
                 /\ UNCHANGED certificates
  <2> DEFINE alloc == [i \in Invoice |-> IF i \in due THEN OpenBalance(invoices[i]) ELSE 0]
             new == NewVoucher(alloc, p, wht)
             row == Attached(new, b)
  <2>1. VoucherShape(row) /\ row # NoDoc /\ row.status = "DRAFT" /\ row.batch = b
    <3>. HIDE DEF alloc
    <3>1. VoucherShape(new) /\ new.status = "DRAFT"
      BY VoucherRows
    <3>. HIDE DEF new
    <3>2. VoucherShape(row) /\ row.status = "DRAFT" /\ row.batch = b
      BY <3>1, VoucherRows
    <3>. HIDE DEF row
    <3>. QED  BY <3>2, VoucherRows
  <2>2. /\ vouchers[v] = NoDoc /\ vouchers' = [vouchers EXCEPT ![v] = row]
        /\ batches[b] = NoBatch /\ batches' = [batches EXCEPT ![b] = "DRAFT"]
        /\ UNCHANGED certificates
    BY DEF CreateBatchOfDue, InsertBatch, InsertVoucher
  <2>. HIDE DEF row
  <2>. QED  BY <2>1, <2>2
<1>2. /\ vouchers' = [e \in Voucher |-> vouchers'[e]] /\ vouchers'[v] = row
      /\ \A e \in Voucher \ {v} : vouchers'[e] = vouchers[e]
      /\ batches' = [e \in Batch |-> batches'[e]]
      /\ batches'[b] = "DRAFT" /\ \A e \in Batch \ {b} : batches'[e] = batches[e]
  BY <1>1 DEF PayInv, PayShape
<1>3. PayShape'
  BY <1>1, <1>2 DEF PayInv, PayShape
<1>4. ASSUME NEW e \in Voucher PROVE InItsBatch(e)' /\ Certified(e)'
  <2>1. InItsBatch(e) /\ Certified(e)
    BY DEF PayInv
  <2>2. CASE e = v
    BY <1>1, <1>2, <2>1, <2>2 DEF InItsBatch, Certified, NoDoc
  <2>3. CASE e # v
    <3>1. vouchers[e] # NoDoc => vouchers[e].batch # b \/ vouchers[e].batch = NoBatch
      BY <1>1, <2>1 DEF InItsBatch, NoBatch
    <3>. QED  BY <1>1, <1>2, <2>1, <2>3, <3>1 DEF InItsBatch, Certified
  <2>. QED  BY <2>2, <2>3
<1>. QED  BY <1>3, <1>4 DEF PayInv

\* Posting a batch pays its drafts; the rest of it is void and stays so.
LEMMA BatchPosted ==
  ASSUME PayInv, NEW b \in Batch, NEW c, NEW p, PostBatch(c, b, p)
  PROVE  PayInv'
<1>1. /\ batches[b] = "DRAFT" /\ batches' = [batches EXCEPT ![b] = "POSTED"]
      /\ vouchers' = [v \in Voucher |-> IF v \in DraftsOf(b) THEN PostedVoucher(vouchers[v])
                                        ELSE vouchers[v]]
      /\ certificates' = [v \in Voucher |-> IF v \in {e \in DraftsOf(b) : vouchers[e].wht}
                                            THEN "VALID" ELSE certificates[v]]
  BY DEF PostBatch, CloseBatch, SaveBatch, SaveVouchers, Certify, InsertCertificates
<1>2. batches' = [e \in Batch |-> batches'[e]]
      /\ batches'[b] = "POSTED" /\ \A e \in Batch \ {b} : batches'[e] = batches[e]
  BY <1>1 DEF PayInv, PayShape
<1>3. ASSUME NEW v \in DraftsOf(b)
      PROVE  /\ VoucherShape(vouchers'[v]) /\ vouchers'[v].status = "POSTED"
             /\ vouchers'[v].batch = b /\ vouchers'[v].wht = vouchers[v].wht
             /\ certificates'[v] = "VALID" <=> vouchers[v].wht
  <2>1. v \in Voucher /\ vouchers[v].status = "DRAFT" /\ vouchers[v].batch = b
    BY DEF DraftsOf
  <2>2. VoucherShape(vouchers[v]) /\ certificates[v] # "VALID"
    BY <2>1 DEF PayInv, PayShape, Certified, NoDoc
  <2>3. vouchers'[v] = PostedVoucher(vouchers[v])
    BY <1>1, <2>1
  <2>4. certificates'[v] = "VALID" <=> vouchers[v].wht
    BY <1>1, <2>1, <2>2
  <2>. QED  BY <2>1, <2>2, <2>3, <2>4, VoucherRows
<1>4. ASSUME NEW v \in Voucher \ DraftsOf(b)
      PROVE  vouchers'[v] = vouchers[v] /\ certificates'[v] = certificates[v]
  BY <1>1
<1>5. PayShape'
  BY <1>1, <1>2, <1>3, <1>4 DEF PayInv, PayShape
<1>6. ASSUME NEW v \in Voucher PROVE InItsBatch(v)' /\ Certified(v)'
  <2>1. InItsBatch(v) /\ Certified(v)
    BY DEF PayInv
  <2>2. CASE v \in DraftsOf(b)
    BY <1>2, <1>3, <2>2 DEF InItsBatch, Certified
  <2>3. CASE v \notin DraftsOf(b)
    <3>1. vouchers[v].batch = b => vouchers[v].status # "DRAFT"
      BY <2>3 DEF DraftsOf
    <3>. QED  BY <1>1, <1>2, <1>4, <2>1, <2>3, <3>1 DEF InItsBatch, Certified
  <2>. QED  BY <2>2, <2>3
<1>. QED  BY <1>5, <1>6 DEF PayInv

\* The drafts of a batch are void with it.
LEMMA BatchVoided ==
  ASSUME PayInv, NEW b \in Batch, VoidBatch(b)
  PROVE  PayInv'
<1>1. /\ batches[b] = "DRAFT" /\ batches' = [batches EXCEPT ![b] = "VOID"]
      /\ vouchers' = [v \in Voucher |-> IF v \in DraftsOf(b) THEN VoidedVoucher(vouchers[v])
                                        ELSE vouchers[v]]
      /\ UNCHANGED certificates
  BY DEF VoidBatch, CloseBatch, SaveBatch, SaveVouchers
<1>2. batches' = [e \in Batch |-> batches'[e]]
      /\ batches'[b] = "VOID" /\ \A e \in Batch \ {b} : batches'[e] = batches[e]
  BY <1>1 DEF PayInv, PayShape
<1>3. ASSUME NEW v \in DraftsOf(b)
      PROVE  /\ VoucherShape(vouchers'[v]) /\ vouchers'[v].status = "VOID"
             /\ vouchers'[v].batch = b /\ certificates[v] # "VALID"
  <2>1. v \in Voucher /\ vouchers[v].status = "DRAFT" /\ vouchers[v].batch = b
    BY DEF DraftsOf
  <2>2. VoucherShape(vouchers[v]) /\ certificates[v] # "VALID"
    BY <2>1 DEF PayInv, PayShape, Certified, NoDoc
  <2>3. vouchers'[v] = VoidedVoucher(vouchers[v])
    BY <1>1, <2>1
  <2>. QED  BY <2>1, <2>2, <2>3, VoucherRows
<1>4. ASSUME NEW v \in Voucher \ DraftsOf(b) PROVE vouchers'[v] = vouchers[v]
  BY <1>1
<1>5. PayShape'
  BY <1>1, <1>2, <1>3, <1>4 DEF PayInv, PayShape
<1>6. ASSUME NEW v \in Voucher PROVE InItsBatch(v)' /\ Certified(v)'
  <2>1. InItsBatch(v) /\ Certified(v)
    BY DEF PayInv
  <2>2. CASE v \in DraftsOf(b)
    BY <1>1, <1>2, <1>3, <2>2 DEF InItsBatch, Certified
  <2>3. CASE v \notin DraftsOf(b)
    <3>1. vouchers[v].batch = b => vouchers[v].status # "DRAFT"
      BY <2>3 DEF DraftsOf
    <3>. QED  BY <1>1, <1>2, <1>4, <2>1, <2>3, <3>1 DEF InItsBatch, Certified
  <2>. QED  BY <2>2, <2>3
<1>. QED  BY <1>5, <1>6 DEF PayInv

\* Every step on vouchers and batches.
LEMMA PaymentSteps ==
  ASSUME PayInv, PaymentNext
  PROVE  PayInv'
  BY VoucherSteps, BatchCreated, BatchOfDueCreated, BatchPosted, BatchVoided DEF PaymentNext

(***************************************************************************)
(* The composition                                                         *)
(***************************************************************************)
Inv == BuyInv /\ SweepInv /\ PayInv

\* Nothing is ordered or paid yet.
LEMMA InitInv == Init => Inv
<1> SUFFICES ASSUME Init PROVE Inv
  OBVIOUS
<1>1. BuyInv
  BY DEF Init, BuyInit, BuyInv, BuyShape, Linked, RequisitionSafe, OrderSafe,
         RequisitionTable, OrderTable, GoodsReceiptTable, NoDoc, NoRequest
<1>2. SweepInv
  <2>1. /\ rules = [r \in Rule |-> [active |-> TRUE, quiet |-> FALSE]]
        /\ sweeps = [s \in Sweeper |-> [toRaise |-> {}, toMark |-> {}]]
        /\ reordered = [inFlight |-> {}, twice |-> {}, excused |-> {}]
    BY DEF Init, BuyInit
  <2>. QED  BY <2>1 DEF SweepInv, RuleShape, RuleSafe, InHand
<1>3. PayInv
  BY DEF Init, PayInv, PayShape, InItsBatch, Certified, NoDoc
<1>. QED  BY <1>1, <1>2, <1>3 DEF Inv

\* Nothing of purchasing and paying changes.
LEMMA Frame ==
  ASSUME Inv, UNCHANGED <<buyVars, sweepVars, vouchers, batches, certificates>>
  PROVE  Inv'
<1>1. BuyInv'
  BY DEF Inv, BuyInv, BuyShape, Linked, RequisitionSafe, OrderSafe, Asked,
         BackedByApproval, buyVars
<1>. QED  BY <1>1, SweepFrame, PayFrame DEF Inv

\* Every step keeps each document with what it depends on.
LEMMA NextInv == Inv /\ [Next]_vars => Inv'
<1> SUFFICES ASSUME Inv, [Next]_vars PROVE Inv'
  OBVIOUS
<1>1. CASE LedgerNext /\ UNCHANGED <<buyVars, sweepVars, payVars>>
  BY <1>1, Frame DEF payVars
<1>2. CASE BuyNext /\ UNCHANGED <<ledgerVars, call, payVars>>
  BY <1>2, BuySteps, PayFrame DEF Inv, payVars
<1>3. CASE InvoiceNext
  <2>1. UNCHANGED <<buyVars, sweepVars, vouchers, batches, certificates>>
    <3>1. PICK i \in Invoice, p \in Period, c \in Caller :
            \/ \E qty \in Qty, wht \in BOOLEAN : CaptureUnmatched(i, p, qty, wht)
            \/ \E o \in Order, lines \in Billings, inTolerance \in BOOLEAN :
                 BeginCaptureInvoice(c, o, lines, inTolerance)
            \/ \E wht \in BOOLEAN : CaptureInvoice(c, i, p, wht)
            \/ \E acceptVariance \in BOOLEAN : PostInvoice(c, i, acceptVariance)
            \/ VoidDraftInvoice(i) \/ VoidInvoice(c, i, p)
      BY <1>3 DEF InvoiceNext
    <3>2. CASE \E qty \in Qty, wht \in BOOLEAN : CaptureUnmatched(i, p, qty, wht)
      BY <3>2 DEF CaptureUnmatched
    <3>3. CASE \E o \in Order, lines \in Billings, inTolerance \in BOOLEAN :
                 BeginCaptureInvoice(c, o, lines, inTolerance)
      BY <3>3 DEF BeginCaptureInvoice, payVars
    <3>4. CASE \E wht \in BOOLEAN : CaptureInvoice(c, i, p, wht)
      BY <3>4 DEF CaptureInvoice
    <3>5. CASE \E acceptVariance \in BOOLEAN : PostInvoice(c, i, acceptVariance)
      BY <3>5 DEF PostInvoice
    <3>6. CASE VoidDraftInvoice(i) \/ VoidInvoice(c, i, p)
      BY <3>6 DEF VoidDraftInvoice, VoidInvoice
    <3>. QED  BY <3>1, <3>2, <3>3, <3>4, <3>5, <3>6
  <2>. QED  BY <2>1, Frame
<1>4. CASE PaymentNext
  <2>1. UNCHANGED buyVars /\ UNCHANGED sweepVars
    BY <1>4, ZenonT(30)
       DEF PaymentNext, CreateVoucher, VoidDraftVoucher, PostVoucher, VoidVoucher,
                CreateBatchOfDue, CreateBatch, PostBatch, VoidBatch
  <2>2. BuyInv' /\ SweepInv'
    BY <2>1, SweepFrame DEF Inv, BuyInv, BuyShape, Linked, RequisitionSafe, OrderSafe,
                            Asked, BackedByApproval, buyVars
  <2>. QED  BY <1>4, <2>2, PaymentSteps DEF Inv
<1>5. CASE UNCHANGED vars
  BY <1>5, Frame DEF vars, payVars
<1>. QED  BY <1>1, <1>2, <1>3, <1>4, <1>5 DEF Next

(***************************************************************************)
(* What is paid of an invoice                                              *)
(***************************************************************************)
\* What of an invoice is settled goes with its status.
RowSound(inv) ==
  /\ inv.settled <= inv.total
  /\ inv.settled > 0 <=> inv.status \in {"PARTIALLY_PAID", "PAID"}

SettledSoFar(inv) == IF inv = NoDoc THEN 0 ELSE inv.settled

\* The vouchers behind what an invoice has settled.
PostedOf(table) == {v \in Voucher : table[v].status = "POSTED"}
PaidBy(table, vs, i) == SumFunction([v \in vs |-> table[v].alloc[i]])
PaidOn(table, i) == PaidBy(table, PostedOf(table), i)

PayTables ==
  /\ invoices \in InvoiceTable /\ vouchers \in VoucherTable
  /\ batches \in BatchTable /\ certificates \in CertificateTable
  /\ rebilled \subseteq Order

\* The inductive form of SettledIsItsVouchers.
Settlements ==
  \A i \in Invoice : /\ invoices[i] # NoDoc => RowSound(invoices[i])
                     /\ SettledSoFar(invoices[i]) = PaidOn(vouchers, i)

\* An invoice changes at most in what is settled of it, once it is posted.
PaidOnly ==
  \A i \in Invoice :
    \/ invoices'[i] = invoices[i]
    \/ /\ invoices[i] \in InvoiceRow /\ invoices'[i] \in InvoiceRow
       /\ invoices'[i].total = invoices[i].total /\ invoices'[i].order = invoices[i].order
       /\ invoices'[i].match = invoices[i].match
       /\ invoices[i].status \in {"OPEN", "PARTIALLY_PAID", "PAID"}
       /\ invoices'[i].status \in {"OPEN", "PARTIALLY_PAID", "PAID"}

\* There are finitely many documents, and quantities are positive.
LEMMA FiniteTables == /\ IsFiniteSet(Invoice) /\ IsFiniteSet(Voucher)
                      /\ Invoice \subseteq Source /\ Voucher \subseteq Source
                      /\ MaxQty \in Nat /\ Qty = 1 .. MaxQty
<1>1. Invoice \in SUBSET Source /\ Voucher \in SUBSET Source
  BY PayableAssumption
<1>. QED  BY <1>1, LedgerAssumption, ProcurementAssumption, FS_Subset DEF Qty

\* A slot of a table holds no document or one of its kind.
LEMMA InvoiceRows ==
  ASSUME NEW table \in InvoiceTable, NEW i \in Invoice
  PROVE  /\ table[i] = NoDoc <=> table[i].status = "NONE"
         /\ table[i] # NoDoc => table[i] \in InvoiceRow
  BY DEF InvoiceTable, InvoiceRow, NoDoc

\* The same, of a slot for a voucher.
LEMMA VoucherTableRows ==
  ASSUME NEW table \in VoucherTable, NEW v \in Voucher
  PROVE  /\ table[v] = NoDoc <=> table[v].status = "NONE"
         /\ table[v] # NoDoc => table[v] \in VoucherRow
  BY DEF VoucherTable, VoucherRow, NoDoc

\* What the domain does to a voucher keeps its kind and its allocations.
LEMMA VoucherTypes ==
  /\ \A alloc \in Allocations, p \in Period, wht \in BOOLEAN :
       /\ NewVoucher(alloc, p, wht) \in VoucherRow
       /\ NewVoucher(alloc, p, wht).alloc = alloc
  /\ \A row \in VoucherRow :
       /\ \A b \in Batch : /\ Attached(row, b) \in VoucherRow
                            /\ Attached(row, b).alloc = row.alloc
                            /\ Attached(row, b).status = row.status
       /\ PostedVoucher(row) \in VoucherRow /\ PostedVoucher(row).alloc = row.alloc
       /\ PostedVoucher(row).status = "POSTED"
       /\ VoidedVoucher(row) \in VoucherRow /\ VoidedVoucher(row).alloc = row.alloc
       /\ VoidedVoucher(row).status = "VOID"
<1>1. ASSUME NEW alloc \in Allocations, NEW p \in Period, NEW wht \in BOOLEAN
      PROVE  /\ NewVoucher(alloc, p, wht) \in VoucherRow
             /\ NewVoucher(alloc, p, wht).alloc = alloc
  BY DEF NewVoucher, VoucherRow, Allocations
<1>2. ASSUME NEW row \in VoucherRow, NEW b \in Batch
      PROVE  /\ Attached(row, b) \in VoucherRow /\ Attached(row, b).alloc = row.alloc
             /\ Attached(row, b).status = row.status
  BY DEF Attached, VoucherRow
<1>3. ASSUME NEW row \in VoucherRow
      PROVE  /\ PostedVoucher(row) \in VoucherRow /\ PostedVoucher(row).alloc = row.alloc
             /\ PostedVoucher(row).status = "POSTED"
             /\ VoidedVoucher(row) \in VoucherRow /\ VoidedVoucher(row).alloc = row.alloc
             /\ VoidedVoucher(row).status = "VOID"
  BY DEF PostedVoucher, VoidedVoucher, VoucherRow
<1>. QED  BY <1>1, <1>2, <1>3

\* An invoice of which `settled` is settled now.
LEMMA SettledRow ==
  ASSUME NEW inv \in InvoiceRow, NEW settled \in Nat, settled <= inv.total
  PROVE  /\ Settled(inv, settled) \in InvoiceRow /\ RowSound(Settled(inv, settled))
         /\ Settled(inv, settled).settled = settled
         /\ Settled(inv, settled).total = inv.total
         /\ Settled(inv, settled).order = inv.order
         /\ Settled(inv, settled).match = inv.match
         /\ Settled(inv, settled).status \in {"OPEN", "PARTIALLY_PAID", "PAID"}
<1> DEFINE status == CASE settled = 0 -> "OPEN"
                       [] settled = inv.total -> "PAID"
                       [] OTHER -> "PARTIALLY_PAID"
           row == [status |-> status, match |-> inv.match, order |-> inv.order,
                   date |-> inv.date, total |-> inv.total, settled |-> settled,
                   wht |-> inv.wht]
<1>1. inv.total \in 1 .. MaxQty /\ MaxQty \in Nat
  BY FiniteTables DEF InvoiceRow
<1>2. settled \in 0 .. MaxQty
  BY <1>1
<1>3. /\ status \in {"OPEN", "PARTIALLY_PAID", "PAID"}
      /\ settled > 0 <=> status \in {"PARTIALLY_PAID", "PAID"}
  BY <1>1
<1>4. Settled(inv, settled) = [inv EXCEPT !.settled = settled, !.status = status]
  BY DEF Settled
<1>. HIDE DEF status
<1>5. Settled(inv, settled) = row
  BY <1>4 DEF InvoiceRow
<1>6. row \in InvoiceRow
  BY <1>2, <1>3 DEF InvoiceRow
<1>7. RowSound(row)
  BY <1>3 DEF RowSound
<1>. QED  BY <1>3, <1>5, <1>6, <1>7

\* A sum of one term.
LEMMA SumOne ==
  ASSUME NEW x, NEW g \in [{x} -> Int]
  PROVE  SumFunction(g) = g[x]
<1>1. IsFiniteSet({x}) /\ {x} \ {x} = {}
  BY FS_Singleton
<1>2. SumFunction(g) = SumFunctionOnSet(g, {x} \ {x}) + (IF x \in {x} THEN g[x] ELSE 0)
  BY <1>1, SumWithout
<1>3. SumFunctionOnSet(g, {}) = 0
  BY SumEmpty
<1>. QED  BY <1>1, <1>2, <1>3

\* What vouchers pay on an invoice can be summed.
LEMMA PaidSum ==
  ASSUME NEW table \in VoucherTable, NEW i \in Invoice, NEW vs \in SUBSET Voucher,
         \A v \in vs : table[v] # NoDoc
  PROVE  /\ IsFiniteSet(vs) /\ [v \in vs |-> table[v].alloc[i]] \in [vs -> Nat]
         /\ PaidBy(table, vs, i) \in Nat
<1> DEFINE g == [v \in vs |-> table[v].alloc[i]]
<1>1. IsFiniteSet(vs)
  BY FiniteTables, FS_Subset
<1>2. \A v \in vs : table[v].alloc[i] \in Nat
  <2> SUFFICES ASSUME NEW v \in vs PROVE table[v].alloc[i] \in Nat
    OBVIOUS
  <2>1. table[v] \in VoucherRow
    BY VoucherTableRows
  <2>. QED  BY <2>1, FiniteTables DEF VoucherRow
<1>3. g \in [vs -> Nat]
  BY <1>2
<1>. HIDE DEF g
<1>4. SumFunction(g) \in Nat
  BY <1>1, <1>3, SumBounds
<1>. QED  BY <1>1, <1>3, <1>4 DEF g, PaidBy

\* The same, of all that are posted.
LEMMA PostedSum ==
  ASSUME NEW table \in VoucherTable, NEW i \in Invoice
  PROVE  /\ PostedOf(table) \in SUBSET Voucher
         /\ \A v \in PostedOf(table) : table[v] # NoDoc
         /\ PaidOn(table, i) \in Nat
<1>1. PostedOf(table) \in SUBSET Voucher /\ \A v \in PostedOf(table) : table[v] # NoDoc
  BY DEF PostedOf, NoDoc
<1>. QED  BY <1>1, PaidSum DEF PaidOn, PaidBy

\* More vouchers are posted.
LEMMA PaidMore ==
  ASSUME NEW table \in VoucherTable, NEW new \in VoucherTable, NEW i \in Invoice,
         NEW vs \in SUBSET Voucher, vs \cap PostedOf(table) = {},
         \A v \in vs : table[v] # NoDoc,
         PostedOf(new) = PostedOf(table) \cup vs,
         \A v \in PostedOf(new) : new[v].alloc = table[v].alloc
  PROVE  PaidOn(new, i) = PaidOn(table, i) + PaidBy(table, vs, i)
<1> DEFINE S == PostedOf(new)
           T == PostedOf(table)
           f == [v \in S |-> table[v].alloc[i]]
           g == [v \in T |-> table[v].alloc[i]]
           h == [v \in vs |-> table[v].alloc[i]]
<1>1. PaidOn(new, i) = SumFunction(f)
  <2>1. f = [v \in S |-> new[v].alloc[i]]
    OBVIOUS
  <2>. QED  BY <2>1 DEF PaidOn, PaidBy
<1>2. PaidOn(table, i) = SumFunction(g)
  BY DEF PaidOn, PaidBy
<1>3. S \in SUBSET Voucher /\ T \in SUBSET Voucher /\ \A v \in S : table[v] # NoDoc
  BY PostedSum
<1>4. /\ IsFiniteSet(S) /\ f \in [S -> Nat] /\ g \in [T -> Nat] /\ h \in [vs -> Nat]
      /\ SumFunction(g) \in Nat /\ SumFunction(h) \in Nat
  <2>1. IsFiniteSet(S) /\ f \in [S -> Nat]
    BY <1>3, PaidSum
  <2>2. g \in [T -> Nat] /\ SumFunction(g) \in Nat
    BY PostedSum, PaidSum DEF PaidBy
  <2>3. h \in [vs -> Nat] /\ SumFunction(h) \in Nat
    BY PaidSum DEF PaidBy
  <2>. QED  BY <2>1, <2>2, <2>3
<1>5. S \ vs = T /\ vs \in SUBSET S /\ (\A v \in T : f[v] = g[v]) /\ (\A v \in vs : f[v] = h[v])
  OBVIOUS
<1>. HIDE DEF S, T, f, g, h
<1>6. f \in [S -> Int] /\ g \in [T -> Int] /\ h \in [vs -> Int]
  BY <1>4
<1>7. /\ IsFiniteSet(vs) /\ IsFiniteSet(T)
      /\ SumFunction(f) = SumFunctionOnSet(f, S \ vs) + SumFunctionOnSet(f, vs)
  <2>1. /\ IsFiniteSet(vs) /\ IsFiniteSet(S \ vs)
        /\ SumFunction(f) = SumFunctionOnSet(f, S \ vs) + SumFunctionOnSet(f, vs)
    <3>1. IsFiniteSet(S) /\ f \in [S -> Int] /\ vs \in SUBSET S
      BY <1>4, <1>5, <1>6
    <3>. QED  BY <3>1, SumParts
  <2>. QED  BY <2>1, <1>5
<1>8. SumFunctionOnSet(f, T) = SumFunctionOnSet(g, T) /\ SumFunction(g) = SumFunctionOnSet(g, T)
  BY <1>5, <1>6, <1>7, SumsAgree, SumOf
<1>9. SumFunctionOnSet(f, vs) = SumFunctionOnSet(h, vs)
      /\ SumFunction(h) = SumFunctionOnSet(h, vs)
  BY <1>5, <1>6, <1>7, SumsAgree, SumOf
<1>10. SumFunction(f) = SumFunction(g) + SumFunction(h)
  BY <1>5, <1>7, <1>8, <1>9
<1>. QED  BY <1>1, <1>2, <1>10 DEF h, PaidBy

\* A posted voucher pays no longer.
LEMMA PaidLess ==
  ASSUME NEW table \in VoucherTable, NEW new \in VoucherTable, NEW i \in Invoice,
         NEW v \in PostedOf(table), PostedOf(new) = PostedOf(table) \ {v},
         new[v] # NoDoc, \A w \in PostedOf(table) : new[w].alloc = table[w].alloc
  PROVE  PaidOn(table, i) = PaidOn(new, i) + table[v].alloc[i]
<1> DEFINE vs == {v}
           h == [w \in vs |-> new[w].alloc[i]]
<1>1. /\ vs \in SUBSET Voucher /\ vs \cap PostedOf(new) = {} /\ v \in vs
      /\ PostedOf(table) = PostedOf(new) \cup vs
      /\ \A w \in vs : new[w] # NoDoc
  BY PostedSum
<1>2. h[v] = table[v].alloc[i]
  OBVIOUS
<1>3. SumFunction(h) = h[v]
  <2>1. h \in [{v} -> Nat]
    <3>1. new[v] \in VoucherRow
      BY <1>1, VoucherTableRows
    <3>2. new[v].alloc[i] \in Nat
      BY <3>1, FiniteTables DEF VoucherRow
    <3>. QED  BY <3>2
  <2>. HIDE DEF h
  <2>2. h \in [{v} -> Int]
    BY <2>1
  <2>. QED  BY <2>2, SumOne
<1>. HIDE DEF vs
<1>4. PaidOn(table, i) = PaidOn(new, i) + PaidBy(new, vs, i)
  BY <1>1, PaidMore
<1>5. PaidBy(new, vs, i) = SumFunction(h)
  BY DEF PaidBy
<1>. QED  BY <1>2, <1>3, <1>4, <1>5

\* The vouchers that are posted stay, and what they allocate.
LEMMA PaidKept ==
  ASSUME NEW table, NEW new, NEW i, PostedOf(new) = PostedOf(table),
         \A v \in PostedOf(table) : new[v].alloc = table[v].alloc
  PROVE  PaidOn(new, i) = PaidOn(table, i)
<1>1. [v \in PostedOf(new) |-> new[v].alloc[i]] = [v \in PostedOf(table) |-> table[v].alloc[i]]
  OBVIOUS
<1>. QED  BY <1>1 DEF PaidOn, PaidBy

\* Drafts are posted, one or a batch: each invoice is settled by their sum.
LEMMA PostingSettles ==
  ASSUME PayTables, Settlements, NEW vs \in SUBSET Voucher,
         \A v \in vs : vouchers[v].status = "DRAFT",
         \A i \in Invoice : SumFunction([v \in vs |-> vouchers[v].alloc[i]]) > 0 =>
           CanSettle(invoices[i], SumFunction([v \in vs |-> vouchers[v].alloc[i]])),
         invoices' = Paid(vs),
         vouchers' = [v \in Voucher |-> IF v \in vs THEN PostedVoucher(vouchers[v])
                                        ELSE vouchers[v]]
  PROVE  invoices' \in InvoiceTable /\ vouchers' \in VoucherTable /\ Settlements' /\ PaidOnly
<1> DEFINE paid(i) == PaidBy(vouchers, vs, i)
<1>1. ASSUME NEW v \in vs
      PROVE  /\ vouchers[v] \in VoucherRow /\ vouchers[v] # NoDoc
             /\ vouchers'[v] \in VoucherRow /\ vouchers'[v].status = "POSTED"
             /\ vouchers'[v].alloc = vouchers[v].alloc
  <2>1. vouchers[v].status = "DRAFT" /\ vouchers'[v] = PostedVoucher(vouchers[v])
    OBVIOUS
  <2>2. vouchers[v] \in VoucherRow /\ vouchers[v] # NoDoc
    BY <2>1, VoucherTableRows DEF PayTables, NoDoc
  <2>. QED  BY <2>1, <2>2, VoucherTypes
<1>2. /\ vouchers' \in VoucherTable /\ vs \cap PostedOf(vouchers) = {}
      /\ PostedOf(vouchers') = PostedOf(vouchers) \cup vs
      /\ \A v \in PostedOf(vouchers') : vouchers'[v].alloc = vouchers[v].alloc
  BY <1>1 DEF PayTables, VoucherTable, PostedOf
<1>3. ASSUME NEW i \in Invoice
      PROVE  /\ PaidOn(vouchers', i) = PaidOn(vouchers, i) + paid(i)
             /\ paid(i) \in Nat /\ PaidOn(vouchers, i) \in Nat
  <2>1. paid(i) \in Nat
    BY <1>1, PaidSum DEF PayTables
  <2>2. PaidOn(vouchers', i) = PaidOn(vouchers, i) + paid(i)
    BY <1>1, <1>2, PaidMore DEF PayTables
  <2>. QED  BY <2>1, <2>2, PostedSum DEF PayTables
<1>4. \A i \in Invoice : paid(i) > 0 => CanSettle(invoices[i], paid(i))
  BY DEF PaidBy
<1>5. invoices' = [i \in Invoice |-> IF paid(i) = 0 THEN invoices[i]
                                     ELSE Settled(invoices[i], invoices[i].settled + paid(i))]
  BY DEF Paid, PaidBy
<1>. HIDE DEF paid
<1>6. ASSUME NEW i \in Invoice
      PROVE  /\ invoices'[i] \in InvoiceRow \cup {NoDoc}
             /\ invoices'[i] # NoDoc => RowSound(invoices'[i])
             /\ SettledSoFar(invoices'[i]) = PaidOn(vouchers', i)
             /\ \/ invoices'[i] = invoices[i]
                \/ /\ invoices[i] \in InvoiceRow /\ invoices'[i] \in InvoiceRow
                   /\ invoices'[i].total = invoices[i].total
                   /\ invoices'[i].order = invoices[i].order
                   /\ invoices'[i].match = invoices[i].match
                   /\ invoices[i].status \in {"OPEN", "PARTIALLY_PAID", "PAID"}
                   /\ invoices'[i].status \in {"OPEN", "PARTIALLY_PAID", "PAID"}
  <2>1. CASE paid(i) = 0
    <3>1. invoices'[i] = invoices[i] /\ PaidOn(vouchers', i) = PaidOn(vouchers, i)
      BY <1>3, <1>5, <2>1
    <3>. QED  BY <3>1 DEF Settlements, PayTables, InvoiceTable
  <2>2. CASE paid(i) # 0
    <3> DEFINE settled == invoices[i].settled + paid(i)
    <3>1. IsOpen(invoices[i]) /\ paid(i) \in 1 .. invoices[i].total - invoices[i].settled
      BY <1>3, <1>4, <2>2 DEF CanSettle, OpenBalance
    <3>2. invoices[i] \in InvoiceRow /\ invoices[i] # NoDoc
      BY <3>1, InvoiceRows DEF IsOpen, PayTables, NoDoc
    <3>3. settled \in Nat /\ settled <= invoices[i].total /\ settled = PaidOn(vouchers', i)
      <4>1. invoices[i].settled \in Nat /\ invoices[i].total \in Nat
        BY <3>2, FiniteTables DEF InvoiceRow
      <4>2. invoices[i].settled = PaidOn(vouchers, i)
        BY <3>2 DEF Settlements, SettledSoFar
      <4>. QED  BY <1>3, <3>1, <4>1, <4>2
    <3>4. invoices'[i] = Settled(invoices[i], settled)
      BY <1>5, <2>2
    <3>. HIDE DEF settled
    <3>5. /\ invoices'[i] \in InvoiceRow /\ RowSound(invoices'[i])
          /\ invoices'[i].settled = settled
          /\ invoices'[i].total = invoices[i].total
          /\ invoices'[i].order = invoices[i].order
          /\ invoices'[i].match = invoices[i].match
          /\ invoices'[i].status \in {"OPEN", "PARTIALLY_PAID", "PAID"}
      BY <3>2, <3>3, <3>4, SettledRow
    <3>6. invoices'[i] # NoDoc
      BY <3>5 DEF NoDoc
    <3>. QED  BY <3>1, <3>2, <3>3, <3>5, <3>6 DEF SettledSoFar, IsOpen
  <2>. QED  BY <2>1, <2>2
<1>7. invoices' \in InvoiceTable
  BY <1>5, <1>6 DEF InvoiceTable
<1>8. Settlements'
  BY <1>6 DEF Settlements
<1>9. PaidOnly
  BY <1>6 DEF PaidOnly
<1>. QED  BY <1>2, <1>7, <1>8, <1>9

\* A posted voucher is voided: each invoice gets back what it paid.
LEMMA VoidingUnsettles ==
  ASSUME PayTables, Settlements, NEW v \in Voucher, vouchers[v].status = "POSTED",
         \A i \in Invoice : vouchers[v].alloc[i] > 0 =>
           CanUnsettle(invoices[i], vouchers[v].alloc[i]),
         invoices' = Unpaid(v), SaveVoucher(v, VoidedVoucher(vouchers[v]))
  PROVE  invoices' \in InvoiceTable /\ vouchers' \in VoucherTable /\ Settlements' /\ PaidOnly
<1> DEFINE paid(i) == vouchers[v].alloc[i]
<1>1. vouchers[v] \in VoucherRow
  BY VoucherTableRows DEF PayTables, NoDoc
<1>2. /\ VoidedVoucher(vouchers[v]) \in VoucherRow
      /\ VoidedVoucher(vouchers[v]).status = "VOID"
      /\ VoidedVoucher(vouchers[v]).alloc = vouchers[v].alloc
  BY <1>1, VoucherTypes
<1>3. /\ vouchers' \in VoucherTable
      /\ vouchers'[v] = VoidedVoucher(vouchers[v])
      /\ \A w \in Voucher \ {v} : vouchers'[w] = vouchers[w]
  BY <1>2 DEF SaveVoucher, PayTables, VoucherTable
<1>4. /\ v \in PostedOf(vouchers) /\ PostedOf(vouchers') = PostedOf(vouchers) \ {v}
      /\ vouchers'[v] # NoDoc
      /\ \A w \in PostedOf(vouchers) : vouchers'[w].alloc = vouchers[w].alloc
  BY <1>2, <1>3 DEF PostedOf, NoDoc
<1>5. ASSUME NEW i \in Invoice
      PROVE  /\ PaidOn(vouchers, i) = PaidOn(vouchers', i) + paid(i)
             /\ paid(i) \in Nat /\ PaidOn(vouchers', i) \in Nat
  <2>1. paid(i) \in Nat
    BY <1>1, FiniteTables DEF VoucherRow
  <2>2. PaidOn(vouchers, i) = PaidOn(vouchers', i) + paid(i)
    BY <1>3, <1>4, PaidLess DEF PayTables
  <2>. QED  BY <1>3, <2>1, <2>2, PostedSum
<1>6. invoices' = [i \in Invoice |-> IF paid(i) = 0 THEN invoices[i]
                                     ELSE Settled(invoices[i], invoices[i].settled - paid(i))]
  BY DEF Unpaid
<1>7. \A i \in Invoice : paid(i) > 0 => CanUnsettle(invoices[i], paid(i))
  OBVIOUS
<1>. HIDE DEF paid
<1>8. ASSUME NEW i \in Invoice
      PROVE  /\ invoices'[i] \in InvoiceRow \cup {NoDoc}
             /\ invoices'[i] # NoDoc => RowSound(invoices'[i])
             /\ SettledSoFar(invoices'[i]) = PaidOn(vouchers', i)
             /\ \/ invoices'[i] = invoices[i]
                \/ /\ invoices[i] \in InvoiceRow /\ invoices'[i] \in InvoiceRow
                   /\ invoices'[i].total = invoices[i].total
                   /\ invoices'[i].order = invoices[i].order
                   /\ invoices'[i].match = invoices[i].match
                   /\ invoices[i].status \in {"OPEN", "PARTIALLY_PAID", "PAID"}
                   /\ invoices'[i].status \in {"OPEN", "PARTIALLY_PAID", "PAID"}
  <2>1. CASE paid(i) = 0
    <3>1. invoices'[i] = invoices[i] /\ PaidOn(vouchers', i) = PaidOn(vouchers, i)
      BY <1>5, <1>6, <2>1
    <3>. QED  BY <3>1 DEF Settlements, PayTables, InvoiceTable
  <2>2. CASE paid(i) # 0
    <3> DEFINE settled == invoices[i].settled - paid(i)
    <3>1. /\ invoices[i].status \in {"PAID", "PARTIALLY_PAID"}
          /\ paid(i) \in 1 .. invoices[i].settled
      BY <1>5, <1>7, <2>2 DEF CanUnsettle
    <3>2. invoices[i] \in InvoiceRow /\ invoices[i] # NoDoc /\ RowSound(invoices[i])
      BY <3>1, InvoiceRows DEF PayTables, NoDoc, Settlements
    <3>3. settled \in Nat /\ settled <= invoices[i].total /\ settled = PaidOn(vouchers', i)
      <4>1. /\ invoices[i].settled \in Nat /\ invoices[i].total \in Nat
            /\ invoices[i].settled <= invoices[i].total
        BY <3>2, FiniteTables DEF InvoiceRow, RowSound
      <4>2. invoices[i].settled = PaidOn(vouchers, i)
        BY <3>2 DEF Settlements, SettledSoFar
      <4>. QED  BY <1>5, <3>1, <4>1, <4>2
    <3>4. invoices'[i] = Settled(invoices[i], settled)
      BY <1>6, <2>2
    <3>. HIDE DEF settled
    <3>5. /\ invoices'[i] \in InvoiceRow /\ RowSound(invoices'[i])
          /\ invoices'[i].settled = settled
          /\ invoices'[i].total = invoices[i].total
          /\ invoices'[i].order = invoices[i].order
          /\ invoices'[i].match = invoices[i].match
          /\ invoices'[i].status \in {"OPEN", "PARTIALLY_PAID", "PAID"}
      BY <3>2, <3>3, <3>4, SettledRow
    <3>6. invoices'[i] # NoDoc
      BY <3>5 DEF NoDoc
    <3>. QED  BY <3>1, <3>2, <3>3, <3>5, <3>6 DEF SettledSoFar
  <2>. QED  BY <2>1, <2>2
<1>9. invoices' \in InvoiceTable
  BY <1>6, <1>8 DEF InvoiceTable
<1>10. Settlements'
  BY <1>8 DEF Settlements
<1>11. PaidOnly
  BY <1>8 DEF PaidOnly
<1>. QED  BY <1>3, <1>9, <1>10, <1>11

\* An invoice is saved with what is settled of it.
LEMMA InvoiceSaved ==
  ASSUME PayTables, Settlements, NEW i \in Invoice, NEW row \in InvoiceRow,
         invoices' = [invoices EXCEPT ![i] = row], vouchers' = vouchers,
         RowSound(row), row.settled = SettledSoFar(invoices[i])
  PROVE  /\ invoices' \in InvoiceTable /\ Settlements'
         /\ invoices'[i] = row /\ \A k \in Invoice \ {i} : invoices'[k] = invoices[k]
<1>1. /\ invoices' \in InvoiceTable
      /\ invoices'[i] = row /\ \A k \in Invoice \ {i} : invoices'[k] = invoices[k]
  BY DEF PayTables, InvoiceTable
<1>2. row # NoDoc
  BY DEF InvoiceRow, NoDoc
<1>. QED  BY <1>1, <1>2 DEF Settlements, SettledSoFar

\* Vouchers are saved, and those that are posted stay.
LEMMA VouchersSaved ==
  ASSUME PayTables, Settlements, vouchers' \in VoucherTable, invoices' = invoices,
         \A v \in Voucher : \/ vouchers'[v] = vouchers[v]
                            \/ vouchers[v].status # "POSTED" /\ vouchers'[v].status # "POSTED"
  PROVE  Settlements' /\ PaidOnly
<1>1. PostedOf(vouchers') = PostedOf(vouchers)
      /\ \A v \in PostedOf(vouchers) : vouchers'[v].alloc = vouchers[v].alloc
  BY DEF PostedOf
<1>. QED  BY <1>1, PaidKept DEF Settlements, PaidOnly

(***************************************************************************)
(* The entries of a document                                               *)
(***************************************************************************)
\* Nothing is posted for s.
Empty(s) == entries[Posted(s)] = NoEntry /\ entries[Voided(s)] = NoEntry

\* What the ledger says of a document that has not been posted.
Fresh(s) == ReversedByHand(s) \/ Empty(s)

\* The entries of s tell `effect`, or an accountant has taken s out by hand.
LedgerSays(s, effect) ==
  \/ ReversedByHand(s)
  \/ Empty(s) /\ effect = 0
  \/ /\ entries[Posted(s)].status = "POSTED" /\ entries[Voided(s)] = NoEntry
     /\ entries[Posted(s)].lines["CONTROL"] = effect
  \/ /\ entries[Posted(s)].status = "REVERSED" /\ entries[Voided(s)].status = "POSTED"
     /\ entries[Voided(s)].lines["CONTROL"] = - entries[Posted(s)].lines["CONTROL"]
     /\ effect = 0

\* What no step on other documents changes.
EntriesKept(s) ==
  entries'[Posted(s)] = entries[Posted(s)] /\ entries'[Voided(s)] = entries[Voided(s)]

\* The keys of different documents, and of their entries, differ.
LEMMA KeysApart ==
  /\ YearEnd \in Key /\ NoKey \in Key /\ YearEnd # NoKey
  /\ \A s \in Source :
       /\ Posted(s) \in Key /\ Voided(s) \in Key
       /\ Posted(s) # Voided(s)
       /\ Posted(s) # NoKey /\ Voided(s) # NoKey /\ Posted(s) # YearEnd /\ Voided(s) # YearEnd
       /\ \A t \in Source : t # s => Posted(t) # Posted(s) /\ Voided(t) # Voided(s)
       /\ \A t \in Source : Posted(t) # Voided(s)
  BY LedgerAssumption DEF Key, Posted, Voided, YearEnd, NoKey

\* There are finitely many keys.
LEMMA FiniteKeys == IsFiniteSet(Key)
<1> DEFINE P == {Posted(s) : s \in Source}
           V == {Voided(s) : s \in Source}
<1>1. IsFiniteSet(P)
  <2>1. [s \in Source |-> Posted(s)] \in Surjection(Source, P)
    BY DEF Surjection
  <2> QED BY <2>1, LedgerAssumption, FS_Surjection
<1>2. IsFiniteSet(V)
  <2>1. [s \in Source |-> Voided(s)] \in Surjection(Source, V)
    BY DEF Surjection
  <2> QED BY <2>1, LedgerAssumption, FS_Surjection
<1>3. IsFiniteSet({YearEnd}) /\ IsFiniteSet({NoKey})
  BY FS_Singleton
<1> DEFINE B == {YearEnd} \cup {NoKey}
<1>4. IsFiniteSet(P \cup V) /\ IsFiniteSet(B)
  BY <1>1, <1>2, <1>3, FS_Union
<1>5. Key = (P \cup V) \cup B
  BY DEF Key
<1> HIDE DEF P, V, B
<1> QED BY <1>4, <1>5, FS_Union

\* A slot of the ledger holds no entry or an entry.
LEMMA EntryRows ==
  ASSUME NEW table \in EntryTable, NEW k \in Key
  PROVE /\ table[k] = NoEntry <=> table[k].status = "NONE"
        /\ table[k] # NoEntry => table[k] \in Entry
  BY DEF EntryTable, Entry, NoEntry

\* NewEntry is an entry.
LEMMA NewEntryIsARow ==
  ASSUME NEW status \in {"DRAFT", "POSTED"}, NEW lines \in Lines, NEW p \in Period,
         NEW of \in Key \cup {Nothing}
  PROVE  LET e == NewEntry(status, lines, p, of)
         IN  e \in Entry /\ e.status = status /\ e.lines = lines /\ e.reversalOf = of
             /\ e # NoEntry
  BY DEF NewEntry, Entry, NoEntry

\* A mirror negates every line.
LEMMA Mirrored ==
  ASSUME NEW lines \in Lines
  PROVE  Mirror(lines) \in Lines /\ \A a \in Account : Mirror(lines)[a] = - lines[a]
  BY DEF Mirror, Lines

\* A saved entry changes its status and nothing else.
LEMMA MovedEntry ==
  ASSUME NEW table \in EntryTable, NEW k \in Key, table[k] # NoEntry,
         NEW to \in {"DRAFT", "PENDING_APPROVAL", "POSTED", "REVERSED", "VOID"}
  PROVE  LET saved == SavedEntry(table, k, to)
         IN  /\ saved \in EntryTable
             /\ saved[k].status = to /\ saved[k].lines = table[k].lines
             /\ saved[k].reversalOf = table[k].reversalOf
             /\ \A x \in Key \ {k} : saved[x] = table[x]
<1>1. table[k] \in Entry
  BY EntryRows
<1>2. [table[k] EXCEPT !.status = to]
        = [status |-> to, lines |-> table[k].lines, period |-> table[k].period,
           reversalOf |-> table[k].reversalOf]
  BY <1>1 DEF Entry
<1>3. [table[k] EXCEPT !.status = to] \in Entry
  BY <1>1, <1>2 DEF Entry
<1>4. SavedEntry(table, k, to) = [table EXCEPT ![k] = [table[k] EXCEPT !.status = to]]
  BY DEF SavedEntry
<1> DEFINE e == [table[k] EXCEPT !.status = to]
<1>5. e.status = to /\ e.lines = table[k].lines /\ e.reversalOf = table[k].reversalOf
  BY <1>2
<1> HIDE DEF e
<1>6. SavedEntry(table, k, to) = [table EXCEPT ![k] = e] /\ e \in Entry
  BY <1>3, <1>4 DEF e
<1>7. SavedEntry(table, k, to) \in EntryTable
  BY <1>6 DEF EntryTable
<1>8. SavedEntry(table, k, to)[k] = e /\ \A x \in Key \ {k} :
      SavedEntry(table, k, to)[x] = table[x]
  BY <1>6 DEF EntryTable
<1> QED BY <1>5, <1>7, <1>8

\* What the ledger says of s survives a step that leaves its entries alone.
LEMMA SaysKept ==
  ASSUME NEW s \in Source, EntriesKept(s), ReversedByHand(s) => ReversedByHand(s)'
  PROVE  /\ Fresh(s) => Fresh(s)'
         /\ \A effect : LedgerSays(s, effect) => LedgerSays(s, effect)'
  BY DEF LedgerSays, Fresh, EntriesKept, Empty

\* Posting a fresh document: the ledger says what the lines say.
LEMMA PostedAt ==
  ASSUME entries \in EntryTable, NEW s \in Source, NEW lines \in Lines, NEW p \in Period,
         Fresh(s), lines["CONTROL"] # 0 \/ lines = Zero,
         entries'[Posted(s)] = Posting(entries, Posted(s), lines, p)[Posted(s)],
         entries'[Voided(s)] = entries[Voided(s)], entries'[NoKey] = entries[NoKey]
  PROVE  LedgerSays(s, lines["CONTROL"])'
<1>1. CASE ReversedByHand(s)
  <2>1. ReversedByHand(s)'
    BY <1>1 DEF ReversedByHand, EntriesOf
  <2>. QED  BY <2>1 DEF LedgerSays
<1>2. CASE Empty(s) /\ lines = Zero
  <2>1. entries'[Posted(s)] = NoEntry /\ entries'[Voided(s)] = NoEntry
    BY <1>2 DEF Empty, Posting
  <2>2. lines["CONTROL"] = 0
    BY <1>2 DEF Zero, Account
  <2>. QED  BY <2>1, <2>2 DEF LedgerSays, Empty
<1>3. CASE Empty(s) /\ lines # Zero
  <2> DEFINE e == NewEntry("POSTED", lines, p, Nothing)
  <2>1. e.status = "POSTED" /\ e.lines = lines
    BY NewEntryIsARow
  <2>2. Posting(entries, Posted(s), lines, p) = [entries EXCEPT ![Posted(s)] = e]
    BY <1>3 DEF Posting, Empty
  <2>. HIDE DEF e
  <2>3. entries'[Posted(s)] = e /\ entries'[Voided(s)] = NoEntry
    BY <1>3, <2>2, KeysApart DEF Empty, EntryTable
  <2>. QED  BY <2>1, <2>3 DEF LedgerSays
<1>. QED  BY <1>1, <1>2, <1>3 DEF Fresh

\* ... and a posting touches no other key.
LEMMA PostingKeeps ==
  ASSUME entries \in EntryTable, NEW s \in Source, NEW lines \in Lines, NEW p \in Period
  PROVE  /\ Posting(entries, Posted(s), lines, p) \in EntryTable
         /\ \A k \in Key \ {Posted(s)} :
              Posting(entries, Posted(s), lines, p)[k] = entries[k]
<1> DEFINE e == NewEntry("POSTED", lines, p, Nothing)
<1>1. e \in Entry
  BY NewEntryIsARow
<1>2. \/ Posting(entries, Posted(s), lines, p) = entries
      \/ Posting(entries, Posted(s), lines, p) = [entries EXCEPT ![Posted(s)] = e]
  BY DEF Posting
<1>. HIDE DEF e
<1>. QED  BY <1>1, <1>2, KeysApart DEF EntryTable

\* The two together, for one document.
LEMMA PostingSays ==
  ASSUME entries \in EntryTable, NEW s \in Source, NEW lines \in Lines, NEW p \in Period,
         Fresh(s), lines["CONTROL"] # 0 \/ lines = Zero,
         entries' = Posting(entries, Posted(s), lines, p)
  PROVE  /\ entries' \in EntryTable
         /\ LedgerSays(s, lines["CONTROL"])'
         /\ \A t \in Source \ {s} : EntriesKept(t)
         /\ entries'[NoKey] = entries[NoKey]
<1>1. entries' \in EntryTable /\ \A k \in Key \ {Posted(s)} : entries'[k] = entries[k]
  BY PostingKeeps
<1>2. /\ entries'[Voided(s)] = entries[Voided(s)] /\ entries'[NoKey] = entries[NoKey]
      /\ \A t \in Source \ {s} : EntriesKept(t)
  BY <1>1, KeysApart DEF EntriesKept
<1>3. LedgerSays(s, lines["CONTROL"])'
  BY <1>2, PostedAt
<1>. QED  BY <1>1, <1>2, <1>3

\* Reversing a posted one: the ledger says nothing any more.
LEMMA ReversingSays ==
  ASSUME entries \in EntryTable, NEW s \in Source, NEW p \in Period, NEW effect,
         LedgerSays(s, effect),
         entries' = Reversing(entries, s, p)
  PROVE  /\ entries' \in EntryTable
         /\ LedgerSays(s, 0)'
         /\ \A t \in Source \ {s} : EntriesKept(t)
         /\ entries'[NoKey] = entries[NoKey]
<1>1. CASE entries[Posted(s)].status # "POSTED"
  <2>1. entries' = entries
    BY <1>1 DEF Reversing
  <2>2. LedgerSays(s, 0)
    BY <1>1 DEF LedgerSays
  <2>3. LedgerSays(s, 0)'
    BY <2>1, <2>2 DEF LedgerSays, Empty, ReversedByHand
  <2> QED BY <2>1, <2>3 DEF EntriesKept
<1>2. CASE entries[Posted(s)].status = "POSTED"
  <2> DEFINE saved == SavedEntry(entries, Posted(s), "REVERSED")
             e == NewEntry("POSTED", Mirror(entries[Posted(s)].lines), p, Posted(s))
  <2>1. Posted(s) \in Key /\ entries[Posted(s)] \in Entry /\ entries[Posted(s)] # NoEntry
    BY <1>2, KeysApart, EntryRows DEF NoEntry
  <2>2. /\ saved \in EntryTable /\ saved[Posted(s)].status = "REVERSED"
        /\ saved[Posted(s)].lines = entries[Posted(s)].lines
        /\ \A x \in Key \ {Posted(s)} : saved[x] = entries[x]
    BY <2>1, MovedEntry
  <2>3. e \in Entry /\ e.status = "POSTED" /\ e.lines = Mirror(entries[Posted(s)].lines)
    BY <2>1, Mirrored, NewEntryIsARow DEF Entry
  <2>4. e.lines["CONTROL"] = - entries[Posted(s)].lines["CONTROL"]
    BY <2>1, <2>3, Mirrored DEF Entry, Account
  <2>5. entries' = [saved EXCEPT ![Voided(s)] = e]
    BY <1>2 DEF Reversing
  <2> HIDE DEF saved, e
  <2>6. entries' \in EntryTable
    BY <2>2, <2>3, <2>5 DEF EntryTable
  <2>7. /\ entries'[Voided(s)] = e /\ entries'[Posted(s)] = saved[Posted(s)]
        /\ \A k \in Key \ {Posted(s), Voided(s)} : entries'[k] = entries[k]
    BY <2>2, <2>5, KeysApart DEF EntryTable
  <2>8. \A t \in Source \ {s} : EntriesKept(t)
    BY <2>7, KeysApart DEF EntriesKept
  <2>9. entries'[NoKey] = entries[NoKey]
    BY <2>7, KeysApart
  <2>10. LedgerSays(s, 0)'
    <3>1. /\ entries'[Posted(s)].status = "REVERSED" /\ entries'[Voided(s)].status = "POSTED"
          /\ entries'[Voided(s)].lines["CONTROL"] = - entries'[Posted(s)].lines["CONTROL"]
      BY <2>2, <2>3, <2>4, <2>7
    <3> QED BY <3>1 DEF LedgerSays
  <2> QED BY <2>6, <2>8, <2>9, <2>10
<1> QED BY <1>1, <1>2

(*****************************************************************************)

\* The entries that ever took effect.
Took == {"POSTED", "REVERSED"}

TookEffect(table, keys) == {k \in keys : table[k].status \in Took}

\* The lines of those entries can be summed.
LEMMA TotalSum ==
  ASSUME NEW table \in EntryTable, NEW keys \in SUBSET Key, NEW account \in Account
  PROVE  /\ IsFiniteSet(TookEffect(table, keys))
         /\ [k \in TookEffect(table, keys) |-> table[k].lines[account]]
              \in [TookEffect(table, keys) -> Int]
<1>1. TookEffect(table, keys) \in SUBSET Key
  BY DEF TookEffect
<1>2. \A k \in TookEffect(table, keys) : table[k].lines[account] \in Int
  BY EntryRows DEF TookEffect, Took, Entry, NoEntry, Lines
<1> QED BY <1>1, <1>2, FiniteKeys, FS_Subset

\* Total, by the set its sum runs over.
LEMMA TotalIs ==
  ASSUME NEW keys, NEW account
  PROVE  Total(account, keys)
           = SumFunction([k \in TookEffect(entries, keys) |-> entries[k].lines[account]])
  BY DEF Total, TookEffect, Took

\* What a document says of itself is what its entries add up to.
LEMMA SaysTotal ==
  ASSUME entries \in EntryTable, NEW s \in Source, NEW effect \in Int,
         LedgerSays(s, effect), ~ ReversedByHand(s)
  PROVE  Total("CONTROL", EntriesOf(s)) = effect
<1> DEFINE a == Posted(s)
           b == Voided(s)
           S == TookEffect(entries, {a, b})
           g == [k \in S |-> entries[k].lines["CONTROL"]]
<1>1. a \in Key /\ b \in Key /\ a # b
  BY KeysApart
<1>2. S \in SUBSET {a, b} /\ g \in [S -> Int]
  BY <1>1, TotalSum DEF TookEffect, Account
<1>3. SumFunction(g) = (IF a \in S THEN g[a] ELSE 0) + (IF b \in S THEN g[b] ELSE 0)
  <2> HIDE DEF a, b, S, g
  <2> QED BY <1>1, <1>2, SumPair
<1>4. Total("CONTROL", EntriesOf(s)) = SumFunction(g)
  BY TotalIs DEF EntriesOf
<1>5. /\ a \in S <=> entries[a].status \in Took
      /\ b \in S <=> entries[b].status \in Took
      /\ a \in S => g[a] = entries[a].lines["CONTROL"] /\ entries[a].lines["CONTROL"] \in Int
      /\ b \in S => g[b] = entries[b].lines["CONTROL"]
  BY <1>2 DEF TookEffect
<1>6. \/ entries[a] = NoEntry /\ entries[b] = NoEntry /\ effect = 0
      \/ /\ entries[a].status = "POSTED" /\ entries[b] = NoEntry
         /\ entries[a].lines["CONTROL"] = effect
      \/ /\ entries[a].status = "REVERSED" /\ entries[b].status = "POSTED"
         /\ entries[b].lines["CONTROL"] = - entries[a].lines["CONTROL"]
         /\ effect = 0
  BY DEF LedgerSays, Fresh, Empty
<1> HIDE DEF a, b, S, g
<1>7. CASE entries[a] = NoEntry /\ entries[b] = NoEntry /\ effect = 0
  BY <1>3, <1>4, <1>5, <1>7 DEF NoEntry, Took
<1>8. CASE /\ entries[a].status = "POSTED" /\ entries[b] = NoEntry
           /\ entries[a].lines["CONTROL"] = effect
  BY <1>3, <1>4, <1>5, <1>8 DEF NoEntry, Took
<1>9. CASE /\ entries[a].status = "REVERSED" /\ entries[b].status = "POSTED"
           /\ entries[b].lines["CONTROL"] = - entries[a].lines["CONTROL"]
           /\ effect = 0
  BY <1>3, <1>4, <1>5, <1>9 DEF Took
<1> QED BY <1>6, <1>7, <1>8, <1>9

(***************************************************************************)
(* Calls and the ledger                                                    *)
(***************************************************************************)
\* What a call remembers is of its kind.
Typed(job) ==
  /\ job.op = "saveYear" => job.year \in Year
  /\ job.op = "yearEnd" => job.closing \in Lines
  /\ job.op = "closePeriod" => job.at \in Period
  /\ job.op = "capture" => /\ job.order \in Order /\ job.qty \in Qty
                           /\ job.twice \in BOOLEAN
                           /\ job.match \in {"MATCHED", "VARIANCE"}
Calls == call = [c \in Caller |-> call[c]] /\ \A c \in Caller : Typed(call[c])

LedgerSafe == LedgerTypeOK /\ Calls

\* No capture begins, or changes what it has read.
CapturesStay == \A c \in Caller : call'[c].op = "capture" => call'[c] = call[c]

\* What a step of the accountant leaves of the entries of a document.
SourcesKept ==
  \A s \in Source : /\ ReversedByHand(s) => ReversedByHand(s)'
                    /\ EntriesKept(s) \/ ReversedByHand(s)'

\* A call that begins.
LEMMA NewJob ==
  ASSUME Calls, NEW c \in Caller, NEW job, call' = [call EXCEPT ![c] = job], Typed(job)
  PROVE  /\ Calls' /\ call'[c] = job /\ \A d \in Caller \ {c} : call'[d] = call[d]
         /\ job.op # "capture" => CapturesStay
<1>1. call' = [d \in Caller |-> IF d = c THEN job ELSE call[d]]
  BY DEF Calls
<1>2. \A d \in Caller : Typed(call'[d])
  BY <1>1 DEF Calls
<1>. QED  BY <1>1, <1>2 DEF Calls, CapturesStay

\* A call that ends.
LEMMA Finished ==
  ASSUME Calls, NEW c \in Caller, Finish(c)
  PROVE  /\ Calls' /\ CapturesStay /\ call'[c].op = "none"
         /\ \A d \in Caller \ {c} : call'[d] = call[d]
<1> DEFINE job == NoCall
<1>1. Typed(job) /\ job.op = "none" /\ call' = [call EXCEPT ![c] = job]
  BY DEF Finish, NoCall, Typed
<1>. HIDE DEF job
<1>. QED  BY <1>1, NewJob

\* The same, of a call that passed the gate.
LEMMA ThroughTheGate ==
  ASSUME Calls, NEW c \in Caller, NEW p, ThroughGate(c, p)
  PROVE  Calls' /\ CapturesStay
BY Finished DEF ThroughGate

\* The one entry without a key, saved or inserted.
LEMMA JournalKeeps ==
  ASSUME entries \in EntryTable, NEW e \in Entry, entries' = [entries EXCEPT ![NoKey] = e],
         entries[NoKey] # NoEntry => e.reversalOf = entries[NoKey].reversalOf
  PROVE  entries' \in EntryTable /\ SourcesKept
<1>1. entries'[NoKey] = e /\ e # NoEntry /\ \A k \in Key \ {NoKey} : entries'[k] = entries[k]
  BY KeysApart DEF EntryTable, Entry, NoEntry
<1>2. entries' \in EntryTable
  BY DEF EntryTable
<1>3. SourcesKept
  BY <1>1, KeysApart DEF SourcesKept, EntriesKept, ReversedByHand, EntriesOf
<1>. QED  BY <1>2, <1>3

\* The same, of a move of its status.
LEMMA JournalMoves ==
  ASSUME entries \in EntryTable,
         NEW to \in {"DRAFT", "PENDING_APPROVAL", "POSTED", "VOID"}, MoveEntry(NoKey, to)
  PROVE  entries' \in EntryTable /\ SourcesKept
<1>1. entries[NoKey] # NoEntry
  BY DEF MoveEntry, CanMoveEntry, EntryMoves, NoEntry, Unposted
<1> DEFINE saved == SavedEntry(entries, NoKey, to)
<1>2. /\ saved \in EntryTable
      /\ saved[NoKey].status = to
      /\ saved[NoKey].reversalOf = entries[NoKey].reversalOf
      /\ \A x \in Key \ {NoKey} : saved[x] = entries[x]
  BY <1>1, KeysApart, MovedEntry
<1>3. entries' = saved
  BY DEF MoveEntry
<1>. HIDE DEF saved
<1>4. saved[NoKey] \in Entry
  <2>1. saved[NoKey].status # "NONE"
    BY <1>2
  <2>. QED  BY <1>2, <2>1, KeysApart, EntryRows DEF NoEntry
<1>5. entries' = [entries EXCEPT ![NoKey] = saved[NoKey]]
  BY <1>2, <1>3 DEF EntryTable
<1>. QED  BY <1>2, <1>4, <1>5, JournalKeeps

\* An accountant reverses an entry: its document is out from here on.
LEMMA ReversedOut ==
  ASSUME entries \in EntryTable, NEW c \in Caller, NEW k \in ByHand, NEW p \in Period,
         ReverseJournal(c, k, p)
  PROVE  entries' \in EntryTable /\ SourcesKept
<1>1. entries \in EntryTable /\ k \in Key
  BY LedgerAssumption
<1>2. entries[k].status = "POSTED" /\ entries[k] # NoEntry /\ entries[NoKey] = NoEntry
      /\ k # NoKey
  BY DEF ReverseJournal, CanMoveEntry, EntryMoves, NoEntry, Unposted
<1> DEFINE saved == SavedEntry(entries, k, "REVERSED")
           e == NewEntry("POSTED", Mirror(entries[k].lines), p, k)
<1>3. saved \in EntryTable /\ \A x \in Key \ {k} : saved[x] = entries[x]
  BY <1>1, <1>2, MovedEntry
<1>4. entries[k].lines \in Lines
  BY <1>1, <1>2, EntryRows DEF Entry
<1>5. e \in Entry /\ e.reversalOf = k /\ e # NoEntry
  BY <1>1, <1>4, Mirrored, NewEntryIsARow
<1>6. entries' = [saved EXCEPT ![NoKey] = e]
  BY DEF ReverseJournal
<1> HIDE DEF saved, e
<1>7. entries' \in EntryTable
  BY <1>3, <1>5, <1>6 DEF EntryTable
<1>8. entries'[NoKey] = e /\ \A x \in Key \ {k, NoKey} : entries'[x] = entries[x]
  BY <1>3, <1>6, KeysApart DEF EntryTable
<1>9. SourcesKept
  <2> SUFFICES ASSUME NEW s \in Source
               PROVE  /\ ReversedByHand(s) => ReversedByHand(s)'
                      /\ EntriesKept(s) \/ ReversedByHand(s)'
    BY DEF SourcesKept
  <2>1. ~ ReversedByHand(s)
    BY <1>2 DEF ReversedByHand
  <2>2. CASE k \in EntriesOf(s)
    BY <2>2, <1>5, <1>8 DEF ReversedByHand, EntriesOf
  <2>3. CASE k \notin EntriesOf(s)
    <3>1. Posted(s) \in Key \ {k, NoKey} /\ Voided(s) \in Key \ {k, NoKey}
      BY <2>3, KeysApart DEF EntriesOf
    <3> QED BY <2>1, <3>1, <1>8 DEF EntriesKept
  <2> QED BY <2>1, <2>2, <2>3
<1> QED BY <1>7, <1>9

\* What is computed is a year.
LEMMA YearRows ==
  ASSUME LedgerTypeOK, NEW p \in Period, NEW to \in {"OPEN", "LOCKED"}
  PROVE  Transition(year, p, to) \in SUBSET Year /\ Close(year) \in SUBSET Year
<1>1. year \in Year
  BY DEF LedgerTypeOK
<1>2. year = [status |-> year.status, period |-> year.period] /\ year.period \in PeriodTable
  BY <1>1 DEF Year
<1>3. [year EXCEPT !.period[p] = to]
        = [status |-> year.status, period |-> [year.period EXCEPT ![p] = to]]
  BY <1>2
<1>4. [year EXCEPT !.period[p] = to] \in Year
  BY <1>1, <1>3 DEF Year, PeriodTable
<1>5. [status |-> "CLOSED", period |-> [q \in Period |-> "CLOSED"]] \in Year
  BY DEF Year, PeriodTable
<1> QED BY <1>4, <1>5 DEF Transition, Close

\* The closing entry takes the whole result.
LEMMA ClosingIs ==
  ASSUME entries \in EntryTable
  PROVE  /\ Total("RESULT", Key) \in Int
         /\ ClosingLines \in Lines /\ ClosingLines["RESULT"] = - Total("RESULT", Key)
<1>1. Total("RESULT", Key) \in Int
  BY TotalSum, TotalIs, SumIsAnInteger DEF Account
<1>2. Balance("RESULT", Key) = Total("RESULT", Key)
  BY DEF Balance, Total, Counted
<1> DEFINE net == Total("RESULT", Key)
<1>3. ClosingLines = [Zero EXCEPT !["RESULT"] = - net, !["RETAINED"] = net]
  BY <1>2 DEF ClosingLines
<1> HIDE DEF net
<1>4. net \in Int => ClosingLines \in Lines /\ ClosingLines["RESULT"] = - net
  BY <1>3 DEF Zero, Lines, Account
<1> QED BY <1>1, <1>4 DEF net

\* Manual entries.
LEMMA JournalSteps ==
  ASSUME LedgerSafe, JournalNext
  PROVE  LedgerSafe' /\ SourcesKept /\ CapturesStay
<1>0. entries \in EntryTable /\ Calls /\ Manual \subseteq Lines
  BY LedgerAssumption DEF LedgerSafe, LedgerTypeOK
<1>1. ASSUME NEW lines \in Manual, NEW p \in Period, CreateJournal(lines, p)
      PROVE  LedgerSafe' /\ SourcesKept /\ CapturesStay
  <2> DEFINE e == NewEntry("DRAFT", lines, p, Nothing)
  <2>1. e \in Entry
    BY <1>0, NewEntryIsARow
  <2>2. /\ entries[NoKey] = NoEntry /\ entries' = [entries EXCEPT ![NoKey] = e]
        /\ decision' = decision /\ year' = year /\ cleared' = cleared /\ call' = call
    BY <1>1 DEF CreateJournal, InsertEntry
  <2>. HIDE DEF e
  <2>3. entries' \in EntryTable /\ SourcesKept
    BY <1>0, <2>1, <2>2, JournalKeeps
  <2>. QED  BY <1>0, <2>2, <2>3 DEF LedgerSafe, LedgerTypeOK, Calls, CapturesStay
<1>2. ASSUME SubmitJournal \/ ReopenJournal \/ VoidJournal
      PROVE  LedgerSafe' /\ SourcesKept /\ CapturesStay
  <2>1. PICK to \in {"DRAFT", "PENDING_APPROVAL", "VOID"} : MoveEntry(NoKey, to)
    BY <1>2 DEF SubmitJournal, ReopenJournal, VoidJournal
  <2>2. /\ decision' \in {decision, "PENDING"} /\ year' = year /\ cleared' = cleared
        /\ call' = call
    BY <1>2 DEF SubmitJournal, ReopenJournal, VoidJournal
  <2>3. entries' \in EntryTable /\ SourcesKept
    BY <1>0, <2>1, JournalMoves
  <2>. QED  BY <1>0, <2>2, <2>3 DEF LedgerSafe, LedgerTypeOK, Calls, CapturesStay
<1>3. ASSUME NEW verdict \in {"APPROVED", "REJECTED", "CANCELLED"}, Decide(verdict)
      PROVE  LedgerSafe' /\ SourcesKept /\ CapturesStay
  <2>1. /\ decision' = verdict /\ entries' = entries /\ year' = year /\ cleared' = cleared
        /\ call' = call
    BY <1>3 DEF Decide
  <2>2. SourcesKept
    BY <2>1 DEF SourcesKept, EntriesKept, ReversedByHand
  <2>. QED  BY <1>0, <2>1, <2>2 DEF LedgerSafe, LedgerTypeOK, Calls, CapturesStay
<1>4. ASSUME NEW c \in Caller,
             PostJournal(c) \/ \E k \in ByHand, p \in Period : ReverseJournal(c, k, p)
      PROVE  LedgerSafe' /\ SourcesKept /\ CapturesStay
  <2>1. /\ decision' = decision /\ year' = year /\ cleared' = cleared
        /\ \E p : ThroughGate(c, p)
    BY <1>4 DEF PostJournal, ReverseJournal
  <2>2. Calls' /\ CapturesStay
    BY <1>0, <2>1, ThroughTheGate
  <2>3. entries' \in EntryTable /\ SourcesKept
    BY <1>0, <1>4, JournalMoves, ReversedOut DEF PostJournal
  <2>. QED  BY <2>1, <2>2, <2>3 DEF LedgerSafe, LedgerTypeOK
<1>. QED  BY <1>1, <1>2, <1>3, <1>4 DEF JournalNext

\* A step of calls that leaves the ledger alone.
LEMMA LedgerStill ==
  ASSUME LedgerSafe, ledgerVars' = ledgerVars, Calls'
  PROVE  LedgerSafe' /\ SourcesKept
<1>1. entries' = entries /\ decision' = decision /\ year' = year /\ cleared' = cleared
  BY DEF ledgerVars
<1>. QED  BY <1>1 DEF LedgerSafe, LedgerTypeOK, SourcesKept, EntriesKept, ReversedByHand

\* A call that computes a new year.
LEMMA YearComputed ==
  ASSUME LedgerSafe, NEW c \in Caller, NEW next \in SUBSET Year, ledgerVars' = ledgerVars,
         \E y \in next :
           call' = [call EXCEPT ![c] = [op |-> "saveYear", loaded |-> year, year |-> y]]
  PROVE  LedgerSafe' /\ SourcesKept /\ CapturesStay
<1>1. PICK y \in next :
        call' = [call EXCEPT ![c] = [op |-> "saveYear", loaded |-> year, year |-> y]]
  OBVIOUS
<1> DEFINE job == [op |-> "saveYear", loaded |-> year, year |-> y]
<1>2. call' = [call EXCEPT ![c] = job] /\ Typed(job) /\ job.op = "saveYear"
  BY <1>1 DEF Typed
<1>. HIDE DEF job
<1>3. Calls' /\ CapturesStay
  BY <1>2, NewJob DEF LedgerSafe
<1>. QED  BY <1>3, LedgerStill

\* The year-end close posts the closing entry and closes the year.
LEMMA YearEnded ==
  ASSUME LedgerSafe, NEW c \in Caller, NEW p \in Period, SaveYearEnd(c, p)
  PROVE  LedgerSafe' /\ SourcesKept /\ CapturesStay
<1>1. LedgerTypeOK /\ Calls /\ entries \in EntryTable
  BY DEF LedgerSafe, LedgerTypeOK
<1> DEFINE lines == call[c].closing
           e == NewEntry("POSTED", lines, p, Nothing)
<1>2. /\ lines \in Lines
      /\ entries' = Posting(entries, YearEnd, lines, p)
      /\ year' = [status |-> "CLOSED", period |-> [q \in Period |-> "CLOSED"]]
      /\ cleared' \in BOOLEAN /\ Finish(c) /\ decision' = decision
  BY <1>1 DEF SaveYearEnd, Calls, Typed
<1>3. e \in Entry
  BY <1>2, NewEntryIsARow
<1>. HIDE DEF lines, e
<1>4. entries' = entries \/ entries' = [entries EXCEPT ![YearEnd] = e]
  BY <1>2 DEF Posting, e
<1>5. entries' \in EntryTable
  BY <1>1, <1>3, <1>4 DEF EntryTable
<1>6. SourcesKept
  <2>1. \A k \in Key \ {YearEnd} : entries'[k] = entries[k]
    BY <1>1, <1>4 DEF EntryTable
  <2>. QED  BY <2>1, KeysApart DEF SourcesKept, EntriesKept, ReversedByHand
<1>7. Calls' /\ CapturesStay
  BY <1>1, <1>2, Finished
<1>8. year' \in Year
  BY <1>2 DEF Year, PeriodTable
<1>. QED  BY <1>1, <1>2, <1>5, <1>6, <1>7, <1>8 DEF LedgerSafe, LedgerTypeOK

\* The year and its periods.
LEMMA YearSteps ==
  ASSUME LedgerSafe, YearNext
  PROVE  LedgerSafe' /\ SourcesKept /\ CapturesStay
<1>0. LedgerTypeOK /\ Calls
  BY DEF LedgerSafe
<1>1. PICK c \in Caller :
          \/ \E p \in Period : \/ LockPeriod(c, p) \/ UnlockPeriod(c, p)
                               \/ ClosePeriod(c, p) \/ SaveYearEnd(c, p)
          \/ LockCounted(c) \/ CloseYear(c) \/ SaveYear(c) \/ BeginYearEnd(c)
  BY DEF YearNext
<1>2. ASSUME \/ \E p \in Period : LockPeriod(c, p) \/ UnlockPeriod(c, p)
             \/ LockCounted(c)
      PROVE  LedgerSafe' /\ SourcesKept /\ CapturesStay
  <2>1. PICK p \in Period, to \in {"OPEN", "LOCKED"} :
          /\ ledgerVars' = ledgerVars
          /\ \E y \in Transition(year, p, to) :
               call' = [call EXCEPT ![c] = [op |-> "saveYear", loaded |-> year, year |-> y]]
    BY <1>0, <1>2 DEF LockPeriod, UnlockPeriod, LockCounted, ChangeYear, Start, Calls, Typed
  <2>. QED  BY <1>0, <2>1, YearRows, YearComputed
<1>6. ASSUME NEW p \in Period, ClosePeriod(c, p)
      PROVE  LedgerSafe' /\ SourcesKept /\ CapturesStay
  <2> DEFINE job == [op |-> "closePeriod", at |-> p]
  <2>1. call' = [call EXCEPT ![c] = job] /\ ledgerVars' = ledgerVars
    BY <1>6 DEF ClosePeriod, Start
  <2>2. Typed(job) /\ job.op = "closePeriod"
    BY DEF Typed
  <2>. HIDE DEF job
  <2>3. Calls' /\ CapturesStay
    BY <1>0, <2>1, <2>2, NewJob
  <2>. QED  BY <2>1, <2>3, LedgerStill
<1>3. CASE CloseYear(c)
  <2>1. /\ ledgerVars' = ledgerVars
        /\ \E y \in Close(year) :
             call' = [call EXCEPT ![c] = [op |-> "saveYear", loaded |-> year, year |-> y]]
    BY <1>3 DEF CloseYear, ChangeYear, Start
  <2>2. Close(year) \in SUBSET Year
    BY <1>0, LedgerAssumption, YearRows
  <2>. QED  BY <2>1, <2>2, YearComputed
<1>4. CASE SaveYear(c)
  <2>1. /\ call[c].op = "saveYear" /\ year' = call[c].year /\ cleared' = FALSE /\ Finish(c)
        /\ entries' = entries /\ decision' = decision
    BY <1>4 DEF SaveYear
  <2>2. year' \in Year
    BY <1>0, <2>1 DEF Calls, Typed
  <2>3. Calls' /\ CapturesStay
    BY <1>0, <2>1, Finished
  <2>4. SourcesKept
    BY <2>1 DEF SourcesKept, EntriesKept, ReversedByHand
  <2>. QED  BY <1>0, <2>1, <2>2, <2>3, <2>4 DEF LedgerSafe, LedgerTypeOK
<1>5. CASE BeginYearEnd(c)
  <2> DEFINE closing == IF entries[YearEnd] = NoEntry THEN ClosingLines ELSE Zero
             job == [op |-> "yearEnd", open |-> OpenPeriods, closing |-> closing]
  <2>1. call' = [call EXCEPT ![c] = job] /\ ledgerVars' = ledgerVars
    BY <1>5 DEF BeginYearEnd, Start
  <2>2. closing \in Lines
    BY <1>0, ClosingIs DEF LedgerTypeOK, Zero, Lines
  <2>. HIDE DEF closing
  <2>3. Typed(job) /\ job.op = "yearEnd"
    BY <2>2 DEF Typed
  <2>. HIDE DEF job
  <2>4. Calls' /\ CapturesStay
    BY <1>0, <2>1, <2>3, NewJob
  <2>. QED  BY <2>1, <2>4, LedgerStill
<1>. QED  BY <1>1, <1>2, <1>3, <1>4, <1>5, <1>6, YearEnded

\* What the accountant, the year and the gate do leaves documents alone.
LEMMA LedgerSteps ==
  ASSUME LedgerSafe, LedgerNext
  PROVE  LedgerSafe' /\ SourcesKept /\ CapturesStay
<1>0. Calls
  BY DEF LedgerSafe
<1>1. ASSUME NEW c \in Caller, GiveUp(c)
      PROVE  LedgerSafe' /\ SourcesKept /\ CapturesStay
  <2>1. Finish(c) /\ ledgerVars' = ledgerVars
    BY <1>1 DEF GiveUp
  <2>. QED  BY <1>0, <2>1, Finished, LedgerStill
<1>2. ASSUME NEW c \in Caller, NEW p \in Period, PassGate(c, p)
      PROVE  LedgerSafe' /\ SourcesKept /\ CapturesStay
  <2> DEFINE job == [op |-> "gate", at |-> p]
  <2>1. /\ call' = [call EXCEPT ![c] = job] /\ ledgerVars' = ledgerVars
        /\ Typed(job) /\ job.op = "gate"
    BY <1>2 DEF PassGate, Start, Typed
  <2>. HIDE DEF job
  <2>. QED  BY <1>0, <2>1, NewJob, LedgerStill
<1>. QED  BY <1>1, <1>2, JournalSteps, YearSteps DEF LedgerNext, CallNext

(***************************************************************************)
(* What is received and billed of an order                                 *)
(***************************************************************************)
ReceivedSoFar(row) == IF row = NoDoc THEN 0 ELSE row.received
\* An order is received in part or whole once anything of it is.
OrderSound(row) ==
  /\ row.received <= row.qty
  /\ row.received > 0 => row.status \in {"PARTIALLY_RECEIVED", "RECEIVED"}

ReceiptsOf(table, o) ==
  {g \in GoodsReceipt : table[g].status = "POSTED" /\ table[g].order = o}
ReceivedOf(table, o) == SumFunction([g \in ReceiptsOf(table, o) |-> table[g].qty])

\* The column of the order is the sum of its posted receipts.
Receiving ==
  \A o \in Order : /\ orders[o] # NoDoc => OrderSound(orders[o])
                   /\ ReceivedSoFar(orders[o]) = ReceivedOf(goodsReceipts, o)

\* Orders are not deleted, and goods not returned.
ReceivedGrows ==
  \A o \in Order : /\ orders[o] # NoDoc => orders'[o] # NoDoc
                   /\ ReceivedOf(goodsReceipts, o) <= ReceivedOf(goodsReceipts', o)

MatchedOf(table, o) == {i \in Invoice : /\ table[i].status \notin {"NONE", "VOID"}
                                        /\ table[i].order = o
                                        /\ table[i].match = "MATCHED"}
Matched(table, o) == SumFunction([i \in MatchedOf(table, o) |-> table[i].total])

\* What is matched was received, also with what a call of one line is about
\* to add.
Matching ==
  /\ \A c \in Caller : call[c].op = "capture" => orders[call[c].order] # NoDoc
  /\ \A o \in Order \ rebilled :
       /\ Matched(invoices, o) <= ReceivedOf(goodsReceipts, o)
       /\ \A c \in Caller :
            (/\ call[c].op = "capture" /\ call[c].order = o
             /\ call[c].match = "MATCHED" /\ ~ call[c].twice) =>
              Matched(invoices, o) + call[c].qty <= ReceivedOf(goodsReceipts, o)

\* What was received of an order can be summed.
LEMMA ReceivedSum ==
  ASSUME NEW table \in GoodsReceiptTable, NEW o \in Order
  PROVE  /\ IsFiniteSet(ReceiptsOf(table, o))
         /\ [g \in ReceiptsOf(table, o) |-> table[g].qty] \in [ReceiptsOf(table, o) -> Nat]
         /\ ReceivedOf(table, o) \in Nat
<1> DEFINE S == ReceiptsOf(table, o)
           f == [g \in S |-> table[g].qty]
<1>1. S \in SUBSET GoodsReceipt
  BY DEF ReceiptsOf
<1>2. IsFiniteSet(S)
  BY <1>1, ProcurementAssumption, FS_Subset
<1>3. \A g \in S : table[g].qty \in Nat
  BY FiniteTables DEF ReceiptsOf, GoodsReceiptTable, GoodsReceiptRow, NoDoc
<1>4. f \in [S -> Nat]
  BY <1>3
<1>. HIDE DEF S, f
<1>5. SumFunction(f) \in Nat
  BY <1>2, <1>4, SumBounds
<1>. QED  BY <1>2, <1>4, <1>5 DEF S, f, ReceivedOf

\* The posted receipts stay.
LEMMA ReceivedKept ==
  ASSUME NEW table, NEW new, NEW o, ReceiptsOf(new, o) = ReceiptsOf(table, o),
         \A g \in ReceiptsOf(table, o) : new[g].qty = table[g].qty
  PROVE  ReceivedOf(new, o) = ReceivedOf(table, o)
<1>1. [g \in ReceiptsOf(new, o) |-> new[g].qty] = [g \in ReceiptsOf(table, o) |-> table[g].qty]
  OBVIOUS
<1>. QED  BY <1>1 DEF ReceivedOf

\* One more receipt is posted.
LEMMA ReceivedMore ==
  ASSUME NEW table \in GoodsReceiptTable, NEW new \in GoodsReceiptTable, NEW o \in Order,
         NEW g \in GoodsReceipt, table[g].status = "DRAFT", new[g].status = "POSTED",
         new[g].order = o, \A h \in GoodsReceipt \ {g} : new[h] = table[h]
  PROVE  ReceivedOf(new, o) = ReceivedOf(table, o) + new[g].qty
<1> DEFINE S == ReceiptsOf(table, o)
           T == ReceiptsOf(new, o)
           f == [h \in S |-> table[h].qty]
           k == [h \in T |-> new[h].qty]
<1>1. /\ IsFiniteSet(S) /\ f \in [S -> Nat] /\ IsFiniteSet(T) /\ k \in [T -> Nat]
      /\ SumFunction(f) \in Nat /\ SumFunction(k) \in Nat
  BY ReceivedSum DEF ReceivedOf
<1>2. /\ g \notin S /\ g \in T /\ S \ {g} = T \ {g} /\ \A h \in S \ {g} : f[h] = k[h]
      /\ k[g] = new[g].qty
  BY DEF ReceiptsOf
<1>3. ReceivedOf(table, o) = SumFunction(f) /\ ReceivedOf(new, o) = SumFunction(k)
  BY DEF ReceivedOf
<1>. HIDE DEF S, T, f, k
<1>4. f \in [S -> Int] /\ k \in [T -> Int] /\ k[g] \in Nat
  BY <1>1, <1>2
<1>5. SumFunction(k) = SumFunction(f) - (IF g \in S THEN f[g] ELSE 0)
                                      + (IF g \in T THEN k[g] ELSE 0)
  BY <1>1, <1>2, <1>4, OneRow
<1>. QED  BY <1>1, <1>2, <1>3, <1>4, <1>5

\* A slot of orders holds no order or one, and so of receipts.
LEMMA OrderRows ==
  ASSUME BuyShape, NEW o \in Order
  PROVE  /\ orders[o] = NoDoc <=> orders[o].status = "NONE"
         /\ orders[o] # NoDoc => orders[o] \in OrderRow
  BY DEF BuyShape, OrderTable, OrderRow, NoDoc

\* An order is saved and receipts are not.
LEMMA OrderKeeps ==
  ASSUME BuyShape, Receiving, NEW o \in Order, NEW row \in OrderRow,
         orders' = [orders EXCEPT ![o] = row], goodsReceipts' = goodsReceipts,
         OrderSound(row), row.received = ReceivedSoFar(orders[o])
  PROVE  Receiving' /\ ReceivedGrows
<1>1. orders'[o] = row /\ \A e \in Order \ {o} : orders'[e] = orders[e]
  BY DEF BuyShape, OrderTable
<1>2. row # NoDoc
  BY DEF OrderRow, NoDoc
<1>3. \A e \in Order : ReceivedOf(goodsReceipts, e) \in Nat
  BY ReceivedSum DEF BuyShape
<1>4. Receiving'
  BY <1>1, <1>2 DEF Receiving, ReceivedSoFar
<1>5. ReceivedGrows
  BY <1>1, <1>2, <1>3 DEF ReceivedGrows
<1>. QED  BY <1>4, <1>5

\* Neither orders nor receipts change.
LEMMA NothingReceived ==
  ASSUME BuyShape, Receiving, orders' = orders, goodsReceipts' = goodsReceipts
  PROVE  Receiving' /\ ReceivedGrows
<1>1. \A e \in Order : ReceivedOf(goodsReceipts, e) \in Nat
  BY ReceivedSum DEF BuyShape
<1>. QED  BY <1>1 DEF Receiving, ReceivedGrows

\* Only an order that nothing is received of moves on.
LEMMA OrderMoveKeeps ==
  ASSUME BuyShape, Receiving, NEW o \in Order, NEW to, MoveOrder(o, to),
         to \in {"DRAFT", "PENDING_APPROVAL", "ISSUED", "REJECTED", "CANCELLED"}
  PROVE  Receiving' /\ ReceivedGrows
<1> DEFINE row == [orders[o] EXCEPT !.status = to]
<1>1. /\ orders[o].status \in {"DRAFT", "PENDING_APPROVAL", "ISSUED", "REJECTED"}
      /\ orders' = [orders EXCEPT ![o] = row] /\ goodsReceipts' = goodsReceipts
  <2>1. /\ to \in OrderMoves[orders[o].status]
        /\ orders' = [orders EXCEPT ![o] = row] /\ goodsReceipts' = goodsReceipts
    BY DEF MoveOrder, SaveOrder
  <2>2. orders[o].status \in {"NONE", "DRAFT", "PENDING_APPROVAL", "ISSUED",
                              "PARTIALLY_RECEIVED", "RECEIVED", "REJECTED", "CANCELLED"}
    BY OrderRows DEF OrderRow
  <2>. QED  BY <2>1, <2>2 DEF OrderMoves
<1>2. orders[o] \in OrderRow /\ orders[o] # NoDoc /\ OrderSound(orders[o])
  BY <1>1, OrderRows DEF Receiving, NoDoc
<1>3. /\ row \in OrderRow /\ row.received = orders[o].received
      /\ row.qty = orders[o].qty
  BY <1>2 DEF OrderRow
<1>4. OrderSound(row) /\ row.received = ReceivedSoFar(orders[o])
  BY <1>1, <1>2, <1>3 DEF OrderSound, ReceivedSoFar
<1>. HIDE DEF row
<1>. QED  BY <1>1, <1>3, <1>4, OrderKeeps

\* Orders are made, edited, submitted, answered and cancelled.
LEMMA OrderingKeeps ==
  ASSUME BuyShape, Receiving, OrderNext
  PROVE  Receiving' /\ ReceivedGrows
<1>1. PICK o \in Order :
        \/ \E qty \in Qty : \/ CreateOrder(o, qty) \/ UpdateOrder(o, qty)
                            \/ \E q \in Requisition : ConvertRequisition(o, q, qty)
        \/ \E outcome \in Outcome : SubmitOrder(o, outcome)
        \/ ConfirmOrder(o) \/ ReopenOrder(o) \/ CancelOrder(o)
  BY DEF OrderNext
<1>2. ASSUME NEW qty \in Qty, NEW q \in Requisition \cup {NoDoc},
             InsertOrder(o, NewOrder(qty, q)), goodsReceipts' = goodsReceipts
      PROVE  Receiving' /\ ReceivedGrows
  <2> DEFINE row == NewOrder(qty, q)
  <2>1. row \in OrderRow /\ row.received = 0 /\ row.qty \in Nat
    BY FiniteTables DEF NewOrder, OrderRow
  <2>2. orders[o] = NoDoc /\ orders' = [orders EXCEPT ![o] = row]
    BY <1>2 DEF InsertOrder
  <2>. HIDE DEF row
  <2>3. OrderSound(row) /\ row.received = ReceivedSoFar(orders[o])
    BY <2>1, <2>2 DEF OrderSound, ReceivedSoFar
  <2>. QED  BY <1>2, <2>1, <2>2, <2>3, OrderKeeps
<1>3. ASSUME NEW qty \in Qty, UpdateOrder(o, qty) PROVE Receiving' /\ ReceivedGrows
  <2> DEFINE row == EditedOrder(orders[o], qty)
  <2>1. /\ orders[o].status = "DRAFT" /\ orders' = [orders EXCEPT ![o] = row]
        /\ goodsReceipts' = goodsReceipts
    BY <1>3 DEF UpdateOrder, SaveOrder
  <2>2. orders[o] \in OrderRow /\ orders[o] # NoDoc /\ OrderSound(orders[o])
    BY <2>1, OrderRows DEF Receiving, NoDoc
  <2>3. /\ row \in OrderRow /\ row.received = orders[o].received /\ row.qty = qty
        /\ row.status = "DRAFT"
    BY <2>1, <2>2 DEF EditedOrder, OrderRow
  <2>4. orders[o].received = 0 /\ qty \in Nat
    BY <2>1, <2>2, FiniteTables DEF OrderSound, OrderRow
  <2>. HIDE DEF row
  <2>5. OrderSound(row) /\ row.received = ReceivedSoFar(orders[o])
    BY <2>2, <2>3, <2>4 DEF OrderSound, ReceivedSoFar
  <2>. QED  BY <2>1, <2>3, <2>5, OrderKeeps
<1>4. CASE \E qty \in Qty : CreateOrder(o, qty)
  BY <1>2, <1>4 DEF CreateOrder
<1>5. CASE \E qty \in Qty, q \in Requisition : ConvertRequisition(o, q, qty)
  BY <1>2, <1>5 DEF ConvertRequisition
<1>6. ASSUME NEW outcome \in Outcome, SubmitOrder(o, outcome)
      PROVE  Receiving' /\ ReceivedGrows
  BY <1>6, OrderMoveKeeps DEF SubmitOrder, SubmittedOrder
<1>7. CASE ConfirmOrder(o)
  <2>1. PICK to \in OrderAnswered(o) : MoveOrder(o, to)
    BY <1>7 DEF ConfirmOrder
  <2>2. to \in {"DRAFT", "ISSUED", "REJECTED"}
    <3>1. requests[o].status \in {"APPROVED", "REJECTED", "CANCELLED", "NONE", "PENDING"}
      BY DEF BuyShape, Request, NoRequest, Document
    <3>. QED  BY <3>1 DEF OrderAnswered, Answered
  <2>. QED  BY <2>1, <2>2, OrderMoveKeeps
<1>8. CASE ReopenOrder(o) \/ CancelOrder(o)
  BY <1>8, OrderMoveKeeps DEF ReopenOrder, CancelOrder
<1>. QED  BY <1>1, <1>3, <1>4, <1>5, <1>6, <1>7, <1>8

\* Posting a receipt adds to the sum what it adds to the order.
LEMMA ReceiptPosted ==
  ASSUME BuyShape, BuyShape', Receiving, NEW g \in GoodsReceipt, PostGoodsReceipt(g)
  PROVE  Receiving' /\ ReceivedGrows
<1> DEFINE o == goodsReceipts[g].order
           qty == goodsReceipts[g].qty
           row == Received(orders[o], qty)
           status == IF orders[o].received + qty >= orders[o].qty THEN "RECEIVED"
                     ELSE "PARTIALLY_RECEIVED"
           sum(e) == ReceivedOf(goodsReceipts, e)
           more(e) == ReceivedOf(goodsReceipts', e)
<1>1. /\ goodsReceipts[g].status = "DRAFT"
      /\ goodsReceipts' = [goodsReceipts EXCEPT ![g] =
                             [goodsReceipts[g] EXCEPT !.status = "POSTED"]]
      /\ orders[o].status \in {"ISSUED", "PARTIALLY_RECEIVED"}
      /\ qty \in 1 .. orders[o].qty - orders[o].received
      /\ orders' = [orders EXCEPT ![o] = row]
  BY DEF PostGoodsReceipt, MoveGoodsReceipt, SaveGoodsReceipt, CanReceive, SaveOrder
<1>2. goodsReceipts[g] \in GoodsReceiptRow
  BY <1>1 DEF BuyShape, GoodsReceiptTable, NoDoc
<1>3. o \in Order /\ qty \in Nat /\ qty > 0
  BY <1>2, FiniteTables DEF GoodsReceiptRow
<1>4. orders[o] \in OrderRow /\ orders[o] # NoDoc
  BY <1>1, <1>3, OrderRows DEF NoDoc
<1>5. orders[o].received \in Nat /\ orders[o].qty \in Nat
  BY <1>4, FiniteTables DEF OrderRow
<1>6. row = [status |-> status, qty |-> orders[o].qty,
             received |-> orders[o].received + qty, requisition |-> orders[o].requisition]
  <2>1. row = [orders[o] EXCEPT !.received = orders[o].received + qty, !.status = status]
    BY DEF Received
  <2>. HIDE DEF status
  <2>. QED  BY <2>1, <1>4 DEF OrderRow
<1>7. /\ goodsReceipts'[g].status = "POSTED" /\ goodsReceipts'[g].order = o
      /\ goodsReceipts'[g].qty = qty
      /\ \A h \in GoodsReceipt \ {g} : goodsReceipts'[h] = goodsReceipts[h]
  BY <1>1, <1>2 DEF GoodsReceiptRow, BuyShape, GoodsReceiptTable
<1>. HIDE DEF o, qty, status
<1>8. orders'[o] = row /\ (\A e \in Order \ {o} : orders'[e] = orders[e]) /\ row # NoDoc
      /\ row.received = orders[o].received + qty /\ row.qty = orders[o].qty
      /\ row.status \in {"PARTIALLY_RECEIVED", "RECEIVED"}
  <2>1. status \in {"PARTIALLY_RECEIVED", "RECEIVED"}
    BY DEF status
  <2>. QED  BY <1>1, <1>3, <1>6, <2>1 DEF BuyShape, OrderTable, NoDoc
<1>. HIDE DEF row
<1>9. OrderSound(row)
  BY <1>1, <1>3, <1>5, <1>8 DEF OrderSound
<1>10. more(o) = sum(o) + qty
  <2>1. goodsReceipts \in GoodsReceiptTable /\ goodsReceipts' \in GoodsReceiptTable
    BY DEF BuyShape
  <2>2. ReceivedOf(goodsReceipts', o) = ReceivedOf(goodsReceipts, o) + goodsReceipts'[g].qty
    <3>1. /\ goodsReceipts[g].status = "DRAFT" /\ goodsReceipts'[g].status = "POSTED"
          /\ goodsReceipts'[g].order = o /\ o \in Order
          /\ \A h \in GoodsReceipt \ {g} : goodsReceipts'[h] = goodsReceipts[h]
      BY <1>1, <1>3, <1>7
    <3>. QED  BY <2>1, <3>1, ReceivedMore
  <2>. QED  BY <1>7, <2>2
<1>11. ASSUME NEW e \in Order \ {o} PROVE more(e) = sum(e)
  <2>1. /\ ReceiptsOf(goodsReceipts', e) = ReceiptsOf(goodsReceipts, e)
        /\ \A h \in ReceiptsOf(goodsReceipts, e) : goodsReceipts'[h].qty = goodsReceipts[h].qty
    BY <1>1, <1>7 DEF ReceiptsOf
  <2>. QED  BY <2>1, ReceivedKept
<1>12. \A e \in Order : sum(e) \in Nat
  BY ReceivedSum DEF BuyShape
<1>13. sum(o) = orders[o].received
  BY <1>3, <1>4 DEF Receiving, ReceivedSoFar
<1>. HIDE DEF sum, more
<1>14. ASSUME NEW e \in Order
       PROVE  /\ orders'[e] # NoDoc => OrderSound(orders'[e])
              /\ ReceivedSoFar(orders'[e]) = more(e)
              /\ orders[e] # NoDoc => orders'[e] # NoDoc
              /\ sum(e) <= more(e)
  <2>1. CASE e = o
    BY <2>1, <1>3, <1>8, <1>9, <1>10, <1>12, <1>13 DEF ReceivedSoFar
  <2>2. CASE e # o
    BY <2>2, <1>8, <1>11, <1>12 DEF Receiving, ReceivedSoFar, sum
  <2>. QED  BY <2>1, <2>2
<1>. QED  BY <1>14 DEF Receiving, ReceivedGrows, sum, more

\* Every step of purchasing keeps what is received in the column.
LEMMA ReceivingKeeps ==
  ASSUME BuyShape, BuyShape', Receiving, GoodsReceiptNext
  PROVE  Receiving' /\ ReceivedGrows
<1>1. PICK g \in GoodsReceipt :
        \/ \E o \in Order, qty \in Qty : CreateGoodsReceipt(g, o, qty)
        \/ PostGoodsReceipt(g) \/ CancelGoodsReceipt(g)
  BY DEF GoodsReceiptNext
<1>2. ASSUME orders' = orders, goodsReceipts[g].status # "POSTED",
             goodsReceipts'[g].status # "POSTED",
             \A h \in GoodsReceipt \ {g} : goodsReceipts'[h] = goodsReceipts[h]
      PROVE  Receiving' /\ ReceivedGrows
  <2>1. ASSUME NEW e \in Order
        PROVE  ReceivedOf(goodsReceipts', e) = ReceivedOf(goodsReceipts, e)
    <3>1. /\ ReceiptsOf(goodsReceipts', e) = ReceiptsOf(goodsReceipts, e)
          /\ \A h \in ReceiptsOf(goodsReceipts, e) :
               goodsReceipts'[h].qty = goodsReceipts[h].qty
      BY <1>2 DEF ReceiptsOf
    <3>. QED  BY <3>1, ReceivedKept
  <2>2. \A e \in Order : ReceivedOf(goodsReceipts, e) \in Nat
    BY ReceivedSum DEF BuyShape
  <2>. QED  BY <1>2, <2>1, <2>2 DEF Receiving, ReceivedGrows
<1>3. CASE \E o \in Order, qty \in Qty : CreateGoodsReceipt(g, o, qty)
  <2>1. PICK o \in Order, qty \in Qty : CreateGoodsReceipt(g, o, qty)
    BY <1>3
  <2>2. /\ goodsReceipts[g] = NoDoc
        /\ goodsReceipts' = [goodsReceipts EXCEPT ![g] = NewGoodsReceipt(o, qty)]
        /\ orders' = orders /\ NewGoodsReceipt(o, qty).status = "DRAFT"
    BY <2>1 DEF CreateGoodsReceipt, InsertGoodsReceipt, NewGoodsReceipt
  <2>. QED  BY <1>2, <2>2 DEF BuyShape, GoodsReceiptTable, NoDoc
<1>4. CASE CancelGoodsReceipt(g)
  <2>1. /\ goodsReceipts[g].status = "DRAFT" /\ orders' = orders
        /\ goodsReceipts' = [goodsReceipts EXCEPT ![g] =
                               [goodsReceipts[g] EXCEPT !.status = "CANCELLED"]]
    BY <1>4 DEF CancelGoodsReceipt, MoveGoodsReceipt, SaveGoodsReceipt
  <2>2. goodsReceipts[g] \in GoodsReceiptRow
    BY <2>1 DEF BuyShape, GoodsReceiptTable, NoDoc
  <2>3. [goodsReceipts[g] EXCEPT !.status = "CANCELLED"].status = "CANCELLED"
    BY <2>2 DEF GoodsReceiptRow
  <2>. QED  BY <1>2, <2>1, <2>3 DEF BuyShape, GoodsReceiptTable
<1>. QED  BY <1>1, <1>3, <1>4, ReceiptPosted

\* Every step of purchasing.
LEMMA BuyingKeeps ==
  ASSUME BuyInv, BuyInv', Receiving, BuyNext
  PROVE  Receiving' /\ ReceivedGrows
<1>0. BuyShape /\ BuyShape'
  BY DEF BuyInv
<1>1. CASE RequisitionNext
  <2>1. orders' = orders /\ goodsReceipts' = goodsReceipts
    BY <1>1 DEF RequisitionNext, CreateRequisition, UpdateRequisition, SubmitRequisition,
                ConfirmRequisition, ReopenRequisition, CancelRequisition, MoveRequisition
  <2>. QED  BY <1>0, <2>1, NothingReceived
<1>2. CASE ApprovalNext
  <2>1. orders' = orders /\ goodsReceipts' = goodsReceipts
    BY <1>2 DEF ApprovalNext, AskDirectly, Settle
  <2>. QED  BY <1>0, <2>1, NothingReceived
<1>3. CASE SweepNext
  <2>1. orders' = orders /\ goodsReceipts' = goodsReceipts
    BY <1>3 DEF SweepNext, UpsertRule, CooldownEnds, BeginSweep, RaiseRequisition,
                CreateRequisition, MarkTriggered, AbortSweep, buyVars
  <2>. QED  BY <1>0, <2>1, NothingReceived
<1>. QED  BY <1>0, <1>1, <1>2, <1>3, OrderingKeeps, ReceivingKeeps DEF BuyNext

(***************************************************************************)
(* What the ledger has to say of a document                                *)
(***************************************************************************)
Unsaid == {"NONE", "DRAFT"}
InvoiceEffect(inv) == IF inv.status \in {"NONE", "DRAFT", "VOID"} THEN 0 ELSE - inv.total
VoucherEffect(row) == IF row.status = "POSTED" THEN SumFunction(row.alloc) ELSE 0

Says(s, status, effect) ==
  IF status \in Unsaid THEN Fresh(s) ELSE LedgerSays(s, effect)
InvoiceSays(i) == Says(i, invoices[i].status, InvoiceEffect(invoices[i]))
VoucherSays(v) == Says(v, vouchers[v].status, VoucherEffect(vouchers[v]))
Documents == (\A i \in Invoice : InvoiceSays(i)) /\ (\A v \in Voucher : VoucherSays(v))

\* A change of a row that the ledger is not told.
SameInvoice(old, new) ==
  /\ InvoiceEffect(new) = InvoiceEffect(old)
  /\ new.status \in Unsaid => old.status \in Unsaid
SameVoucher(old, new) ==
  /\ VoucherEffect(new) = VoucherEffect(old)
  /\ new.status \in Unsaid => old.status \in Unsaid

\* What a voucher pays in all.
LEMMA GrossSum ==
  ASSUME NEW row \in VoucherRow
  PROVE  SumFunction(row.alloc) \in Nat
<1> DEFINE f == row.alloc
<1>1. f \in [Invoice -> Nat] /\ IsFiniteSet(Invoice)
  BY FiniteTables DEF VoucherRow
<1>. HIDE DEF f
<1>2. SumFunction(f) \in Nat
  BY <1>1, SumBounds
<1>. QED  BY <1>2 DEF f

\* A draft has no effect, so the ledger says its effect too.
LEMMA SaysItsEffect ==
  /\ \A i \in Invoice : InvoiceSays(i) => LedgerSays(i, InvoiceEffect(invoices[i]))
  /\ \A v \in Voucher : VoucherSays(v) => LedgerSays(v, VoucherEffect(vouchers[v]))
<1>1. \A s : Fresh(s) => LedgerSays(s, 0)
  BY DEF Fresh, LedgerSays
<1>2. /\ \A i \in Invoice : invoices[i].status \in Unsaid => InvoiceEffect(invoices[i]) = 0
      /\ \A v \in Voucher : vouchers[v].status \in Unsaid => VoucherEffect(vouchers[v]) = 0
  BY DEF InvoiceEffect, VoucherEffect, Unsaid
<1>. QED  BY <1>1, <1>2 DEF InvoiceSays, VoucherSays, Says

\* The ledger and the certificates agree with the documents.
LEMMA DocumentsFollow ==
  ASSUME entries \in EntryTable, PayTables, Documents, \A v \in Voucher : Certified(v)
  PROVE  EntriesMatchDocuments
<1>0. Invoice \subseteq Source /\ Voucher \subseteq Source
  BY FiniteTables
<1>1. ASSUME NEW i \in Invoice, ~ ReversedByHand(i)
      PROVE  Total("CONTROL", EntriesOf(i)) = InvoiceEffect(invoices[i])
  <2>1. InvoiceEffect(invoices[i]) \in Int
    BY InvoiceRows, FiniteTables DEF InvoiceEffect, InvoiceRow, PayTables
  <2>. QED  BY <1>0, <1>1, <2>1, SaysItsEffect, SaysTotal DEF Documents
<1>2. ASSUME NEW v \in Voucher, ~ ReversedByHand(v)
      PROVE  Total("CONTROL", EntriesOf(v)) = VoucherEffect(vouchers[v])
  <2>1. VoucherEffect(vouchers[v]) \in Int
    <3>1. vouchers[v].status = "POSTED" => vouchers[v] \in VoucherRow
      BY VoucherTableRows DEF PayTables, NoDoc
    <3>. QED  BY <3>1, GrossSum DEF VoucherEffect
  <2>. QED  BY <1>0, <1>2, <2>1, SaysItsEffect, SaysTotal DEF Documents
<1>3. \A v \in Voucher : PaymentLines(v)["CONTROL"] = SumFunction(vouchers[v].alloc)
  BY DEF PaymentLines, Zero, Account
<1>4. \A v \in Voucher : certificates[v] = "VALID" <=>
                           vouchers[v].status = "POSTED" /\ vouchers[v].wht
  BY DEF Certified
<1>. QED  BY <1>1, <1>2, <1>3, <1>4 DEF EntriesMatchDocuments, InvoiceEffect, VoucherEffect

\* A document whose effect stays, with its entries or out of the ledger.
LEMMA InvoiceStays ==
  ASSUME NEW i \in Invoice, InvoiceSays(i), SameInvoice(invoices[i], invoices'[i]),
         ReversedByHand(i) => ReversedByHand(i)', EntriesKept(i) \/ ReversedByHand(i)'
  PROVE  InvoiceSays(i)'
<1>0. i \in Source
  BY FiniteTables
<1>1. CASE ReversedByHand(i)'
  BY <1>1 DEF InvoiceSays, Says, Fresh, LedgerSays
<1>2. CASE EntriesKept(i) /\ invoices'[i].status \in Unsaid
  BY <1>0, <1>2, SaysKept DEF InvoiceSays, Says, SameInvoice
<1>3. CASE EntriesKept(i) /\ invoices'[i].status \notin Unsaid
  <2>1. LedgerSays(i, InvoiceEffect(invoices[i]))
    BY SaysItsEffect
  <2>. QED  BY <1>0, <1>3, <2>1 DEF InvoiceSays, Says, SameInvoice, LedgerSays, EntriesKept,
                                    Empty
<1>. QED  BY <1>1, <1>2, <1>3

\* The same, of a voucher.
LEMMA VoucherStays ==
  ASSUME NEW v \in Voucher, VoucherSays(v), SameVoucher(vouchers[v], vouchers'[v]),
         ReversedByHand(v) => ReversedByHand(v)', EntriesKept(v) \/ ReversedByHand(v)'
  PROVE  VoucherSays(v)'
<1>0. v \in Source
  BY FiniteTables
<1>1. CASE ReversedByHand(v)'
  BY <1>1 DEF VoucherSays, Says, Fresh, LedgerSays
<1>2. CASE EntriesKept(v) /\ vouchers'[v].status \in Unsaid
  BY <1>0, <1>2, SaysKept DEF VoucherSays, Says, SameVoucher
<1>3. CASE EntriesKept(v) /\ vouchers'[v].status \notin Unsaid
  <2>1. LedgerSays(v, VoucherEffect(vouchers[v]))
    BY SaysItsEffect
  <2>. QED  BY <1>0, <1>3, <2>1 DEF VoucherSays, Says, SameVoucher, LedgerSays, EntriesKept,
                                    Empty
<1>. QED  BY <1>1, <1>2, <1>3

\* The ledger hears of the documents in S only.
LEMMA OthersStay ==
  ASSUME Documents, NEW S, \A s \in Source \ S : EntriesKept(s),
         entries'[NoKey] = entries[NoKey],
         \A i \in Invoice : IF i \in S THEN InvoiceSays(i)'
                            ELSE SameInvoice(invoices[i], invoices'[i]),
         \A v \in Voucher : IF v \in S THEN VoucherSays(v)'
                            ELSE SameVoucher(vouchers[v], vouchers'[v])
  PROVE  Documents'
<1>1. \A s : ReversedByHand(s) => ReversedByHand(s)'
  BY DEF ReversedByHand, EntriesOf
<1>2. ASSUME NEW i \in Invoice PROVE InvoiceSays(i)'
  <2>1. CASE i \in S
    BY <2>1
  <2>2. CASE i \notin S
    <3>1. EntriesKept(i) /\ InvoiceSays(i) /\ SameInvoice(invoices[i], invoices'[i])
      BY <2>2, FiniteTables DEF Documents
    <3>. QED  BY <1>1, <3>1, InvoiceStays
  <2>. QED  BY <2>1, <2>2
<1>3. ASSUME NEW v \in Voucher PROVE VoucherSays(v)'
  <2>1. CASE v \in S
    BY <2>1
  <2>2. CASE v \notin S
    <3>1. EntriesKept(v) /\ VoucherSays(v) /\ SameVoucher(vouchers[v], vouchers'[v])
      BY <2>2, FiniteTables DEF Documents
    <3>. QED  BY <1>1, <3>1, VoucherStays
  <2>. QED  BY <2>1, <2>2
<1>. QED  BY <1>2, <1>3 DEF Documents

\* The documents stay as they are while the ledger moves.
LEMMA LedgerMoves ==
  ASSUME Documents, SourcesKept, invoices' = invoices, vouchers' = vouchers
  PROVE  Documents'
<1>1. ASSUME NEW i \in Invoice PROVE InvoiceSays(i)'
  <2>1. SameInvoice(invoices[i], invoices'[i])
    BY DEF SameInvoice
  <2>. QED  BY <2>1, InvoiceStays, FiniteTables DEF Documents, SourcesKept
<1>2. ASSUME NEW v \in Voucher PROVE VoucherSays(v)'
  <2>1. SameVoucher(vouchers[v], vouchers'[v])
    BY DEF SameVoucher
  <2>. QED  BY <2>1, VoucherStays, FiniteTables DEF Documents, SourcesKept
<1>. QED  BY <1>1, <1>2 DEF Documents

\* Nothing of it is posted or reversed.
LEMMA QuietStep ==
  ASSUME Documents, entries' = entries,
         \A i \in Invoice : SameInvoice(invoices[i], invoices'[i]),
         \A v \in Voucher : SameVoucher(vouchers[v], vouchers'[v])
  PROVE  Documents'
<1> DEFINE S == {}
<1>1. (\A s \in Source \ S : EntriesKept(s)) /\ entries'[NoKey] = entries[NoKey]
  BY DEF EntriesKept
<1>2. /\ \A i \in Invoice : i \notin S /\ SameInvoice(invoices[i], invoices'[i])
      /\ \A v \in Voucher : v \notin S /\ SameVoucher(vouchers[v], vouchers'[v])
  OBVIOUS
<1>. HIDE DEF S
<1>. QED  BY <1>1, <1>2, OthersStay

\* Settlements are not posted with the invoice.
LEMMA PaidSame ==
  ASSUME PaidOnly
  PROVE  \A i \in Invoice : SameInvoice(invoices[i], invoices'[i])
  BY DEF PaidOnly, SameInvoice, InvoiceEffect, Unsaid

\* The lines of a document.
LEMMA InvoiceLinesAre ==
  ASSUME NEW total \in Nat
  PROVE  /\ InvoiceLines(total) \in Lines /\ InvoiceLines(total)["CONTROL"] = - total
  BY DEF InvoiceLines, Zero, Lines, Account

\* The same, of a voucher, which may pay nothing.
LEMMA PaymentLinesAre ==
  ASSUME NEW v \in Voucher, vouchers[v] \in VoucherRow
  PROVE  /\ PaymentLines(v) \in Lines
         /\ PaymentLines(v)["CONTROL"] = SumFunction(vouchers[v].alloc)
         /\ PaymentLines(v)["CONTROL"] # 0 \/ PaymentLines(v) = Zero
<1> DEFINE gross == SumFunction(vouchers[v].alloc)
           paid == - gross
<1>1. gross \in Nat
  BY GrossSum
<1>2. PaymentLines(v) = [Zero EXCEPT !["CONTROL"] = gross, !["MONEY"] = paid]
  BY DEF PaymentLines
<1>. HIDE DEF gross
<1>3. paid \in Int /\ (gross <= 0 => paid = gross)
  BY <1>1
<1>. HIDE DEF paid
<1>4. PaymentLines(v) \in Lines /\ PaymentLines(v)["CONTROL"] = gross
  BY <1>1, <1>2, <1>3 DEF Zero, Lines, Account
<1>5. gross = 0 => PaymentLines(v) = Zero
  <2>1. gross = 0 => paid = 0
    BY <1>1, <1>3
  <2>2. Zero = [a \in Account |-> 0] /\ Zero["CONTROL"] = 0 /\ Zero["MONEY"] = 0
    BY DEF Zero, Account
  <2>3. [Zero EXCEPT !["CONTROL"] = 0, !["MONEY"] = 0] = Zero
    BY <2>2
  <2>. QED  BY <1>2, <2>1, <2>3
<1>. QED  BY <1>4, <1>5 DEF gross

(***************************************************************************)
(* What is matched                                                         *)
(***************************************************************************)
Weight(row, o) ==
  IF row.status \notin {"NONE", "VOID"} /\ row.order = o /\ row.match = "MATCHED"
  THEN row.total ELSE 0

\* What is matched of an order can be summed.
LEMMA MatchSum ==
  ASSUME NEW table \in InvoiceTable, NEW o
  PROVE  /\ IsFiniteSet(MatchedOf(table, o)) /\ MatchedOf(table, o) \in SUBSET Invoice
         /\ [i \in MatchedOf(table, o) |-> table[i].total] \in [MatchedOf(table, o) -> Nat]
         /\ Matched(table, o) \in Nat
<1> DEFINE S == MatchedOf(table, o)
           f == [i \in S |-> table[i].total]
<1>1. S \in SUBSET Invoice
  BY DEF MatchedOf
<1>2. IsFiniteSet(S)
  BY <1>1, FiniteTables, FS_Subset
<1>3. \A i \in S : table[i].total \in Nat
  BY FiniteTables DEF MatchedOf, InvoiceTable, InvoiceRow, NoDoc
<1>4. f \in [S -> Nat]
  BY <1>3
<1>. HIDE DEF S, f
<1>5. SumFunction(f) \in Nat
  BY <1>2, <1>4, SumBounds
<1>. QED  BY <1>1, <1>2, <1>4, <1>5 DEF S, f, Matched

\* The matched invoices stay, and their totals.
LEMMA MatchedKept ==
  ASSUME NEW table, NEW new, NEW o, MatchedOf(new, o) = MatchedOf(table, o),
         \A i \in MatchedOf(table, o) : new[i].total = table[i].total
  PROVE  Matched(new, o) = Matched(table, o)
<1>1. [i \in MatchedOf(new, o) |-> new[i].total] = [i \in MatchedOf(table, o) |-> table[i].total]
  OBVIOUS
<1>. QED  BY <1>1 DEF Matched

\* One row changes.
LEMMA MatchedRow ==
  ASSUME NEW table \in InvoiceTable, NEW new \in InvoiceTable, NEW i \in Invoice, NEW o,
         \A k \in Invoice \ {i} : new[k] = table[k]
  PROVE  /\ Matched(new, o) = Matched(table, o) - Weight(table[i], o) + Weight(new[i], o)
         /\ Weight(table[i], o) \in Nat /\ Weight(new[i], o) \in Nat
<1> DEFINE S == MatchedOf(table, o)
           T == MatchedOf(new, o)
           g == [k \in S |-> table[k].total]
           h == [k \in T |-> new[k].total]
<1>1. /\ IsFiniteSet(S) /\ g \in [S -> Nat] /\ Matched(table, o) = SumFunction(g)
      /\ IsFiniteSet(T) /\ h \in [T -> Nat] /\ Matched(new, o) = SumFunction(h)
      /\ Matched(table, o) \in Nat
  BY MatchSum DEF Matched
<1>2. S \ {i} = T \ {i} /\ \A k \in S \ {i} : g[k] = h[k]
  BY DEF MatchedOf
<1>3. /\ Weight(table[i], o) = IF i \in S THEN g[i] ELSE 0
      /\ Weight(new[i], o) = IF i \in T THEN h[i] ELSE 0
  BY DEF Weight, MatchedOf
<1>. HIDE DEF S, T, g, h
<1>4. g \in [S -> Int] /\ h \in [T -> Int]
  BY <1>1
<1>5. SumFunction(h) = SumFunction(g) - (IF i \in S THEN g[i] ELSE 0)
                                      + (IF i \in T THEN h[i] ELSE 0)
  BY <1>1, <1>2, <1>4, OneRow
<1>. QED  BY <1>1, <1>3, <1>5

\* What is matched is invoiced.
LEMMA MatchedIsInvoiced ==
  ASSUME invoices \in InvoiceTable, NEW o
  PROVE  InvoicedQty(o) \in Nat /\ Matched(invoices, o) <= InvoicedQty(o)
<1> DEFINE S == {i \in Invoice : invoices[i].status \notin {"NONE", "VOID"}
                                 /\ invoices[i].order = o}
           T == MatchedOf(invoices, o)
           g == [i \in S |-> invoices[i].total]
<1>1. S \in SUBSET Invoice /\ T \in SUBSET S
  BY DEF MatchedOf
<1>2. IsFiniteSet(S)
  BY <1>1, FiniteTables, FS_Subset
<1>3. \A i \in S : invoices[i].total \in Nat
  BY FiniteTables DEF InvoiceTable, InvoiceRow, NoDoc
<1>4. g \in [S -> Nat] /\ [i \in T |-> g[i]] = [i \in T |-> invoices[i].total]
  BY <1>1, <1>3
<1>5. InvoicedQty(o) = SumFunction(g) /\ Matched(invoices, o) = SumFunction([i \in T |-> g[i]])
  BY <1>4 DEF InvoicedQty, Matched
<1>. HIDE DEF S, T, g
<1>6. SumFunction([i \in T |-> g[i]]) <= SumFunction(g)
  BY <1>1, <1>2, <1>4, SumPart
<1>7. SumFunction(g) \in Nat
  BY <1>2, <1>4, SumBounds
<1>. QED  BY <1>5, <1>6, <1>7

\* No more is matched, and no less received.
LEMMA MatchingStays ==
  ASSUME Matching, Calls, Calls', CapturesStay, ReceivedGrows, rebilled \subseteq rebilled',
         invoices \in InvoiceTable, invoices' \in InvoiceTable,
         goodsReceipts \in GoodsReceiptTable, goodsReceipts' \in GoodsReceiptTable,
         \A o \in Order : Matched(invoices', o) <= Matched(invoices, o)
  PROVE  Matching'
<1>1. \A c \in Caller : call'[c].op = "capture" =>
        /\ call[c].op = "capture" /\ call'[c] = call[c] /\ call[c].order \in Order
        /\ call[c].qty \in Nat
  BY FiniteTables DEF Calls, Typed, CapturesStay
<1>2. \A c \in Caller : call'[c].op = "capture" => orders'[call'[c].order] # NoDoc
  BY <1>1 DEF Matching, ReceivedGrows
<1>3. ASSUME NEW o \in Order \ rebilled'
      PROVE  /\ Matched(invoices', o) <= ReceivedOf(goodsReceipts', o)
             /\ \A c \in Caller :
                  (/\ call'[c].op = "capture" /\ call'[c].order = o
                   /\ call'[c].match = "MATCHED" /\ ~ call'[c].twice) =>
                    Matched(invoices', o) + call'[c].qty <= ReceivedOf(goodsReceipts', o)
  <2> DEFINE m == Matched(invoices, o)
             n == Matched(invoices', o)
             r == ReceivedOf(goodsReceipts, o)
             s == ReceivedOf(goodsReceipts', o)
  <2>1. /\ m \in Nat /\ n \in Nat /\ r \in Nat /\ s \in Nat
        /\ m <= r /\ n <= m /\ r <= s
    BY MatchSum, ReceivedSum DEF Matching, ReceivedGrows
  <2>2. ASSUME NEW c \in Caller, call'[c].op = "capture", call'[c].order = o,
               call'[c].match = "MATCHED", ~ call'[c].twice
        PROVE  n + call'[c].qty <= s
    <3>1. call[c].qty \in Nat /\ m + call[c].qty <= r /\ call'[c].qty = call[c].qty
      BY <1>1, <2>2 DEF Matching
    <3>. HIDE DEF m, n, r, s
    <3>. QED  BY <2>1, <3>1
  <2>3. n <= s
    <3>. HIDE DEF m, n, r, s
    <3>. QED  BY <2>1
  <2>. QED  BY <2>2, <2>3
<1>. QED  BY <1>2, <1>3 DEF Matching

\* Settlements match nothing and unmatch nothing.
LEMMA PaidMatches ==
  ASSUME PaidOnly, invoices \in InvoiceTable, invoices' \in InvoiceTable, NEW o \in Order
  PROVE  Matched(invoices', o) <= Matched(invoices, o)
<1>1. /\ MatchedOf(invoices', o) = MatchedOf(invoices, o)
      /\ \A i \in MatchedOf(invoices, o) : invoices'[i].total = invoices[i].total
  BY DEF PaidOnly, MatchedOf
<1>2. Matched(invoices', o) = Matched(invoices, o)
  BY <1>1, MatchedKept
<1>3. Matched(invoices, o) \in Nat
  BY MatchSum
<1>. QED  BY <1>2, <1>3

(***************************************************************************)
(* The books                                                               *)
(***************************************************************************)
RuleTypes == rules \in [Rule -> [active : BOOLEAN, quiet : BOOLEAN]]

\* What the tables, the sums and the entries add to Inv.
Books == /\ PayTables /\ LedgerSafe /\ RuleTypes
         /\ Settlements /\ Receiving /\ Matching /\ Documents

\* The parts of Inv and Books the steps use.
LEMMA BooksAre ==
  ASSUME Inv, Books
  PROVE  /\ BuyShape /\ entries \in EntryTable /\ Calls
         /\ invoices \in InvoiceTable /\ vouchers \in VoucherTable
         /\ batches \in BatchTable /\ certificates \in CertificateTable
         /\ goodsReceipts \in GoodsReceiptTable /\ rebilled \subseteq Order
  BY DEF Inv, BuyInv, BuyShape, Books, LedgerSafe, LedgerTypeOK, PayTables

\* A document is saved, and no more is matched than before.
LEMMA Booked ==
  ASSUME Inv, Books, UNCHANGED <<decision, year, cleared, buyVars, sweepVars>>,
         entries' \in EntryTable, Calls', CapturesStay, rebilled \subseteq rebilled',
         PayTables', Settlements', Documents',
         \A o \in Order : Matched(invoices', o) <= Matched(invoices, o)
  PROVE  Books'
<1>0. /\ orders' = orders /\ goodsReceipts' = goodsReceipts /\ rules' = rules
      /\ goodsReceipts \in GoodsReceiptTable /\ goodsReceipts' \in GoodsReceiptTable
      /\ invoices \in InvoiceTable /\ invoices' \in InvoiceTable
  BY BooksAre DEF buyVars, sweepVars, PayTables
<1>1. Receiving' /\ ReceivedGrows
  BY <1>0, BooksAre, NothingReceived DEF Books
<1>2. Matching'
  BY <1>0, <1>1, BooksAre, MatchingStays DEF Books
<1>3. LedgerSafe'
  BY DEF Books, LedgerSafe, LedgerTypeOK
<1>4. RuleTypes'
  BY <1>0 DEF Books, RuleTypes
<1>. QED  BY <1>1, <1>2, <1>3, <1>4 DEF Books

\* No call changes.
LEMMA SameCalls ==
  ASSUME Calls, call' = call
  PROVE  Calls' /\ CapturesStay
  BY DEF Calls, CapturesStay

(***************************************************************************)
(* Purchasing, the ledger and the calls                                    *)
(***************************************************************************)
\* A rule has its two flags.
LEMMA RulesTyped ==
  ASSUME RuleTypes, BuyNext
  PROVE  RuleTypes'
<1>1. ASSUME NEW r \in Rule, NEW b \in BOOLEAN,
             \/ rules' = [rules EXCEPT ![r].active = b]
             \/ rules' = [rules EXCEPT ![r].quiet = b]
      PROVE  RuleTypes'
  <2>1. rules[r] = [active |-> rules[r].active, quiet |-> rules[r].quiet]
        /\ rules[r].active \in BOOLEAN /\ rules[r].quiet \in BOOLEAN
    BY DEF RuleTypes
  <2> DEFINE row == rules'[r]
  <2>2. CASE rules' = [rules EXCEPT ![r].active = b]
    <3> DEFINE new == [rules[r] EXCEPT !.active = b]
    <3>1. rules' = [rules EXCEPT ![r] = new]
      BY <2>2
    <3>2. new = [active |-> b, quiet |-> rules[r].quiet]
      BY <2>1
    <3>3. new \in [active : BOOLEAN, quiet : BOOLEAN]
      BY <2>1, <3>2
    <3>. HIDE DEF new
    <3>. QED  BY <3>1, <3>3 DEF RuleTypes
  <2>3. CASE rules' = [rules EXCEPT ![r].quiet = b]
    <3> DEFINE new == [rules[r] EXCEPT !.quiet = b]
    <3>1. rules' = [rules EXCEPT ![r] = new]
      BY <2>3
    <3>2. new = [active |-> rules[r].active, quiet |-> b]
      BY <2>1
    <3>3. new \in [active : BOOLEAN, quiet : BOOLEAN]
      BY <2>1, <3>2
    <3>. HIDE DEF new
    <3>. QED  BY <3>1, <3>3 DEF RuleTypes
  <2>. QED  BY <1>1, <2>2, <2>3
<1>2. CASE RequisitionNext \/ ApprovalNext \/ OrderNext \/ GoodsReceiptNext
  <2>1. UNCHANGED sweepVars
    <3>1. RequisitionNext => UNCHANGED sweepVars
      BY DEF RequisitionNext, UpdateRequisition, SubmitRequisition, ConfirmRequisition,
             ReopenRequisition, CancelRequisition, MoveRequisition
    <3>2. ApprovalNext => UNCHANGED sweepVars
      BY DEF ApprovalNext, AskDirectly, Settle
    <3>3. OrderNext => UNCHANGED sweepVars
      BY DEF OrderNext, CreateOrder, UpdateOrder, ConvertRequisition, SubmitOrder,
             ConfirmOrder, ReopenOrder, CancelOrder, MoveOrder
    <3>4. GoodsReceiptNext => UNCHANGED sweepVars
      BY DEF GoodsReceiptNext, CreateGoodsReceipt, PostGoodsReceipt, CancelGoodsReceipt
    <3>. QED  BY <1>2, <3>1, <3>2, <3>3, <3>4
  <2>. QED  BY <2>1 DEF RuleTypes, sweepVars
<1>3. CASE SweepNext
  <2>1. ASSUME NEW r \in Rule, UpsertRule(r) PROVE RuleTypes'
    <3> DEFINE b == ~ rules[r].active
    <3>1. rules' = [rules EXCEPT ![r] = [rules[r] EXCEPT !.active = b]]
      BY <2>1 DEF UpsertRule, SaveRule
    <3>2. b \in BOOLEAN
      BY DEF RuleTypes
    <3>. HIDE DEF b
    <3>3. rules' = [rules EXCEPT ![r].active = b]
      BY <3>1
    <3>. QED  BY <1>1, <3>2, <3>3
  <2>2. ASSUME NEW r \in Rule, CooldownEnds(r) \/ \E s \in Sweeper : MarkTriggered(s, r)
        PROVE  RuleTypes'
    <3>1. \E b \in BOOLEAN : rules' = [rules EXCEPT ![r].quiet = b]
      BY <2>2 DEF CooldownEnds, MarkTriggered
    <3>. QED  BY <1>1, <3>1
  <2>3. ASSUME NEW s \in Sweeper,
               \/ \E fired \in SUBSET Rule : BeginSweep(s, fired)
               \/ \E g \in Groups, q \in Requisition, qty \in Qty :
                    RaiseRequisition(s, g, q, qty)
               \/ AbortSweep(s)
        PROVE  RuleTypes'
    <3>1. rules' = rules
      BY <2>3 DEF BeginSweep, RaiseRequisition, AbortSweep
    <3>. QED  BY <3>1 DEF RuleTypes
  <2>. QED  BY <1>3, <2>1, <2>2, <2>3 DEF SweepNext
<1>. QED  BY <1>2, <1>3 DEF BuyNext

\* Purchasing.
LEMMA BuyBooks ==
  ASSUME Inv, Inv', Books, BuyNext, UNCHANGED <<ledgerVars, call, payVars>>
  PROVE  Books'
<1>0. /\ BuyShape /\ BuyShape' /\ entries' = entries /\ call' = call
      /\ invoices' = invoices /\ vouchers' = vouchers /\ batches' = batches
      /\ certificates' = certificates /\ rebilled' = rebilled /\ decision' = decision
      /\ year' = year /\ cleared' = cleared
  BY DEF Inv, BuyInv, ledgerVars, payVars
<1>1. Receiving' /\ ReceivedGrows
  BY BuyingKeeps DEF Books, Inv
<1>2. Calls' /\ CapturesStay
  BY <1>0, BooksAre, SameCalls
<1>3. \A o \in Order : Matched(invoices', o) <= Matched(invoices, o)
  <2>1. \A o \in Order : Matched(invoices, o) \in Nat
    BY BooksAre, MatchSum
  <2>. QED  BY <1>0, <2>1
<1>4. goodsReceipts' \in GoodsReceiptTable
  BY <1>0 DEF BuyShape
<1>5. Matching'
  BY <1>0, <1>1, <1>2, <1>3, <1>4, BooksAre, MatchingStays DEF Books
<1>6. PayTables' /\ LedgerSafe' /\ Settlements'
  BY <1>0, <1>2 DEF Books, PayTables, LedgerSafe, LedgerTypeOK, Settlements
<1>7. Documents'
  BY <1>0, QuietStep DEF Books, SameInvoice, SameVoucher
<1>. QED  BY <1>1, <1>5, <1>6, <1>7, RulesTyped DEF Books

\* The accountant, the year and the gate.
LEMMA LedgerBooks ==
  ASSUME Inv, Books, LedgerNext, UNCHANGED <<buyVars, sweepVars, payVars>>
  PROVE  Books'
<1>0. /\ orders' = orders /\ goodsReceipts' = goodsReceipts /\ rules' = rules
      /\ invoices' = invoices /\ vouchers' = vouchers /\ batches' = batches
      /\ certificates' = certificates /\ rebilled' = rebilled
  BY DEF buyVars, sweepVars, payVars
<1>1. LedgerSafe' /\ SourcesKept /\ CapturesStay
  BY LedgerSteps DEF Books
<1>2. Receiving' /\ ReceivedGrows
  BY <1>0, BooksAre, NothingReceived DEF Books
<1>3. \A o \in Order : Matched(invoices', o) <= Matched(invoices, o)
  <2>1. \A o \in Order : Matched(invoices, o) \in Nat
    BY BooksAre, MatchSum
  <2>. QED  BY <1>0, <2>1
<1>4. Calls'
  BY <1>1 DEF LedgerSafe
<1>5. Matching'
  BY <1>0, <1>1, <1>2, <1>3, <1>4, BooksAre, MatchingStays DEF Books
<1>6. PayTables' /\ RuleTypes' /\ Settlements'
  BY <1>0 DEF Books, PayTables, RuleTypes, Settlements
<1>7. Documents'
  BY <1>0, <1>1, LedgerMoves DEF Books
<1>. QED  BY <1>1, <1>2, <1>5, <1>6, <1>7 DEF Books

\* A step that changes nothing.
LEMMA StillBooks ==
  ASSUME Inv, Books, UNCHANGED vars
  PROVE  Books'
<1>0. /\ entries' = entries /\ call' = call
      /\ invoices' = invoices /\ vouchers' = vouchers /\ batches' = batches
      /\ certificates' = certificates /\ rebilled' = rebilled
      /\ UNCHANGED <<decision, year, cleared, buyVars, sweepVars>>
  BY DEF vars, ledgerVars, payVars
<1>1. Calls' /\ CapturesStay
  BY <1>0, BooksAre, SameCalls
<1>2. \A o \in Order : Matched(invoices', o) <= Matched(invoices, o)
  <2>1. \A o \in Order : Matched(invoices, o) \in Nat
    BY BooksAre, MatchSum
  <2>. QED  BY <1>0, <2>1
<1>3. PayTables' /\ Settlements' /\ entries' \in EntryTable
  BY <1>0, BooksAre DEF Books, PayTables, Settlements
<1>4. Documents'
  BY <1>0, QuietStep DEF Books, SameInvoice, SameVoucher
<1>5. rebilled \subseteq rebilled'
  BY <1>0
<1>. QED  BY <1>0, <1>1, <1>2, <1>3, <1>4, <1>5, Booked

(***************************************************************************)
(* Steps on invoices                                                       *)
(***************************************************************************)
\* What the domain makes of an invoice.
LEMMA InvoiceTypes ==
  /\ \A match \in {"MATCHED", "VARIANCE", "UNMATCHED"}, o \in Order \cup {NoDoc},
        p \in Period, total \in Qty, wht \in BOOLEAN :
       LET row == NewInvoice(match, o, p, total, wht)
       IN  /\ row \in InvoiceRow /\ RowSound(row) /\ row.settled = 0
           /\ row.status = "DRAFT" /\ row.total = total /\ row.order = o
           /\ row.match = match
  /\ \A inv \in InvoiceRow :
       /\ Opened(inv) \in InvoiceRow /\ Opened(inv).status = "OPEN"
       /\ Opened(inv).settled = inv.settled /\ Opened(inv).total = inv.total
       /\ Opened(inv).order = inv.order /\ Opened(inv).match = inv.match
       /\ VoidedInvoice(inv) \in InvoiceRow /\ VoidedInvoice(inv).status = "VOID"
       /\ VoidedInvoice(inv).settled = inv.settled /\ VoidedInvoice(inv).total = inv.total
       /\ VoidedInvoice(inv).order = inv.order /\ VoidedInvoice(inv).match = inv.match
<1>1. ASSUME NEW match \in {"MATCHED", "VARIANCE", "UNMATCHED"},
             NEW o \in Order \cup {NoDoc}, NEW p \in Period, NEW total \in Qty,
             NEW wht \in BOOLEAN
      PROVE  LET row == NewInvoice(match, o, p, total, wht)
             IN  /\ row \in InvoiceRow /\ RowSound(row) /\ row.settled = 0
                 /\ row.status = "DRAFT" /\ row.total = total /\ row.order = o
                 /\ row.match = match
  BY FiniteTables DEF NewInvoice, InvoiceRow, RowSound
<1>2. ASSUME NEW inv \in InvoiceRow
      PROVE  /\ Opened(inv) \in InvoiceRow /\ Opened(inv).status = "OPEN"
             /\ Opened(inv).settled = inv.settled /\ Opened(inv).total = inv.total
             /\ Opened(inv).order = inv.order /\ Opened(inv).match = inv.match
  BY DEF Opened, InvoiceRow
<1>3. ASSUME NEW inv \in InvoiceRow
      PROVE  /\ VoidedInvoice(inv) \in InvoiceRow /\ VoidedInvoice(inv).status = "VOID"
             /\ VoidedInvoice(inv).settled = inv.settled
             /\ VoidedInvoice(inv).total = inv.total
             /\ VoidedInvoice(inv).order = inv.order /\ VoidedInvoice(inv).match = inv.match
  BY DEF VoidedInvoice, InvoiceRow
<1>. QED  BY <1>1, <1>2, <1>3

\* A draft or open invoice is saved with all it says but its status.
LEMMA InvoiceMoved ==
  ASSUME Inv, Books, NEW i \in Invoice, NEW row \in InvoiceRow,
         invoices[i].status \in {"DRAFT", "OPEN"}, row.status \in {"OPEN", "VOID"},
         row.settled = invoices[i].settled, row.total = invoices[i].total,
         row.order = invoices[i].order, row.match = invoices[i].match,
         SaveInvoice(i, row), UNCHANGED <<vouchers, batches, certificates, rebilled>>
  PROVE  /\ PayTables' /\ Settlements' /\ invoices'[i] = row
         /\ \A k \in Invoice \ {i} : invoices'[k] = invoices[k]
         /\ \A o \in Order : Matched(invoices', o) <= Matched(invoices, o)
<1>1. invoices[i] \in InvoiceRow /\ invoices[i] # NoDoc
  BY BooksAre, InvoiceRows DEF NoDoc
<1>2. RowSound(invoices[i]) /\ invoices[i].settled \in Nat
  BY <1>1, FiniteTables DEF Books, Settlements, InvoiceRow
<1>3. RowSound(row) /\ row.settled = SettledSoFar(invoices[i])
  BY <1>1, <1>2 DEF RowSound, SettledSoFar
<1>4. /\ invoices' \in InvoiceTable /\ Settlements' /\ invoices'[i] = row
      /\ \A k \in Invoice \ {i} : invoices'[k] = invoices[k]
  BY <1>3, InvoiceSaved DEF Books, SaveInvoice
<1>5. PayTables'
  BY <1>4 DEF Books, PayTables
<1>6. ASSUME NEW o \in Order
      PROVE  Matched(invoices', o) <= Matched(invoices, o)
  <2>1. /\ Matched(invoices', o) = Matched(invoices, o) - Weight(invoices[i], o)
                                     + Weight(invoices'[i], o)
        /\ Weight(invoices[i], o) \in Nat /\ Weight(invoices'[i], o) \in Nat
    BY <1>4, BooksAre, MatchedRow
  <2>2. Weight(invoices'[i], o) <= Weight(invoices[i], o)
    <3>1. Weight(invoices'[i], o) = 0 \/ Weight(invoices'[i], o) = Weight(invoices[i], o)
      BY <1>4 DEF Weight
    <3>. QED  BY <2>1, <3>1
  <2>3. Matched(invoices, o) \in Nat
    BY BooksAre, MatchSum
  <2>. QED  BY <2>1, <2>2, <2>3
<1>. QED  BY <1>4, <1>5, <1>6

\* A draft invoice comes in.
LEMMA InvoiceInserted ==
  ASSUME Inv, Books, NEW i \in Invoice, NEW row \in InvoiceRow,
         row.status = "DRAFT", row.settled = 0, RowSound(row),
         InsertInvoice(i, row), UNCHANGED <<vouchers, batches, certificates>>,
         rebilled' \subseteq Order, entries' = entries
  PROVE  /\ PayTables' /\ Settlements' /\ Documents'
         /\ \A o \in Order : Matched(invoices', o) = Matched(invoices, o) + Weight(row, o)
<1>1. invoices[i] = NoDoc /\ invoices[i].status = "NONE"
  BY DEF InsertInvoice, NoDoc
<1>2. row.settled = SettledSoFar(invoices[i]) /\ row.settled \in Nat
  BY <1>1 DEF SettledSoFar
<1>3. /\ invoices' \in InvoiceTable /\ Settlements' /\ invoices'[i] = row
      /\ \A k \in Invoice \ {i} : invoices'[k] = invoices[k]
  BY <1>2, InvoiceSaved DEF Books, InsertInvoice
<1>4. PayTables'
  BY <1>3 DEF Books, PayTables
<1>5. ASSUME NEW o \in Order
      PROVE  Matched(invoices', o) = Matched(invoices, o) + Weight(row, o)
  <2>1. /\ Matched(invoices', o) = Matched(invoices, o) - Weight(invoices[i], o)
                                     + Weight(invoices'[i], o)
        /\ Weight(invoices'[i], o) \in Nat
    BY <1>3, BooksAre, MatchedRow
  <2>2. Weight(invoices[i], o) = 0 /\ Weight(invoices'[i], o) = Weight(row, o)
    BY <1>1, <1>3 DEF Weight
  <2>3. Matched(invoices, o) \in Nat
    BY BooksAre, MatchSum
  <2>. QED  BY <2>1, <2>2, <2>3
<1>6. \A k \in Invoice : SameInvoice(invoices[k], invoices'[k])
  BY <1>1, <1>3 DEF SameInvoice, InvoiceEffect, Unsaid
<1>7. \A v \in Voucher : SameVoucher(vouchers[v], vouchers'[v])
  BY DEF SameVoucher
<1>8. Documents'
  BY <1>6, <1>7, QuietStep DEF Books
<1>. QED  BY <1>3, <1>4, <1>5, <1>8

\* CaptureVendorInvoice without a purchase order.
LEMMA UnmatchedCaptured ==
  ASSUME Inv, Books, NEW i \in Invoice, NEW p \in Period, NEW qty \in Qty,
         NEW wht \in BOOLEAN, CaptureUnmatched(i, p, qty, wht)
  PROVE  Books'
<1> DEFINE row == NewInvoice("UNMATCHED", NoDoc, p, qty, wht)
<1>1. /\ row \in InvoiceRow /\ RowSound(row) /\ row.settled = 0 /\ row.status = "DRAFT"
      /\ row.match = "UNMATCHED"
  BY FiniteTables DEF NewInvoice, InvoiceRow, RowSound
<1>2. /\ InsertInvoice(i, row) /\ UNCHANGED <<vouchers, batches, certificates>>
      /\ rebilled' = rebilled /\ entries' = entries /\ call' = call
      /\ UNCHANGED <<decision, year, cleared, buyVars, sweepVars>>
  BY DEF CaptureUnmatched, ledgerVars
<1>. HIDE DEF row
<1>3. /\ PayTables' /\ Settlements' /\ Documents'
      /\ \A o \in Order : Matched(invoices', o) = Matched(invoices, o) + Weight(row, o)
  <2>1. rebilled' \subseteq Order
    BY <1>2, BooksAre
  <2>. QED  BY <1>1, <1>2, <2>1, InvoiceInserted
<1>4. \A o \in Order : Matched(invoices', o) <= Matched(invoices, o)
  <2>1. \A o \in Order : Weight(row, o) = 0 /\ Matched(invoices, o) \in Nat
    BY <1>1, BooksAre, MatchSum DEF Weight
  <2>. QED  BY <1>3, <2>1
<1>5. Calls' /\ CapturesStay /\ entries' \in EntryTable /\ rebilled \subseteq rebilled'
  BY <1>2, BooksAre, SameCalls
<1>. QED  BY <1>2, <1>3, <1>4, <1>5, Booked

\* CaptureVendorInvoice reads the order and what is invoiced of it.
LEMMA CaptureBegun ==
  ASSUME Inv, Books, NEW c \in Caller, NEW o \in Order, NEW lines \in Billings,
         NEW inTolerance \in BOOLEAN, BeginCaptureInvoice(c, o, lines, inTolerance)
  PROVE  Books'
<1> DEFINE match == ThreeWayMatch(lines, orders[o].received - InvoicedQty(o), inTolerance)
           qty == lines[1] + lines[2]
           twice == lines[2] > 0
           job == [op |-> "capture", order |-> o, qty |-> qty, twice |-> twice,
                   match |-> match]
<1>1. /\ orders[o] # NoDoc /\ call' = [call EXCEPT ![c] = job]
      /\ UNCHANGED <<ledgerVars, buyVars, sweepVars, payVars>>
  BY DEF BeginCaptureInvoice, Start
<1>2. /\ entries' = entries /\ orders' = orders /\ goodsReceipts' = goodsReceipts
      /\ invoices' = invoices /\ vouchers' = vouchers /\ batches' = batches
      /\ certificates' = certificates /\ rebilled' = rebilled
      /\ rules' = rules /\ decision' = decision /\ year' = year /\ cleared' = cleared
  BY <1>1 DEF ledgerVars, buyVars, sweepVars, payVars
<1>3. /\ match \in {"MATCHED", "VARIANCE"}
      /\ qty \in Qty /\ twice \in BOOLEAN
      /\ match = "MATCHED" /\ ~ twice => qty <= orders[o].received - InvoicedQty(o)
  <2>1. lines[1] \in Qty /\ lines[2] \in 0 .. MaxQty /\ lines[1] + lines[2] <= MaxQty
    BY DEF Billings
  <2>2. qty \in Qty /\ (~ twice => qty = lines[1])
    BY <2>1, FiniteTables
  <2>3. match = "MATCHED" => lines[1] <= orders[o].received - InvoicedQty(o)
    BY DEF ThreeWayMatch
  <2>. QED  BY <2>2, <2>3 DEF ThreeWayMatch
<1>. HIDE DEF match, qty, twice
<1>4. /\ Typed(job) /\ job.op = "capture" /\ job.order = o /\ job.qty = qty
      /\ job.match = match /\ job.twice = twice
  BY <1>3 DEF Typed
<1>. HIDE DEF job
<1>5. Calls' /\ call'[c] = job /\ \A d \in Caller \ {c} : call'[d] = call[d]
  BY <1>1, <1>4, BooksAre, NewJob
<1>6. Matching'
  <2>1. \A d \in Caller : call'[d].op = "capture" => orders'[call'[d].order] # NoDoc
    BY <1>1, <1>2, <1>4, <1>5 DEF Books, Matching
  <2>2. match = "MATCHED" /\ ~ twice =>
          Matched(invoices, o) + qty <= ReceivedOf(goodsReceipts, o)
    <3>1. orders[o].received = ReceivedOf(goodsReceipts, o)
      BY <1>1 DEF Books, Receiving, ReceivedSoFar
    <3>2. /\ InvoicedQty(o) \in Nat /\ Matched(invoices, o) <= InvoicedQty(o)
          /\ Matched(invoices, o) \in Nat /\ ReceivedOf(goodsReceipts, o) \in Nat
          /\ qty \in Nat
      BY <1>3, BooksAre, MatchedIsInvoiced, MatchSum, ReceivedSum, FiniteTables
    <3>. QED  BY <1>3, <3>1, <3>2
  <2>3. ASSUME NEW e \in Order \ rebilled'
        PROVE  /\ Matched(invoices', e) <= ReceivedOf(goodsReceipts', e)
               /\ \A d \in Caller :
                    (/\ call'[d].op = "capture" /\ call'[d].order = e
                     /\ call'[d].match = "MATCHED" /\ ~ call'[d].twice) =>
                      Matched(invoices', e) + call'[d].qty <= ReceivedOf(goodsReceipts', e)
    <3>1. Matched(invoices', e) <= ReceivedOf(goodsReceipts', e)
      BY <1>2, <2>3 DEF Books, Matching
    <3>2. ASSUME NEW d \in Caller, call'[d].op = "capture", call'[d].order = e,
                 call'[d].match = "MATCHED", ~ call'[d].twice
          PROVE  Matched(invoices', e) + call'[d].qty <= ReceivedOf(goodsReceipts', e)
      <4>1. CASE d = c
        BY <1>2, <1>4, <1>5, <2>2, <3>2, <4>1
      <4>2. CASE d # c
        BY <1>2, <1>5, <2>3, <3>2, <4>2 DEF Books, Matching
      <4>. QED  BY <4>1, <4>2
    <3>. QED  BY <3>1, <3>2
  <2>. QED  BY <2>1, <2>3 DEF Matching
<1>7. PayTables' /\ RuleTypes' /\ Settlements'
  BY <1>2 DEF Books, PayTables, RuleTypes, Settlements
<1>8. Receiving'
  BY <1>2 DEF Books, Receiving
<1>9. LedgerSafe'
  BY <1>2, <1>5 DEF Books, LedgerSafe, LedgerTypeOK
<1>10. Documents'
  BY <1>2, QuietStep DEF Books, SameInvoice, SameVoucher
<1>. QED  BY <1>6, <1>7, <1>8, <1>9, <1>10 DEF Books

\* CaptureVendorInvoice saves what it matched.
LEMMA InvoiceCaptured ==
  ASSUME Inv, Books, NEW c \in Caller, NEW i \in Invoice, NEW p \in Period,
         NEW wht \in BOOLEAN, CaptureInvoice(c, i, p, wht)
  PROVE  Books'
<1> DEFINE o == call[c].order
           qty == call[c].qty
           match == call[c].match
           row == NewInvoice(match, o, p, qty, wht)
           met == {call[k].order : k \in {k \in Caller : /\ call[k].op = "capture"
                                                         /\ call[k].order = o
                                                         /\ k # c \/ call[c].twice}}
<1>1. /\ call[c].op = "capture" /\ InsertInvoice(i, row) /\ Finish(c)
      /\ rebilled' = rebilled \cup met
      /\ UNCHANGED <<ledgerVars, buyVars, sweepVars, vouchers, batches, certificates>>
  BY DEF CaptureInvoice
<1>2. /\ entries' = entries /\ orders' = orders /\ goodsReceipts' = goodsReceipts
      /\ vouchers' = vouchers /\ batches' = batches /\ certificates' = certificates
      /\ rules' = rules /\ decision' = decision /\ year' = year /\ cleared' = cleared
  BY <1>1 DEF ledgerVars, buyVars, sweepVars
<1>3. o \in Order /\ qty \in Qty /\ match \in {"MATCHED", "VARIANCE"}
  BY <1>1, BooksAre DEF Calls, Typed
<1>4. met \subseteq {o}
  OBVIOUS
<1>5. o \notin rebilled' =>
        /\ ~ call[c].twice
        /\ \A k \in Caller \ {c} : ~ (call[k].op = "capture" /\ call[k].order = o)
  BY <1>1
<1>6. rebilled' \subseteq Order /\ rebilled \subseteq rebilled'
  BY <1>1, <1>3, <1>4, BooksAre
<1>7. o \notin rebilled' /\ match = "MATCHED" =>
        Matched(invoices, o) + qty <= ReceivedOf(goodsReceipts, o)
  BY <1>1, <1>3, <1>5, <1>6 DEF Books, Matching
<1>. HIDE DEF o, qty, match, met
<1>8. /\ row \in InvoiceRow /\ RowSound(row) /\ row.settled = 0 /\ row.status = "DRAFT"
      /\ row.total = qty /\ row.order = o /\ row.match = match
  BY <1>3, InvoiceTypes
<1>. HIDE DEF row
<1>9. /\ PayTables' /\ Settlements' /\ Documents'
      /\ \A e \in Order : Matched(invoices', e) = Matched(invoices, e) + Weight(row, e)
  BY <1>1, <1>2, <1>6, <1>8, InvoiceInserted
<1>10. /\ Calls' /\ CapturesStay /\ call'[c].op = "none"
       /\ \A d \in Caller \ {c} : call'[d] = call[d]
  BY <1>1, BooksAre, Finished
<1>11. Matching'
  <2>1. \A d \in Caller : call'[d].op = "capture" => orders'[call'[d].order] # NoDoc
    BY <1>2, <1>10 DEF Books, Matching
  <2>2. ASSUME NEW e \in Order \ rebilled'
        PROVE  /\ Matched(invoices', e) <= ReceivedOf(goodsReceipts', e)
               /\ \A d \in Caller :
                    (/\ call'[d].op = "capture" /\ call'[d].order = e
                     /\ call'[d].match = "MATCHED" /\ ~ call'[d].twice) =>
                      Matched(invoices', e) + call'[d].qty <= ReceivedOf(goodsReceipts', e)
    <3>1. e \in Order \ rebilled
      BY <1>6, <2>2
    <3>2. Matched(invoices, e) <= ReceivedOf(goodsReceipts, e)
          /\ Matched(invoices, e) \in Nat /\ Weight(row, e) \in {0, qty}
      BY <1>8, <3>1, BooksAre, MatchSum DEF Books, Matching, Weight
    <3>3. CASE e = o
      <4>1. Weight(row, e) = qty => match = "MATCHED" \/ qty = 0
        BY <1>8, <3>3 DEF Weight
      <4>2. Matched(invoices', e) <= ReceivedOf(goodsReceipts', e)
        <5>1. CASE Weight(row, e) = 0
          BY <1>2, <1>9, <3>2, <5>1
        <5>2. CASE Weight(row, e) = qty /\ match = "MATCHED"
          BY <1>2, <1>7, <1>9, <2>2, <3>1, <3>3, <5>2
        <5>. QED  BY <3>2, <4>1, <5>1, <5>2
      <4>3. \A d \in Caller : ~ (call'[d].op = "capture" /\ call'[d].order = e)
        BY <1>5, <1>10, <2>2, <3>3
      <4>. QED  BY <4>2, <4>3
    <3>4. CASE e # o
      <4>1. Weight(row, e) = 0
        BY <1>8, <3>4 DEF Weight
      <4>2. Matched(invoices', e) = Matched(invoices, e)
        BY <1>9, <3>2, <4>1
      <4>3. ASSUME NEW d \in Caller, call'[d].op = "capture", call'[d].order = e,
                   call'[d].match = "MATCHED", ~ call'[d].twice
            PROVE  Matched(invoices', e) + call'[d].qty <= ReceivedOf(goodsReceipts', e)
        BY <1>2, <1>10, <3>1, <4>2, <4>3 DEF Books, Matching
      <4>. QED  BY <1>2, <3>2, <4>2, <4>3
    <3>. QED  BY <3>3, <3>4
  <2>. QED  BY <2>1, <2>2 DEF Matching
<1>12. RuleTypes' /\ Receiving'
  BY <1>2 DEF Books, RuleTypes, Receiving
<1>13. LedgerSafe'
  BY <1>2, <1>10 DEF Books, LedgerSafe, LedgerTypeOK
<1>. QED  BY <1>9, <1>11, <1>12, <1>13 DEF Books

\* VoidVendorInvoice of a draft.
LEMMA DraftInvoiceVoided ==
  ASSUME Inv, Books, NEW i \in Invoice, VoidDraftInvoice(i)
  PROVE  Books'
<1> DEFINE row == VoidedInvoice(invoices[i])
<1>1. /\ invoices[i].status = "DRAFT" /\ SaveInvoice(i, row) /\ call' = call
      /\ UNCHANGED <<vouchers, batches, certificates, rebilled>> /\ entries' = entries
      /\ UNCHANGED <<decision, year, cleared, buyVars, sweepVars>>
  BY DEF VoidDraftInvoice, ledgerVars
<1>2. invoices[i] \in InvoiceRow
  BY <1>1, BooksAre, InvoiceRows DEF NoDoc
<1>3. /\ row \in InvoiceRow /\ row.status = "VOID" /\ row.settled = invoices[i].settled
      /\ row.total = invoices[i].total /\ row.order = invoices[i].order
      /\ row.match = invoices[i].match
  BY <1>2, InvoiceTypes
<1>. HIDE DEF row
<1>4. /\ PayTables' /\ Settlements' /\ invoices'[i] = row
      /\ \A k \in Invoice \ {i} : invoices'[k] = invoices[k]
      /\ \A o \in Order : Matched(invoices', o) <= Matched(invoices, o)
  BY <1>1, <1>3, InvoiceMoved
<1>5. \A k \in Invoice : SameInvoice(invoices[k], invoices'[k])
  BY <1>1, <1>3, <1>4 DEF SameInvoice, InvoiceEffect, Unsaid
<1>6. Documents'
  BY <1>1, <1>5, QuietStep DEF Books, SameVoucher
<1>7. Calls' /\ CapturesStay /\ entries' \in EntryTable /\ rebilled \subseteq rebilled'
  BY <1>1, BooksAre, SameCalls
<1>. QED  BY <1>1, <1>4, <1>6, <1>7, Booked

\* The ledger is told of one invoice.
LEMMA InvoiceTold ==
  ASSUME Documents, NEW i \in Invoice, InvoiceSays(i)', vouchers' = vouchers,
         \A k \in Invoice \ {i} : invoices'[k] = invoices[k],
         \A s \in Source \ {i} : EntriesKept(s), entries'[NoKey] = entries[NoKey]
  PROVE  Documents'
<1> DEFINE S == {i}
<1>1. \A k \in Invoice : IF k \in S THEN InvoiceSays(k)'
                         ELSE SameInvoice(invoices[k], invoices'[k])
  BY DEF SameInvoice
<1>2. \A v \in Voucher : v \notin S /\ SameVoucher(vouchers[v], vouchers'[v])
  BY PayableAssumption DEF SameVoucher
<1>3. \A s \in Source \ S : EntriesKept(s)
  OBVIOUS
<1>. HIDE DEF S
<1>. QED  BY <1>1, <1>2, <1>3, OthersStay

\* PostVendorInvoice.
LEMMA InvoicePosted ==
  ASSUME Inv, Books, NEW c \in Caller, NEW i \in Invoice, NEW acceptVariance \in BOOLEAN,
         PostInvoice(c, i, acceptVariance)
  PROVE  Books'
<1> DEFINE row == Opened(invoices[i])
<1>1. /\ invoices[i].status = "DRAFT" /\ SaveInvoice(i, row)
      /\ ThroughGate(c, invoices[i].date)
      /\ UNCHANGED <<vouchers, batches, certificates, rebilled>>
      /\ UNCHANGED <<decision, year, cleared, buyVars, sweepVars>>
      /\ entries' = Posting(entries, Posted(i), InvoiceLines(invoices[i].total),
                            invoices[i].date)
  BY DEF PostInvoice, CanPostInvoice
<1>2. invoices[i] \in InvoiceRow
  BY <1>1, BooksAre, InvoiceRows DEF NoDoc
<1>3. /\ row \in InvoiceRow /\ row.status = "OPEN" /\ row.settled = invoices[i].settled
      /\ row.total = invoices[i].total /\ row.order = invoices[i].order
      /\ row.match = invoices[i].match
  BY <1>2, InvoiceTypes
<1>. HIDE DEF row
<1>4. /\ PayTables' /\ Settlements' /\ invoices'[i] = row
      /\ \A k \in Invoice \ {i} : invoices'[k] = invoices[k]
      /\ \A o \in Order : Matched(invoices', o) <= Matched(invoices, o)
  BY <1>1, <1>3, InvoiceMoved
<1>5. PICK total \in Nat : total = invoices[i].total /\ total > 0
  BY <1>2, FiniteTables DEF InvoiceRow
<1>6. PICK lines \in Lines : lines = InvoiceLines(total) /\ lines["CONTROL"] = - total
  BY InvoiceLinesAre
<1>7. PICK p \in Period : p = invoices[i].date
  BY <1>2 DEF InvoiceRow
<1>8. entries' = Posting(entries, Posted(i), lines, p)
  BY <1>1, <1>5, <1>6, <1>7
<1>9. Fresh(i) /\ i \in Source
  BY <1>1, FiniteTables DEF Books, Documents, InvoiceSays, Says, Unsaid
<1>10. lines["CONTROL"] # 0
  BY <1>5, <1>6
<1>11. /\ entries' \in EntryTable /\ LedgerSays(i, lines["CONTROL"])'
       /\ \A s \in Source \ {i} : EntriesKept(s)
       /\ entries'[NoKey] = entries[NoKey]
  BY <1>8, <1>9, <1>10, BooksAre, PostingSays
<1>12. InvoiceSays(i)'
  <2>1. invoices'[i].status = "OPEN" /\ InvoiceEffect(invoices'[i]) = lines["CONTROL"]
    BY <1>3, <1>4, <1>5, <1>6 DEF InvoiceEffect
  <2>. QED  BY <1>11, <2>1 DEF InvoiceSays, Says, Unsaid, LedgerSays
<1>13. Documents'
  BY <1>1, <1>4, <1>11, <1>12, InvoiceTold DEF Books
<1>14. Calls' /\ CapturesStay /\ rebilled \subseteq rebilled'
  BY <1>1, BooksAre, ThroughTheGate
<1>. QED  BY <1>1, <1>4, <1>11, <1>13, <1>14, Booked

\* VoidVendorInvoice of a posted one.
LEMMA InvoiceVoided ==
  ASSUME Inv, Books, NEW c \in Caller, NEW i \in Invoice, NEW p \in Period,
         VoidInvoice(c, i, p)
  PROVE  Books'
<1> DEFINE row == VoidedInvoice(invoices[i])
<1>1. /\ invoices[i].status = "OPEN" /\ SaveInvoice(i, row) /\ ThroughGate(c, p)
      /\ UNCHANGED <<vouchers, batches, certificates, rebilled>>
      /\ UNCHANGED <<decision, year, cleared, buyVars, sweepVars>>
      /\ entries' = Reversing(entries, i, p)
  BY DEF VoidInvoice
<1>2. invoices[i] \in InvoiceRow
  BY <1>1, BooksAre, InvoiceRows DEF NoDoc
<1>3. /\ row \in InvoiceRow /\ row.status = "VOID" /\ row.settled = invoices[i].settled
      /\ row.total = invoices[i].total /\ row.order = invoices[i].order
      /\ row.match = invoices[i].match
  BY <1>2, InvoiceTypes
<1>. HIDE DEF row
<1>4. /\ PayTables' /\ Settlements' /\ invoices'[i] = row
      /\ \A k \in Invoice \ {i} : invoices'[k] = invoices[k]
      /\ \A o \in Order : Matched(invoices', o) <= Matched(invoices, o)
  BY <1>1, <1>3, InvoiceMoved
<1>5. PICK effect : effect = InvoiceEffect(invoices[i])
  OBVIOUS
<1>6. LedgerSays(i, effect) /\ i \in Source
  BY <1>5, SaysItsEffect, FiniteTables DEF Books, Documents
<1>7. /\ entries' \in EntryTable /\ LedgerSays(i, 0)'
      /\ \A s \in Source \ {i} : EntriesKept(s)
      /\ entries'[NoKey] = entries[NoKey]
  BY <1>1, <1>6, BooksAre, ReversingSays
<1>8. InvoiceSays(i)'
  <2>1. invoices'[i].status = "VOID" /\ InvoiceEffect(invoices'[i]) = 0
    BY <1>3, <1>4 DEF InvoiceEffect
  <2>. QED  BY <1>7, <2>1 DEF InvoiceSays, Says, Unsaid, LedgerSays
<1>9. Documents'
  BY <1>1, <1>4, <1>7, <1>8, InvoiceTold DEF Books
<1>10. Calls' /\ CapturesStay /\ rebilled \subseteq rebilled'
  BY <1>1, BooksAre, ThroughTheGate
<1>. QED  BY <1>1, <1>4, <1>7, <1>9, <1>10, Booked

\* Every step on invoices.
LEMMA InvoiceBooks ==
  ASSUME Inv, Books, InvoiceNext
  PROVE  Books'
<1>1. PICK i \in Invoice, p \in Period, c \in Caller :
        \/ \E qty \in Qty, wht \in BOOLEAN : CaptureUnmatched(i, p, qty, wht)
        \/ \E o \in Order, lines \in Billings, inTolerance \in BOOLEAN :
             BeginCaptureInvoice(c, o, lines, inTolerance)
        \/ \E wht \in BOOLEAN : CaptureInvoice(c, i, p, wht)
        \/ \E acceptVariance \in BOOLEAN : PostInvoice(c, i, acceptVariance)
        \/ VoidDraftInvoice(i) \/ VoidInvoice(c, i, p)
  BY DEF InvoiceNext
<1>. QED  BY <1>1, UnmatchedCaptured, CaptureBegun, InvoiceCaptured, InvoicePosted,
             DraftInvoiceVoided, InvoiceVoided

(***************************************************************************)
(* Steps on vouchers                                                       *)
(***************************************************************************)
\* Vouchers that are not posted come in, move to a batch or are voided.
LEMMA QuietVouchers ==
  ASSUME Inv, Books, vouchers' \in VoucherTable, batches' \in BatchTable,
         UNCHANGED <<ledgerVars, call, buyVars, sweepVars, invoices, certificates, rebilled>>,
         \A v \in Voucher :
           \/ vouchers'[v] = vouchers[v]
           \/ /\ vouchers[v].status # "POSTED" /\ vouchers'[v].status # "POSTED"
              /\ vouchers'[v].status \in Unsaid => vouchers[v].status \in Unsaid
  PROVE  Books'
<1>1. /\ entries' = entries /\ call' = call /\ invoices' = invoices
      /\ certificates' = certificates /\ rebilled' = rebilled
      /\ UNCHANGED <<decision, year, cleared, buyVars, sweepVars>>
  BY DEF ledgerVars
<1>2. Settlements' /\ PaidOnly
  BY <1>1, VouchersSaved DEF Books
<1>3. PayTables'
  BY <1>1 DEF Books, PayTables
<1>4. \A v \in Voucher : SameVoucher(vouchers[v], vouchers'[v])
  BY DEF SameVoucher, VoucherEffect
<1>5. Documents'
  BY <1>1, <1>2, <1>4, PaidSame, QuietStep DEF Books
<1>6. \A o \in Order : Matched(invoices', o) <= Matched(invoices, o)
  BY <1>1, <1>2, BooksAre, PaidMatches
<1>7. Calls' /\ CapturesStay /\ entries' \in EntryTable /\ rebilled \subseteq rebilled'
  BY <1>1, BooksAre, SameCalls
<1>. QED  BY <1>1, <1>2, <1>3, <1>5, <1>6, <1>7, Booked

\* CreatePaymentVoucher, and the one of a batch of due invoices.
LEMMA VoucherInserted ==
  ASSUME Inv, Books, NEW v \in Voucher, NEW row \in VoucherRow, row.status = "DRAFT",
         InsertVoucher(v, row), batches' \in BatchTable,
         UNCHANGED <<ledgerVars, call, buyVars, sweepVars, invoices, certificates, rebilled>>
  PROVE  Books'
<1>1. /\ vouchers[v].status = "NONE" /\ vouchers' \in VoucherTable /\ vouchers'[v] = row
      /\ \A w \in Voucher \ {v} : vouchers'[w] = vouchers[w]
  BY BooksAre DEF InsertVoucher, VoucherTable, NoDoc
<1>2. \A w \in Voucher :
        \/ vouchers'[w] = vouchers[w]
        \/ /\ vouchers[w].status # "POSTED" /\ vouchers'[w].status # "POSTED"
           /\ vouchers'[w].status \in Unsaid => vouchers[w].status \in Unsaid
  BY <1>1 DEF Unsaid
<1>. QED  BY <1>1, <1>2, QuietVouchers

\* Drafts are saved as drafts or void.
LEMMA DraftsSaved ==
  ASSUME Inv, Books, NEW vs \in SUBSET Voucher, NEW rows \in [vs -> VoucherRow],
         \A v \in vs : vouchers[v].status = "DRAFT" /\ rows[v].status \in {"DRAFT", "VOID"},
         SaveVouchers(rows), batches' \in BatchTable,
         UNCHANGED <<ledgerVars, call, buyVars, sweepVars, invoices, certificates, rebilled>>
  PROVE  Books'
<1>1. vouchers' = [v \in Voucher |-> IF v \in vs THEN rows[v] ELSE vouchers[v]]
  BY DEF SaveVouchers
<1>2. vouchers' \in VoucherTable
  BY <1>1, BooksAre DEF VoucherTable
<1>3. \A w \in Voucher :
        \/ vouchers'[w] = vouchers[w]
        \/ /\ vouchers[w].status # "POSTED" /\ vouchers'[w].status # "POSTED"
           /\ vouchers'[w].status \in Unsaid => vouchers[w].status \in Unsaid
  BY <1>1 DEF Unsaid
<1>. QED  BY <1>2, <1>3, QuietVouchers

\* The keys of a posting.
LEMMA PostedKeys ==
  ASSUME NEW vs \in SUBSET Voucher, NEW k \in Key
  PROVE  (k[2] = "posted" /\ k[1] \in vs) <=> \E v \in vs : k = Posted(v)
<1>1. "year-end" \notin vs
  BY LedgerAssumption, FiniteTables
<1>. QED  BY <1>1 DEF Key, Posted, Voided, YearEnd, NoKey

\* Drafts are posted, alone or with a batch.
LEMMA VouchersPosted ==
  ASSUME Inv, Books, NEW vs \in SUBSET Voucher,
         \A v \in vs : vouchers[v].status = "DRAFT",
         \A i \in Invoice : SumFunction([v \in vs |-> vouchers[v].alloc[i]]) > 0 =>
           CanSettle(invoices[i], SumFunction([v \in vs |-> vouchers[v].alloc[i]])),
         invoices' = Paid(vs),
         vouchers' = [v \in Voucher |-> IF v \in vs THEN PostedVoucher(vouchers[v])
                                        ELSE vouchers[v]],
         entries' = [k \in Key |-> entries'[k]],
         \A v \in vs : entries'[Posted(v)] =
           Posting(entries, Posted(v), PaymentLines(v), vouchers[v].date)[Posted(v)],
         \A k \in Key : (\A v \in vs : k # Posted(v)) => entries'[k] = entries[k],
         Certify(vs), batches' \in BatchTable, rebilled' = rebilled,
         Calls', CapturesStay, UNCHANGED <<decision, year, cleared, buyVars, sweepVars>>
  PROVE  Books'
<1>1. invoices' \in InvoiceTable /\ vouchers' \in VoucherTable /\ Settlements' /\ PaidOnly
  BY PostingSettles DEF Books
<1>2. certificates' \in CertificateTable
  BY BooksAre DEF Certify, InsertCertificates, CertificateTable
<1>3. PayTables'
  BY <1>1, <1>2 DEF Books, PayTables
<1>4. ASSUME NEW v \in vs
      PROVE  /\ entries'[Posted(v)] \in Entry \cup {NoEntry} /\ VoucherSays(v)'
  <2>1. vouchers[v].status = "DRAFT" /\ vouchers'[v] = PostedVoucher(vouchers[v])
    OBVIOUS
  <2>2. vouchers[v] \in VoucherRow
    BY <2>1, BooksAre, VoucherTableRows DEF NoDoc
  <2>3. PICK lines \in Lines :
          /\ lines = PaymentLines(v) /\ lines["CONTROL"] = SumFunction(vouchers[v].alloc)
          /\ lines["CONTROL"] # 0 \/ lines = Zero
    BY <2>2, PaymentLinesAre
  <2>4. PICK p \in Period : p = vouchers[v].date
    BY <2>2 DEF VoucherRow
  <2>5. /\ entries'[Posted(v)] = Posting(entries, Posted(v), lines, p)[Posted(v)]
        /\ v \in Source /\ Posted(v) \in Key
    BY <2>3, <2>4, FiniteTables, KeysApart
  <2>6. Fresh(v)
    BY <2>1 DEF Books, Documents, VoucherSays, Says, Unsaid
  <2>7. entries'[Posted(v)] \in Entry \cup {NoEntry}
    <3>1. Posting(entries, Posted(v), lines, p) \in EntryTable
      BY <2>5, BooksAre, PostingKeeps
    <3>. QED  BY <2>5, <3>1 DEF EntryTable
  <2>8. entries'[Voided(v)] = entries[Voided(v)] /\ entries'[NoKey] = entries[NoKey]
    BY <2>5, FiniteTables, KeysApart
  <2>9. LedgerSays(v, lines["CONTROL"])'
    BY <2>3, <2>5, <2>6, <2>8, BooksAre, PostedAt
  <2>10. /\ vouchers'[v].status = "POSTED" /\ VoucherEffect(vouchers'[v]) = lines["CONTROL"]
    BY <2>1, <2>2, <2>3, VoucherTypes DEF VoucherEffect
  <2>11. VoucherSays(v)'
    BY <2>9, <2>10 DEF VoucherSays, Says, Unsaid, LedgerSays
  <2>. QED  BY <2>7, <2>11
<1>5. entries' \in EntryTable
  <2>1. \A k \in Key : entries'[k] \in Entry \cup {NoEntry}
    BY <1>4, BooksAre DEF EntryTable
  <2>. QED  BY <2>1 DEF EntryTable
<1>6. (\A s \in Source \ vs : EntriesKept(s)) /\ entries'[NoKey] = entries[NoKey]
  BY FiniteTables, KeysApart DEF EntriesKept
<1>7. \A i \in Invoice : i \notin vs /\ SameInvoice(invoices[i], invoices'[i])
  BY <1>1, PaidSame, PayableAssumption
<1>8. \A v \in Voucher : IF v \in vs THEN VoucherSays(v)'
                         ELSE SameVoucher(vouchers[v], vouchers'[v])
  BY <1>4 DEF SameVoucher
<1>9. Documents'
  BY <1>6, <1>7, <1>8, OthersStay DEF Books
<1>10. \A o \in Order : Matched(invoices', o) <= Matched(invoices, o)
  BY <1>1, BooksAre, PaidMatches
<1>. QED  BY <1>1, <1>3, <1>5, <1>9, <1>10, Booked

\* CreatePaymentVoucher.
LEMMA VoucherBooked ==
  ASSUME Inv, Books, NEW v \in Voucher, NEW alloc \in Allocations, NEW p \in Period,
         NEW wht \in BOOLEAN, CreateVoucher(v, alloc, p, wht)
  PROVE  Books'
<1> DEFINE row == NewVoucher(alloc, p, wht)
<1>1. /\ InsertVoucher(v, row) /\ batches' = batches
      /\ UNCHANGED <<ledgerVars, call, buyVars, sweepVars, invoices, certificates, rebilled>>
  BY DEF CreateVoucher
<1>2. row \in VoucherRow /\ row.status = "DRAFT"
  BY VoucherTypes DEF NewVoucher
<1>3. batches' \in BatchTable
  BY <1>1, BooksAre
<1>. HIDE DEF row
<1>. QED  BY <1>1, <1>2, <1>3, VoucherInserted

\* CreatePaymentBatch of the open invoices that are due.
LEMMA BatchOfDueBooked ==
  ASSUME Inv, Books, NEW b \in Batch, NEW v \in Voucher, NEW due \in SUBSET Invoice,
         NEW p \in Period, NEW wht \in BOOLEAN, CreateBatchOfDue(b, v, due, p, wht)
  PROVE  Books'
<1> DEFINE alloc == [i \in Invoice |-> IF i \in due THEN OpenBalance(invoices[i]) ELSE 0]
           new == NewVoucher(alloc, p, wht)
           row == Attached(new, b)
<1>1. /\ InsertVoucher(v, row) /\ InsertBatch(b) /\ due \subseteq OpenInvoices
      /\ UNCHANGED <<ledgerVars, call, buyVars, sweepVars, invoices, certificates, rebilled>>
  BY DEF CreateBatchOfDue
<1>2. alloc \in Allocations
  <2>1. ASSUME NEW i \in due PROVE OpenBalance(invoices[i]) \in 0 .. MaxQty
    <3>1. i \in Invoice /\ IsOpen(invoices[i])
      BY <1>1 DEF OpenInvoices
    <3>2. invoices[i] \in InvoiceRow /\ invoices[i] # NoDoc
      BY <3>1, BooksAre, InvoiceRows DEF IsOpen, NoDoc
    <3>3. invoices[i].settled <= invoices[i].total
      BY <3>1, <3>2 DEF Books, Settlements, RowSound
    <3>4. /\ invoices[i].settled \in 0 .. MaxQty /\ invoices[i].total \in 1 .. MaxQty
          /\ MaxQty \in Nat
      BY <3>2, FiniteTables DEF InvoiceRow
    <3>. QED  BY <3>3, <3>4 DEF OpenBalance
  <2>2. MaxQty \in Nat
    BY FiniteTables
  <2>. QED  BY <2>1, <2>2 DEF Allocations
<1>. HIDE DEF alloc
<1>3. new \in VoucherRow /\ new.status = "DRAFT"
  BY <1>2, VoucherTypes DEF NewVoucher
<1>. HIDE DEF new
<1>4. row \in VoucherRow /\ row.status = "DRAFT"
  BY <1>3, VoucherTypes
<1>5. batches' \in BatchTable
  BY <1>1, BooksAre DEF InsertBatch, BatchTable
<1>. HIDE DEF row
<1>. QED  BY <1>1, <1>4, <1>5, VoucherInserted

\* VoidPaymentVoucher of a draft.
LEMMA DraftVoucherVoided ==
  ASSUME Inv, Books, NEW v \in Voucher, VoidDraftVoucher(v)
  PROVE  Books'
<1>1. /\ vouchers[v].status = "DRAFT" /\ batches' = batches
      /\ vouchers' = [vouchers EXCEPT ![v] = VoidedVoucher(vouchers[v])]
      /\ UNCHANGED <<ledgerVars, call, buyVars, sweepVars, invoices, certificates, rebilled>>
  BY DEF VoidDraftVoucher, SaveVoucher
<1>2. vouchers[v] \in VoucherRow
  BY <1>1, BooksAre, VoucherTableRows DEF NoDoc
<1>3. VoidedVoucher(vouchers[v]) \in VoucherRow /\ VoidedVoucher(vouchers[v]).status = "VOID"
  BY <1>2, VoucherTypes
<1>4. /\ vouchers' \in VoucherTable /\ vouchers'[v].status = "VOID"
      /\ \A w \in Voucher \ {v} : vouchers'[w] = vouchers[w]
  BY <1>1, <1>3, BooksAre DEF VoucherTable
<1>5. \A w \in Voucher :
        \/ vouchers'[w] = vouchers[w]
        \/ /\ vouchers[w].status # "POSTED" /\ vouchers'[w].status # "POSTED"
           /\ vouchers'[w].status \in Unsaid => vouchers[w].status \in Unsaid
  BY <1>1, <1>4 DEF Unsaid
<1>6. batches' \in BatchTable
  BY <1>1, BooksAre
<1>. QED  BY <1>1, <1>4, <1>5, <1>6, QuietVouchers

\* CreatePaymentBatch of drafts.
LEMMA BatchBooked ==
  ASSUME Inv, Books, NEW b \in Batch, NEW vs \in SUBSET Voucher, CreateBatch(b, vs)
  PROVE  Books'
<1> DEFINE rows == [v \in vs |-> Attached(vouchers[v], b)]
<1>1. /\ SaveVouchers(rows) /\ InsertBatch(b) /\ \A v \in vs : vouchers[v].status = "DRAFT"
      /\ UNCHANGED <<ledgerVars, call, buyVars, sweepVars, invoices, certificates, rebilled>>
  BY DEF CreateBatch, CanBatch
<1>2. ASSUME NEW v \in vs
      PROVE  Attached(vouchers[v], b) \in VoucherRow
             /\ Attached(vouchers[v], b).status = "DRAFT"
  <2>1. vouchers[v] \in VoucherRow
    BY <1>1, BooksAre, VoucherTableRows DEF NoDoc
  <2>. QED  BY <1>1, <2>1, VoucherTypes
<1>3. rows \in [vs -> VoucherRow] /\ \A v \in vs : rows[v].status \in {"DRAFT", "VOID"}
  BY <1>2
<1>4. batches' \in BatchTable
  BY <1>1, BooksAre DEF InsertBatch, BatchTable
<1>. HIDE DEF rows
<1>. QED  BY <1>1, <1>3, <1>4, DraftsSaved

\* VoidPaymentBatch, with the drafts that are in it.
LEMMA BatchVoidBooked ==
  ASSUME Inv, Books, NEW b \in Batch, VoidBatch(b)
  PROVE  Books'
<1> DEFINE vs == DraftsOf(b)
           rows == [v \in vs |-> VoidedVoucher(vouchers[v])]
<1>1. /\ SaveVouchers(rows) /\ CloseBatch(b, "VOID")
      /\ UNCHANGED <<ledgerVars, call, buyVars, sweepVars, invoices, certificates, rebilled>>
  BY DEF VoidBatch
<1>2. vs \in SUBSET Voucher /\ \A v \in vs : vouchers[v].status = "DRAFT"
  BY DEF DraftsOf
<1>. HIDE DEF vs
<1>3. ASSUME NEW v \in vs
      PROVE  VoidedVoucher(vouchers[v]) \in VoucherRow
             /\ VoidedVoucher(vouchers[v]).status = "VOID"
  <2>1. vouchers[v] \in VoucherRow
    BY <1>2, BooksAre, VoucherTableRows DEF NoDoc
  <2>. QED  BY <2>1, VoucherTypes
<1>4. rows \in [vs -> VoucherRow] /\ \A v \in vs : rows[v].status \in {"DRAFT", "VOID"}
  BY <1>3
<1>5. batches' \in BatchTable
  BY <1>1, BooksAre DEF CloseBatch, SaveBatch, BatchTable
<1>. HIDE DEF rows
<1>. QED  BY <1>1, <1>2, <1>4, <1>5, DraftsSaved

\* PostPaymentVoucher of one that is in no batch.
LEMMA VoucherPosted ==
  ASSUME Inv, Books, NEW v \in Voucher, NEW c \in Caller, PostVoucher(c, v)
  PROVE  Books'
<1> DEFINE vs == {v}
<1>1. /\ vouchers[v].status = "DRAFT" /\ invoices' = Paid(vs) /\ Certify(vs)
      /\ \A i \in Invoice : vouchers[v].alloc[i] > 0 =>
           CanSettle(invoices[i], vouchers[v].alloc[i])
      /\ vouchers' = [vouchers EXCEPT ![v] = PostedVoucher(vouchers[v])]
      /\ entries' = Posting(entries, Posted(v), PaymentLines(v), vouchers[v].date)
      /\ ThroughGate(c, vouchers[v].date) /\ batches' = batches /\ rebilled' = rebilled
      /\ UNCHANGED <<decision, year, cleared, buyVars, sweepVars>>
  BY DEF PostVoucher, CanPostAlone, SaveVoucher
<1>2. vs \in SUBSET Voucher /\ \A w \in vs : vouchers[w].status = "DRAFT"
  BY <1>1
<1>3. vouchers[v] \in VoucherRow
  BY <1>1, BooksAre, VoucherTableRows DEF NoDoc
<1>4. ASSUME NEW i \in Invoice
      PROVE  SumFunction([w \in vs |-> vouchers[w].alloc[i]]) = vouchers[v].alloc[i]
  <2> DEFINE g == [w \in vs |-> vouchers[w].alloc[i]]
  <2>1. vouchers[v].alloc[i] \in Int
    BY <1>3, FiniteTables DEF VoucherRow
  <2>2. g \in [{v} -> Int] /\ g[v] = vouchers[v].alloc[i]
    BY <2>1
  <2>. HIDE DEF g
  <2>3. SumFunction(g) = g[v]
    BY <2>2, SumOne
  <2>. QED  BY <2>2, <2>3 DEF g
<1>5. \A i \in Invoice : SumFunction([w \in vs |-> vouchers[w].alloc[i]]) > 0 =>
        CanSettle(invoices[i], SumFunction([w \in vs |-> vouchers[w].alloc[i]]))
  BY <1>1, <1>4
<1>6. vouchers' = [w \in Voucher |-> IF w \in vs THEN PostedVoucher(vouchers[w])
                                     ELSE vouchers[w]]
  <2>1. vouchers = [w \in Voucher |-> vouchers[w]]
    BY BooksAre DEF VoucherTable
  <2>. QED  BY <1>1, <2>1
<1>7. /\ entries' \in EntryTable
      /\ \A k \in Key \ {Posted(v)} : entries'[k] = entries[k]
  <2>1. PICK lines \in Lines : lines = PaymentLines(v)
    BY <1>3, PaymentLinesAre
  <2>2. PICK p \in Period : p = vouchers[v].date
    BY <1>3 DEF VoucherRow
  <2>3. entries' = Posting(entries, Posted(v), lines, p) /\ v \in Source
    BY <1>1, <2>1, <2>2, FiniteTables
  <2>. QED  BY <2>3, BooksAre, PostingKeeps
<1>8. /\ entries' = [k \in Key |-> entries'[k]]
      /\ \A w \in vs : entries'[Posted(w)] =
           Posting(entries, Posted(w), PaymentLines(w), vouchers[w].date)[Posted(w)]
      /\ \A k \in Key : (\A w \in vs : k # Posted(w)) => entries'[k] = entries[k]
  BY <1>1, <1>7 DEF EntryTable
<1>9. Calls' /\ CapturesStay /\ batches' \in BatchTable
  BY <1>1, BooksAre, ThroughTheGate
<1>. HIDE DEF vs
<1>. QED  BY <1>1, <1>2, <1>5, <1>6, <1>8, <1>9, VouchersPosted

\* PostPaymentBatch.
LEMMA BatchPostBooked ==
  ASSUME Inv, Books, NEW b \in Batch, NEW c \in Caller, NEW p \in Period, PostBatch(c, b, p)
  PROVE  Books'
<1> DEFINE vs == DraftsOf(b)
<1>1. /\ CloseBatch(b, "POSTED") /\ invoices' = Paid(vs) /\ Certify(vs)
      /\ \A i \in Invoice : SumFunction([v \in vs |-> vouchers[v].alloc[i]]) > 0 =>
           CanSettle(invoices[i], SumFunction([v \in vs |-> vouchers[v].alloc[i]]))
      /\ SaveVouchers([v \in vs |-> PostedVoucher(vouchers[v])])
      /\ entries' = [k \in Key |->
           IF k[2] = "posted" /\ k[1] \in vs
           THEN Posting(entries, k, PaymentLines(k[1]), vouchers[k[1]].date)[k]
           ELSE entries[k]]
      /\ IF vs = {} THEN UNCHANGED call ELSE ThroughGate(c, p)
      /\ rebilled' = rebilled /\ UNCHANGED <<decision, year, cleared, buyVars, sweepVars>>
  BY DEF PostBatch
<1>2. vs \in SUBSET Voucher /\ \A v \in vs : vouchers[v].status = "DRAFT"
  BY DEF DraftsOf
<1>. HIDE DEF vs
<1>3. vouchers' = [v \in Voucher |-> IF v \in vs THEN PostedVoucher(vouchers[v])
                                     ELSE vouchers[v]]
  BY <1>1 DEF SaveVouchers
<1>4. entries' = [k \in Key |-> entries'[k]]
  BY <1>1
<1>5. ASSUME NEW v \in vs
      PROVE  entries'[Posted(v)] =
               Posting(entries, Posted(v), PaymentLines(v), vouchers[v].date)[Posted(v)]
  <2>1. Posted(v) \in Key
    BY <1>2, FiniteTables, KeysApart
  <2>2. Posted(v)[1] = v /\ Posted(v)[2] = "posted"
    BY DEF Posted
  <2>. QED  BY <1>1, <2>1, <2>2
<1>6. ASSUME NEW k \in Key, \A v \in vs : k # Posted(v)
      PROVE  entries'[k] = entries[k]
  <2>1. ~ (k[2] = "posted" /\ k[1] \in vs)
    BY <1>2, <1>6, PostedKeys
  <2>. QED  BY <1>1, <2>1
<1>7. batches' \in BatchTable
  BY <1>1, BooksAre DEF CloseBatch, SaveBatch, BatchTable
<1>8. Calls' /\ CapturesStay
  BY <1>1, BooksAre, SameCalls, ThroughTheGate
<1>. QED  BY <1>1, <1>2, <1>3, <1>4, <1>5, <1>6, <1>7, <1>8, VouchersPosted

\* VoidPaymentVoucher of a posted one.
LEMMA VoucherVoided ==
  ASSUME Inv, Books, NEW v \in Voucher, NEW c \in Caller, NEW p \in Period,
         VoidVoucher(c, v, p)
  PROVE  Books'
<1>1. /\ vouchers[v].status = "POSTED" /\ invoices' = Unpaid(v)
      /\ \A i \in Invoice : vouchers[v].alloc[i] > 0 =>
           CanUnsettle(invoices[i], vouchers[v].alloc[i])
      /\ SaveVoucher(v, VoidedVoucher(vouchers[v])) /\ entries' = Reversing(entries, v, p)
      /\ MarkCertificateVoid(v) /\ ThroughGate(c, p)
      /\ batches' = batches /\ rebilled' = rebilled
      /\ UNCHANGED <<decision, year, cleared, buyVars, sweepVars>>
  BY DEF VoidVoucher
<1>2. invoices' \in InvoiceTable /\ vouchers' \in VoucherTable /\ Settlements' /\ PaidOnly
  BY <1>1, VoidingUnsettles DEF Books
<1>3. certificates' \in CertificateTable
  BY <1>1, BooksAre DEF MarkCertificateVoid, CertificateTable
<1>4. PayTables'
  BY <1>1, <1>2, <1>3, BooksAre DEF PayTables
<1>5. PICK effect : effect = VoucherEffect(vouchers[v])
  OBVIOUS
<1>6. LedgerSays(v, effect) /\ v \in Source
  BY <1>5, SaysItsEffect, FiniteTables DEF Books, Documents
<1>7. /\ entries' \in EntryTable /\ LedgerSays(v, 0)'
      /\ \A s \in Source \ {v} : EntriesKept(s)
      /\ entries'[NoKey] = entries[NoKey]
  BY <1>1, <1>6, BooksAre, ReversingSays
<1>8. vouchers[v] \in VoucherRow
  BY <1>1, BooksAre, VoucherTableRows DEF NoDoc
<1>9. /\ vouchers'[v].status = "VOID"
      /\ \A w \in Voucher \ {v} : vouchers'[w] = vouchers[w]
  BY <1>1, <1>8, BooksAre, VoucherTypes DEF SaveVoucher, VoucherTable
<1>10. VoucherSays(v)'
  <2>1. VoucherEffect(vouchers'[v]) = 0
    BY <1>9 DEF VoucherEffect
  <2>. QED  BY <1>7, <1>9, <2>1 DEF VoucherSays, Says, Unsaid, LedgerSays
<1>11. Documents'
  <2> DEFINE S == {v}
  <2>1. \A w \in Voucher : IF w \in S THEN VoucherSays(w)'
                           ELSE SameVoucher(vouchers[w], vouchers'[w])
    BY <1>9, <1>10 DEF SameVoucher
  <2>2. \A i \in Invoice : i \notin S /\ SameInvoice(invoices[i], invoices'[i])
    BY <1>2, PaidSame, PayableAssumption
  <2>3. \A s \in Source \ S : EntriesKept(s)
    BY <1>7
  <2>. HIDE DEF S
  <2>. QED  BY <1>7, <2>1, <2>2, <2>3, OthersStay DEF Books
<1>12. \A o \in Order : Matched(invoices', o) <= Matched(invoices, o)
  BY <1>2, BooksAre, PaidMatches
<1>13. Calls' /\ CapturesStay /\ rebilled \subseteq rebilled'
  BY <1>1, BooksAre, ThroughTheGate
<1>. QED  BY <1>1, <1>2, <1>4, <1>7, <1>11, <1>12, <1>13, Booked

\* Every step on vouchers and batches.
LEMMA PaymentBooks ==
  ASSUME Inv, Books, PaymentNext
  PROVE  Books'
<1>1. CASE \E v \in Voucher, p \in Period :
             \/ \E alloc \in Allocations, wht \in BOOLEAN :
                  CreateVoucher(v, alloc, p, wht)
             \/ VoidDraftVoucher(v)
             \/ \E c \in Caller : PostVoucher(c, v) \/ VoidVoucher(c, v, p)
             \/ \E b \in Batch, due \in SUBSET Invoice, wht \in BOOLEAN :
                  CreateBatchOfDue(b, v, due, p, wht)
  BY <1>1, VoucherBooked, DraftVoucherVoided, VoucherPosted, VoucherVoided, BatchOfDueBooked
<1>2. CASE \E b \in Batch : \/ \E vs \in SUBSET Voucher : CreateBatch(b, vs)
                            \/ \E c \in Caller, p \in Period : PostBatch(c, b, p)
                            \/ VoidBatch(b)
  BY <1>2, BatchBooked, BatchPostBooked, BatchVoidBooked
<1>. QED  BY <1>1, <1>2 DEF PaymentNext

\* A sum over nothing that is posted.
LEMMA NothingPaid ==
  ASSUME NEW table, NEW i, PostedOf(table) = {}
  PROVE  PaidOn(table, i) = 0
<1> DEFINE g == [v \in PostedOf(table) |-> table[v].alloc[i]]
<1>1. g \in [{} -> Int]
  OBVIOUS
<1>. HIDE DEF g
<1>2. SumFunction(g) = 0
  BY <1>1, SumOfNothing
<1>. QED  BY <1>2 DEF g, PaidOn, PaidBy

\* An empty house.
LEMMA InitBooks == Init => Books
<1> SUFFICES ASSUME Init PROVE Books
  OBVIOUS
<1>1. /\ entries = [k \in Key |-> NoEntry] /\ decision = "NONE" /\ year = NewYear
      /\ cleared = FALSE /\ call = [c \in Caller |-> NoCall]
  BY DEF Init, LedgerInit
<1>2. /\ orders = [o \in Order |-> NoDoc]
      /\ goodsReceipts = [g \in GoodsReceipt |-> NoDoc]
      /\ rules = [r \in Rule |-> [active |-> TRUE, quiet |-> FALSE]]
  BY DEF Init, BuyInit
<1>3. /\ invoices = [i \in Invoice |-> NoDoc] /\ vouchers = [v \in Voucher |-> NoDoc]
      /\ batches = [b \in Batch |-> NoBatch] /\ rebilled = {}
      /\ certificates = [v \in Voucher |-> "NONE"]
  BY DEF Init
<1>4. PayTables
  BY <1>3 DEF PayTables, InvoiceTable, VoucherTable, BatchTable, CertificateTable
<1>5. LedgerSafe
  <2>1. LedgerTypeOK
    BY <1>1 DEF LedgerTypeOK, EntryTable, Year, NewYear, PeriodTable
  <2>2. Calls
    <3>1. Typed(NoCall)
      BY DEF Typed, NoCall
    <3>. QED  BY <1>1, <3>1 DEF Calls
  <2>. QED  BY <2>1, <2>2 DEF LedgerSafe
<1>6. RuleTypes
  BY <1>2 DEF RuleTypes
<1>7. Settlements
  <2>1. PostedOf(vouchers) = {}
    BY <1>3 DEF PostedOf, NoDoc
  <2>. QED  BY <1>3, <2>1, NothingPaid DEF Settlements, SettledSoFar
<1>8. /\ Receiving
      /\ \A o \in Order : ReceivedOf(goodsReceipts, o) \in Nat
  <2>1. ASSUME NEW o \in Order PROVE ReceivedOf(goodsReceipts, o) = 0
    <3> DEFINE g == [e \in ReceiptsOf(goodsReceipts, o) |-> goodsReceipts[e].qty]
    <3>1. ReceiptsOf(goodsReceipts, o) = {}
      BY <1>2 DEF ReceiptsOf, NoDoc
    <3>2. g \in [{} -> Int]
      BY <3>1
    <3>. HIDE DEF g
    <3>3. SumFunction(g) = 0
      BY <3>2, SumOfNothing
    <3>. QED  BY <3>3 DEF g, ReceivedOf
  <2>. QED  BY <1>2, <2>1 DEF Receiving, ReceivedSoFar
<1>9. Matching
  <2>1. ASSUME NEW o \in Order PROVE Matched(invoices, o) = 0
    <3> DEFINE g == [i \in MatchedOf(invoices, o) |-> invoices[i].total]
    <3>1. MatchedOf(invoices, o) = {}
      BY <1>3 DEF MatchedOf, NoDoc
    <3>2. g \in [{} -> Int]
      BY <3>1
    <3>. HIDE DEF g
    <3>3. SumFunction(g) = 0
      BY <3>2, SumOfNothing
    <3>. QED  BY <3>3 DEF g, Matched
  <2>2. \A c \in Caller : call[c].op # "capture"
    BY <1>1 DEF NoCall
  <2>. QED  BY <1>8, <2>1, <2>2 DEF Matching
<1>10. Documents
  <2>1. /\ \A i \in Invoice : invoices[i].status \in Unsaid
        /\ \A v \in Voucher : vouchers[v].status \in Unsaid
    BY <1>3 DEF NoDoc, Unsaid
  <2>2. \A s \in Source : Fresh(s)
    BY <1>1, KeysApart DEF Fresh, Empty
  <2>. QED  BY <2>1, <2>2, FiniteTables DEF Documents, InvoiceSays, VoucherSays, Says
<1>. QED  BY <1>4, <1>5, <1>6, <1>7, <1>8, <1>9, <1>10 DEF Books

\* Every step keeps the books.
LEMMA NextBooks == Inv /\ Books /\ [Next]_vars => Inv' /\ Books'
<1> SUFFICES ASSUME Inv, Books, [Next]_vars PROVE Inv' /\ Books'
  OBVIOUS
<1>1. Inv'
  BY NextInv
<1>2. CASE LedgerNext /\ UNCHANGED <<buyVars, sweepVars, payVars>>
  BY <1>1, <1>2, LedgerBooks
<1>3. CASE BuyNext /\ UNCHANGED <<ledgerVars, call, payVars>>
  BY <1>1, <1>3, BuyBooks
<1>4. CASE InvoiceNext
  BY <1>1, <1>4, InvoiceBooks
<1>5. CASE PaymentNext
  BY <1>1, <1>5, PaymentBooks
<1>6. CASE UNCHANGED vars
  BY <1>1, <1>6, StillBooks
<1>. QED  BY <1>2, <1>3, <1>4, <1>5, <1>6 DEF Next

\* Both invariants hold throughout.
LEMMA BooksAlways == Spec => [](Inv /\ Books)
<1>1. Init => Inv /\ Books
  BY InitInv, InitBooks
<1>. QED  BY <1>1, NextBooks, PTL DEF Spec

(***************************************************************************)
(* Theorems                                                                *)
(***************************************************************************)
\* Every table of purchasing, of the ledger and of payables holds rows of its
\* kind, whatever the calls interleave, and a capture under way is of an order
\* that exists (vendor-invoice.use-cases.ts).
THEOREM TypeCorrect == Spec => []TypeOK
<1>1. Inv /\ Books => TypeOK
  <2> SUFFICES ASSUME Inv, Books PROVE TypeOK
    OBVIOUS
  <2>1. BuyTypeOK
    BY DEF Inv, BuyInv, BuyShape, SweepInv, RuleShape, Books, RuleTypes, BuyTypeOK
  <2>. QED  BY <2>1 DEF Books, LedgerSafe, PayTables, Matching, TypeOK
<1>. QED  BY <1>1, BooksAlways, PTL

\* What is received of an order is what its posted receipts brought, never more
\* than was ordered, and what matched invoices bill of it never more than that,
\* unless one reading of the order is billed twice, by two captures at once or by
\* an invoice that names its line twice; a document is ordered, and a
\* requisition converted, only on an approval of what it says now; and a rule
\* ordered twice in its cooldown was in the hands of two sweeps or of one that
\* stopped: for any documents, quantities, rules and sweeps
\* (vendor-invoice.use-cases.ts; purchase-order.use-cases.ts; reorder.use-cases.ts).
THEOREM PurchasesSafe == Spec => []PurchasesHoldTogether
<1>1. Inv => OrderedIsApproved /\ ReorderedOnce
  <2> SUFFICES ASSUME Inv PROVE OrderedIsApproved /\ ReorderedOnce
    OBVIOUS
  <2>1. ASSUME NEW q \in Requisition
        PROVE  {o \in Order : orders[o] # NoDoc /\ orders[o].requisition = q} =
                 IF requisitions[q].status = "CONVERTED" THEN {requisitions[q].order} ELSE {}
    BY DEF Inv, BuyInv, Linked
  <2>2. ReorderedOnce
    <3>1. reordered.twice \subseteq Rule
      BY DEF Inv, SweepInv, RuleShape
    <3>. QED  BY <3>1 DEF Inv, SweepInv, RuleSafe, ReorderedOnce
  <2>. QED  BY <2>1, <2>2 DEF Inv, BuyInv, RequisitionSafe, OrderSafe, OrderedIsApproved
<1>2. Inv /\ Books => MatchedAtMostReceived
  <2> SUFFICES ASSUME Inv, Books, NEW o \in Order
               PROVE  /\ ReceivedOf(goodsReceipts, o) > 0 =>
                           ReceivedOf(goodsReceipts, o) <= orders[o].qty
                      /\ o \in rebilled \/
                           Matched(invoices, o) <= ReceivedOf(goodsReceipts, o)
    BY DEF MatchedAtMostReceived, ReceivedQty, MatchedQty, ReceivedOf, ReceiptsOf, Matched,
           MatchedOf
  <2>1. ASSUME ReceivedOf(goodsReceipts, o) > 0
        PROVE  ReceivedOf(goodsReceipts, o) <= orders[o].qty
    <3>1. ReceivedSoFar(orders[o]) = ReceivedOf(goodsReceipts, o)
      BY DEF Books, Receiving
    <3>2. orders[o] # NoDoc /\ orders[o].received = ReceivedOf(goodsReceipts, o)
      BY <2>1, <3>1 DEF ReceivedSoFar
    <3>. QED  BY <3>2 DEF Books, Receiving, OrderSound
  <2>. QED  BY <2>1 DEF Books, Matching
<1>. QED  BY <1>1, <1>2, BooksAlways, PTL DEF PurchasesHoldTogether

\* What is settled of an invoice is the sum of what its posted vouchers allocate to
\* it, never more than its total, and a voucher and the batch that lists it agree:
\* for any invoices, vouchers and batches (payment.use-cases.ts; vendor-invoice.ts).
THEOREM PaymentsSafe == Spec => []PaymentsHoldTogether
<1>1. Inv => BatchAgreesWithItsVouchers
  <2> SUFFICES ASSUME Inv, NEW v \in Voucher
               PROVE  vouchers[v] # NoDoc /\ vouchers[v].batch # NoBatch =>
                        vouchers[v].status \in
                          CASE batches[vouchers[v].batch] = "DRAFT" -> {"DRAFT", "VOID"}
                            [] batches[vouchers[v].batch] = "POSTED" -> {"POSTED", "VOID"}
                            [] batches[vouchers[v].batch] = "VOID" -> {"VOID"}
    BY DEF BatchAgreesWithItsVouchers
  <2>1. InItsBatch(v)
    BY DEF Inv, PayInv
  <2>. QED  BY <2>1 DEF InItsBatch
<1>2. Books => SettledIsItsVouchers
  <2> SUFFICES ASSUME Books, NEW i \in Invoice, invoices[i] # NoDoc
               PROVE  /\ invoices[i].settled <= invoices[i].total
                      /\ invoices[i].settled = PaidOn(vouchers, i)
                      /\ invoices[i].settled > 0 =>
                           invoices[i].status \in {"PARTIALLY_PAID", "PAID"}
    BY DEF SettledIsItsVouchers, PaidOn, PaidBy, PostedOf
  <2>. QED  BY DEF Books, Settlements, RowSound, SettledSoFar
<1>. QED  BY <1>1, <1>2, BooksAlways, PTL DEF PaymentsHoldTogether

\* The ledger and the certificates say of every invoice and voucher what it says of
\* itself, for any documents, amounts, callers and periods, unless an accountant
\* reversed its entry by hand (vendor-invoice.use-cases.ts; payment.use-cases.ts).
THEOREM DocumentsSafe == Spec => []EntriesMatchDocuments
<1>1. Inv /\ Books => EntriesMatchDocuments
  <2> SUFFICES ASSUME Inv, Books PROVE EntriesMatchDocuments
    OBVIOUS
  <2>1. entries \in EntryTable /\ PayTables /\ Documents /\ \A v \in Voucher : Certified(v)
    BY BooksAre DEF Inv, PayInv, Books
  <2>. QED  BY <2>1, DocumentsFollow
<1>. QED  BY <1>1, BooksAlways, PTL
=============================================================================
