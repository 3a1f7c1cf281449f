---------------------------- MODULE Procurement ----------------------------
(***************************************************************************)
(* Purchasing (src/src/modules/purchase/procurement): requisitions, the    *)
(* nightly reorder sweep that raises them, purchase orders with their      *)
(* approval, and goods receipts.                                           *)
(*                                                                         *)
(* One item at one price: a document is a quantity, and its total is that  *)
(* quantity.  Documents are saved under the version they were loaded with, *)
(* so a handler is one step.  A goods receipt is created from an order it  *)
(* only reads; posting checks the order again, and a receipt drafted from  *)
(* an old reading is one drafted before the order changed.  The sweep runs *)
(* outside any transaction: its steps are actions of their own.            *)
(***************************************************************************)
EXTENDS Integers, FiniteSets, FiniteSetsExt

CONSTANTS Requisition, Order, GoodsReceipt,
          Rule,        \* reorder rules
          Groups,      \* the rules of one company and preferred vendor
          Sweeper,     \* instances of the application that run the cron
          MaxQty       \* bound on the quantity of a document

Qty == 1 .. MaxQty
Document == Requisition \cup Order

ASSUME ProcurementAssumption ==
  /\ MaxQty \in Nat \ {0}
  /\ Requisition \cap Order = {}
  /\ UNION Groups = Rule
  /\ IsFiniteSet(GoodsReceipt)

VARIABLES
  requisitions,   \* pur_requisition
  orders,         \* pur_purchase_order with its one line
  goodsReceipts,  \* pur_goods_receipt
  requests,       \* the latest approval request of a document
  backing,        \* history: the request a document was approved on
  rules,          \* pur_reorder_rule
  sweeps,         \* what a sweep under way still has to do
  reordered       \* history: rules raised in their cooldown, and excuses

buyVars == <<requisitions, orders, goodsReceipts, requests, backing>>
sweepVars == <<rules, sweeps, reordered>>

NoDoc == [status |-> "NONE"]
NoRequest == [status |-> "NONE"]
ASSUME NoDocAssumption == NoDoc \notin Requisition

RequisitionRow == [status : {"DRAFT", "PENDING_APPROVAL", "APPROVED",
                             "REJECTED", "CANCELLED", "CONVERTED"},
                   qty : Qty, order : Order \cup {NoDoc}]
OrderRow == [status : {"DRAFT", "PENDING_APPROVAL", "ISSUED",
                       "PARTIALLY_RECEIVED", "RECEIVED", "REJECTED",
                       "CANCELLED"},
             qty : Qty, received : 0 .. MaxQty,
             requisition : Requisition \cup {NoDoc}]
GoodsReceiptRow == [status : {"DRAFT", "POSTED", "CANCELLED"},
                    order : Order, qty : Qty]
\* own: submitted by the document itself, not through the approval API.
Request == [status : {"PENDING", "APPROVED", "REJECTED", "CANCELLED"},
            amount : Qty, own : BOOLEAN]

RequisitionTable == [Requisition -> RequisitionRow \cup {NoDoc}]
OrderTable == [Order -> OrderRow \cup {NoDoc}]
GoodsReceiptTable == [GoodsReceipt -> GoodsReceiptRow \cup {NoDoc}]

BuyInit ==
  /\ requisitions = [q \in Requisition |-> NoDoc]
  /\ orders = [o \in Order |-> NoDoc]
  /\ goodsReceipts = [g \in GoodsReceipt |-> NoDoc]
  /\ requests = [d \in Document |-> NoRequest]
  /\ backing = [d \in Document |-> NoRequest]
  /\ rules = [r \in Rule |-> [active |-> TRUE, quiet |-> FALSE]]
  /\ sweeps = [s \in Sweeper |-> [toRaise |-> {}, toMark |-> {}]]
  /\ reordered = [inFlight |-> {}, twice |-> {}, excused |-> {}]

(***************************************************************************)
(* Rows.  A create finds no row; a save finds the version it read.         *)
(***************************************************************************)
InsertRequisition(q, row) ==
  requisitions[q] = NoDoc /\ requisitions' = [requisitions EXCEPT ![q] = row]
SaveRequisition(q, row) == requisitions' = [requisitions EXCEPT ![q] = row]
InsertOrder(o, row) == orders[o] = NoDoc /\ orders' = [orders EXCEPT ![o] = row]
SaveOrder(o, row) == orders' = [orders EXCEPT ![o] = row]
InsertGoodsReceipt(g, row) ==
  goodsReceipts[g] = NoDoc /\ goodsReceipts' = [goodsReceipts EXCEPT ![g] = row]
SaveGoodsReceipt(g, row) == goodsReceipts' = [goodsReceipts EXCEPT ![g] = row]

(***************************************************************************)
(* Approval of a document                                                  *)
(***************************************************************************)
RequisitionMoves ==
  [DRAFT |-> {"PENDING_APPROVAL", "APPROVED", "CANCELLED"},
   PENDING_APPROVAL |-> {"APPROVED", "REJECTED", "DRAFT", "CANCELLED"},
   APPROVED |-> {"CONVERTED", "CANCELLED"}, REJECTED |-> {"DRAFT"},
   NONE |-> {}, CANCELLED |-> {}, CONVERTED |-> {}]
OrderMoves ==
  [DRAFT |-> {"PENDING_APPROVAL", "ISSUED", "CANCELLED"},
   PENDING_APPROVAL |-> {"ISSUED", "REJECTED", "DRAFT", "CANCELLED"},
   ISSUED |-> {"PARTIALLY_RECEIVED", "RECEIVED", "CANCELLED"},
   PARTIALLY_RECEIVED |-> {"RECEIVED"}, REJECTED |-> {"DRAFT"},
   NONE |-> {}, RECEIVED |-> {}, CANCELLED |-> {}]

\* submit of the gateway: one pending request per document; approved at
\* once when no step of the policy applies.
Ask(d, amount, own, outcome) ==
  /\ requests[d].status # "PENDING"
  /\ requests' = [requests EXCEPT ![d] =
       [status |-> outcome, amount |-> amount, own |-> own]]

\* applyApprovalOutcome: where an answer takes a pending document.
Answered(answer, approved) ==
  CASE answer = "APPROVED" -> {approved}
    [] answer = "REJECTED" -> {"REJECTED"}
    [] answer \in {"CANCELLED", "NONE"} -> {"DRAFT"}
    [] answer = "PENDING" -> {}

\* The approval API takes any amount for any document.
AskDirectly(d, amount, outcome) ==
  /\ Ask(d, amount, FALSE, outcome)
  /\ UNCHANGED <<requisitions, orders, goodsReceipts, backing, sweepVars>>

\* The approvers decide, or the requester withdraws the request.
Settle(d, verdict) ==
  /\ requests[d].status = "PENDING"
  /\ requests' = [requests EXCEPT ![d].status = verdict]
  /\ UNCHANGED <<requisitions, orders, goodsReceipts, backing, sweepVars>>

Back(d, approved) ==
  backing' = IF approved THEN [backing EXCEPT ![d] = requests'[d]] ELSE backing

(***************************************************************************)
(* Requisitions                                                            *)
(***************************************************************************)
NewRequisition(qty) == [status |-> "DRAFT", qty |-> qty, order |-> NoDoc]
EditedRequisition(row, qty) == [row EXCEPT !.qty = qty]
SubmittedRequisition(outcome) ==
  IF outcome = "APPROVED" THEN "APPROVED" ELSE "PENDING_APPROVAL"
RequisitionAnswered(q) == Answered(requests[q].status, "APPROVED")

CreateRequisition(q, qty) ==
  /\ InsertRequisition(q, NewRequisition(qty))
  /\ UNCHANGED <<orders, goodsReceipts, requests, backing>>

UpdateRequisition(q, qty) ==
  /\ requisitions[q].status = "DRAFT"
  /\ SaveRequisition(q, EditedRequisition(requisitions[q], qty))
  /\ UNCHANGED <<orders, goodsReceipts, requests, backing, sweepVars>>

MoveRequisition(q, to) ==
  /\ to \in RequisitionMoves[requisitions[q].status]
  /\ SaveRequisition(q, [requisitions[q] EXCEPT !.status = to])
  /\ UNCHANGED <<orders, goodsReceipts, sweepVars>>

SubmitRequisition(q, outcome) ==
  /\ MoveRequisition(q, SubmittedRequisition(outcome))
  /\ Ask(q, requisitions[q].qty, TRUE, outcome)
  /\ Back(q, outcome = "APPROVED")

ConfirmRequisition(q) ==
  /\ requisitions[q].status = "PENDING_APPROVAL"
  /\ \E to \in RequisitionAnswered(q) :
       MoveRequisition(q, to) /\ UNCHANGED requests /\ Back(q, to = "APPROVED")

ReopenRequisition(q) ==
  MoveRequisition(q, "DRAFT") /\ UNCHANGED <<requests, backing>>

CancelRequisition(q) ==
  MoveRequisition(q, "CANCELLED") /\ UNCHANGED <<requests, backing>>

IsConvertible(q) ==
  requisitions[q].status = "APPROVED" /\ requisitions[q].order = NoDoc
Converted(row, o) == [row EXCEPT !.status = "CONVERTED", !.order = o]

(***************************************************************************)
(* Purchase orders                                                         *)
(***************************************************************************)
NewOrder(qty, q) ==
  [status |-> "DRAFT", qty |-> qty, received |-> 0, requisition |-> q]

EditedOrder(row, qty) == [row EXCEPT !.qty = qty]
SubmittedOrder(outcome) == IF outcome = "APPROVED" THEN "ISSUED" ELSE "PENDING_APPROVAL"
OrderAnswered(o) == Answered(requests[o].status, "ISSUED")

CreateOrder(o, qty) ==
  /\ InsertOrder(o, NewOrder(qty, NoDoc))
  /\ UNCHANGED <<requisitions, goodsReceipts, requests, backing, sweepVars>>

\* The buyer may override the lines; the requisition is saved with it.
ConvertRequisition(o, q, qty) ==
  /\ IsConvertible(q)
  /\ InsertOrder(o, NewOrder(qty, q))
  /\ SaveRequisition(q, Converted(requisitions[q], o))
  /\ UNCHANGED <<goodsReceipts, requests, backing, sweepVars>>

UpdateOrder(o, qty) ==
  /\ orders[o].status = "DRAFT"
  /\ SaveOrder(o, EditedOrder(orders[o], qty))
  /\ UNCHANGED <<requisitions, goodsReceipts, requests, backing, sweepVars>>

MoveOrder(o, to) ==
  /\ to \in OrderMoves[orders[o].status]
  /\ SaveOrder(o, [orders[o] EXCEPT !.status = to])
  /\ UNCHANGED <<requisitions, goodsReceipts, sweepVars>>

SubmitOrder(o, outcome) ==
  /\ MoveOrder(o, SubmittedOrder(outcome))
  /\ Ask(o, orders[o].qty, TRUE, outcome)
  /\ Back(o, outcome = "APPROVED")

ConfirmOrder(o) ==
  /\ orders[o].status = "PENDING_APPROVAL"
  /\ \E to \in OrderAnswered(o) :
       MoveOrder(o, to) /\ UNCHANGED requests /\ Back(o, to = "ISSUED")

ReopenOrder(o) == MoveOrder(o, "DRAFT") /\ UNCHANGED <<requests, backing>>

CanCancelOrder(o) == orders[o] # NoDoc /\ orders[o].received = 0
CancelOrder(o) ==
  /\ CanCancelOrder(o)
  /\ MoveOrder(o, "CANCELLED")
  /\ UNCHANGED <<requests, backing>>

(***************************************************************************)
(* Goods receipts                                                          *)
(***************************************************************************)
CanReceive(o, qty) ==
  /\ orders[o].status \in {"ISSUED", "PARTIALLY_RECEIVED"}
  /\ qty \in 1 .. orders[o].qty - orders[o].received

Received(row, qty) ==
  [row EXCEPT !.received = @ + qty,
              !.status = IF row.received + qty >= row.qty THEN "RECEIVED"
                         ELSE "PARTIALLY_RECEIVED"]

NewGoodsReceipt(o, qty) == [status |-> "DRAFT", order |-> o, qty |-> qty]
MoveGoodsReceipt(g, to) ==
  /\ goodsReceipts[g].status = "DRAFT"
  /\ SaveGoodsReceipt(g, [goodsReceipts[g] EXCEPT !.status = to])

CreateGoodsReceipt(g, o, qty) ==
  /\ CanReceive(o, qty)
  /\ InsertGoodsReceipt(g, NewGoodsReceipt(o, qty))
  /\ UNCHANGED <<requisitions, orders, requests, backing, sweepVars>>

\* The receipt, the order's line and the stock, in one transaction.
PostGoodsReceipt(g) ==
  LET o == goodsReceipts[g].order IN
  /\ MoveGoodsReceipt(g, "POSTED")
  /\ CanReceive(o, goodsReceipts[g].qty)
  /\ SaveOrder(o, Received(orders[o], goodsReceipts[g].qty))
  /\ UNCHANGED <<requisitions, requests, backing, sweepVars>>

CancelGoodsReceipt(g) ==
  /\ MoveGoodsReceipt(g, "CANCELLED")
  /\ UNCHANGED <<requisitions, orders, requests, backing, sweepVars>>

(***************************************************************************)
(* The reorder sweep                                                       *)
(***************************************************************************)
Idle == [toRaise |-> {}, toMark |-> {}]
InHand(s) == sweeps[s].toRaise \cup sweeps[s].toMark

SaveRule(r, row) == rules' = [rules EXCEPT ![r] = row]

\* An upsert never touches lastTriggeredAt.
UpsertRule(r) ==
  /\ SaveRule(r, [rules[r] EXCEPT !.active = ~ @])
  /\ UNCHANGED <<buyVars, sweeps, reordered>>

MayFire(r) == rules[r].active /\ ~ rules[r].quiet

\* The rules that fire: active, out of their cooldown and short of stock.
BeginSweep(s, fired) ==
  /\ sweeps[s] = Idle /\ fired # {}
  /\ \A r \in fired : MayFire(r)
  /\ sweeps' = [sweeps EXCEPT ![s].toRaise = fired]
  /\ reordered' = [reordered EXCEPT !.excused =
       @ \cup {r \in fired : \E other \in Sweeper : r \in InHand(other)}]
  /\ UNCHANGED <<buyVars, rules>>

\* One requisition for the rules of a group, in its own transaction.
RaiseRequisition(s, rulesOfOne, q, qty) ==
  LET group == sweeps[s].toRaise \cap rulesOfOne IN
  /\ sweeps[s].toMark = {} /\ group # {}
  /\ CreateRequisition(q, qty)
  /\ sweeps' = [sweeps EXCEPT ![s] = [toRaise |-> @.toRaise \ group,
                                      toMark |-> group]]
  /\ reordered' = [reordered EXCEPT
       !.inFlight = @ \cup group,
       !.twice = @ \cup (group \cap reordered.inFlight)]
  /\ UNCHANGED rules

MarkTriggered(s, r) ==
  /\ r \in sweeps[s].toMark
  /\ rules' = [rules EXCEPT ![r].quiet = TRUE]
  /\ sweeps' = [sweeps EXCEPT ![s].toMark = @ \ {r}]
  /\ UNCHANGED <<buyVars, reordered>>

\* A crash, or an error in one group, ends the whole sweep.
AbortSweep(s) ==
  /\ sweeps[s] # Idle
  /\ sweeps' = [sweeps EXCEPT ![s] = Idle]
  /\ reordered' = [reordered EXCEPT !.excused = @ \cup sweeps[s].toMark]
  /\ UNCHANGED <<buyVars, rules>>

\* Seven days after it was raised; no sweep takes that long.
CooldownEnds(r) ==
  /\ r \in reordered.inFlight
  /\ \A s \in Sweeper : r \notin InHand(s)
  /\ rules' = [rules EXCEPT ![r].quiet = FALSE]
  /\ reordered' = [inFlight |-> reordered.inFlight \ {r},
                   twice |-> reordered.twice \ {r},
                   excused |-> reordered.excused \ {r}]
  /\ UNCHANGED <<buyVars, sweeps>>

Outcome == {"APPROVED", "PENDING"}

RequisitionNext ==
  \E q \in Requisition :
    \/ \E qty \in Qty : \/ CreateRequisition(q, qty) /\ UNCHANGED sweepVars
                        \/ UpdateRequisition(q, qty)
    \/ \E outcome \in Outcome : SubmitRequisition(q, outcome)
    \/ ConfirmRequisition(q) \/ ReopenRequisition(q) \/ CancelRequisition(q)

ApprovalNext ==
  \E d \in Document :
    \/ \E amount \in Qty, outcome \in Outcome : AskDirectly(d, amount, outcome)
    \/ \E verdict \in {"APPROVED", "REJECTED", "CANCELLED"} : Settle(d, verdict)

OrderNext ==
  \E o \in Order :
    \/ \E qty \in Qty : \/ CreateOrder(o, qty) \/ UpdateOrder(o, qty)
                        \/ \E q \in Requisition : ConvertRequisition(o, q, qty)
    \/ \E outcome \in Outcome : SubmitOrder(o, outcome)
    \/ ConfirmOrder(o) \/ ReopenOrder(o) \/ CancelOrder(o)

GoodsReceiptNext ==
  \E g \in GoodsReceipt :
    \/ \E o \in Order, qty \in Qty : CreateGoodsReceipt(g, o, qty)
    \/ PostGoodsReceipt(g) \/ CancelGoodsReceipt(g)

SweepNext ==
  \/ \E r \in Rule : UpsertRule(r) \/ CooldownEnds(r)
  \/ \E s \in Sweeper :
       \/ \E fired \in SUBSET Rule : BeginSweep(s, fired)
       \/ \E g \in Groups, q \in Requisition, qty \in Qty :
            RaiseRequisition(s, g, q, qty)
       \/ \E r \in Rule : MarkTriggered(s, r)
       \/ AbortSweep(s)

BuyNext == RequisitionNext \/ ApprovalNext \/ OrderNext \/ GoodsReceiptNext
             \/ SweepNext

(***************************************************************************)
(* Properties                                                              *)
(***************************************************************************)
BuyTypeOK ==
  /\ requisitions \in RequisitionTable /\ orders \in OrderTable
  /\ goodsReceipts \in GoodsReceiptTable
  /\ requests \in [Document -> Request \cup {NoRequest}]
  /\ backing \in [Document -> Request \cup {NoRequest}]
  /\ rules \in [Rule -> [active : BOOLEAN, quiet : BOOLEAN]]
  /\ sweeps \in [Sweeper -> [toRaise : SUBSET Rule, toMark : SUBSET Rule]]
  /\ reordered \in [inFlight : SUBSET Rule, twice : SUBSET Rule,
                    excused : SUBSET Rule]

\* What a document was approved for is what it says: an approved request of
\* its own, for its present quantity.  A request that came in through the
\* approval API carries whatever amount the caller gave.
BackedByApproval(d, row) ==
  /\ backing[d].status = "APPROVED"
  /\ backing[d].own => backing[d].amount = row.qty

\* A document is past approval only on an approved request for its present
\* quantity, whatever was reopened, edited and resubmitted on the way, and
\* a converted requisition has the one order that names it
\* (purchase-order.use-cases.ts: Submit, Confirm, Reopen, Create).
OrderedIsApproved ==
  /\ \A q \in Requisition :
       /\ requisitions[q].status \in {"APPROVED", "CONVERTED"} =>
            BackedByApproval(q, requisitions[q])
       /\ {o \in Order : orders[o] # NoDoc /\ orders[o].requisition = q} =
            IF requisitions[q].status = "CONVERTED"
            THEN {requisitions[q].order} ELSE {}
  /\ \A o \in Order :
       orders[o].status \in {"ISSUED", "PARTIALLY_RECEIVED", "RECEIVED"} =>
         BackedByApproval(o, orders[o])

\* A rule is raised twice within its cooldown only when two sweeps had it in
\* hand at once, or a sweep stopped between raising and marking it
\* (reorder.use-cases.ts: the two are separate transactions).
ReorderedOnce == reordered.twice \subseteq reordered.excused
============================================================================
