----------------------------- MODULE SalesOrder -----------------------------
(***************************************************************************)
(* Sales orders and delivery notes (src/src/modules/sales/sales-order) of  *)
(* one customer, with the approval they ask for and the stock they hold.   *)
(*                                                                         *)
(* Orders and notes are saved under the version they were loaded with, so  *)
(* a use case is one step.  The sum of the customer's open orders that     *)
(* Submit compares with the credit limit is read without locks: it is read *)
(* in a step of its own and may be stale when the order is saved, even     *)
(* older than the load of the order, which allows more than the code.      *)
(*                                                                         *)
(* An order has one line of quantity qty at price 1.  Inventory is what    *)
(* its gateway promises: reserve, issue and release each happen at once    *)
(* (StockLedger has them in detail).  Orders are held in the default       *)
(* warehouse; a note may ship from there or from the other one.  The       *)
(* inventory API reserves and releases for any document by hand, an order  *)
(* of any status included; what it reserves for others or in the other     *)
(* warehouse could only refuse a step, and is left out.                    *)
(***************************************************************************)
EXTENDS Quotation, FiniteSetsExt

CONSTANTS Note,     \* delivery notes
          MaxQty,   \* bound on the quantity of an order
          Limit,    \* the customer's credit limit
          Stock,    \* on hand in the default warehouse at first
          Elsewhere \* on hand in the other one

Qty == 1 .. MaxQty
Warehouse == {"default", "other"}
ASSUME SalesAssumption ==
  /\ IsFiniteSet(Order) /\ IsFiniteSet(Note) /\ NoOrder \notin Order
  /\ MaxQty \in Nat \ {0} /\ Limit \in Nat \ {0}
  /\ Stock \in Nat /\ Elsewhere \in Nat

VARIABLES
  orders,     \* sal_order with its line
  notes,      \* sal_delivery_note
  requests,   \* the latest approval request of an order
  backing,    \* history: the request an order was confirmed on
  onHand,     \* stock balances of the two warehouses
  held,       \* active reservations by order, all in the default warehouse
  freed,      \* history: orders whose hold was released by hand
  given,      \* history: orders for which stock was reserved by hand
  raced       \* history: a submission was saved on a sum too small

saleVars == <<orders, notes, requests, backing, onHand, held, freed, given, raced>>
vars == <<quotations, call, saleVars>>

OrderRow == [status : {"DRAFT", "PENDING_APPROVAL", "CONFIRMED",
                       "PARTIALLY_DELIVERED", "DELIVERED", "REJECTED",
                       "CANCELLED"},
             qty : Qty, delivered : 0 .. MaxQty,
             credit : {"NOT_CHECKED", "OK", "EXCEEDED"},
             quotation : Quotation \cup {NoQuotation}]
NoteRow == [status : {"DRAFT", "SHIPPED", "CANCELLED"}, order : Order,
            qty : Qty, from : Warehouse]
OrderTable == [Order -> OrderRow \cup {NoDoc}]
NoteTable == [Note -> NoteRow \cup {NoDoc}]
Request == [status : {"NONE", "PENDING", "APPROVED", "REJECTED", "CANCELLED"},
            direct : BOOLEAN, atOnce : BOOLEAN]
NoRequest == [status |-> "NONE", direct |-> FALSE, atOnce |-> FALSE]

Init ==
  /\ QuoteInit
  /\ orders = [o \in Order |-> NoDoc]
  /\ notes = [n \in Note |-> NoDoc]
  /\ requests = [o \in Order |-> NoRequest]
  /\ backing = [o \in Order |-> NoRequest]
  /\ onHand = [w \in Warehouse |-> IF w = "default" THEN Stock ELSE Elsewhere]
  /\ held = [o \in Order |-> 0]
  /\ freed = {} /\ given = {}
  /\ raced = FALSE

(***************************************************************************)
(* Rows.  A create finds no row; a save finds the version it read.         *)
(***************************************************************************)
InsertOrder(o, row) == orders[o] = NoDoc /\ orders' = [orders EXCEPT ![o] = row]
SaveOrder(o, row) == orders' = [orders EXCEPT ![o] = row]
InsertNote(n, row) == notes[n] = NoDoc /\ notes' = [notes EXCEPT ![n] = row]
SaveNote(n, row) == notes' = [notes EXCEPT ![n] = row]

(***************************************************************************)
(* Approval                                                                *)
(***************************************************************************)
\* One pending request per document; approved at once when no step applies.
Ask(o, outcome, direct) ==
  /\ requests[o].status # "PENDING"
  /\ requests' = [requests EXCEPT ![o] =
       [status |-> outcome, direct |-> direct, atOnce |-> outcome = "APPROVED"]]

\* The approval API takes a request for any document.
AskDirectly(o, outcome) ==
  /\ Ask(o, outcome, TRUE)
  /\ UNCHANGED <<quotations, call, orders, notes, backing, onHand, held, freed, given, raced>>

Settle(o, verdict) ==
  /\ requests[o].status = "PENDING"
  /\ requests' = [requests EXCEPT ![o].status = verdict]
  /\ UNCHANGED <<quotations, call, orders, notes, backing, onHand, held, freed, given, raced>>

Answered(answer) ==
  CASE answer = "APPROVED" -> {"CONFIRMED"}
    [] answer = "REJECTED" -> {"REJECTED"}
    [] answer \in {"CANCELLED", "NONE"} -> {"DRAFT"}
    [] answer = "PENDING" -> {}

(***************************************************************************)
(* Stock                                                                   *)
(***************************************************************************)
HeldByAll == SumFunction(held)
Available(w) == onHand[w] - (IF w = "default" THEN HeldByAll ELSE 0)

CanReserve(qty) == qty <= Available("default")

\* Confirming reserves the whole order or fails.
HoldIf(confirmed, o) ==
  /\ IF confirmed
     THEN /\ CanReserve(orders[o].qty)
          /\ held' = [held EXCEPT ![o] = @ + orders[o].qty]
          /\ backing' = [backing EXCEPT ![o] = requests'[o]]
     ELSE UNCHANGED <<held, backing>>
  /\ UNCHANGED <<freed, given>>

\* POST /inventory/reservations takes any document, and more of it each time.
ReserveByHand(o, qty) ==
  /\ orders[o] # NoDoc
  /\ CanReserve(qty)
  /\ held' = [held EXCEPT ![o] = @ + qty]
  /\ given' = given \cup {o}
  /\ UNCHANGED <<quotations, call, orders, notes, requests, backing, onHand, freed, raced>>

\* POST /inventory/reservations/release gives back all a document holds, live or not.
ReleaseByHand(o) ==
  /\ held[o] > 0
  /\ held' = [held EXCEPT ![o] = 0]
  /\ freed' = freed \cup {o}
  /\ UNCHANGED <<quotations, call, orders, notes, requests, backing, onHand, given, raced>>

\* Mutant: completing an order releases nothing.
KeepsTheRest(o, consumed, complete) == held[o] - consumed

HeldAfter(o, consumed, complete) ==
  IF complete THEN 0 ELSE held[o] - consumed

(***************************************************************************)
(* Orders                                                                  *)
(***************************************************************************)
OrderMoves ==
  ({"DRAFT"} \X {"PENDING_APPROVAL", "CONFIRMED", "CANCELLED"}) \cup
  ({"PENDING_APPROVAL"} \X {"CONFIRMED", "REJECTED", "DRAFT", "CANCELLED"}) \cup
  ({"CONFIRMED"} \X {"PARTIALLY_DELIVERED", "DELIVERED", "CANCELLED"}) \cup
  {<<"PARTIALLY_DELIVERED", "DELIVERED">>, <<"REJECTED", "DRAFT">>}

NewOrder(qty, quotation) ==
  [status |-> "DRAFT", qty |-> qty, delivered |-> 0, credit |-> "NOT_CHECKED",
   quotation |-> quotation]

EditedOrder(row, qty) == [row EXCEPT !.qty = qty]
ReopenedOrder(row) == [row EXCEPT !.status = "DRAFT", !.credit = "NOT_CHECKED"]
DeliveredOrder(row, qty) ==
  [row EXCEPT !.delivered = @ + qty,
              !.status = IF row.delivered + qty >= row.qty THEN "DELIVERED"
                         ELSE "PARTIALLY_DELIVERED"]

CreateOrder(o, qty) ==
  /\ InsertOrder(o, NewOrder(qty, NoQuotation))
  /\ UNCHANGED <<quotations, call, notes, requests, backing, onHand, held, freed, given, raced>>

\* The order and the link commit together.
ConvertQuotation(c, o, qty) ==
  /\ call[c].op = "convert"
  /\ LinkSalesOrder(call[c].of, o)
  /\ InsertOrder(o, NewOrder(qty, call[c].of))
  /\ Finish(c)
  /\ UNCHANGED <<notes, requests, backing, onHand, held, freed, given, raced>>

UpdateOrder(o, qty) ==
  /\ orders[o].status = "DRAFT"
  /\ SaveOrder(o, EditedOrder(orders[o], qty))
  /\ UNCHANGED <<quotations, call, notes, requests, backing, onHand, held, freed, given, raced>>

\* Mutant: orders that wait for approval do not count.
CountsConfirmed == {"CONFIRMED", "PARTIALLY_DELIVERED", "DELIVERED"}

ExposureStatuses ==
  {"PENDING_APPROVAL", "CONFIRMED", "PARTIALLY_DELIVERED", "DELIVERED"}
OpenExposure(os) ==
  SumFunction([o \in {o \in os : orders[o].status \in ExposureStatuses} |->
                 orders[o].qty])

EvaluateCredit(open, qty) == IF open + qty > Limit THEN "EXCEEDED" ELSE "OK"

BeginSubmit(c, o) ==
  /\ orders[o].status = "DRAFT"
  /\ Start(c, [op |-> "submit", of |-> o, open |-> OpenExposure(Order \ {o})])
  /\ UNCHANGED <<quotations, saleVars>>

\* A breach that nobody would look at is refused.
Submitted(row, credit, outcome) ==
  [row EXCEPT !.credit = credit,
              !.status = IF outcome = "APPROVED" THEN "CONFIRMED" ELSE "PENDING_APPROVAL"]
CanSubmit(credit, outcome) == ~ (credit = "EXCEEDED" /\ outcome = "APPROVED")

Submit(c, outcome) ==
  /\ call[c].op = "submit"
  /\ LET o == call[c].of
         credit == EvaluateCredit(call[c].open, orders[o].qty)
     IN
       /\ orders[o].status = "DRAFT"
       /\ Ask(o, outcome, FALSE)
       /\ CanSubmit(credit, outcome)
       /\ SaveOrder(o, Submitted(orders[o], credit, outcome))
       /\ HoldIf(outcome = "APPROVED", o)
       /\ raced' = (raced \/ call[c].open < OpenExposure(Order \ {o}))
  /\ Finish(c)
  /\ UNCHANGED <<quotations, notes, onHand>>

MoveOrder(o, to) ==
  /\ <<orders[o].status, to>> \in OrderMoves
  /\ SaveOrder(o, [orders[o] EXCEPT !.status = to])

ConfirmOrder(o) ==
  /\ orders[o].status = "PENDING_APPROVAL"
  /\ \E to \in Answered(requests[o].status) :
       /\ MoveOrder(o, to)
       /\ UNCHANGED requests
       /\ HoldIf(to = "CONFIRMED", o)
  /\ UNCHANGED <<quotations, call, notes, onHand, raced>>

\* Withdraws an order that waits, too; its request stays as it is.
ReopenOrder(o) ==
  /\ <<orders[o].status, "DRAFT">> \in OrderMoves
  /\ SaveOrder(o, ReopenedOrder(orders[o]))
  /\ UNCHANGED <<quotations, call, notes, requests, backing, onHand, held, freed, given, raced>>

\* Calls no release: what the order holds stays held.
CanCancelOrder(o) == orders[o] # NoDoc /\ orders[o].delivered = 0
CancelOrder(o) ==
  /\ CanCancelOrder(o)
  /\ MoveOrder(o, "CANCELLED")
  /\ UNCHANGED <<quotations, call, notes, requests, backing, onHand, held, freed, given, raced>>

(***************************************************************************)
(* Delivery notes                                                          *)
(***************************************************************************)
\* Mutant: compares with what was ordered, not with what is left of it.
DeliversOrdered(o, qty) ==
  /\ orders[o].status \in {"CONFIRMED", "PARTIALLY_DELIVERED"}
  /\ qty <= orders[o].qty

CanDeliver(o, qty) ==
  /\ orders[o].status \in {"CONFIRMED", "PARTIALLY_DELIVERED"}
  /\ qty <= orders[o].qty - orders[o].delivered

NewNote(o, qty, from) == [status |-> "DRAFT", order |-> o, qty |-> qty, from |-> from]
MoveNote(n, to) ==
  /\ notes[n].status = "DRAFT"
  /\ SaveNote(n, [notes[n] EXCEPT !.status = to])

CreateNote(n, o, qty, from) ==
  /\ CanDeliver(o, qty)
  /\ InsertNote(n, NewNote(o, qty, from))
  /\ UNCHANGED <<quotations, call, orders, requests, backing, onHand, held, freed, given, raced>>

\* The note, the order and the stock change together.
ShipNote(n) ==
  LET o == notes[n].order
      qty == notes[n].qty
      complete == DeliveredOrder(orders[o], qty).status = "DELIVERED"
      from == notes[n].from
      consumed == IF from = "default" THEN Min({held[o], qty}) ELSE 0
  IN
  /\ MoveNote(n, "SHIPPED")
  /\ CanDeliver(o, qty)
  /\ qty - consumed <= Available(from)
  /\ SaveOrder(o, DeliveredOrder(orders[o], qty))
  /\ onHand' = [onHand EXCEPT ![from] = @ - qty]
  /\ held' = [held EXCEPT ![o] = HeldAfter(o, consumed, complete)]
  /\ UNCHANGED <<quotations, call, requests, backing, freed, given, raced>>

CancelNote(n) ==
  /\ MoveNote(n, "CANCELLED")
  /\ UNCHANGED <<quotations, call, orders, requests, backing, onHand, held, freed, given, raced>>

QuotationNext == QuoteNext /\ UNCHANGED saleVars

ApprovalNext ==
  \E o \in Order :
    \/ /\ orders[o] # NoDoc
       /\ \E outcome \in {"APPROVED", "PENDING"} : AskDirectly(o, outcome)
    \/ \E verdict \in {"APPROVED", "REJECTED", "CANCELLED"} : Settle(o, verdict)

OrderNext ==
  \/ \E o \in Order, qty \in Qty :
       \/ CreateOrder(o, qty) \/ UpdateOrder(o, qty)
       \/ \E c \in Caller : ConvertQuotation(c, o, qty)
  \/ \E o \in Order :
       \/ ConfirmOrder(o) \/ ReopenOrder(o) \/ CancelOrder(o)
       \/ \E c \in Caller : BeginSubmit(c, o)
  \/ \E c \in Caller, outcome \in {"APPROVED", "PENDING"} : Submit(c, outcome)

NoteNext ==
  \E n \in Note :
    \/ \E o \in Order, qty \in Qty, from \in Warehouse :
         CreateNote(n, o, qty, from)
    \/ ShipNote(n) \/ CancelNote(n)

HandNext ==
  \E o \in Order : ReleaseByHand(o) \/ \E qty \in Qty : ReserveByHand(o, qty)

Next == QuotationNext \/ ApprovalNext \/ OrderNext \/ NoteNext \/ HandNext

Spec == Init /\ [][Next]_vars

(***************************************************************************)
(* Properties                                                              *)
(***************************************************************************)
\* Rows have their types and no warehouse goes negative, whatever ships
\* from it.
SalesTypeOK ==
  /\ quotations \in QuotationTable
  /\ call \in [Caller ->
       [op : {"revise", "convert"}, of : Quotation] \cup {NoCall}
         \cup [op : {"submit"}, of : Order, open : Nat]]
  /\ orders \in OrderTable
  /\ notes \in NoteTable
  /\ requests \in [Order -> Request] /\ backing \in [Order -> Request]
  /\ onHand \in [Warehouse -> Nat] /\ held \in [Order -> Nat]
  /\ freed \subseteq Order /\ given \subseteq Order /\ raced \in BOOLEAN

\* What an undelivered order still owes is held for it to the end, wherever its
\* parts shipped from, unless somebody released its hold through the inventory API;
\* nothing is held for an order that never was confirmed or is delivered in full,
\* unless it was reserved there; and no two orders ever hold the same stock
\* (sales-order.use-cases.ts: reserveForOrder; delivery-note.use-cases.ts: Ship).
HoldsFollowOrders ==
  /\ \A o \in Order :
       /\ orders[o].status \in {"CONFIRMED", "PARTIALLY_DELIVERED"} =>
            o \in freed \/ held[o] >= orders[o].qty - orders[o].delivered
       /\ held[o] > 0 =>
            \/ o \in given
            \/ orders[o].status \in {"CONFIRMED", "PARTIALLY_DELIVERED", "CANCELLED"}
  /\ HeldByAll <= onHand["default"]

\* An order has delivered what its shipped notes say, never more than was
\* ordered, and its status tells how much of it, although several notes for
\* all that is left may be drafted (sales-order.ts: recordDelivery).
DeliveredIsItsNotes ==
  \A o \in Order : orders[o] # NoDoc =>
    LET shipped == {n \in Note : notes[n].status = "SHIPPED" /\ notes[n].order = o}
        delivered == orders[o].delivered
    IN
    /\ delivered = SumFunction([n \in shipped |-> notes[n].qty])
    /\ delivered <= orders[o].qty
    /\ delivered > 0 <=> orders[o].status \in {"PARTIALLY_DELIVERED", "DELIVERED"}
    /\ delivered = orders[o].qty <=> orders[o].status = "DELIVERED"

\* Orders, their notes and their holds together.
DeliveriesHoldTogether == HoldsFollowOrders /\ DeliveredIsItsNotes

\* A quotation becomes one order at most and both know of each other,
\* although conversions decide on a copy (quotation-conversion.gateway.ts).
ConvertedOnce ==
  \A o \in Order : \A q \in Quotation :
    (orders[o] # NoDoc /\ orders[o].quotation = q)
      <=> (quotations[q] # NoDoc /\ quotations[q].order = o)

\* Revisions and conversions together.
QuotationsHoldTogether == OnlyLastIsDraft /\ ConvertedOnce

\* The orders nobody was asked to look at stay within the credit limit
\* together, unless submissions raced; an order beyond it is confirmed only
\* after people approved it, or on a request that came in through the
\* approval API (sales-order.use-cases.ts: Submit, Confirm).
CreditIsWatched ==
  /\ raced \/ SumFunction(
       [o \in {o \in Order : /\ orders[o].status \in {"PENDING_APPROVAL", "CONFIRMED",
                                                    "PARTIALLY_DELIVERED", "DELIVERED"}
                             /\ orders[o].credit = "OK"} |-> orders[o].qty]) <= Limit
  /\ \A o \in Order :
       /\ orders[o].status \in {"CONFIRMED", "PARTIALLY_DELIVERED", "DELIVERED"}
       /\ orders[o].credit = "EXCEEDED"
       => backing[o].status = "APPROVED" /\ (backing[o].direct \/ ~ backing[o].atOnce)
=============================================================================
