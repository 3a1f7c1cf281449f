------------------------------ MODULE Payable ------------------------------
(***************************************************************************)
(* Accounts payable (src/src/modules/finance/payable): vendor invoices     *)
(* matched against a purchase order and its receipts, payment vouchers     *)
(* that settle them, batches of vouchers and the withholding certificate,  *)
(* posting to the general ledger in the transaction of the document.       *)
(*                                                                         *)
(* One vendor; an order has one line, and the total of an invoice is the   *)
(* quantity of its lines.  Capturing an invoice reads the order and what   *)
(* is invoiced of it and saves neither, so it is a look in call[c] and a   *)
(* step.  Every other document a handler touches it saves under its        *)
(* version, in one step.                                                   *)
(***************************************************************************)
EXTENDS GeneralLedger, Procurement

CONSTANTS Invoice, Voucher, Batch

ASSUME PayableAssumption ==
  /\ Source = Invoice \cup Voucher /\ Invoice \cap Voucher = {}

VARIABLES
  invoices,    \* fin_vendor_invoice
  vouchers,    \* fin_payment_voucher with its allocations
  batches,     \* fin_payment_batch
  certificates,\* fin_wht_certificate of a voucher
  rebilled     \* history: orders billed twice on one reading of them

payVars == <<invoices, vouchers, batches, certificates, rebilled>>
vars == <<ledgerVars, call, buyVars, sweepVars, payVars>>

NoBatch == "NONE"
InvoiceRow == [status : {"DRAFT", "OPEN", "PARTIALLY_PAID", "PAID", "VOID"},
               match : {"MATCHED", "VARIANCE", "UNMATCHED"},
               order : Order \cup {NoDoc}, date : Period, total : Qty,
               settled : 0 .. MaxQty, wht : BOOLEAN]
\* alloc[i] = 0: the voucher does not pay i.
VoucherRow == [status : {"DRAFT", "POSTED", "VOID"}, date : Period,
               alloc : [Invoice -> 0 .. MaxQty], wht : BOOLEAN,
               batch : Batch \cup {NoBatch}]

InvoiceTable == [Invoice -> InvoiceRow \cup {NoDoc}]
VoucherTable == [Voucher -> VoucherRow \cup {NoDoc}]
BatchTable == [Batch -> {NoBatch, "DRAFT", "POSTED", "VOID"}]
CertificateTable == [Voucher -> {"NONE", "VALID", "VOID"}]

Init ==
  /\ LedgerInit /\ BuyInit
  /\ invoices = [i \in Invoice |-> NoDoc]
  /\ vouchers = [v \in Voucher |-> NoDoc]
  /\ batches = [b \in Batch |-> NoBatch]
  /\ certificates = [v \in Voucher |-> "NONE"]
  /\ rebilled = {}

(***************************************************************************)
(* Rows.  A create finds no row; a save finds the version it read.         *)
(***************************************************************************)
InsertInvoice(i, row) ==
  invoices[i] = NoDoc /\ invoices' = [invoices EXCEPT ![i] = row]
SaveInvoice(i, row) == invoices' = [invoices EXCEPT ![i] = row]
InsertVoucher(v, row) ==
  vouchers[v] = NoDoc /\ vouchers' = [vouchers EXCEPT ![v] = row]
SaveVoucher(v, row) == vouchers' = [vouchers EXCEPT ![v] = row]
SaveVouchers(rows) ==
  vouchers' = [v \in Voucher |-> IF v \in DOMAIN rows THEN rows[v] ELSE vouchers[v]]
InsertBatch(b) == batches[b] = NoBatch /\ batches' = [batches EXCEPT ![b] = "DRAFT"]
SaveBatch(b, status) == batches' = [batches EXCEPT ![b] = status]
InsertCertificates(vs) ==
  certificates' = [v \in Voucher |-> IF v \in vs THEN "VALID" ELSE certificates[v]]
MarkCertificateVoid(v) ==
  certificates' = [certificates EXCEPT ![v] = IF @ = "VALID" THEN "VOID" ELSE @]

(***************************************************************************)
(* Vendor invoices                                                         *)
(***************************************************************************)

\* Mutant: a draft does not count as invoiced.
PostedQty(o) ==
  SumFunction([i \in {i \in Invoice : /\ invoices[i].status \notin {"NONE", "VOID", "DRAFT"}
                                      /\ invoices[i].order = o} |-> invoices[i].total])

\* invoicedQtyByPurchaseOrderLine
InvoicedQty(o) ==
  SumFunction([i \in {i \in Invoice : /\ invoices[i].status \notin {"NONE", "VOID"}
                                      /\ invoices[i].order = o} |-> invoices[i].total])

\* What the lines of an invoice bill: one line of the order or, as nothing
\* keeps a request from naming it again, that line twice.
Billings == {lines \in Qty \X (0 .. MaxQty) : lines[1] + lines[2] <= MaxQty}

\* threeWayMatch compares each line with what is open, not their sum;
\* inTolerance is the comparison of their prices.
ThreeWayMatch(lines, open, inTolerance) ==
  IF lines[1] <= open /\ lines[2] <= open /\ inTolerance THEN "MATCHED" ELSE "VARIANCE"

BeginCaptureInvoice(c, o, lines, inTolerance) ==
  /\ orders[o] # NoDoc
  /\ Start(c, [op |-> "capture", order |-> o,
               qty |-> lines[1] + lines[2], twice |-> lines[2] > 0,
               match |-> ThreeWayMatch(lines, orders[o].received - InvoicedQty(o),
                                       inTolerance)])
  /\ UNCHANGED <<ledgerVars, buyVars, sweepVars, payVars>>

NewInvoice(match, o, p, total, wht) ==
  [status |-> "DRAFT", match |-> match, order |-> o, date |-> p,
   total |-> total, settled |-> 0, wht |-> wht]

CaptureInvoice(c, i, p, wht) ==
  /\ call[c].op = "capture"
  /\ InsertInvoice(i, NewInvoice(call[c].match, call[c].order, p, call[c].qty, wht))
  /\ rebilled' = rebilled \cup
       {call[k].order : k \in {k \in Caller : /\ call[k].op = "capture"
                                              /\ call[k].order = call[c].order
                                              /\ k # c \/ call[c].twice}}
  /\ Finish(c)
  /\ UNCHANGED <<ledgerVars, buyVars, sweepVars, vouchers, batches, certificates>>

\* Without a purchase order nothing is matched.
CaptureUnmatched(i, p, qty, wht) ==
  /\ InsertInvoice(i, NewInvoice("UNMATCHED", NoDoc, p, qty, wht))
  /\ UNCHANGED <<ledgerVars, call, buyVars, sweepVars, vouchers, batches,
                 certificates, rebilled>>

InvoiceLines(total) ==
  [Zero EXCEPT !["CONTROL"] = - total, !["RESULT"] = total]

\* The match of the capture is not run again.
CanPostInvoice(inv, acceptVariance) ==
  inv.status = "DRAFT" /\ (inv.match = "MATCHED" \/ acceptVariance)
Opened(inv) == [inv EXCEPT !.status = "OPEN"]
PostInvoice(c, i, acceptVariance) ==
  /\ CanPostInvoice(invoices[i], acceptVariance)
  /\ ThroughGate(c, invoices[i].date)
  /\ SaveInvoice(i, Opened(invoices[i]))
  /\ entries' = Posting(entries, Posted(i), InvoiceLines(invoices[i].total),
                        invoices[i].date)
  /\ UNCHANGED <<decision, year, cleared, buyVars, sweepVars, vouchers,
                 batches, certificates, rebilled>>

VoidedInvoice(inv) == [inv EXCEPT !.status = "VOID"]
VoidDraftInvoice(i) ==
  /\ invoices[i].status = "DRAFT"
  /\ SaveInvoice(i, VoidedInvoice(invoices[i]))
  /\ UNCHANGED <<ledgerVars, call, buyVars, sweepVars, vouchers, batches,
                 certificates, rebilled>>

\* Mutant: the entry of a voided invoice stays.
VoidsWithoutReversing(c, i, p) ==
  /\ invoices[i].status = "OPEN"
  /\ ThroughGate(c, p)
  /\ SaveInvoice(i, VoidedInvoice(invoices[i]))
  /\ UNCHANGED <<ledgerVars, buyVars, sweepVars, vouchers, batches,
                 certificates, rebilled>>

VoidInvoice(c, i, p) ==
  /\ invoices[i].status = "OPEN"
  /\ ThroughGate(c, p)
  /\ SaveInvoice(i, VoidedInvoice(invoices[i]))
  /\ entries' = Reversing(entries, i, p)
  /\ UNCHANGED <<decision, year, cleared, buyVars, sweepVars, vouchers,
                 batches, certificates, rebilled>>

(***************************************************************************)
(* Settlement                                                              *)
(***************************************************************************)
IsOpen(inv) == inv.status \in {"OPEN", "PARTIALLY_PAID"}
OpenInvoices == {i \in Invoice : IsOpen(invoices[i])}
OpenBalance(inv) == inv.total - inv.settled
\* Mutant: the balance is not checked.
SettlesPastBalance(inv, amount) == IsOpen(inv) /\ amount \in 1 .. inv.total

CanSettle(inv, amount) == IsOpen(inv) /\ amount \in 1 .. OpenBalance(inv)
CanUnsettle(inv, amount) ==
  inv.status \in {"PAID", "PARTIALLY_PAID"} /\ amount \in 1 .. inv.settled

Settled(inv, settled) ==
  [inv EXCEPT !.settled = settled,
              !.status = CASE settled = 0 -> "OPEN"
                           [] settled = inv.total -> "PAID"
                           [] OTHER -> "PARTIALLY_PAID"]

\* What the invoices become when the vouchers vs are posted or voided.
Paid(vs) ==
  [i \in Invoice |->
     LET amount == SumFunction([v \in vs |-> vouchers[v].alloc[i]])
     IN  IF amount = 0 THEN invoices[i]
         ELSE Settled(invoices[i], invoices[i].settled + amount)]
Unpaid(v) ==
  [i \in Invoice |->
     LET amount == vouchers[v].alloc[i]
     IN  IF amount = 0 THEN invoices[i]
         ELSE Settled(invoices[i], invoices[i].settled - amount)]

(***************************************************************************)
(* Vouchers                                                                *)
(***************************************************************************)
\* Nothing is withheld from an invoice without a withholding line; a small
\* share of one may round to nothing.
MayWithhold(paid, wht) == wht => \E i \in paid : invoices[i].wht

NewVoucher(alloc, p, wht) ==
  [status |-> "DRAFT", date |-> p, alloc |-> alloc, wht |-> wht, batch |-> NoBatch]
Attached(row, b) == [row EXCEPT !.batch = b]
PostedVoucher(row) == [row EXCEPT !.status = "POSTED"]
VoidedVoucher(row) == [row EXCEPT !.status = "VOID"]

Allocations == [Invoice -> 0 .. MaxQty]

CreateVoucher(v, alloc, p, wht) ==
  LET paid == {i \in Invoice : alloc[i] > 0} IN
  /\ paid # {} /\ \A i \in paid : CanSettle(invoices[i], alloc[i])
  /\ MayWithhold(paid, wht)
  /\ InsertVoucher(v, NewVoucher(alloc, p, wht))
  /\ UNCHANGED <<ledgerVars, call, buyVars, sweepVars, invoices, batches,
                 certificates, rebilled>>

\* The control account is cleared of the gross; what is withheld and what
\* leaves the bank are one account here.
PaymentLines(v) ==
  LET gross == SumFunction(vouchers[v].alloc)
  IN  [Zero EXCEPT !["CONTROL"] = gross, !["MONEY"] = - gross]

Certify(vs) == InsertCertificates({v \in vs : vouchers[v].wht})

\* Mutant: a voucher of a batch is posted on its own.
PostsBatched(v) == vouchers[v].status = "DRAFT"

CanPostAlone(v) ==
  vouchers[v].status = "DRAFT" /\ vouchers[v].batch = NoBatch

\* Every allocated invoice is loaded and saved here, or nothing is.
PostVoucher(c, v) ==
  /\ CanPostAlone(v)
  /\ \A i \in Invoice : vouchers[v].alloc[i] > 0 =>
       CanSettle(invoices[i], vouchers[v].alloc[i])
  /\ ThroughGate(c, vouchers[v].date)
  /\ invoices' = Paid({v})
  /\ SaveVoucher(v, PostedVoucher(vouchers[v]))
  /\ entries' = Posting(entries, Posted(v), PaymentLines(v), vouchers[v].date)
  /\ Certify({v})
  /\ UNCHANGED <<decision, year, cleared, buyVars, sweepVars, batches,
                 rebilled>>

VoidDraftVoucher(v) ==
  /\ vouchers[v].status = "DRAFT"
  /\ SaveVoucher(v, VoidedVoucher(vouchers[v]))
  /\ UNCHANGED <<ledgerVars, call, buyVars, sweepVars, invoices, batches,
                 certificates, rebilled>>

\* A posted voucher can be voided on its own, in a batch or not.
VoidVoucher(c, v, p) ==
  /\ vouchers[v].status = "POSTED"
  /\ \A i \in Invoice : vouchers[v].alloc[i] > 0 =>
       CanUnsettle(invoices[i], vouchers[v].alloc[i])
  /\ ThroughGate(c, p)
  /\ invoices' = Unpaid(v)
  /\ SaveVoucher(v, VoidedVoucher(vouchers[v]))
  /\ entries' = Reversing(entries, v, p)
  /\ MarkCertificateVoid(v)
  /\ UNCHANGED <<decision, year, cleared, buyVars, sweepVars, batches,
                 rebilled>>

(***************************************************************************)
(* Batches                                                                 *)
(***************************************************************************)
DraftsOf(b) == {v \in Voucher : /\ vouchers[v].status = "DRAFT"
                                /\ vouchers[v].batch = b}

CanBatch(vs) == vs # {} /\ \A v \in vs : vouchers[v].status = "DRAFT"
CloseBatch(b, status) == batches[b] = "DRAFT" /\ SaveBatch(b, status)

\* A draft that is in a batch already moves to the new one.
CreateBatch(b, vs) ==
  /\ CanBatch(vs) /\ InsertBatch(b)
  /\ SaveVouchers([v \in vs |-> Attached(vouchers[v], b)])
  /\ UNCHANGED <<ledgerVars, call, buyVars, sweepVars, invoices, certificates,
                 rebilled>>

\* Without a list of vouchers: one for the open invoices that are due.
CreateBatchOfDue(b, v, due, p, wht) ==
  /\ due # {} /\ due \subseteq OpenInvoices
  /\ MayWithhold(due, wht)
  /\ InsertBatch(b)
  /\ LET alloc == [i \in Invoice |-> IF i \in due THEN OpenBalance(invoices[i]) ELSE 0]
     IN  InsertVoucher(v, Attached(NewVoucher(alloc, p, wht), b))
  /\ UNCHANGED <<ledgerVars, call, buyVars, sweepVars, invoices, certificates,
                 rebilled>>

\* The drafts that are in the batch now are posted in one transaction, each
\* through the gate of its own date; without one there is no gate.
PostBatch(c, b, p) ==
  LET vs == DraftsOf(b) IN
  /\ CloseBatch(b, "POSTED")
  /\ \A i \in Invoice :
       LET amount == SumFunction([v \in vs |-> vouchers[v].alloc[i]])
       IN  amount > 0 => CanSettle(invoices[i], amount)
  /\ \A v \in vs : vouchers[v].date = p \/ GateOpen(vouchers[v].date)
  /\ IF vs = {} THEN UNCHANGED call ELSE ThroughGate(c, p)
  /\ invoices' = Paid(vs)
  /\ SaveVouchers([v \in vs |-> PostedVoucher(vouchers[v])])
  /\ entries' = [k \in Key |->
       IF k[2] = "posted" /\ k[1] \in vs
       THEN Posting(entries, k, PaymentLines(k[1]), vouchers[k[1]].date)[k]
       ELSE entries[k]]
  /\ Certify(vs)
  /\ UNCHANGED <<decision, year, cleared, buyVars, sweepVars, rebilled>>

VoidBatch(b) ==
  /\ CloseBatch(b, "VOID")
  /\ SaveVouchers([v \in DraftsOf(b) |-> VoidedVoucher(vouchers[v])])
  /\ UNCHANGED <<ledgerVars, call, buyVars, sweepVars, invoices, certificates,
                 rebilled>>

InvoiceNext ==
  \E i \in Invoice, p \in Period, c \in Caller :
    \/ \E qty \in Qty, wht \in BOOLEAN : CaptureUnmatched(i, p, qty, wht)
    \/ \E o \in Order, lines \in Billings, inTolerance \in BOOLEAN :
         BeginCaptureInvoice(c, o, lines, inTolerance)
    \/ \E wht \in BOOLEAN : CaptureInvoice(c, i, p, wht)
    \/ \E acceptVariance \in BOOLEAN : PostInvoice(c, i, acceptVariance)
    \/ VoidDraftInvoice(i) \/ VoidInvoice(c, i, p)

PaymentNext ==
  \/ \E v \in Voucher, p \in Period :
       \/ \E alloc \in Allocations, wht \in BOOLEAN :
            CreateVoucher(v, alloc, p, wht)
       \/ VoidDraftVoucher(v)
       \/ \E c \in Caller : PostVoucher(c, v) \/ VoidVoucher(c, v, p)
       \/ \E b \in Batch, due \in SUBSET Invoice, wht \in BOOLEAN :
            CreateBatchOfDue(b, v, due, p, wht)
  \/ \E b \in Batch : \/ \E vs \in SUBSET Voucher : CreateBatch(b, vs)
                      \/ \E c \in Caller, p \in Period : PostBatch(c, b, p)
                      \/ VoidBatch(b)

Next ==
  \/ LedgerNext /\ UNCHANGED <<buyVars, sweepVars, payVars>>
  \/ BuyNext /\ UNCHANGED <<ledgerVars, call, payVars>>
  \/ InvoiceNext \/ PaymentNext

Spec == Init /\ [][Next]_vars

(***************************************************************************)
(* Properties                                                              *)
(***************************************************************************)
\* Every table holds rows of its kind, those of purchasing and of the
\* ledger included, and a capture under way is of an order that exists.
TypeOK ==
  /\ LedgerTypeOK /\ BuyTypeOK
  /\ invoices \in InvoiceTable /\ vouchers \in VoucherTable
  /\ batches \in BatchTable /\ certificates \in CertificateTable
  /\ rebilled \subseteq Order
  /\ \A c \in Caller : call[c].op = "capture" => orders[call[c].order] # NoDoc

EntriesOf(s) == {Posted(s), Voided(s)}
ReversedByHand(s) == entries[NoKey] # NoEntry
                       /\ entries[NoKey].reversalOf \in EntriesOf(s)

\* The ledger and the certificates say of every document what it says of
\* itself: an invoice is on the control account from its posting until it
\* is void, a voucher while it is posted, and a voucher that withholds tax
\* has a valid certificate exactly then (vendor-invoice.use-cases.ts,
\* payment.use-cases.ts: VoucherPoster).  An accountant who reverses an
\* entry by hand takes that document out.
EntriesMatchDocuments ==
  /\ \A i \in Invoice : ReversedByHand(i) \/
       Total("CONTROL", EntriesOf(i)) =
         IF invoices[i].status \in {"NONE", "DRAFT", "VOID"} THEN 0
         ELSE - invoices[i].total
  /\ \A v \in Voucher :
       /\ certificates[v] = "VALID" <=>
            vouchers[v].status = "POSTED" /\ vouchers[v].wht
       /\ ReversedByHand(v) \/
            Total("CONTROL", EntriesOf(v)) =
              IF vouchers[v].status = "POSTED" THEN PaymentLines(v)["CONTROL"]
              ELSE 0

\* What is settled of an invoice is what the posted vouchers allocate to
\* it, never more than its total and nothing once it is void, whether the
\* vouchers were posted alone or by a batch, and in whatever order they are
\* voided (vendor-invoice.ts, applySettlement and reverseSettlement).
SettledIsItsVouchers ==
  \A i \in Invoice : invoices[i] # NoDoc =>
    /\ invoices[i].settled <= invoices[i].total
    /\ invoices[i].settled =
         SumFunction([v \in {v \in Voucher : vouchers[v].status = "POSTED"} |->
                        vouchers[v].alloc[i]])
    /\ invoices[i].settled > 0 =>
         invoices[i].status \in {"PARTIALLY_PAID", "PAID"}

ReceivedQty(o) ==
  SumFunction([g \in {g \in GoodsReceipt : /\ goodsReceipts[g].status = "POSTED"
                                           /\ goodsReceipts[g].order = o} |->
                 goodsReceipts[g].qty])
MatchedQty(o) ==
  SumFunction([i \in {i \in Invoice : /\ invoices[i].status \notin {"NONE", "VOID"}
                                      /\ invoices[i].order = o
                                      /\ invoices[i].match = "MATCHED"} |->
                 invoices[i].total])

\* The matched invoices of an order bill no more than its posted goods
\* receipts brought in, and those no more than was ordered, unless one
\* reading of the order was billed twice: by two captures at once, or by an
\* invoice that names its line twice (vendor-invoice.use-cases.ts: the match
\* is kept from the capture and covers each line alone; three-way-match.ts:
\* never more than received and not yet invoiced).
MatchedAtMostReceived ==
  \A o \in Order :
    /\ ReceivedQty(o) > 0 => ReceivedQty(o) <= orders[o].qty
    /\ o \in rebilled \/ MatchedQty(o) <= ReceivedQty(o)

\* A batch and the vouchers that name it agree: none is paid before it is
\* posted or after it is void, and posting it leaves no draft behind, also
\* when drafts move to another batch or are voided on their own meanwhile
\* (payment.use-cases.ts: CreatePaymentBatch, PostPaymentBatch).
BatchAgreesWithItsVouchers ==
  \A v \in Voucher : vouchers[v] # NoDoc /\ vouchers[v].batch # NoBatch =>
    vouchers[v].status \in
      CASE batches[vouchers[v].batch] = "DRAFT" -> {"DRAFT", "VOID"}
        [] batches[vouchers[v].batch] = "POSTED" -> {"POSTED", "VOID"}
        [] batches[vouchers[v].batch] = "VOID" -> {"VOID"}

\* Vouchers, batches and invoices agree on what is paid.
PaymentsHoldTogether == SettledIsItsVouchers /\ BatchAgreesWithItsVouchers
\* What is ordered, received, billed and reordered agrees with what was
\* approved, ordered, received and raised.
PurchasesHoldTogether == MatchedAtMostReceived /\ OrderedIsApproved /\ ReorderedOnce
============================================================================
