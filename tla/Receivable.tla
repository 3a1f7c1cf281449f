----------------------------- MODULE Receivable -----------------------------
(***************************************************************************)
(* Accounts receivable (src/src/modules/finance/receivable): sales         *)
(* invoices with their notes, and customer receipts, posting to the        *)
(* general ledger in the transaction of the document.                      *)
(*                                                                         *)
(* One customer, one order line, one unit of money per unit of quantity;   *)
(* tax, withholding and currency are left out, so an invoice is an amount  *)
(* and `linked` says that its line still points at the order line.         *)
(***************************************************************************)
EXTENDS GeneralLedger

CONSTANTS Invoice,     \* ids of invoices, credit notes and debit notes
          Receipt,     \* ids of receipts
          MaxAmount,   \* bound on an amount and on the delivered quantity
          Totals       \* totals typed in by hand

Amount == 1 .. MaxAmount

ASSUME ReceivableAssumption ==
  /\ MaxAmount \in Nat \ {0}
  /\ Source = Invoice \cup Receipt /\ Invoice \cap Receipt = {}
  /\ Totals \subseteq Amount

VARIABLES
  invoices,    \* fin_sales_invoice
  receipts,    \* fin_receipt with its allocations
  delivered,   \* deliveredQty of the order line, written by sales
  overlapped   \* history: an order was billed by two calls at once

arVars == <<invoices, receipts, delivered, overlapped>>
vars == <<ledgerVars, call, arVars>>

NoInvoice == [status |-> "NONE"]
InvoiceRow == [type : {"INVOICE", "CREDIT_NOTE", "DEBIT_NOTE"},
               status : {"DRAFT", "ISSUED", "PARTIALLY_PAID", "PAID",
                         "APPLIED", "VOID"},
               date : Period, total : Amount, settled : 0 .. MaxAmount,
               linked : BOOLEAN, original : Invoice \cup {NoInvoice}]
NoReceipt == [status |-> "NONE"]
\* alloc[i] = 0: the receipt does not settle i.
ReceiptRow == [status : {"DRAFT", "POSTED", "VOID"}, date : Period,
               amount : Amount, alloc : [Invoice -> 0 .. MaxAmount]]

InvoiceTable == [Invoice -> InvoiceRow \cup {NoInvoice}]
ReceiptTable == [Receipt -> ReceiptRow \cup {NoReceipt}]

Init ==
  /\ LedgerInit
  /\ invoices = [i \in Invoice |-> NoInvoice]
  /\ receipts = [r \in Receipt |-> NoReceipt]
  /\ delivered = 0
  /\ overlapped = FALSE

(***************************************************************************)
(* The domain objects                                                      *)
(***************************************************************************)
IsOpen(inv) == inv.status \in {"ISSUED", "PARTIALLY_PAID"}
OpenBalance(inv) == inv.total - inv.settled

NewInvoice(type, status, date, total, linked, original) ==
  [type |-> type, status |-> status, date |-> date, total |-> total,
   settled |-> 0, linked |-> linked, original |-> original]

\* Mutant: the balance is not checked.
SettlesPastBalance(inv, amount) == IsOpen(inv) /\ amount \in 1 .. inv.total

CanSettle(inv, amount) == IsOpen(inv) /\ amount \in 1 .. OpenBalance(inv)
ApplySettlement(inv, amount) ==
  [inv EXCEPT !.settled = @ + amount,
              !.status = IF inv.settled + amount = inv.total THEN "PAID"
                         ELSE "PARTIALLY_PAID"]

CanUnsettle(inv, amount) ==
  inv.status \in {"PAID", "PARTIALLY_PAID"} /\ amount \in 1 .. inv.settled
\* Mutant: everything settled is put back on the balance.
ReversesEverything(inv, amount) ==
  [inv EXCEPT !.settled = 0, !.status = "ISSUED"]

ReverseSettlement(inv, amount) ==
  [inv EXCEPT !.settled = @ - amount,
              !.status = IF inv.settled = amount THEN "ISSUED"
                         ELSE "PARTIALLY_PAID"]


CanVoid(inv) == inv.status \in {"DRAFT", "ISSUED"}

\* Mutant: a credit note is posted like an invoice.
LinesOfAnyType(type, amount) ==
  [Zero EXCEPT !["CONTROL"] = amount, !["RESULT"] = - amount]

\* arInvoiceLines and arReceiptLines.
InvoiceLines(type, amount) ==
  LET owed == IF type = "CREDIT_NOTE" THEN - amount ELSE amount
  IN  [Zero EXCEPT !["CONTROL"] = owed, !["RESULT"] = - owed]
ReceiptLines(amount) ==
  [Zero EXCEPT !["CONTROL"] = - amount, !["MONEY"] = amount]

\* An edit of the header leaves the lines; new lines are manual lines, which
\* lose the order line.
Edits(inv, amount, p) ==
  {[inv EXCEPT !.date = p],
   [inv EXCEPT !.date = p, !.total = amount, !.linked = FALSE]}
Issued(inv) == [inv EXCEPT !.status = "ISSUED"]
VoidedInvoice(inv) == [inv EXCEPT !.status = "VOID"]
Applied(note) == [note EXCEPT !.status = "APPLIED", !.settled = note.total]

NewReceipt(amount, alloc, p) ==
  [status |-> "DRAFT", date |-> p, amount |-> amount, alloc |-> alloc]
PostedReceipt(rc) == [rc EXCEPT !.status = "POSTED"]
VoidedReceipt(rc) == [rc EXCEPT !.status = "VOID"]

Allocated(r) == {i \in Invoice : receipts[r].alloc[i] > 0}

(***************************************************************************)
(* Rows.  A create finds no row; a save finds the version it read.         *)
(***************************************************************************)
InsertInvoice(i, row) ==
  invoices[i] = NoInvoice /\ invoices' = [invoices EXCEPT ![i] = row]
SaveInvoices(rows) ==
  invoices' = [i \in Invoice |-> IF i \in DOMAIN rows THEN rows[i] ELSE invoices[i]]
SaveInvoice(i, row) == invoices' = [invoices EXCEPT ![i] = row]
InsertReceipt(r, row) ==
  receipts[r] = NoReceipt /\ receipts' = [receipts EXCEPT ![r] = row]
SaveReceipt(r, row) == receipts' = [receipts EXCEPT ![r] = row]

(***************************************************************************)
(* Invoices                                                                *)
(***************************************************************************)
\* Sales ships another unit of the order.
Deliver ==
  /\ delivered < MaxAmount
  /\ delivered' = delivered + 1
  /\ UNCHANGED <<ledgerVars, call, invoices, receipts, overlapped>>

\* Mutant: drafts do not count as invoiced.
QtyIssued ==
  SumFunction([i \in {i \in Invoice :
                        /\ invoices[i].status \notin {"NONE", "DRAFT", "VOID"}
                        /\ invoices[i].type = "INVOICE"
                        /\ invoices[i].linked} |-> invoices[i].total])

\* invoicedQtyBySalesOrderLine
InvoicedQty ==
  SumFunction([i \in {i \in Invoice : /\ invoices[i] # NoInvoice
                                      /\ invoices[i].type = "INVOICE"
                                      /\ invoices[i].status # "VOID"
                                      /\ invoices[i].linked} |-> invoices[i].total])

OpenQty == delivered - InvoicedQty

\* The order and what is invoiced of it are only read.
BeginCreateFromOrder(c, qty, p) ==
  /\ Start(c, [op |-> "bill", at |-> p, amount |-> qty])
  /\ qty \in 1 .. OpenQty
  /\ UNCHANGED <<ledgerVars, arVars>>

CreateFromOrder(c, i) ==
  /\ call[c].op = "bill"
  /\ InsertInvoice(i, NewInvoice("INVOICE", "DRAFT", call[c].at, call[c].amount,
                                 TRUE, NoInvoice))
  /\ overlapped' = (overlapped \/ \E k \in Caller \ {c} : call[k].op = "bill")
  /\ Finish(c)
  /\ UNCHANGED <<ledgerVars, receipts, delivered>>

CreateManualInvoice(i, amount, p) ==
  /\ InsertInvoice(i, NewInvoice("INVOICE", "DRAFT", p, amount, FALSE, NoInvoice))
  /\ UNCHANGED <<ledgerVars, call, receipts, delivered, overlapped>>

UpdateInvoice(i, amount, p) ==
  /\ invoices[i].status = "DRAFT"
  /\ \E row \in Edits(invoices[i], amount, p) : SaveInvoice(i, row)
  /\ UNCHANGED <<ledgerVars, call, receipts, delivered, overlapped>>

IssueInvoice(c, i) ==
  /\ invoices[i].status = "DRAFT"
  /\ ThroughGate(c, invoices[i].date)
  /\ SaveInvoice(i, Issued(invoices[i]))
  /\ entries' = Posting(entries, Posted(i),
       InvoiceLines(invoices[i].type, invoices[i].total), invoices[i].date)
  /\ UNCHANGED <<decision, year, cleared, receipts, delivered, overlapped>>

VoidDraftInvoice(i) ==
  /\ invoices[i].status = "DRAFT"
  /\ CanVoid(invoices[i])
  /\ SaveInvoice(i, VoidedInvoice(invoices[i]))
  /\ UNCHANGED <<ledgerVars, call, receipts, delivered, overlapped>>

VoidInvoice(c, i, p) ==
  /\ invoices[i].status # "DRAFT" /\ CanVoid(invoices[i])
  /\ ThroughGate(c, p)
  /\ SaveInvoice(i, VoidedInvoice(invoices[i]))
  /\ entries' = Reversing(entries, i, p)
  /\ UNCHANGED <<decision, year, cleared, receipts, delivered, overlapped>>

CanBeNoted(inv) ==
  /\ inv # NoInvoice /\ inv.type = "INVOICE"
  /\ inv.status \notin {"DRAFT", "VOID"}

\* The original is saved with the credit note, under its version.
CreditNote(c, i, n, amount, p) ==
  /\ CanBeNoted(invoices[i]) /\ CanSettle(invoices[i], amount)
  /\ invoices[n] = NoInvoice
  /\ ThroughGate(c, p)
  /\ LET note == NewInvoice("CREDIT_NOTE", "ISSUED", p, amount,
                            invoices[i].linked, i)
     IN  SaveInvoices([k \in {i, n} |-> IF k = n THEN Applied(note)
                                        ELSE ApplySettlement(invoices[k], amount)])
  /\ entries' = Posting(entries, Posted(n),
                        InvoiceLines("CREDIT_NOTE", amount), p)
  /\ UNCHANGED <<decision, year, cleared, receipts, delivered, overlapped>>

\* A debit note only reads its original.
BeginDebitNote(c, i, amount, p) ==
  /\ CanBeNoted(invoices[i]) /\ GateOpen(p)
  /\ Start(c, [op |-> "debit", at |-> p, amount |-> amount,
               original |-> i])
  /\ UNCHANGED <<ledgerVars, arVars>>

DebitNote(c, n) ==
  /\ call[c].op = "debit"
  /\ InsertInvoice(n, NewInvoice("DEBIT_NOTE", "ISSUED", call[c].at, call[c].amount,
                                 invoices[call[c].original].linked, call[c].original))
  /\ entries' = Posting(entries, Posted(n),
                        InvoiceLines("DEBIT_NOTE", call[c].amount), call[c].at)
  /\ Finish(c)
  /\ UNCHANGED <<decision, year, cleared, receipts, delivered, overlapped>>

(***************************************************************************)
(* Receipts                                                                *)
(***************************************************************************)
Allocation(amount) ==
  {alloc \in [Invoice -> 0 .. amount] : SumFunction(alloc) <= amount}

\* Checked against the balances of the moment; posting checks them again.
CreateReceipt(r, amount, alloc, p) ==
  /\ InsertReceipt(r, NewReceipt(amount, alloc, p))
  /\ alloc \in Allocation(amount)
  /\ \A i \in Invoice : alloc[i] > 0 => CanSettle(invoices[i], alloc[i])
  /\ UNCHANGED <<ledgerVars, call, invoices, delivered, overlapped>>

\* Every allocated invoice is loaded and saved here, or nothing is.
PostReceipt(c, r) ==
  /\ receipts[r].status = "DRAFT"
  /\ \A i \in Allocated(r) : CanSettle(invoices[i], receipts[r].alloc[i])
  /\ ThroughGate(c, receipts[r].date)
  /\ SaveInvoices([i \in Allocated(r) |->
                     ApplySettlement(invoices[i], receipts[r].alloc[i])])
  /\ SaveReceipt(r, PostedReceipt(receipts[r]))
  /\ entries' = Posting(entries, Posted(r),
                        ReceiptLines(receipts[r].amount), receipts[r].date)
  /\ UNCHANGED <<decision, year, cleared, delivered, overlapped>>

VoidDraftReceipt(r) ==
  /\ receipts[r].status = "DRAFT"
  /\ SaveReceipt(r, VoidedReceipt(receipts[r]))
  /\ UNCHANGED <<ledgerVars, call, invoices, delivered, overlapped>>

VoidReceipt(c, r, p) ==
  /\ receipts[r].status = "POSTED"
  /\ \A i \in Allocated(r) : CanUnsettle(invoices[i], receipts[r].alloc[i])
  /\ ThroughGate(c, p)
  /\ SaveInvoices([i \in Allocated(r) |->
                     ReverseSettlement(invoices[i], receipts[r].alloc[i])])
  /\ SaveReceipt(r, VoidedReceipt(receipts[r]))
  /\ entries' = Reversing(entries, r, p)
  /\ UNCHANGED <<decision, year, cleared, delivered, overlapped>>

InvoiceNext ==
  \/ Deliver
  \/ \E i \in Invoice, p \in Period :
       \/ VoidDraftInvoice(i)
       \/ \E amount \in Totals :
            CreateManualInvoice(i, amount, p) \/ UpdateInvoice(i, amount, p)
  \/ \E c \in Caller, i \in Invoice, p \in Period :
       \/ \E qty \in Amount : BeginCreateFromOrder(c, qty, p)
       \/ CreateFromOrder(c, i) \/ DebitNote(c, i)
       \/ IssueInvoice(c, i) \/ VoidInvoice(c, i, p)
       \/ \E n \in Invoice, amount \in Amount : CreditNote(c, i, n, amount, p)
       \/ \E amount \in Totals : BeginDebitNote(c, i, amount, p)

ReceiptNext ==
  \E r \in Receipt, p \in Period :
    \/ VoidDraftReceipt(r)
    \/ \E amount \in Totals :
         \E alloc \in Allocation(amount) : CreateReceipt(r, amount, alloc, p)
    \/ \E c \in Caller : PostReceipt(c, r) \/ VoidReceipt(c, r, p)

Next == (LedgerNext /\ UNCHANGED arVars) \/ InvoiceNext \/ ReceiptNext

Spec == Init /\ [][Next]_vars

(***************************************************************************)
(* Properties                                                              *)
(***************************************************************************)
\* Every table holds rows of its kind, and a call that looked at an original
\* before it writes a debit note looked at an invoice that exists.
TypeOK ==
  /\ LedgerTypeOK
  /\ invoices \in InvoiceTable /\ receipts \in ReceiptTable
  /\ delivered \in 0 .. MaxAmount /\ overlapped \in BOOLEAN
  /\ \A c \in Caller :
       call[c].op = "debit" => invoices[call[c].original] # NoInvoice

\* The keys of the entries a document caused, with a reversal by hand.
EntriesOf(s) == {Posted(s), Voided(s)}
ReversedByHand(s) == entries[NoKey] # NoEntry
                       /\ entries[NoKey].reversalOf \in EntriesOf(s)

InvoiceEffect(inv) ==
  CASE inv.status \in {"NONE", "DRAFT", "VOID"} -> 0
    [] inv.status = "APPLIED" -> - inv.total
    [] OTHER -> inv.total
ReceiptEffect(r) == IF r.status = "POSTED" THEN - r.amount ELSE 0

\* The ledger says of every document what the document says of itself,
\* whatever calls overlap: its entries add up on the control account to its
\* own effect, once it is issued or posted and back to nothing once it is
\* void.  An accountant who reverses an entry by hand takes that document
\* out (posting.service.ts: post by source key, reverse).
EntriesMatchDocuments ==
  /\ \A i \in Invoice : ReversedByHand(i)
       \/ Total("CONTROL", EntriesOf(i)) = InvoiceEffect(invoices[i])
  /\ \A r \in Receipt : ReversedByHand(r)
       \/ Total("CONTROL", EntriesOf(r)) = ReceiptEffect(receipts[r])

\* What is settled of an invoice is the sum of the allocations of the
\* posted receipts and of the credit notes that name it, and never more
\* than its total: no settlement is lost or applied twice when receipts
\* and notes meet on one invoice (sales-invoice.ts, applySettlement).
SettledIsItsSources ==
  \A i \in Invoice :
    invoices[i] # NoInvoice /\ invoices[i].type # "CREDIT_NOTE" =>
      /\ invoices[i].settled <= invoices[i].total
      /\ invoices[i].settled =
           SumFunction([r \in {r \in Receipt : receipts[r].status = "POSTED"} |->
                          receipts[r].alloc[i]])
         + SumFunction([n \in {n \in Invoice : /\ invoices[n] # NoInvoice
                                               /\ invoices[n].type = "CREDIT_NOTE"
                                               /\ invoices[n].original = i} |->
                          invoices[n].total])

\* The invoices drawn from the order, as long as their lines point at it,
\* bill no more than was delivered, unless two of them were created from
\* the same reading of the order (invoice.use-cases.ts,
\* CreateInvoiceFromSalesOrderUseCase saves nothing on the order).
BilledAtMostDelivered ==
  overlapped \/
    SumFunction([i \in {i \in Invoice : /\ invoices[i].status \notin {"NONE", "VOID"}
                                        /\ invoices[i].type = "INVOICE"
                                        /\ invoices[i].linked} |->
                   invoices[i].total]) <= delivered

\* A posted receipt can be voided when the gate is open: each invoice it
\* settled still carries the settlement it has to give back
\* (receipt.use-cases.ts, VoidReceiptUseCase).
PostedReceiptCanBeVoided ==
  \A r \in Receipt : receipts[r].status = "POSTED" =>
    \A i \in Allocated(r) : CanUnsettle(invoices[i], receipts[r].alloc[i])

\* Receipts, credit notes and invoices agree on what is settled, before and
\* after any of them is voided.
SettlementsHoldTogether == SettledIsItsSources /\ PostedReceiptCanBeVoided
============================================================================
