----------------------------- MODULE MCPayable -----------------------------
(***************************************************************************)
(* Purchasing, payables and the ledger on a few documents.  A scope bounds *)
(* each behaviour to the parts of the system that share state, and to as   *)
(* many documents as their interplay needs; the rest stays as it began.    *)
(***************************************************************************)
EXTENDS Payable, TLC

VARIABLE scope

Manuals == {[Zero EXCEPT !["RESULT"] = -1, !["MONEY"] = 1]}
Payments == {Posted(v) : v \in Voucher}
Symmetry == Permutations(Invoice) \cup Permutations(Voucher)
              \cup Permutations(Batch)

AtMost(n, rows, none) == Cardinality({x \in DOMAIN rows : rows[x] # none}) <= n

\* Two instances sweep the rules.
Reordering == SweepNext /\ UNCHANGED <<ledgerVars, call, payVars>>

\* A requisition, from its approval to the orders that may come from it.
Requisitioning ==
  /\ RequisitionNext \/ ApprovalNext \/ OrderNext
  /\ AtMost(1, requisitions', NoDoc)
  /\ \A o \in Order : /\ orders'[o].status \in {"NONE", "DRAFT"}
                      /\ requests'[o] = NoRequest
  /\ UNCHANGED <<ledgerVars, call, payVars, sweepVars>>

\* An order and its approval.
Ordering ==
  /\ OrderNext \/ ApprovalNext
  /\ AtMost(1, orders', NoDoc)
  /\ \A q \in Requisition : requests'[q] = NoRequest
  /\ \A o \in Order : orders[o] = NoDoc => requests'[o] = NoRequest
  /\ UNCHANGED <<ledgerVars, call, payVars, sweepVars, requisitions>>

\* Receipts of an order and the invoices captured from it.
Receiving ==
  /\ \/ OrderNext /\ UNCHANGED <<ledgerVars, call, payVars>>
     \/ GoodsReceiptNext /\ UNCHANGED <<ledgerVars, call, payVars>>
     \/ InvoiceNext
  /\ AtMost(1, orders', NoDoc)
  /\ \A o \in Order : requests'[o] # NoRequest => requests'[o].status = "APPROVED"
  /\ \A i \in Invoice : invoices'[i] # NoDoc =>
       invoices'[i].order # NoDoc /\ ~ invoices'[i].wht
  /\ UNCHANGED requisitions

\* Vouchers and batches that pay open invoices.
Paying ==
  /\ \/ InvoiceNext \/ PaymentNext
     \/ CallNext /\ UNCHANGED <<buyVars, sweepVars, payVars>>
  /\ AtMost(1, call', NoCall)
  /\ \A i \in Invoice : invoices'[i] # NoDoc =>
       invoices'[i].total = MaxQty /\ invoices'[i].wht

\* An accountant at work beside an invoice and its voucher.
Keeping ==
  /\ \/ InvoiceNext \/ PaymentNext
     \/ LedgerNext /\ UNCHANGED <<buyVars, sweepVars, payVars>>
  /\ AtMost(1, call', NoCall)
  /\ AtMost(1, invoices', NoDoc) /\ AtMost(1, vouchers', NoDoc)
  /\ AtMost(0, batches', "NONE")

MCInit ==
  Init /\ scope \in {"reorder", "requisition", "order", "receive", "pay", "keep"}
MCNext ==
  /\ \/ scope = "reorder" /\ Reordering
     \/ scope = "requisition" /\ Requisitioning
     \/ scope = "order" /\ Ordering
     \/ scope = "receive" /\ Receiving
     \/ scope = "pay" /\ Paying
     \/ scope = "keep" /\ Keeping
  /\ UNCHANGED scope
MCSpec == MCInit /\ [][MCNext]_<<vars, scope>>
============================================================================
