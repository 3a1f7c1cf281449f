-------------------------- MODULE Receivable_proofs --------------------------
(***************************************************************************)
(* Proofs about receivables and the ledger they post to, for any invoices, *)
(* receipts, callers, periods and amounts.                                 *)
(*                                                                         *)
(* Inv ties three pictures of one document together: its row, the sums     *)
(* over the receipts and notes that settle it, and its entries in the      *)
(* ledger.  A step saves one or a few rows, so each sum changes by what    *)
(* those rows weigh (OneRow), and a posting changes the entries of one     *)
(* document.  Calls are part of Inv: what a call read is still true when   *)
(* it commits, or the property does not need it.                           *)
(*                                                                         *)
(* The last part is about the fiscal year, whose save has no version and   *)
(* writes what its call computed: only an open year is computed on         *)
(* (Transition, Close), and no call keeps anything of a year but what it   *)
(* loaded.                                                                 *)
(***************************************************************************)
EXTENDS Receivable, SumLemmas

(*****************************************************************************)
(* The rows of invoices and receipts, and what is settled                    *)
(*****************************************************************************)
\* A row by its status: what it has settled, and what is a credit note.
RowSound(inv) ==
  /\ inv.type = "CREDIT_NOTE" <=> inv.status = "APPLIED"
  /\ inv.status = "DRAFT" => inv.type = "INVOICE"
  /\ inv.status \in {"DRAFT", "ISSUED", "VOID"} => inv.settled = 0
  /\ inv.status \in {"PARTIALLY_PAID", "PAID"} => inv.settled > 0
  /\ inv.settled <= inv.total
  /\ inv.status = "PAID" <=> inv.status # "APPLIED" /\ inv.settled = inv.total

\* The receipts and notes behind what an invoice has settled.
PostedOf(table) == {r \in Receipt : table[r].status = "POSTED"}
NotesOf(table, i) == {n \in Invoice : /\ table[n] # NoInvoice
                                      /\ table[n].type = "CREDIT_NOTE"
                                      /\ table[n].original = i}
FromReceipts(table, i) == SumFunction([r \in PostedOf(table) |-> table[r].alloc[i]])
FromNotes(table, i) == SumFunction([n \in NotesOf(table, i) |-> table[n].total])

SettledSoFar(inv) == IF inv = NoInvoice THEN 0 ELSE inv.settled

\* The tables alone.
Tables ==
  /\ invoices \in InvoiceTable /\ receipts \in ReceiptTable
  /\ delivered \in 0 .. MaxAmount /\ overlapped \in BOOLEAN

\* Sums and rows agree: the inductive form of SettlementsHoldTogether.
Settlements ==
  /\ \A i \in Invoice : invoices[i] # NoInvoice => RowSound(invoices[i])
  /\ \A i \in Invoice : invoices[i] = NoInvoice \/ invoices[i].type # "CREDIT_NOTE" =>
       SettledSoFar(invoices[i]) = FromReceipts(receipts, i) + FromNotes(invoices, i)
  /\ \A r \in Receipt : receipts[r] # NoReceipt =>
       \A i \in Invoice : receipts[r].alloc[i] > 0 =>
         invoices[i] # NoInvoice /\ invoices[i].type # "CREDIT_NOTE"

\* The tables are finite and amounts are positive.
LEMMA FiniteTables == /\ IsFiniteSet(Invoice) /\ IsFiniteSet(Receipt) /\ MaxAmount \in Nat
                       /\ Totals \subseteq Amount /\ Amount \subseteq 1 .. MaxAmount
                       /\ Amount \subseteq Nat
<1>1. Invoice \in SUBSET Source /\ Receipt \in SUBSET Source
  BY ReceivableAssumption
<1> QED BY <1>1, LedgerAssumption, ReceivableAssumption, FS_Subset DEF Amount

\* A slot of the table holds no row or a row.
LEMMA InvoiceRows ==
  ASSUME NEW table \in InvoiceTable, NEW i \in Invoice
  PROVE /\ table[i] = NoInvoice <=> table[i].status = "NONE"
        /\ table[i] # NoInvoice => table[i] \in InvoiceRow
BY DEF InvoiceTable, InvoiceRow, NoInvoice

\* The same, of receipts.
LEMMA ReceiptRows ==
  ASSUME NEW table \in ReceiptTable, NEW r \in Receipt
  PROVE /\ table[r] = NoReceipt <=> table[r].status = "NONE"
        /\ table[r] # NoReceipt => table[r] \in ReceiptRow
BY DEF ReceiptTable, ReceiptRow, NoReceipt

\* The allocations to an invoice can be summed.
LEMMA ReceiptSum ==
  ASSUME NEW table \in ReceiptTable, NEW i \in Invoice
  PROVE  /\ IsFiniteSet(PostedOf(table))
         /\ [r \in PostedOf(table) |-> table[r].alloc[i]] \in [PostedOf(table) -> Nat]
         /\ [r \in PostedOf(table) |-> table[r].alloc[i]] \in [PostedOf(table) -> Int]
<1>1. PostedOf(table) \in SUBSET Receipt
  BY DEF PostedOf
<1>2. \A r \in PostedOf(table) : table[r].alloc[i] \in Nat
  BY ReceiptRows, FiniteTables DEF ReceiptRow, NoReceipt, PostedOf
<1> QED BY <1>1, <1>2, FiniteTables, FS_Subset

\* The notes on an invoice can be summed.
LEMMA NoteSum ==
  ASSUME NEW table \in InvoiceTable, NEW i \in Invoice
  PROVE  /\ IsFiniteSet(NotesOf(table, i))
         /\ [n \in NotesOf(table, i) |-> table[n].total] \in [NotesOf(table, i) -> Nat]
         /\ [n \in NotesOf(table, i) |-> table[n].total] \in [NotesOf(table, i) -> Int]
<1>1. NotesOf(table, i) \in SUBSET Invoice
  BY DEF NotesOf
<1>2. \A n \in NotesOf(table, i) : table[n].total \in Nat
  BY InvoiceRows, FiniteTables DEF InvoiceRow, NoInvoice, NotesOf, Amount
<1> QED BY <1>1, <1>2, FiniteTables, FS_Subset

\* Both sums are natural, and no allocation is above the sum it is part of.
LEMMA SumsAreNaturals ==
  ASSUME Tables, NEW i \in Invoice
  PROVE  /\ FromReceipts(receipts, i) \in Nat /\ FromNotes(invoices, i) \in Nat
         /\ \A r \in PostedOf(receipts) : receipts[r].alloc[i] <= FromReceipts(receipts, i)
<1>0. invoices \in InvoiceTable /\ receipts \in ReceiptTable
  BY DEF Tables
<1>1. FromNotes(invoices, i) \in Nat
  BY <1>0, NoteSum, SumBounds DEF FromNotes
<1> DEFINE S == PostedOf(receipts)
           g == [r \in S |-> receipts[r].alloc[i]]
<1>2. IsFiniteSet(S) /\ g \in [S -> Nat]
  BY <1>0, ReceiptSum
<1>3. SumFunction(g) \in Nat /\ \A r \in S : g[r] <= SumFunction(g)
  <2> HIDE DEF g, S
  <2> QED BY <1>2, SumBounds
<1> QED BY <1>1, <1>3 DEF FromReceipts

\* What the run checks follows from the invariant.
LEMMA SettlementsFollow ==
  ASSUME Tables, Settlements
  PROVE  SettlementsHoldTogether
<1>1. SettledIsItsSources
  BY InvoiceRows DEF Tables, Settlements, SettledIsItsSources, RowSound, FromReceipts, FromNotes,
     SettledSoFar, NotesOf, PostedOf
<1>2. PostedReceiptCanBeVoided
  <2> SUFFICES ASSUME NEW r \in Receipt, receipts[r].status = "POSTED", NEW i \in Allocated(r)
              PROVE  CanUnsettle(invoices[i], receipts[r].alloc[i])
    BY DEF PostedReceiptCanBeVoided
  <2>1. i \in Invoice /\ receipts[r].alloc[i] > 0 /\ receipts[r] # NoReceipt
    BY DEF Allocated, NoReceipt
  <2>2. invoices[i] # NoInvoice /\ invoices[i].type # "CREDIT_NOTE"
    BY <2>1 DEF Settlements
  <2>3. invoices[i].settled = FromReceipts(receipts, i) + FromNotes(invoices, i)
        /\ RowSound(invoices[i])
    BY <2>1, <2>2 DEF Settlements, SettledSoFar
  <2>4. receipts[r].alloc[i] \in Nat /\ receipts[r].alloc[i] <= FromReceipts(receipts, i)
    BY <2>1, SumsAreNaturals, ReceiptRows, FiniteTables DEF ReceiptRow, PostedOf, Tables
  <2>5. invoices[i].settled \in Nat /\ receipts[r].alloc[i] \in 1 .. invoices[i].settled
    BY <2>1, <2>3, <2>4, SumsAreNaturals
  <2>6. invoices[i].status \in {"PAID", "PARTIALLY_PAID"}
    BY <2>1, <2>2, <2>3, <2>5, InvoiceRows DEF RowSound, InvoiceRow, Tables
  <2> QED BY <2>5, <2>6 DEF CanUnsettle
<1> QED BY <1>1, <1>2 DEF SettlementsHoldTogether

\* A credit note stays one, and nothing becomes one.
KeepsKind(old, row) == row.type # "CREDIT_NOTE" /\ (old = NoInvoice \/ old.type # "CREDIT_NOTE")

\* The notes on an invoice, unchanged by a step.
LEMMA NotesKept ==
  ASSUME NEW i \in Invoice, NotesOf(invoices', i) = NotesOf(invoices, i),
         \A n \in NotesOf(invoices, i) : invoices'[n].total = invoices[n].total
  PROVE  FromNotes(invoices, i)' = FromNotes(invoices, i)
<1>1. [n \in NotesOf(invoices', i) |-> invoices'[n].total]
        = [n \in NotesOf(invoices, i) |-> invoices[n].total]
  OBVIOUS
<1> QED BY <1>1 DEF FromNotes

\* The allocations to an invoice, unchanged by a step.
LEMMA ReceiptsKept ==
  ASSUME NEW i \in Invoice, PostedOf(receipts') = PostedOf(receipts),
         \A r \in PostedOf(receipts) : receipts'[r].alloc = receipts[r].alloc
  PROVE  FromReceipts(receipts, i)' = FromReceipts(receipts, i)
<1>1. [r \in PostedOf(receipts') |-> receipts'[r].alloc[i]]
        = [r \in PostedOf(receipts) |-> receipts[r].alloc[i]]
  OBVIOUS
<1> QED BY <1>1 DEF FromReceipts

\* One invoice saved, which is no credit note and as settled as before.
LEMMA OneInvoice ==
  ASSUME Tables, Settlements, NEW i \in Invoice, NEW row \in InvoiceRow, RowSound(row),
         invoices' = [invoices EXCEPT ![i] = row], receipts' = receipts,
         delivered' \in 0 .. MaxAmount, overlapped' \in BOOLEAN,
         KeepsKind(invoices[i], row), row.settled = SettledSoFar(invoices[i])
  PROVE  Tables' /\ Settlements'
<1>1. row # NoInvoice
  BY DEF InvoiceRow, NoInvoice
<1>2. invoices'[i] = row /\ \A k \in Invoice \ {i} : invoices'[k] = invoices[k]
  BY DEF Tables, InvoiceTable
<1>3. Tables'
  BY DEF Tables, InvoiceTable
<1>4. ASSUME NEW k \in Invoice
      PROVE  /\ FromNotes(invoices, k)' = FromNotes(invoices, k)
             /\ FromReceipts(receipts, k)' = FromReceipts(receipts, k)
  <2>1. /\ NotesOf(invoices', k) = NotesOf(invoices, k)
        /\ \A m \in NotesOf(invoices, k) : invoices'[m].total = invoices[m].total
    BY <1>2 DEF NotesOf, KeepsKind
  <2> QED BY <2>1, <1>3, NotesKept, ReceiptsKept
<1>5. \A k \in Invoice : invoices'[k] # NoInvoice => RowSound(invoices'[k])
  BY <1>2 DEF Settlements
<1>6. \A k \in Invoice : invoices'[k] = NoInvoice \/ invoices'[k].type # "CREDIT_NOTE" =>
       SettledSoFar(invoices'[k]) = FromReceipts(receipts, k)' + FromNotes(invoices, k)'
  <2> SUFFICES ASSUME NEW k \in Invoice,
                      invoices'[k] = NoInvoice \/ invoices'[k].type # "CREDIT_NOTE"
               PROVE SettledSoFar(invoices'[k])
                       = FromReceipts(receipts, k) + FromNotes(invoices, k)
    BY <1>4
  <2>1. CASE k = i
    BY <2>1, <1>1, <1>2 DEF Settlements, SettledSoFar, KeepsKind
  <2>2. CASE k # i
    BY <2>2, <1>2 DEF Settlements, SettledSoFar
  <2> QED BY <2>1, <2>2
<1>7. \A r \in Receipt : receipts'[r] # NoReceipt =>
       \A k \in Invoice : receipts'[r].alloc[k] > 0 =>
         invoices'[k] # NoInvoice /\ invoices'[k].type # "CREDIT_NOTE"
  BY <1>1, <1>2 DEF Settlements, KeepsKind
<1> QED BY <1>3, <1>5, <1>6, <1>7 DEF Settlements

\* A receipt saved that settles nothing, before and after.
LEMMA OneDraft ==
  ASSUME Tables, Settlements, NEW r \in Receipt, NEW row \in ReceiptRow,
         receipts' = [receipts EXCEPT ![r] = row], invoices' = invoices,
         delivered' = delivered, overlapped' = overlapped,
         receipts[r].status # "POSTED", row.status # "POSTED",
         \A i \in Invoice : row.alloc[i] > 0 =>
           invoices[i] # NoInvoice /\ invoices[i].type # "CREDIT_NOTE"
  PROVE  Tables' /\ Settlements'
<1>2. receipts'[r] = row /\ \A k \in Receipt \ {r} : receipts'[k] = receipts[k]
  BY DEF Tables, ReceiptTable
<1>3. Tables'
  BY DEF Tables, ReceiptTable
<1>4. ASSUME NEW k \in Invoice
      PROVE  /\ FromNotes(invoices, k)' = FromNotes(invoices, k)
             /\ FromReceipts(receipts, k)' = FromReceipts(receipts, k)
  <2>1. /\ NotesOf(invoices', k) = NotesOf(invoices, k)
        /\ \A m \in NotesOf(invoices, k) : invoices'[m].total = invoices[m].total
    BY DEF NotesOf
  <2>2. PostedOf(receipts') = PostedOf(receipts)
        /\ \A x \in PostedOf(receipts) : receipts'[x].alloc = receipts[x].alloc
    BY <1>2 DEF PostedOf
  <2> QED BY <2>1, <2>2, <1>3, NotesKept, ReceiptsKept
<1> QED BY <1>2, <1>3, <1>4 DEF Settlements

\* A credit note and its original in one save.
LEMMA NoteApplied ==
  ASSUME Tables, Settlements, NEW i \in Invoice, NEW n \in Invoice, i # n,
         NEW row \in InvoiceRow, RowSound(row), row.type = "CREDIT_NOTE", row.original = i,
         NEW orig \in InvoiceRow, RowSound(orig), orig.type # "CREDIT_NOTE",
         invoices[i] # NoInvoice, invoices[i].type # "CREDIT_NOTE",
         orig.settled = invoices[i].settled + row.total,
         invoices[n] = NoInvoice,
         invoices' = [k \in Invoice |-> IF k = n THEN row
                                        ELSE IF k = i THEN orig ELSE invoices[k]],
         receipts' = receipts, delivered' = delivered, overlapped' = overlapped
  PROVE  Tables' /\ Settlements'
<1>1. row # NoInvoice /\ orig # NoInvoice
  BY DEF InvoiceRow, NoInvoice
<1>2. /\ invoices'[i] = orig /\ invoices'[n] = row
      /\ \A k \in Invoice \ {i, n} : invoices'[k] = invoices[k]
  OBVIOUS
<1>3. Tables'
  BY DEF Tables, InvoiceTable
<1>4. ASSUME NEW k \in Invoice PROVE FromReceipts(receipts, k)' = FromReceipts(receipts, k)
  BY ReceiptsKept
<1>5. ASSUME NEW k \in Invoice, k # i PROVE FromNotes(invoices, k)' = FromNotes(invoices, k)
  <2>1. /\ NotesOf(invoices', k) = NotesOf(invoices, k)
        /\ \A m \in NotesOf(invoices, k) : invoices'[m].total = invoices[m].total
    BY <1>2, <1>5 DEF NotesOf
  <2> QED BY <2>1, <1>3, NotesKept
<1>6. FromNotes(invoices, i)' = FromNotes(invoices, i) + row.total
  <2> DEFINE S == NotesOf(invoices, i)
             T == NotesOf(invoices', i)
             g == [m \in S |-> invoices[m].total]
             h == [m \in T |-> invoices'[m].total]
  <2>1. IsFiniteSet(S) /\ g \in [S -> Int]
    BY NoteSum DEF Tables
  <2>2. IsFiniteSet(T) /\ h \in [T -> Int]
    BY <1>3, NoteSum DEF Tables
  <2>3. n \in T /\ n \notin S /\ S \ {n} = T \ {n} /\ \A m \in S \ {n} :
        invoices'[m].total = invoices[m].total
    BY <1>1, <1>2 DEF NotesOf
  <2>4. h[n] = row.total /\ \A m \in S \ {n} : g[m] = h[m]
    BY <2>3, <1>2
  <2>5. FromNotes(invoices, i) = SumFunction(g) /\ FromNotes(invoices, i)' = SumFunction(h)
        /\ SumFunction(g) \in Nat /\ row.total \in Nat
    <3>1. FromNotes(invoices, i) \in Nat
      BY SumsAreNaturals
    <3> QED BY <3>1, FiniteTables DEF FromNotes, InvoiceRow, Amount
  <2> HIDE DEF S, T, g, h
  <2>6. SumFunction(h) = SumFunction(g) - (IF n \in S THEN g[n] ELSE 0)
                                        + (IF n \in T THEN h[n] ELSE 0)
    BY <2>1, <2>2, <2>3, <2>4, OneRow
  <2>7. SumFunction(h) = SumFunction(g) + row.total
    BY <2>3, <2>4, <2>5, <2>6
  <2> QED BY <2>5, <2>7
<1>7. \A k \in Invoice : invoices'[k] # NoInvoice => RowSound(invoices'[k])
  BY <1>2 DEF Settlements
<1>8. \A k \in Invoice : invoices'[k] = NoInvoice \/ invoices'[k].type # "CREDIT_NOTE" =>
       SettledSoFar(invoices'[k]) = FromReceipts(receipts, k)' + FromNotes(invoices, k)'
  <2> SUFFICES ASSUME NEW k \in Invoice,
                      invoices'[k] = NoInvoice \/ invoices'[k].type # "CREDIT_NOTE"
               PROVE SettledSoFar(invoices'[k])
                       = FromReceipts(receipts, k)' + FromNotes(invoices, k)'
    OBVIOUS
  <2>1. CASE k = i
    <3>1. invoices[i].settled = FromReceipts(receipts, i) + FromNotes(invoices, i)
      BY DEF Settlements, SettledSoFar
    <3>2. FromReceipts(receipts, i) \in Nat /\ FromNotes(invoices, i) \in Nat
          /\ row.total \in Nat
      BY SumsAreNaturals, FiniteTables DEF InvoiceRow, Amount
    <3> QED BY <2>1, <3>1, <3>2, <1>1, <1>2, <1>4, <1>6 DEF SettledSoFar
  <2>2. CASE k # i
    BY <2>2, <1>1, <1>2, <1>4, <1>5 DEF Settlements, SettledSoFar
  <2> QED BY <2>1, <2>2
<1>9. \A r \in Receipt : receipts'[r] # NoReceipt =>
       \A k \in Invoice : receipts'[r].alloc[k] > 0 =>
         invoices'[k] # NoInvoice /\ invoices'[k].type # "CREDIT_NOTE"
  BY <1>1, <1>2 DEF Settlements
<1> QED BY <1>3, <1>7, <1>8, <1>9 DEF Settlements

\* A receipt posted or voided with every invoice it allocates to.
LEMMA ReceiptApplied ==
  ASSUME Tables, Settlements, NEW r \in Receipt, NEW row \in ReceiptRow, 
         receipts[r] # NoReceipt, row.alloc = receipts[r].alloc,
         (row.status = "POSTED") = ~ (receipts[r].status = "POSTED"),
         receipts' = [receipts EXCEPT ![r] = row],
         invoices' \in InvoiceTable,
         \A i \in Invoice :
           IF i \notin Allocated(r) THEN invoices'[i] = invoices[i] ELSE
           /\ invoices'[i] # NoInvoice /\ RowSound(invoices'[i])
           /\ invoices'[i].type = invoices[i].type
           /\ invoices'[i].settled = invoices[i].settled
                + (IF row.status = "POSTED" THEN row.alloc[i] ELSE - row.alloc[i]),
         delivered' = delivered, overlapped' = overlapped
  PROVE  Tables' /\ Settlements'
<1>2. receipts'[r] = row /\ \A k \in Receipt \ {r} : receipts'[k] = receipts[k]
  BY DEF Tables, ReceiptTable
<1>3. Tables'
  BY DEF Tables, ReceiptTable
<1>4. \A i \in Invoice : row.alloc[i] \in Nat /\ (i \in Allocated(r) <=> row.alloc[i] > 0)
  BY FiniteTables DEF ReceiptRow, Allocated
<1>5. \A i \in Allocated(r) : i \in Invoice /\ invoices[i] # NoInvoice
      /\ invoices[i].type # "CREDIT_NOTE"
  BY DEF Settlements, Allocated
<1>6. ASSUME NEW k \in Invoice PROVE FromNotes(invoices, k)' = FromNotes(invoices, k)
  <2>1. /\ NotesOf(invoices', k) = NotesOf(invoices, k)
        /\ \A m \in NotesOf(invoices, k) : invoices'[m].total = invoices[m].total
    BY <1>5 DEF NotesOf
  <2> QED BY <2>1, <1>3, NotesKept
<1>7. ASSUME NEW k \in Invoice
      PROVE FromReceipts(receipts, k)' = FromReceipts(receipts, k)
              + (IF row.status = "POSTED" THEN row.alloc[k] ELSE - row.alloc[k])
  <2> DEFINE S == PostedOf(receipts)
             T == PostedOf(receipts')
             g == [m \in S |-> receipts[m].alloc[k]]
             h == [m \in T |-> receipts'[m].alloc[k]]
  <2>1. IsFiniteSet(S) /\ g \in [S -> Int]
    BY ReceiptSum DEF Tables
  <2>2. IsFiniteSet(T) /\ h \in [T -> Int]
    BY <1>3, ReceiptSum DEF Tables
  <2>3. S \ {r} = T \ {r} /\ (r \in T <=> r \notin S) /\ (r \in T <=> row.status = "POSTED")
    BY <1>2 DEF PostedOf
  <2>4. (r \in T => h[r] = row.alloc[k]) /\ (r \in S => g[r] = row.alloc[k])
        /\ \A m \in S \ {r} : g[m] = h[m]
    BY <2>3, <1>2 DEF PostedOf
  <2>5. FromReceipts(receipts, k) = SumFunction(g) /\ FromReceipts(receipts, k)' = SumFunction(h)
        /\ SumFunction(g) \in Nat /\ row.alloc[k] \in Nat
    <3>1. FromReceipts(receipts, k) \in Nat
      BY SumsAreNaturals
    <3> QED BY <3>1, <1>4 DEF FromReceipts
  <2> HIDE DEF S, T, g, h
  <2>6. SumFunction(h)
          = SumFunction(g) - (IF r \in S THEN g[r] ELSE 0) + (IF r \in T THEN h[r] ELSE 0)
    BY <2>1, <2>2, <2>3, <2>4, OneRow
  <2>7. CASE row.status = "POSTED"
    <3>1. r \in T /\ r \notin S
      BY <2>7, <2>3
    <3> QED BY <3>1, <2>7, <2>4, <2>5, <2>6
  <2>8. CASE row.status # "POSTED"
    <3>1. r \in S /\ r \notin T
      BY <2>8, <2>3
    <3> QED BY <3>1, <2>8, <2>4, <2>5, <2>6
  <2> QED BY <2>7, <2>8
<1>8. \A k \in Invoice : invoices'[k] # NoInvoice => RowSound(invoices'[k])
  BY DEF Settlements
<1>9. \A k \in Invoice : invoices'[k] = NoInvoice \/ invoices'[k].type # "CREDIT_NOTE" =>
       SettledSoFar(invoices'[k]) = FromReceipts(receipts, k)' + FromNotes(invoices, k)'
  <2> SUFFICES ASSUME NEW k \in Invoice,
                      invoices'[k] = NoInvoice \/ invoices'[k].type # "CREDIT_NOTE"
               PROVE SettledSoFar(invoices'[k])
                       = FromReceipts(receipts, k)' + FromNotes(invoices, k)'
    OBVIOUS
  <2> DEFINE change == IF row.status = "POSTED" THEN row.alloc[k] ELSE - row.alloc[k]
             a == FromReceipts(receipts, k)
             b == FromNotes(invoices, k)
  <2>0. a \in Nat /\ b \in Nat /\ change \in Int
    BY SumsAreNaturals, <1>4
  <2>3. FromReceipts(receipts, k)' = a + change /\ FromNotes(invoices, k)' = b
    BY <1>6, <1>7
  <2>1. CASE k \in Allocated(r)
    <3>1. invoices[k].settled = a + b
      BY <2>1, <1>5 DEF Settlements, SettledSoFar
    <3>2. /\ SettledSoFar(invoices'[k]) = invoices'[k].settled
          /\ invoices'[k].settled = invoices[k].settled + change
      BY <2>1 DEF SettledSoFar
    <3> HIDE DEF change, a, b
    <3> QED BY <3>1, <3>2, <2>0, <2>3
  <2>2. CASE k \notin Allocated(r)
    <3>1. SettledSoFar(invoices[k]) = a + b /\ invoices'[k] = invoices[k]
      BY <2>2 DEF Settlements
    <3>2. change = 0
      BY <2>2, <1>4
    <3> HIDE DEF change, a, b
    <3> QED BY <3>1, <3>2, <2>0, <2>3
  <2> QED BY <2>1, <2>2
<1>10. \A x \in Receipt : receipts'[x] # NoReceipt =>
       \A k \in Invoice : receipts'[x].alloc[k] > 0 =>
         invoices'[k] # NoInvoice /\ invoices'[k].type # "CREDIT_NOTE"
  BY <1>2, <1>5 DEF Settlements
<1> QED BY <1>3, <1>8, <1>9, <1>10 DEF Settlements

\* A row is its fields.
LEMMA RowShape ==
  ASSUME NEW inv \in InvoiceRow
  PROVE  inv = [type |-> inv.type, status |-> inv.status, date |-> inv.date,
                total |-> inv.total, settled |-> inv.settled, linked |-> inv.linked,
                original |-> inv.original]
  BY DEF InvoiceRow

\* A row with the fields that edits and settlements write.
LEMMA SavedShape ==
  ASSUME NEW inv \in InvoiceRow, NEW date, NEW total, NEW settled, NEW linked, NEW status
  PROVE  /\ [inv EXCEPT !.date = date, !.total = total, !.linked = linked]
              = [type |-> inv.type, status |-> inv.status, date |-> date,
                 total |-> total, settled |-> inv.settled, linked |-> linked,
                 original |-> inv.original]
         /\ [inv EXCEPT !.settled = settled, !.status = status]
              = [type |-> inv.type, status |-> status, date |-> inv.date,
                 total |-> inv.total, settled |-> settled, linked |-> inv.linked,
                 original |-> inv.original]
<1> DEFINE f1 == inv.type
           f2 == inv.status
           f3 == inv.date
           f4 == inv.total
           f5 == inv.settled
           f6 == inv.linked
           f7 == inv.original
           a == [inv EXCEPT !.date = date]
           b == [a EXCEPT !.total = total]
           c == [inv EXCEPT !.settled = settled]
<1>1. inv = [type |-> f1, status |-> f2, date |-> f3, total |-> f4, settled |-> f5,
             linked |-> f6, original |-> f7]
  BY RowShape
<1> HIDE DEF f1, f2, f3, f4, f5, f6, f7
<1>2. a = [type |-> f1, status |-> f2, date |-> date, total |-> f4, settled |-> f5,
           linked |-> f6, original |-> f7]
  BY <1>1
<1>3. c = [type |-> f1, status |-> f2, date |-> f3, total |-> f4, settled |-> settled,
           linked |-> f6, original |-> f7]
  BY <1>1
<1>4. /\ [inv EXCEPT !.date = date, !.total = total, !.linked = linked]
             = [b EXCEPT !.linked = linked]
      /\ [inv EXCEPT !.settled = settled, !.status = status] = [c EXCEPT !.status = status]
  OBVIOUS
<1> HIDE DEF a, c
<1>5. b = [type |-> f1, status |-> f2, date |-> date, total |-> total, settled |-> f5,
           linked |-> f6, original |-> f7]
  BY <1>2
<1> HIDE DEF b
<1>6. [b EXCEPT !.linked = linked]
        = [type |-> f1, status |-> f2, date |-> date, total |-> total, settled |-> f5,
           linked |-> linked, original |-> f7]
  BY <1>5
<1>7. [c EXCEPT !.status = status]
        = [type |-> f1, status |-> status, date |-> f3, total |-> f4, settled |-> settled,
           linked |-> f6, original |-> f7]
  BY <1>3
<1> QED BY <1>4, <1>6, <1>7 DEF f1, f2, f3, f4, f5, f6, f7

\* NewInvoice: a draft, or a debit note that is issued at once.
LEMMA NewRow ==
  ASSUME NEW type \in {"INVOICE", "DEBIT_NOTE"}, NEW status \in {"DRAFT", "ISSUED"},
         status = "DRAFT" => type = "INVOICE",
         NEW p \in Period, NEW total \in Amount, NEW linked \in BOOLEAN,
         NEW original \in Invoice \cup {NoInvoice}
  PROVE  LET row == NewInvoice(type, status, p, total, linked, original)
         IN  /\ row \in InvoiceRow /\ RowSound(row) /\ row.settled = 0
             /\ row.type = type /\ row.status = status /\ row.total = total
             /\ row.linked = linked
  BY FiniteTables DEF NewInvoice, InvoiceRow, RowSound, Amount

\* New lines: the draft loses the order line.
LEMMA RelinedRow ==
  ASSUME NEW inv \in InvoiceRow, RowSound(inv), inv.status = "DRAFT",
         NEW amount \in Amount, NEW p \in Period
  PROVE  LET row == [inv EXCEPT !.date = p, !.total = amount, !.linked = FALSE]
         IN  /\ row \in InvoiceRow /\ RowSound(row) /\ row.settled = inv.settled
             /\ row.type = inv.type /\ row.status = inv.status
             /\ row.linked = FALSE
<1> DEFINE row == [type |-> inv.type, status |-> inv.status, date |-> p, total |-> amount,
                   settled |-> inv.settled, linked |-> FALSE, original |-> inv.original]
<1>1. [inv EXCEPT !.date = p, !.total = amount, !.linked = FALSE] = row
  <2> DEFINE no == FALSE
  <2> HIDE DEF no, row
  <2>1. PICK e : e = [inv EXCEPT !.date = p, !.total = amount, !.linked = no]
    OBVIOUS
  <2>2. e = [type |-> inv.type, status |-> inv.status, date |-> p, total |-> amount,
             settled |-> inv.settled, linked |-> no, original |-> inv.original]
    BY <2>1, SavedShape, ZenonT(30)
  <2> QED BY <2>1, <2>2 DEF no, row
<1>2. amount \in Nat /\ amount > 0 /\ inv.settled = 0
  BY DEF Amount, RowSound
<1>3. row \in InvoiceRow
  BY DEF InvoiceRow
<1>4. RowSound(row)
  BY <1>2 DEF RowSound
<1> QED BY <1>1, <1>3, <1>4

\* An edit: lines and order line stay, or are replaced.
LEMMA EditedRow ==
  ASSUME NEW inv \in InvoiceRow, RowSound(inv), inv.status = "DRAFT",
         NEW amount \in Amount, NEW p \in Period, NEW row \in Edits(inv, amount, p)
  PROVE  /\ row \in InvoiceRow /\ RowSound(row) /\ row.settled = inv.settled
         /\ row.type = inv.type /\ row.status = inv.status
         /\ row.linked = FALSE \/ (row.linked = inv.linked /\ row.total = inv.total)
<1>1. CASE row = [inv EXCEPT !.date = p]
  BY <1>1 DEF InvoiceRow, RowSound
<1>2. CASE row = [inv EXCEPT !.date = p, !.total = amount, !.linked = FALSE]
  BY <1>2, RelinedRow
<1> QED BY <1>1, <1>2 DEF Edits

\* Issued: the amounts stay.
LEMMA IssuedRow ==
  ASSUME NEW inv \in InvoiceRow, RowSound(inv), inv.status = "DRAFT"
  PROVE  LET row == Issued(inv)
         IN  /\ row \in InvoiceRow /\ RowSound(row) /\ row.settled = inv.settled
             /\ row.type = inv.type /\ row.status = "ISSUED" /\ row.total = inv.total
             /\ row.linked = inv.linked
  BY FiniteTables DEF Issued, InvoiceRow, RowSound, Amount

\* VoidedInvoice: nothing was settled.
LEMMA VoidedRow ==
  ASSUME NEW inv \in InvoiceRow, RowSound(inv), CanVoid(inv)
  PROVE  LET row == VoidedInvoice(inv)
         IN  /\ row \in InvoiceRow /\ RowSound(row) /\ row.settled = inv.settled
             /\ row.type = inv.type /\ row.status = "VOID"
  BY FiniteTables DEF VoidedInvoice, InvoiceRow, RowSound, Amount, CanVoid

\* Applied: a credit note settles itself in full.
LEMMA NoteRow ==
  ASSUME NEW p \in Period, NEW amount \in Amount, NEW linked \in BOOLEAN, NEW i \in Invoice
  PROVE  LET row == Applied(NewInvoice("CREDIT_NOTE", "ISSUED", p, amount, linked, i))
         IN  /\ row \in InvoiceRow /\ RowSound(row) /\ row.type = "CREDIT_NOTE"
             /\ row.original = i /\ row.total = amount /\ row.status = "APPLIED"
<1> DEFINE row == [type |-> "CREDIT_NOTE", status |-> "APPLIED", date |-> p, total |-> amount,
                   settled |-> amount, linked |-> linked, original |-> i]
<1>1. Applied(NewInvoice("CREDIT_NOTE", "ISSUED", p, amount, linked, i)) = row
  <2> DEFINE note == NewInvoice("CREDIT_NOTE", "ISSUED", p, amount, linked, i)
             a == [note EXCEPT !.status = "APPLIED"]
  <2>1. a = [type |-> "CREDIT_NOTE", status |-> "APPLIED", date |-> p, total |-> amount,
             settled |-> 0, linked |-> linked, original |-> i] /\ note.total = amount
    BY DEF NewInvoice
  <2>2. Applied(note) = [a EXCEPT !.settled = note.total]
    BY DEF Applied
  <2> HIDE DEF a, note
  <2>3. Applied(note) = row
    BY <2>1, <2>2
  <2> QED BY <2>3 DEF note
<1>2. amount \in Nat /\ amount > 0 /\ amount \in 0 .. MaxAmount
  BY FiniteTables DEF Amount
<1>3. row \in InvoiceRow
  BY <1>2 DEF InvoiceRow
<1>4. RowSound(row)
  BY <1>2 DEF RowSound
<1> QED BY <1>1, <1>3, <1>4

\* ApplySettlement adds to what is settled, up to the total.
LEMMA SettledRow ==
  ASSUME NEW inv \in InvoiceRow, RowSound(inv), NEW amount \in Int, CanSettle(inv, amount)
  PROVE  LET row == ApplySettlement(inv, amount)
         IN  /\ row \in InvoiceRow /\ RowSound(row) /\ row.settled = inv.settled + amount
             /\ row.type = inv.type /\ row.total = inv.total /\ row.linked = inv.linked
             /\ row.status \in {"PAID", "PARTIALLY_PAID"} /\ row.type # "CREDIT_NOTE"
<1> DEFINE sum == inv.settled + amount
           status == IF sum = inv.total THEN "PAID" ELSE "PARTIALLY_PAID"
           row == [type |-> inv.type, status |-> status, date |-> inv.date,
                   total |-> inv.total, settled |-> sum, linked |-> inv.linked,
                   original |-> inv.original]
<1>1. ApplySettlement(inv, amount) = row
  <2>1. ApplySettlement(inv, amount) = [inv EXCEPT !.settled = sum, !.status = status]
    BY DEF ApplySettlement
  <2> HIDE DEF sum, status
  <2> QED BY <2>1, SavedShape
<1>2. /\ inv.settled \in Nat /\ inv.total \in 1 .. MaxAmount /\ MaxAmount \in Nat
      /\ amount \in 1 .. (inv.total - inv.settled) /\ inv.status \in {"ISSUED", "PARTIALLY_PAID"}
  BY FiniteTables DEF InvoiceRow, CanSettle, OpenBalance, IsOpen, Amount
<1>3. sum \in 1 .. inv.total /\ sum \in 0 .. MaxAmount
  BY <1>2
<1>4. inv.type # "CREDIT_NOTE"
  BY <1>2 DEF RowSound
<1> HIDE DEF sum
<1>5. status \in {"PAID", "PARTIALLY_PAID"} /\ (status = "PAID" <=> sum = inv.total)
  OBVIOUS
<1> HIDE DEF status
<1>6. row \in InvoiceRow
  BY <1>3, <1>5 DEF InvoiceRow
<1>7. RowSound(row)
  BY <1>2, <1>3, <1>4, <1>5 DEF RowSound
<1>8. row.settled = inv.settled + amount
  BY DEF sum
<1> QED BY <1>1, <1>4, <1>5, <1>6, <1>7, <1>8

\* ReverseSettlement takes back what was settled.
LEMMA UnsettledRow ==
  ASSUME NEW inv \in InvoiceRow, RowSound(inv), NEW amount \in Int, CanUnsettle(inv, amount)
  PROVE  LET row == ReverseSettlement(inv, amount)
         IN  /\ row \in InvoiceRow /\ RowSound(row) /\ row.settled = inv.settled - amount
             /\ row.type = inv.type /\ row.total = inv.total /\ row.linked = inv.linked
             /\ row.status \in {"ISSUED", "PARTIALLY_PAID"} /\ row.type # "CREDIT_NOTE"
<1> DEFINE rest == inv.settled - amount
           status == IF inv.settled = amount THEN "ISSUED" ELSE "PARTIALLY_PAID"
           row == [type |-> inv.type, status |-> status, date |-> inv.date,
                   total |-> inv.total, settled |-> rest, linked |-> inv.linked,
                   original |-> inv.original]
<1>1. ReverseSettlement(inv, amount) = row
  <2>1. ReverseSettlement(inv, amount) = [inv EXCEPT !.settled = rest, !.status = status]
    BY DEF ReverseSettlement
  <2> HIDE DEF rest, status
  <2> QED BY <2>1, SavedShape
<1>2. /\ inv.settled \in 0 .. MaxAmount /\ inv.total \in 1 .. MaxAmount /\ MaxAmount \in Nat
      /\ inv.settled <= inv.total
      /\ amount \in 1 .. inv.settled /\ inv.status \in {"PAID", "PARTIALLY_PAID"}
  BY FiniteTables DEF InvoiceRow, CanUnsettle, RowSound, Amount
<1>3. /\ rest \in 0 .. MaxAmount /\ rest < inv.total
      /\ (inv.settled = amount) <=> (rest = 0)
  BY <1>2
<1>4. inv.type # "CREDIT_NOTE"
  BY <1>2 DEF RowSound
<1>5. status \in {"ISSUED", "PARTIALLY_PAID"} /\ (status = "ISSUED" <=> rest = 0)
  BY <1>3
<1>6. row.settled = inv.settled - amount
  OBVIOUS
<1> HIDE DEF status, rest
<1>7. row \in InvoiceRow
  BY <1>3, <1>5 DEF InvoiceRow
<1>8. RowSound(row)
  BY <1>2, <1>3, <1>4, <1>5 DEF RowSound
<1> QED BY <1>1, <1>4, <1>5, <1>6, <1>7, <1>8

(*****************************************************************************)
(* The entries of a document                                                 *)
(*****************************************************************************)
\* Nothing is posted for s.
Empty(s) == entries[Posted(s)] = NoEntry /\ entries[Voided(s)] = NoEntry

\* What the ledger says of a document that has not been posted.
Fresh(s) == ReversedByHand(s) \/ Empty(s)

\* The entries of s tell `effect`, or an accountant has taken s out by hand.
LedgerSays(s, effect) ==
  \/ ReversedByHand(s)
  \/ Empty(s) /\ effect = 0
  \/ /\ entries[Posted(s)].status = "POSTED" /\ entries[Voided(s)] = NoEntry
     /\ entries[Posted(s)].lines["CONTROL"] = effect
  \/ /\ entries[Posted(s)].status = "REVERSED" /\ entries[Voided(s)].status = "POSTED"
     /\ entries[Voided(s)].lines["CONTROL"] = - entries[Posted(s)].lines["CONTROL"]
     /\ effect = 0

\* What no step on other documents changes.
EntriesKept(s) ==
  entries'[Posted(s)] = entries[Posted(s)] /\ entries'[Voided(s)] = entries[Voided(s)]

\* The keys of different documents, and of their entries, differ.
LEMMA KeysApart ==
  /\ YearEnd \in Key /\ NoKey \in Key /\ YearEnd # NoKey
  /\ \A s \in Source :
       /\ Posted(s) \in Key /\ Voided(s) \in Key
       /\ Posted(s) # Voided(s)
       /\ Posted(s) # NoKey /\ Voided(s) # NoKey /\ Posted(s) # YearEnd /\ Voided(s) # YearEnd
       /\ \A t \in Source : t # s => Posted(t) # Posted(s) /\ Voided(t) # Voided(s)
       /\ \A t \in Source : Posted(t) # Voided(s)
  BY LedgerAssumption DEF Key, Posted, Voided, YearEnd, NoKey

\* There are finitely many keys.
LEMMA FiniteKeys == IsFiniteSet(Key)
<1> DEFINE P == {Posted(s) : s \in Source}
           V == {Voided(s) : s \in Source}
<1>1. IsFiniteSet(P)
  <2>1. [s \in Source |-> Posted(s)] \in Surjection(Source, P)
    BY DEF Surjection
  <2> QED BY <2>1, LedgerAssumption, FS_Surjection
<1>2. IsFiniteSet(V)
  <2>1. [s \in Source |-> Voided(s)] \in Surjection(Source, V)
    BY DEF Surjection
  <2> QED BY <2>1, LedgerAssumption, FS_Surjection
<1>3. IsFiniteSet({YearEnd}) /\ IsFiniteSet({NoKey})
  BY FS_Singleton
<1> DEFINE B == {YearEnd} \cup {NoKey}
<1>4. IsFiniteSet(P \cup V) /\ IsFiniteSet(B)
  BY <1>1, <1>2, <1>3, FS_Union
<1>5. Key = (P \cup V) \cup B
  BY DEF Key
<1> HIDE DEF P, V, B
<1> QED BY <1>4, <1>5, FS_Union

\* A slot of the ledger holds no entry or an entry.
LEMMA EntryRows ==
  ASSUME NEW table \in EntryTable, NEW k \in Key
  PROVE /\ table[k] = NoEntry <=> table[k].status = "NONE"
        /\ table[k] # NoEntry => table[k] \in Entry
  BY DEF EntryTable, Entry, NoEntry

\* NewEntry is an entry.
LEMMA NewEntryIsARow ==
  ASSUME NEW status \in {"DRAFT", "POSTED"}, NEW lines \in Lines, NEW p \in Period,
         NEW of \in Key \cup {Nothing}
  PROVE  LET e == NewEntry(status, lines, p, of)
         IN  e \in Entry /\ e.status = status /\ e.lines = lines /\ e.reversalOf = of
             /\ e # NoEntry
  BY DEF NewEntry, Entry, NoEntry

\* A mirror negates every line.
LEMMA Mirrored ==
  ASSUME NEW lines \in Lines
  PROVE  Mirror(lines) \in Lines /\ \A a \in Account : Mirror(lines)[a] = - lines[a]
  BY DEF Mirror, Lines

\* A saved entry changes its status and nothing else.
LEMMA MovedEntry ==
  ASSUME NEW table \in EntryTable, NEW k \in Key, table[k] # NoEntry,
         NEW to \in {"DRAFT", "PENDING_APPROVAL", "POSTED", "REVERSED", "VOID"}
  PROVE  LET saved == SavedEntry(table, k, to)
         IN  /\ saved \in EntryTable
             /\ saved[k].status = to /\ saved[k].lines = table[k].lines
             /\ saved[k].reversalOf = table[k].reversalOf
             /\ \A x \in Key \ {k} : saved[x] = table[x]
<1>1. table[k] \in Entry
  BY EntryRows
<1>2. [table[k] EXCEPT !.status = to]
        = [status |-> to, lines |-> table[k].lines, period |-> table[k].period,
           reversalOf |-> table[k].reversalOf]
  BY <1>1 DEF Entry
<1>3. [table[k] EXCEPT !.status = to] \in Entry
  BY <1>1, <1>2 DEF Entry
<1>4. SavedEntry(table, k, to) = [table EXCEPT ![k] = [table[k] EXCEPT !.status = to]]
  BY DEF SavedEntry
<1> DEFINE e == [table[k] EXCEPT !.status = to]
<1>5. e.status = to /\ e.lines = table[k].lines /\ e.reversalOf = table[k].reversalOf
  BY <1>2
<1> HIDE DEF e
<1>6. SavedEntry(table, k, to) = [table EXCEPT ![k] = e] /\ e \in Entry
  BY <1>3, <1>4 DEF e
<1>7. SavedEntry(table, k, to) \in EntryTable
  BY <1>6 DEF EntryTable
<1>8. SavedEntry(table, k, to)[k] = e /\ \A x \in Key \ {k} :
      SavedEntry(table, k, to)[x] = table[x]
  BY <1>6 DEF EntryTable
<1> QED BY <1>5, <1>7, <1>8

\* What the ledger says of s survives a step that leaves its entries alone.
LEMMA SaysKept ==
  ASSUME NEW s \in Source, EntriesKept(s), ReversedByHand(s) => ReversedByHand(s)'
  PROVE  /\ Fresh(s) => Fresh(s)'
         /\ \A effect : LedgerSays(s, effect) => LedgerSays(s, effect)'
  BY DEF LedgerSays, Fresh, EntriesKept, Empty

\* Posting a fresh document: the ledger says what the lines say.
LEMMA PostingSays ==
  ASSUME entries \in EntryTable, NEW s \in Source, NEW lines \in Lines, NEW p \in Period,
         Fresh(s), lines["CONTROL"] # 0,
         entries' = Posting(entries, Posted(s), lines, p)
  PROVE  /\ entries' \in EntryTable
         /\ LedgerSays(s, lines["CONTROL"])'
         /\ \A t \in Source \ {s} : EntriesKept(t)
         /\ entries'[NoKey] = entries[NoKey] /\ entries'[YearEnd] = entries[YearEnd]
<1>1. lines # Zero
  BY DEF Zero, Account
<1> DEFINE e == NewEntry("POSTED", lines, p, Nothing)
<1>2. e \in Entry /\ e.status = "POSTED" /\ e.lines = lines
  BY NewEntryIsARow
<1> HIDE DEF e
<1>3. entries' = IF entries[Posted(s)] # NoEntry THEN entries
                 ELSE [entries EXCEPT ![Posted(s)] = e]
  BY <1>1 DEF Posting, e
<1>4. entries' \in EntryTable
  BY <1>2, <1>3, KeysApart DEF EntryTable
<1>5. /\ \A k \in Key \ {Posted(s)} : entries'[k] = entries[k]
      /\ entries'[Posted(s)] = IF entries[Posted(s)] # NoEntry THEN entries[Posted(s)] ELSE e
  BY <1>3, KeysApart DEF EntryTable
<1>6. \A t \in Source \ {s} : EntriesKept(t)
  BY <1>5, KeysApart DEF EntriesKept
<1>7. entries'[NoKey] = entries[NoKey] /\ entries'[YearEnd] = entries[YearEnd]
  BY <1>5, KeysApart
<1>8. LedgerSays(s, lines["CONTROL"])'
  <2>1. CASE ReversedByHand(s)
    <3>1. ReversedByHand(s)'
      BY <2>1, <1>7 DEF ReversedByHand, EntriesOf
    <3> QED BY <3>1 DEF LedgerSays, Fresh
  <2>2. CASE Empty(s)
    <3>1. entries'[Posted(s)] = e /\ entries'[Voided(s)] = NoEntry
      BY <2>2, <1>5, KeysApart DEF Empty
    <3> QED BY <3>1, <1>2 DEF LedgerSays
  <2> QED BY <2>1, <2>2 DEF Fresh
<1> QED BY <1>4, <1>6, <1>7, <1>8

\* Reversing a posted one: the ledger says nothing any more.
LEMMA ReversingSays ==
  ASSUME entries \in EntryTable, NEW s \in Source, NEW p \in Period, NEW effect,
         LedgerSays(s, effect), effect # 0,
         entries' = Reversing(entries, s, p)
  PROVE  /\ entries' \in EntryTable
         /\ LedgerSays(s, 0)'
         /\ \A t \in Source \ {s} : EntriesKept(t)
         /\ entries'[NoKey] = entries[NoKey] /\ entries'[YearEnd] = entries[YearEnd]
<1>1. CASE entries[Posted(s)].status # "POSTED"
  <2>1. entries' = entries
    BY <1>1 DEF Reversing
  <2>2. ReversedByHand(s)
    BY <1>1, EntryRows, KeysApart DEF LedgerSays, Fresh, Empty, NoEntry
  <2>3. LedgerSays(s, 0)'
    BY <2>1, <2>2 DEF LedgerSays, Fresh, ReversedByHand
  <2> QED BY <2>1, <2>3 DEF EntriesKept
<1>2. CASE entries[Posted(s)].status = "POSTED"
  <2> DEFINE saved == SavedEntry(entries, Posted(s), "REVERSED")
             e == NewEntry("POSTED", Mirror(entries[Posted(s)].lines), p, Posted(s))
  <2>1. Posted(s) \in Key /\ entries[Posted(s)] \in Entry /\ entries[Posted(s)] # NoEntry
    BY <1>2, KeysApart, EntryRows DEF NoEntry
  <2>2. /\ saved \in EntryTable /\ saved[Posted(s)].status = "REVERSED"
        /\ saved[Posted(s)].lines = entries[Posted(s)].lines
        /\ \A x \in Key \ {Posted(s)} : saved[x] = entries[x]
    BY <2>1, MovedEntry
  <2>3. e \in Entry /\ e.status = "POSTED" /\ e.lines = Mirror(entries[Posted(s)].lines)
    BY <2>1, Mirrored, NewEntryIsARow DEF Entry
  <2>4. e.lines["CONTROL"] = - entries[Posted(s)].lines["CONTROL"]
    BY <2>1, <2>3, Mirrored DEF Entry, Account
  <2>5. entries' = [saved EXCEPT ![Voided(s)] = e]
    BY <1>2 DEF Reversing
  <2> HIDE DEF saved, e
  <2>6. entries' \in EntryTable
    BY <2>2, <2>3, <2>5 DEF EntryTable
  <2>7. /\ entries'[Voided(s)] = e /\ entries'[Posted(s)] = saved[Posted(s)]
        /\ \A k \in Key \ {Posted(s), Voided(s)} : entries'[k] = entries[k]
    BY <2>2, <2>5, KeysApart DEF EntryTable
  <2>8. \A t \in Source \ {s} : EntriesKept(t)
    BY <2>7, KeysApart DEF EntriesKept
  <2>9. entries'[NoKey] = entries[NoKey] /\ entries'[YearEnd] = entries[YearEnd]
    BY <2>7, KeysApart
  <2>10. LedgerSays(s, 0)'
    <3>1. /\ entries'[Posted(s)].status = "REVERSED" /\ entries'[Voided(s)].status = "POSTED"
          /\ entries'[Voided(s)].lines["CONTROL"] = - entries'[Posted(s)].lines["CONTROL"]
      BY <2>2, <2>3, <2>4, <2>7
    <3> QED BY <3>1 DEF LedgerSays
  <2> QED BY <2>6, <2>8, <2>9, <2>10
<1> QED BY <1>1, <1>2

(*****************************************************************************)
(* What entries add up to, the calls and the year                            *)
(*****************************************************************************)
\* The entries that ever took effect.
Took == {"POSTED", "REVERSED"}
TookEffect(table, keys) == {k \in keys : table[k].status \in Took}

\* The lines of those entries can be summed.
LEMMA TotalSum ==
  ASSUME NEW table \in EntryTable, NEW keys \in SUBSET Key, NEW account \in Account
  PROVE  /\ IsFiniteSet(TookEffect(table, keys))
         /\ [k \in TookEffect(table, keys) |-> table[k].lines[account]]
              \in [TookEffect(table, keys) -> Int]
<1>1. TookEffect(table, keys) \in SUBSET Key
  BY DEF TookEffect
<1>2. \A k \in TookEffect(table, keys) : table[k].lines[account] \in Int
  BY EntryRows DEF TookEffect, Took, Entry, NoEntry, Lines
<1> QED BY <1>1, <1>2, FiniteKeys, FS_Subset

\* Total, by the set its sum runs over.
LEMMA TotalIs ==
  ASSUME NEW keys, NEW account
  PROVE  Total(account, keys)
           = SumFunction([k \in TookEffect(entries, keys) |-> entries[k].lines[account]])
  BY DEF Total, TookEffect, Took

\* What a document says of itself is what its entries add up to.
LEMMA SaysTotal ==
  ASSUME entries \in EntryTable, NEW s \in Source, NEW effect \in Int,
         LedgerSays(s, effect), ~ ReversedByHand(s)
  PROVE  Total("CONTROL", EntriesOf(s)) = effect
<1> DEFINE a == Posted(s)
           b == Voided(s)
           S == TookEffect(entries, {a, b})
           g == [k \in S |-> entries[k].lines["CONTROL"]]
<1>1. a \in Key /\ b \in Key /\ a # b
  BY KeysApart
<1>2. S \in SUBSET {a, b} /\ g \in [S -> Int]
  BY <1>1, TotalSum DEF TookEffect, Account
<1>3. SumFunction(g) = (IF a \in S THEN g[a] ELSE 0) + (IF b \in S THEN g[b] ELSE 0)
  <2> HIDE DEF a, b, S, g
  <2> QED BY <1>1, <1>2, SumPair
<1>4. Total("CONTROL", EntriesOf(s)) = SumFunction(g)
  BY TotalIs DEF EntriesOf
<1>5. /\ a \in S <=> entries[a].status \in Took
      /\ b \in S <=> entries[b].status \in Took
      /\ a \in S => g[a] = entries[a].lines["CONTROL"] /\ entries[a].lines["CONTROL"] \in Int
      /\ b \in S => g[b] = entries[b].lines["CONTROL"]
  BY <1>2 DEF TookEffect
<1>6. \/ entries[a] = NoEntry /\ entries[b] = NoEntry /\ effect = 0
      \/ /\ entries[a].status = "POSTED" /\ entries[b] = NoEntry
         /\ entries[a].lines["CONTROL"] = effect
      \/ /\ entries[a].status = "REVERSED" /\ entries[b].status = "POSTED"
         /\ entries[b].lines["CONTROL"] = - entries[a].lines["CONTROL"]
         /\ effect = 0
  BY DEF LedgerSays, Fresh, Empty
<1> HIDE DEF a, b, S, g
<1>7. CASE entries[a] = NoEntry /\ entries[b] = NoEntry /\ effect = 0
  BY <1>3, <1>4, <1>5, <1>7 DEF NoEntry, Took
<1>8. CASE /\ entries[a].status = "POSTED" /\ entries[b] = NoEntry
           /\ entries[a].lines["CONTROL"] = effect
  BY <1>3, <1>4, <1>5, <1>8 DEF NoEntry, Took
<1>9. CASE /\ entries[a].status = "REVERSED" /\ entries[b].status = "POSTED"
           /\ entries[b].lines["CONTROL"] = - entries[a].lines["CONTROL"]
           /\ effect = 0
  BY <1>3, <1>4, <1>5, <1>9 DEF Took
<1> QED BY <1>6, <1>7, <1>8, <1>9

\* A total does not change while the entries it counts do not.
LEMMA TotalKept ==
  ASSUME NEW keys, NEW account, TookEffect(entries', keys) = TookEffect(entries, keys),
         \A k \in TookEffect(entries, keys) : entries'[k].lines = entries[k].lines
  PROVE  Total(account, keys)' = Total(account, keys)
<1>1. [k \in TookEffect(entries', keys) |-> entries'[k].lines[account]]
        = [k \in TookEffect(entries, keys) |-> entries[k].lines[account]]
  OBVIOUS
<1>2. Total(account, keys)'
        = SumFunction([k \in TookEffect(entries', keys) |-> entries'[k].lines[account]])
  BY DEF Total, TookEffect, Took
<1> QED BY <1>1, <1>2, TotalIs

\* One row more, in a table that had none.
LEMMA TotalPosted ==
  ASSUME entries \in EntryTable, NEW k \in Key, entries[k] = NoEntry, NEW e \in Entry,
         e.status = "POSTED", entries' = [entries EXCEPT ![k] = e], NEW account \in Account
  PROVE  Total(account, Key)' = Total(account, Key) + e.lines[account]
<1> DEFINE S == TookEffect(entries, Key)
           T == TookEffect(entries', Key)
           g == [x \in S |-> entries[x].lines[account]]
           h == [x \in T |-> entries'[x].lines[account]]
<1>1. entries' \in EntryTable
  BY DEF EntryTable
<1>2. IsFiniteSet(S) /\ g \in [S -> Int] /\ IsFiniteSet(T) /\ h \in [T -> Int]
  BY <1>1, TotalSum
<1>3. entries'[k] = e /\ \A x \in Key \ {k} : entries'[x] = entries[x]
  BY DEF EntryTable
<1>4. k \notin S /\ k \in T /\ S \ {k} = T \ {k} /\ (\A x \in S \ {k} : g[x] = h[x])
      /\ h[k] = e.lines[account]
  BY <1>3 DEF TookEffect, Took, NoEntry
<1>5. Total(account, Key) = SumFunction(g) /\ Total(account, Key)' = SumFunction(h)
  BY DEF Total, TookEffect, Took
<1>6. SumFunction(g) \in Int /\ e.lines[account] \in Int
  <2> HIDE DEF S, g
  <2>1. SumFunction(g) \in Int
    BY <1>2, SumIsAnInteger
  <2> QED BY <2>1 DEF Entry, Lines
<1> HIDE DEF S, T, g, h
<1>7. SumFunction(h)
          = SumFunction(g) - (IF k \in S THEN g[k] ELSE 0) + (IF k \in T THEN h[k] ELSE 0)
  BY <1>2, <1>4, OneRow
<1> QED BY <1>4, <1>5, <1>6, <1>7

\* What a call remembers is of its kind.
Typed(job) ==
  /\ job.op = "saveYear" => job.year \in Year
  /\ job.op = "yearEnd" => job.closing \in Lines
  /\ job.op = "closePeriod" => job.at \in Period
  /\ job.op = "bill" => job.at \in Period /\ job.amount \in Amount
  /\ job.op = "debit" => /\ job.at \in Period /\ job.amount \in Amount
                         /\ job.original \in Invoice
Calls ==
  /\ call = [c \in Caller |-> call[c]]
  /\ \A c \in Caller : Typed(call[c])
  /\ \A c \in Caller : call[c].op = "debit" => invoices[call[c].original] # NoInvoice

\* The calls that will post an entry.
Posts == {"gate", "debit"}
\* After a close that ran alone, no call is left that could post.
YearInv ==
  cleared => /\ year.status = "CLOSED"
             /\ Total("RESULT", Key) = 0
             /\ \A c \in Caller : call[c].op \notin Posts

LedgerInv == LedgerTypeOK /\ Calls /\ YearInv

\* No invoice is deleted.
RowsStay == \A i \in Invoice : invoices[i] # NoInvoice => invoices'[i] # NoInvoice

\* A call that begins.
LEMMA NewJob ==
  ASSUME Calls, RowsStay, NEW c \in Caller, NEW job, call' = [call EXCEPT ![c] = job],
         Typed(job), job.op = "debit" => invoices[job.original] # NoInvoice
  PROVE  Calls'
<1>1. call' = [d \in Caller |-> IF d = c THEN job ELSE call[d]]
  BY DEF Calls
<1>2. \A d \in Caller : Typed(call'[d])
  BY <1>1 DEF Calls
<1>3. \A d \in Caller : call'[d].op = "debit" => invoices'[call'[d].original] # NoInvoice
  BY <1>1 DEF Calls, RowsStay, Typed
<1> QED BY <1>1, <1>2, <1>3 DEF Calls

\* Calls that stay as they are.
LEMMA OldJobs ==
  ASSUME Calls, RowsStay, call' = call
  PROVE  Calls'
  BY DEF Calls, RowsStay, Typed

\* A call that ends.
LEMMA Finished ==
  ASSUME Calls, RowsStay, NEW c \in Caller, Finish(c)
  PROVE  Calls'
  BY NewJob DEF Finish, NoCall, Typed

\* While a call is about to post, the year has not been cleared.
LEMMA NotCleared ==
  ASSUME YearInv, NEW c \in Caller, call[c].op \in Posts, cleared' = cleared
  PROVE  YearInv'
  BY DEF YearInv

\* Nothing is posted, and no call comes to post while the year is closed.
LEMMA YearKept ==
  ASSUME YearInv, cleared' = cleared, year' = year,
         TookEffect(entries', Key) = TookEffect(entries, Key),
         \A k \in TookEffect(entries, Key) : entries'[k].lines = entries[k].lines,
         cleared => \A c \in Caller : call'[c].op \in Posts => call[c].op \in Posts
  PROVE  YearInv'
  BY TotalKept DEF YearInv

(*****************************************************************************)
(* The invariant, and what follows from it                                   *)
(*****************************************************************************)
\* What the ledger has to say of an invoice and of a receipt.
InvoiceSays(i) ==
  IF invoices[i].status \in {"NONE", "DRAFT"} THEN Fresh(i)
  ELSE LedgerSays(i, InvoiceEffect(invoices[i]))
ReceiptSays(r) ==
  IF receipts[r].status \in {"NONE", "DRAFT"} THEN Fresh(r)
  ELSE LedgerSays(r, ReceiptEffect(receipts[r]))
Documents == (\A i \in Invoice : InvoiceSays(i)) /\ (\A r \in Receipt : ReceiptSays(r))

\* The rows that bill the order, and how much.
Bills(row) == row.status \notin {"NONE", "VOID"} /\ row.type = "INVOICE" /\ row.linked
BillsOf(table) == {i \in Invoice : Bills(table[i])}
Billed(table) == SumFunction([i \in BillsOf(table) |-> table[i].total])
Weight(row) == IF Bills(row) THEN row.total ELSE 0

\* What is billed, with what a call is about to bill, was delivered.
Billing ==
  overlapped \/ /\ Billed(invoices) <= delivered
                /\ \A c \in Caller : call[c].op = "bill" =>
                     Billed(invoices) + call[c].amount <= delivered

\* The inductive invariant.
Inv == Tables /\ Settlements /\ Documents /\ Billing /\ LedgerInv

\* What is said of a row, by its status.
LEMMA EffectOf ==
  ASSUME NEW row
  PROVE  /\ row.status \in {"NONE", "DRAFT", "VOID"} => InvoiceEffect(row) = 0
         /\ row.status = "APPLIED" => InvoiceEffect(row) = - row.total
         /\ row.status \in {"ISSUED", "PARTIALLY_PAID", "PAID"} => InvoiceEffect(row) = row.total
         /\ row.status = "POSTED" => ReceiptEffect(row) = - row.amount
         /\ row.status # "POSTED" => ReceiptEffect(row) = 0
  BY DEF InvoiceEffect, ReceiptEffect

\* A draft has no effect, so the ledger says its effect too.
LEMMA SaysItsEffect ==
  /\ \A i \in Invoice : InvoiceSays(i) => LedgerSays(i, InvoiceEffect(invoices[i]))
  /\ \A r \in Receipt : ReceiptSays(r) => LedgerSays(r, ReceiptEffect(receipts[r]))
<1>1. \A s \in Source : Fresh(s) => LedgerSays(s, 0)
  BY DEF Fresh, LedgerSays
<1>2. /\ \A i \in Invoice : invoices[i].status \in {"NONE", "DRAFT"} =>
          InvoiceEffect(invoices[i]) = 0
      /\ \A r \in Receipt : receipts[r].status \in {"NONE", "DRAFT"} =>
          ReceiptEffect(receipts[r]) = 0
  BY EffectOf
<1> QED BY <1>1, <1>2, ReceivableAssumption DEF InvoiceSays, ReceiptSays

\* The ledger agrees with the documents.
LEMMA DocumentsFollow ==
  ASSUME Inv
  PROVE  EntriesMatchDocuments
<1>0. /\ entries \in EntryTable /\ Invoice \subseteq Source /\ Receipt \subseteq Source
      /\ invoices \in InvoiceTable /\ receipts \in ReceiptTable
  BY ReceivableAssumption DEF Inv, LedgerInv, LedgerTypeOK, Tables
<1>1. ASSUME NEW i \in Invoice, ~ ReversedByHand(i)
      PROVE  Total("CONTROL", EntriesOf(i)) = InvoiceEffect(invoices[i])
  <2>1. InvoiceEffect(invoices[i]) \in Int
    BY <1>0, InvoiceRows, FiniteTables DEF InvoiceEffect, InvoiceRow
  <2> QED BY <1>0, <1>1, <2>1, SaysItsEffect, SaysTotal DEF Inv, Documents
<1>2. ASSUME NEW r \in Receipt, ~ ReversedByHand(r)
      PROVE  Total("CONTROL", EntriesOf(r)) = ReceiptEffect(receipts[r])
  <2>1. ReceiptEffect(receipts[r]) \in Int
    <3>1. receipts[r].status = "POSTED" => receipts[r].amount \in Nat
      BY <1>0, ReceiptRows, FiniteTables DEF ReceiptRow, NoReceipt
    <3> QED BY <3>1 DEF ReceiptEffect
  <2> QED BY <1>0, <1>2, <2>1, SaysItsEffect, SaysTotal DEF Inv, Documents
<1> QED BY <1>1, <1>2 DEF EntriesMatchDocuments

\* No more is billed than was delivered.
LEMMA BilledFollows ==
  ASSUME Inv
  PROVE  BilledAtMostDelivered
<1>1. BillsOf(invoices) = {i \in Invoice : /\ invoices[i].status \notin {"NONE", "VOID"}
                                           /\ invoices[i].type = "INVOICE"
                                           /\ invoices[i].linked}
  BY DEF BillsOf, Bills
<1>2. overlapped \/ Billed(invoices) <= delivered
  BY DEF Inv, Billing
<1> QED BY <1>1, <1>2 DEF BilledAtMostDelivered, Billed

\* The quantity a call reads is the quantity that is billed.
LEMMA InvoicedIsBilled ==
  ASSUME Tables
  PROVE  InvoicedQty = Billed(invoices)
<1>1. BillsOf(invoices) = {i \in Invoice : /\ invoices[i] # NoInvoice
                                      /\ invoices[i].type = "INVOICE"
                                      /\ invoices[i].status # "VOID"
                                      /\ invoices[i].linked}
  BY InvoiceRows DEF BillsOf, Bills, Tables
<1> QED BY <1>1 DEF Billed, InvoicedQty

\* What is billed can be summed.
LEMMA BillSum ==
  ASSUME NEW table \in InvoiceTable
  PROVE  /\ IsFiniteSet(BillsOf(table))
         /\ [i \in BillsOf(table) |-> table[i].total] \in [BillsOf(table) -> Int]
         /\ Billed(table) \in Int
<1>1. BillsOf(table) \in SUBSET Invoice
  BY DEF BillsOf
<1>2. \A i \in BillsOf(table) : table[i].total \in Int
  BY InvoiceRows, FiniteTables DEF InvoiceRow, NoInvoice, BillsOf, Bills, Amount
<1>3. /\ IsFiniteSet(BillsOf(table))
      /\ [i \in BillsOf(table) |-> table[i].total] \in [BillsOf(table) -> Int]
  BY <1>1, <1>2, FiniteTables, FS_Subset
<1> QED BY <1>3, SumIsAnInteger DEF Billed

\* Saving a row changes what is billed by the weights of the two rows.
LEMMA BilledRow ==
  ASSUME NEW table \in InvoiceTable, NEW i \in Invoice, NEW row \in InvoiceRow
  PROVE  Billed([table EXCEPT ![i] = row]) = Billed(table) - Weight(table[i]) + Weight(row)
<1> DEFINE new == [table EXCEPT ![i] = row]
           S == BillsOf(table)
           T == BillsOf(new)
           g == [k \in S |-> table[k].total]
           h == [k \in T |-> new[k].total]
<1>1. new \in InvoiceTable /\ new[i] = row /\ \A k \in Invoice \ {i} : new[k] = table[k]
  BY DEF InvoiceTable
<1>2. IsFiniteSet(S) /\ g \in [S -> Int] /\ IsFiniteSet(T) /\ h \in [T -> Int]
  BY <1>1, BillSum
<1>3. /\ S \ {i} = T \ {i} /\ \A k \in S \ {i} : g[k] = h[k]
      /\ (IF i \in S THEN g[i] ELSE 0) = Weight(table[i])
      /\ (IF i \in T THEN h[i] ELSE 0) = Weight(row)
  BY <1>1 DEF BillsOf, Weight
<1>4. Billed(table) = SumFunction(g) /\ Billed(new) = SumFunction(h)
  BY DEF Billed
<1> HIDE DEF new, S, T, g, h
<1>5. SumFunction(h) = SumFunction(g) - (IF i \in S THEN g[i] ELSE 0)
                                      + (IF i \in T THEN h[i] ELSE 0)
  BY <1>2, <1>3, OneRow
<1> QED BY <1>3, <1>4, <1>5 DEF new

\* A weight is natural.
LEMMA WeightOf ==
  ASSUME NEW row \in InvoiceRow \cup {NoInvoice}
  PROVE  Weight(row) \in Nat
  BY FiniteTables DEF InvoiceRow, NoInvoice, Weight, Bills, Amount

\* A row saved that bills no more than before.
LEMMA BillsNoMore ==
  ASSUME Tables, Billing, NEW i \in Invoice, NEW row \in InvoiceRow,
         invoices' = [invoices EXCEPT ![i] = row], Weight(row) <= Weight(invoices[i]),
         delivered' = delivered, overlapped' = overlapped, Calls, Calls',
         \A c \in Caller : call'[c].op = "bill" => call'[c] = call[c]
  PROVE  Billing'
<1>1. Billed(invoices') = Billed(invoices) - Weight(invoices[i]) + Weight(row)
  BY BilledRow DEF Tables
<1>2. /\ Billed(invoices) \in Int /\ Weight(invoices[i]) \in Nat /\ Weight(row) \in Nat
      /\ delivered \in Int /\ Billed(invoices') \in Int
  BY <1>1, BillSum, WeightOf, FiniteTables DEF Tables, InvoiceTable
<1> DEFINE a == Billed(invoices)
           b == Billed(invoices')
<1>3. b <= a /\ a \in Int /\ b \in Int
  BY <1>1, <1>2
<1>4. SUFFICES ASSUME ~ overlapped
      PROVE  /\ b <= delivered
             /\ \A c \in Caller : call'[c].op = "bill" => b + call'[c].amount <= delivered
  BY DEF Billing
<1>5. a <= delivered /\ \A c \in Caller : call[c].op = "bill" => a + call[c].amount <= delivered
  BY <1>4 DEF Billing
<1>6. \A c \in Caller : call[c].op = "bill" => call[c].amount \in Int
  BY FiniteTables DEF Calls, Typed
<1> HIDE DEF a, b
<1> QED BY <1>2, <1>3, <1>5, <1>6

\* Rows saved that bill as much as before.
LEMMA BillsKept ==
  ASSUME Billing, BillsOf(invoices') = BillsOf(invoices),
         \A i \in BillsOf(invoices) : invoices'[i].total = invoices[i].total,
         delivered' = delivered, overlapped' = overlapped,
         \A c \in Caller : call'[c].op = "bill" => call'[c] = call[c]
  PROVE  Billing'
<1>1. [i \in BillsOf(invoices') |-> invoices'[i].total]
        = [i \in BillsOf(invoices) |-> invoices[i].total]
  OBVIOUS
<1>2. Billed(invoices') = Billed(invoices)
  BY <1>1 DEF Billed
<1> QED BY <1>2 DEF Billing

\* The ledger where a call writes a document.
LEMMA GatePosts ==
  ASSUME LedgerInv, NEW c \in Caller, call[c].op \in Posts, Finish(c),
         decision' = decision, year' = year, cleared' = cleared,
         entries' \in EntryTable, RowsStay
  PROVE  LedgerInv'
<1>1. Calls'
  BY Finished DEF LedgerInv
<1>2. YearInv'
  BY NotCleared DEF LedgerInv
<1> QED BY <1>1, <1>2 DEF LedgerInv, LedgerTypeOK

\* The ledger where nothing is posted.
LEMMA LedgerStill ==
  ASSUME LedgerInv, ledgerVars' = ledgerVars, Calls',
         cleared => \A c \in Caller : call'[c].op \in Posts => call[c].op \in Posts
  PROVE  LedgerInv' /\ \A s \in Source : EntriesKept(s) /\ ReversedByHand(s)' = ReversedByHand(s)
<1>1. entries' = entries /\ decision' = decision /\ year' = year /\ cleared' = cleared
  BY DEF ledgerVars
<1>2. YearInv'
  BY <1>1, YearKept DEF LedgerInv
<1> QED BY <1>1, <1>2 DEF LedgerInv, LedgerTypeOK, EntriesKept, ReversedByHand

\* An invoice whose effect and entries stay.
LEMMA InvoiceStill ==
  ASSUME NEW i \in Invoice, InvoiceSays(i), EntriesKept(i),
         ReversedByHand(i) => ReversedByHand(i)',
         InvoiceEffect(invoices'[i]) = InvoiceEffect(invoices[i]),
         invoices'[i].status \in {"NONE", "DRAFT"} => invoices[i].status \in {"NONE", "DRAFT"}
  PROVE  InvoiceSays(i)'
<1>1. i \in Source
  BY ReceivableAssumption
<1>2. CASE invoices'[i].status \in {"NONE", "DRAFT"}
  BY <1>1, <1>2, SaysKept DEF InvoiceSays
<1>3. CASE invoices'[i].status \notin {"NONE", "DRAFT"}
  <2>1. LedgerSays(i, InvoiceEffect(invoices[i]))
    BY SaysItsEffect
  <2> QED BY <1>1, <1>3, <2>1 DEF InvoiceSays, LedgerSays, EntriesKept, Empty
<1> QED BY <1>2, <1>3

\* A receipt whose effect and entries stay.
LEMMA ReceiptStill ==
  ASSUME NEW r \in Receipt, ReceiptSays(r), EntriesKept(r),
         ReversedByHand(r) => ReversedByHand(r)',
         ReceiptEffect(receipts'[r]) = ReceiptEffect(receipts[r]),
         receipts'[r].status \in {"NONE", "DRAFT"} => receipts[r].status \in {"NONE", "DRAFT"}
  PROVE  ReceiptSays(r)'
<1>1. r \in Source
  BY ReceivableAssumption
<1>2. CASE receipts'[r].status \in {"NONE", "DRAFT"}
  BY <1>1, <1>2, SaysKept DEF ReceiptSays
<1>3. CASE receipts'[r].status \notin {"NONE", "DRAFT"}
  <2>1. LedgerSays(r, ReceiptEffect(receipts[r]))
    BY SaysItsEffect
  <2> QED BY <1>1, <1>3, <2>1 DEF ReceiptSays, LedgerSays, EntriesKept, Empty
<1> QED BY <1>2, <1>3

(*****************************************************************************)
(* Steps of the accountant                                                   *)
(*****************************************************************************)
\* What a step of the accountant leaves of the entries of a document.
SourcesKept ==
  \A s \in Source : /\ ReversedByHand(s) => ReversedByHand(s)'
                    /\ EntriesKept(s) \/ ReversedByHand(s)'
NoNewPosts == \A c \in Caller : call'[c].op \in Posts => call[c].op \in Posts
BillsStay == \A c \in Caller : call'[c].op = "bill" => call'[c] = call[c]

\* A call that begins posts, or bills, only if its job does.
LEMMA CallsAfter ==
  ASSUME Calls, NEW c \in Caller, NEW job, call' = [call EXCEPT ![c] = job]
  PROVE  /\ job.op \notin Posts => NoNewPosts
         /\ job.op # "bill" => BillsStay
<1>1. call' = [d \in Caller |-> IF d = c THEN job ELSE call[d]]
  BY DEF Calls
<1> QED BY <1>1 DEF NoNewPosts, BillsStay

\* A call that ends neither posts nor bills.
LEMMA FinishedAfter ==
  ASSUME Calls, NEW c \in Caller, Finish(c)
  PROVE  NoNewPosts /\ BillsStay
<1> DEFINE job == NoCall
<1>1. job.op = "none" /\ call' = [call EXCEPT ![c] = job]
  BY DEF Finish, NoCall
<1> HIDE DEF job
<1> QED BY <1>1, CallsAfter DEF Posts

\* The one entry without a key, saved or inserted, never reaching the ledger.
LEMMA JournalKeeps ==
  ASSUME LedgerInv, NEW e \in Entry, entries' = [entries EXCEPT ![NoKey] = e],
         entries[NoKey] # NoEntry => e.reversalOf = entries[NoKey].reversalOf
  PROVE  /\ entries' \in EntryTable /\ SourcesKept
         /\ entries[NoKey].status \notin Took /\ e.status \notin Took =>
              /\ TookEffect(entries', Key) = TookEffect(entries, Key)
              /\ \A k \in TookEffect(entries, Key) : entries'[k].lines = entries[k].lines
<1>1. entries \in EntryTable
  BY DEF LedgerInv, LedgerTypeOK
<1>2. entries'[NoKey] = e /\ e # NoEntry /\ \A k \in Key \ {NoKey} : entries'[k] = entries[k]
  BY <1>1, KeysApart DEF EntryTable, Entry, NoEntry
<1>3. entries' \in EntryTable
  BY <1>1 DEF EntryTable
<1>4. SourcesKept
  BY <1>2, KeysApart DEF SourcesKept, EntriesKept, ReversedByHand, EntriesOf
<1>5. ASSUME entries[NoKey].status \notin Took, e.status \notin Took
      PROVE /\ TookEffect(entries', Key) = TookEffect(entries, Key)
            /\ \A k \in TookEffect(entries, Key) : entries'[k].lines = entries[k].lines
  BY <1>2, <1>5 DEF TookEffect
<1> QED BY <1>3, <1>4, <1>5

\* The same, of a move of its status.
LEMMA JournalMoves ==
  ASSUME LedgerInv, NEW to \in {"DRAFT", "PENDING_APPROVAL", "POSTED", "VOID"},
         MoveEntry(NoKey, to)
  PROVE  /\ entries' \in EntryTable /\ SourcesKept
         /\ to # "POSTED" =>
              /\ TookEffect(entries', Key) = TookEffect(entries, Key)
              /\ \A k \in TookEffect(entries, Key) : entries'[k].lines = entries[k].lines
<1>1. entries \in EntryTable
  BY DEF LedgerInv, LedgerTypeOK
<1>2. entries[NoKey] # NoEntry /\ entries[NoKey].status \notin Took
  BY DEF MoveEntry, CanMoveEntry, EntryMoves, NoEntry, Took, Unposted
<1> DEFINE saved == SavedEntry(entries, NoKey, to)
<1>3. /\ saved \in EntryTable
      /\ saved[NoKey].status = to
      /\ saved[NoKey].reversalOf = entries[NoKey].reversalOf
      /\ \A x \in Key \ {NoKey} : saved[x] = entries[x]
  BY <1>1, <1>2, KeysApart, MovedEntry
<1>4. entries' = saved
  BY DEF MoveEntry
<1> HIDE DEF saved
<1>5. saved[NoKey] \in Entry
  <2>1. saved[NoKey].status # "NONE"
    BY <1>3
  <2> QED BY <1>3, <2>1, KeysApart, EntryRows DEF NoEntry
<1>6. entries' = [entries EXCEPT ![NoKey] = saved[NoKey]]
  BY <1>1, <1>3, <1>4 DEF EntryTable
<1> QED BY <1>2, <1>3, <1>5, <1>6, JournalKeeps DEF Took

\* An accountant reverses an entry: its document is out from here on.
LEMMA ReversedOut ==
  ASSUME LedgerInv, NEW c \in Caller, NEW k \in ByHand, NEW p \in Period, ReverseJournal(c, k, p)
  PROVE  entries' \in EntryTable /\ SourcesKept
<1>1. entries \in EntryTable /\ k \in Key
  BY LedgerAssumption DEF LedgerInv, LedgerTypeOK
<1>2. entries[k].status = "POSTED" /\ entries[k] # NoEntry /\ entries[NoKey] = NoEntry
      /\ k # NoKey
  BY DEF ReverseJournal, CanMoveEntry, EntryMoves, NoEntry, Unposted
<1> DEFINE saved == SavedEntry(entries, k, "REVERSED")
           e == NewEntry("POSTED", Mirror(entries[k].lines), p, k)
<1>3. saved \in EntryTable /\ \A x \in Key \ {k} : saved[x] = entries[x]
  BY <1>1, <1>2, MovedEntry
<1>4. entries[k].lines \in Lines
  BY <1>1, <1>2, EntryRows DEF Entry
<1>5. e \in Entry /\ e.reversalOf = k /\ e # NoEntry
  BY <1>1, <1>4, Mirrored, NewEntryIsARow
<1>6. entries' = [saved EXCEPT ![NoKey] = e]
  BY DEF ReverseJournal
<1> HIDE DEF saved, e
<1>7. entries' \in EntryTable
  BY <1>3, <1>5, <1>6 DEF EntryTable
<1>8. entries'[NoKey] = e /\ \A x \in Key \ {k, NoKey} : entries'[x] = entries[x]
  BY <1>3, <1>6, KeysApart DEF EntryTable
<1>9. SourcesKept
  <2> SUFFICES ASSUME NEW s \in Source
               PROVE  /\ ReversedByHand(s) => ReversedByHand(s)'
                      /\ EntriesKept(s) \/ ReversedByHand(s)'
    BY DEF SourcesKept
  <2>1. ~ ReversedByHand(s)
    BY <1>2 DEF ReversedByHand
  <2>2. CASE k \in EntriesOf(s)
    BY <2>2, <1>5, <1>8 DEF ReversedByHand, EntriesOf
  <2>3. CASE k \notin EntriesOf(s)
    <3>1. Posted(s) \in Key \ {k, NoKey} /\ Voided(s) \in Key \ {k, NoKey}
      BY <2>3, KeysApart DEF EntriesOf
    <3> QED BY <2>1, <3>1, <1>8 DEF EntriesKept
  <2> QED BY <2>1, <2>2, <2>3
<1> QED BY <1>7, <1>9

\* Manual entries.
LEMMA JournalSteps ==
  ASSUME LedgerInv, RowsStay, JournalNext
  PROVE  LedgerInv' /\ SourcesKept /\ BillsStay
<1>0. LedgerTypeOK /\ Calls /\ YearInv /\ Manual \subseteq Lines
  BY LedgerAssumption DEF LedgerInv
<1>1. ASSUME NEW lines \in Manual, NEW p \in Period, CreateJournal(lines, p)
      PROVE  LedgerInv' /\ SourcesKept /\ BillsStay
  <2> DEFINE e == NewEntry("DRAFT", lines, p, Nothing)
  <2>1. e \in Entry /\ e.status = "DRAFT"
    BY <1>0, NewEntryIsARow
  <2>2. /\ entries[NoKey] = NoEntry /\ entries' = [entries EXCEPT ![NoKey] = e]
        /\ decision' = decision /\ year' = year /\ cleared' = cleared /\ call' = call
    BY <1>1 DEF CreateJournal, InsertEntry
  <2> HIDE DEF e
  <2>3. /\ entries' \in EntryTable /\ SourcesKept
        /\ TookEffect(entries', Key) = TookEffect(entries, Key)
        /\ \A k \in TookEffect(entries, Key) : entries'[k].lines = entries[k].lines
    <3>1. entries[NoKey].status \notin Took /\ e.status \notin Took
      BY <2>1, <2>2 DEF Took, NoEntry
    <3> QED BY <2>1, <2>2, <3>1, JournalKeeps
  <2>4. YearInv' /\ Calls' /\ BillsStay
    BY <1>0, <2>2, <2>3, YearKept, OldJobs DEF BillsStay
  <2> QED BY <1>0, <2>2, <2>3, <2>4 DEF LedgerInv, LedgerTypeOK
<1>2. ASSUME SubmitJournal \/ ReopenJournal \/ VoidJournal
      PROVE  LedgerInv' /\ SourcesKept /\ BillsStay
  <2>1. PICK to \in {"DRAFT", "PENDING_APPROVAL", "VOID"} : MoveEntry(NoKey, to)
    BY <1>2 DEF SubmitJournal, ReopenJournal, VoidJournal
  <2>2. /\ decision' \in {decision, "PENDING"} /\ year' = year /\ cleared' = cleared
        /\ call' = call
    BY <1>2 DEF SubmitJournal, ReopenJournal, VoidJournal
  <2>3. /\ entries' \in EntryTable /\ SourcesKept
        /\ TookEffect(entries', Key) = TookEffect(entries, Key)
        /\ \A k \in TookEffect(entries, Key) : entries'[k].lines = entries[k].lines
    BY <2>1, JournalMoves
  <2>4. YearInv' /\ Calls' /\ BillsStay
    BY <1>0, <2>2, <2>3, YearKept, OldJobs DEF BillsStay
  <2> QED BY <1>0, <2>2, <2>3, <2>4 DEF LedgerInv, LedgerTypeOK
<1>3. ASSUME NEW verdict \in {"APPROVED", "REJECTED", "CANCELLED"}, Decide(verdict)
      PROVE  LedgerInv' /\ SourcesKept /\ BillsStay
  <2>1. /\ decision' = verdict /\ entries' = entries /\ year' = year /\ cleared' = cleared
        /\ call' = call
    BY <1>3 DEF Decide
  <2>2. YearInv' /\ Calls' /\ BillsStay
    BY <1>0, <2>1, YearKept, OldJobs DEF BillsStay
  <2>3. SourcesKept
    BY <2>1 DEF SourcesKept, EntriesKept, ReversedByHand
  <2> QED BY <1>0, <2>1, <2>2, <2>3 DEF LedgerInv, LedgerTypeOK
<1>4. ASSUME NEW c \in Caller,
             PostJournal(c) \/ \E k \in ByHand, p \in Period : ReverseJournal(c, k, p)
      PROVE  LedgerInv' /\ SourcesKept /\ BillsStay
  <2>1. /\ call[c].op \in Posts /\ Finish(c)
        /\ decision' = decision /\ year' = year /\ cleared' = cleared
    <3>1. PICK p : ThroughGate(c, p)
      BY <1>4 DEF PostJournal, ReverseJournal
    <3>2. decision' = decision /\ year' = year /\ cleared' = cleared
      BY <1>4 DEF PostJournal, ReverseJournal
    <3> QED BY <3>1, <3>2 DEF ThroughGate, Posts
  <2>2. entries' \in EntryTable /\ SourcesKept
    BY <1>0, <1>4, JournalMoves, ReversedOut DEF PostJournal, LedgerInv
  <2>3. BillsStay
    BY <2>1, <1>0, FinishedAfter
  <2> QED BY <2>1, <2>2, <2>3, GatePosts
<1> QED BY <1>1, <1>2, <1>3, <1>4 DEF JournalNext

\* A call that computes a new year.
LEMMA YearComputed ==
  ASSUME LedgerInv, RowsStay, NEW c \in Caller, NEW next \in SUBSET Year,
         ledgerVars' = ledgerVars,
         \E y \in next :
           call' = [call EXCEPT ![c] = [op |-> "saveYear", loaded |-> year, year |-> y]]
  PROVE  LedgerInv' /\ SourcesKept /\ BillsStay
<1>1. PICK y \in next :
        call' = [call EXCEPT ![c] = [op |-> "saveYear", loaded |-> year, year |-> y]]
  OBVIOUS
<1> DEFINE job == [op |-> "saveYear", loaded |-> year, year |-> y]
<1>2. call' = [call EXCEPT ![c] = job] /\ Typed(job) /\ job.op = "saveYear"
  BY <1>1 DEF Typed
<1> HIDE DEF job
<1>3. Calls' /\ NoNewPosts /\ BillsStay
  BY <1>2, NewJob, CallsAfter DEF LedgerInv, Posts
<1> QED BY <1>3, LedgerStill DEF NoNewPosts, SourcesKept

\* What is computed is a year.
LEMMA YearRows ==
  ASSUME LedgerTypeOK, NEW p \in Period, NEW to \in {"OPEN", "LOCKED"}
  PROVE  Transition(year, p, to) \in SUBSET Year /\ Close(year) \in SUBSET Year
<1>1. year \in Year
  BY DEF LedgerTypeOK
<1>2. year = [status |-> year.status, period |-> year.period] /\ year.period \in PeriodTable
  BY <1>1 DEF Year
<1>3. [year EXCEPT !.period[p] = to]
        = [status |-> year.status, period |-> [year.period EXCEPT ![p] = to]]
  BY <1>2
<1>4. [year EXCEPT !.period[p] = to] \in Year
  BY <1>1, <1>3 DEF Year, PeriodTable
<1>5. [status |-> "CLOSED", period |-> [q \in Period |-> "CLOSED"]] \in Year
  BY DEF Year, PeriodTable
<1> QED BY <1>4, <1>5 DEF Transition, Close

\* The closing entry takes the whole result.
LEMMA ClosingIs ==
  ASSUME entries \in EntryTable
  PROVE  /\ Total("RESULT", Key) \in Int
         /\ ClosingLines \in Lines /\ ClosingLines["RESULT"] = - Total("RESULT", Key)
<1>1. Total("RESULT", Key) \in Int
  BY TotalSum, TotalIs, SumIsAnInteger DEF Account
<1>2. Balance("RESULT", Key) = Total("RESULT", Key)
  BY DEF Balance, Total, Counted
<1> DEFINE net == Total("RESULT", Key)
<1>3. ClosingLines = [Zero EXCEPT !["RESULT"] = - net, !["RETAINED"] = net]
  BY <1>2 DEF ClosingLines
<1> HIDE DEF net
<1>4. net \in Int => ClosingLines \in Lines /\ ClosingLines["RESULT"] = - net
  BY <1>3 DEF Zero, Lines, Account
<1> QED BY <1>1, <1>4 DEF net

\* The year-end close, alone: what it posts brings the result to zero.
LEMMA YearEnded ==
  ASSUME LedgerInv, RowsStay, NEW c \in Caller, NEW p \in Period, SaveYearEnd(c, p)
  PROVE  LedgerInv' /\ SourcesKept /\ BillsStay
<1>1. LedgerTypeOK /\ Calls /\ entries \in EntryTable
  BY DEF LedgerInv, LedgerTypeOK
<1> DEFINE lines == call[c].closing
           e == NewEntry("POSTED", lines, p, Nothing)
<1>2. /\ lines \in Lines
      /\ lines # Zero => entries[YearEnd] = NoEntry
      /\ entries' = Posting(entries, YearEnd, lines, p)
      /\ year' = [status |-> "CLOSED", period |-> [q \in Period |-> "CLOSED"]]
      /\ cleared' = (Alone(c) /\ entries[YearEnd] = NoEntry /\ lines = ClosingLines)
      /\ Finish(c) /\ decision' = decision
  BY <1>1 DEF SaveYearEnd, Calls, Typed
<1>3. e \in Entry /\ e.status = "POSTED" /\ e.lines = lines
  BY <1>2, NewEntryIsARow
<1> HIDE DEF lines, e
<1>4. entries' = IF lines = Zero THEN entries ELSE [entries EXCEPT ![YearEnd] = e]
  BY <1>2 DEF Posting, e
<1>5. entries' \in EntryTable
  BY <1>1, <1>3, <1>4 DEF EntryTable
<1>6. SourcesKept
  <2>1. \A k \in Key \ {YearEnd} : entries'[k] = entries[k]
    BY <1>1, <1>4 DEF EntryTable
  <2> QED BY <2>1, KeysApart DEF SourcesKept, EntriesKept, ReversedByHand
<1>7. Calls' /\ BillsStay
  BY <1>1, <1>2, Finished, FinishedAfter
<1>8. year' \in Year /\ year'.status = "CLOSED"
  BY <1>2 DEF Year, PeriodTable
<1>9. YearInv'
  <2> SUFFICES ASSUME cleared'
               PROVE  /\ year'.status = "CLOSED" /\ Total("RESULT", Key)' = 0
                      /\ \A d \in Caller : call'[d].op \notin Posts
    BY DEF YearInv
  <2>1. Alone(c) /\ entries[YearEnd] = NoEntry /\ lines = ClosingLines
    BY <1>2
  <2>2. \A d \in Caller : call'[d] = NoCall
    BY <1>1, <1>2, <2>1 DEF Alone, Finish, Calls
  <2>3. lines["RESULT"] = - Total("RESULT", Key) /\ Total("RESULT", Key) \in Int
    BY <1>1, <2>1, ClosingIs
  <2>4. Total("RESULT", Key)' = 0
    <3>1. CASE lines = Zero
      <4>1. Total("RESULT", Key) = 0
        BY <3>1, <2>3 DEF Zero, Account
      <4>2. Total("RESULT", Key)' = Total("RESULT", Key)
        BY <3>1, <1>4, TotalKept
      <4> QED BY <4>1, <4>2
    <3>2. CASE lines # Zero
      <4>1. entries' = [entries EXCEPT ![YearEnd] = e]
        BY <3>2, <1>4
      <4>2. Total("RESULT", Key)' = Total("RESULT", Key) + e.lines["RESULT"]
        BY <1>1, <1>3, <2>1, <4>1, KeysApart, TotalPosted DEF Account
      <4> QED BY <4>2, <1>3, <2>3
    <3> QED BY <3>1, <3>2
  <2> QED BY <1>8, <2>2, <2>4 DEF NoCall, Posts
<1>10. cleared' \in BOOLEAN
  BY <1>2
<1> QED BY <1>1, <1>2, <1>5, <1>6, <1>7, <1>8, <1>9, <1>10 DEF LedgerInv, LedgerTypeOK

\* The year and its periods.
LEMMA YearSteps ==
  ASSUME LedgerInv, RowsStay, YearNext
  PROVE  LedgerInv' /\ SourcesKept /\ BillsStay
<1>0. LedgerTypeOK /\ Calls /\ YearInv
  BY DEF LedgerInv
<1>1. PICK c \in Caller :
          \/ \E p \in Period : \/ LockPeriod(c, p) \/ UnlockPeriod(c, p)
                               \/ ClosePeriod(c, p) \/ SaveYearEnd(c, p)
          \/ LockCounted(c) \/ CloseYear(c) \/ SaveYear(c) \/ BeginYearEnd(c)
  BY DEF YearNext
<1>2. ASSUME \/ \E p \in Period : LockPeriod(c, p) \/ UnlockPeriod(c, p)
             \/ LockCounted(c)
      PROVE  LedgerInv' /\ SourcesKept /\ BillsStay
  <2>1. PICK p \in Period, to \in {"OPEN", "LOCKED"} :
          /\ ledgerVars' = ledgerVars
          /\ \E y \in Transition(year, p, to) :
               call' = [call EXCEPT ![c] = [op |-> "saveYear", loaded |-> year, year |-> y]]
    BY <1>0, <1>2 DEF LockPeriod, UnlockPeriod, LockCounted, ChangeYear, Start, Calls, Typed
  <2> QED BY <1>0, <2>1, YearRows, YearComputed
<1>7. ASSUME NEW p \in Period, ClosePeriod(c, p)
      PROVE  LedgerInv' /\ SourcesKept /\ BillsStay
  <2> DEFINE job == [op |-> "closePeriod", at |-> p]
  <2>1. call' = [call EXCEPT ![c] = job] /\ ledgerVars' = ledgerVars
    BY <1>7 DEF ClosePeriod, Start
  <2>2. Typed(job) /\ job.op = "closePeriod"
    BY DEF Typed
  <2> HIDE DEF job
  <2>3. Calls' /\ NoNewPosts /\ BillsStay
    BY <1>0, <2>1, <2>2, NewJob, CallsAfter DEF Posts
  <2> QED BY <2>1, <2>3, LedgerStill DEF NoNewPosts, SourcesKept
<1>3. ASSUME NEW p \in Period, SaveYearEnd(c, p)
      PROVE  LedgerInv' /\ SourcesKept /\ BillsStay
  BY <1>3, YearEnded
<1>4. CASE CloseYear(c)
  <2>1. /\ ledgerVars' = ledgerVars
        /\ \E y \in Close(year) :
             call' = [call EXCEPT ![c] = [op |-> "saveYear", loaded |-> year, year |-> y]]
    BY <1>4 DEF CloseYear, ChangeYear, Start
  <2>2. Close(year) \in SUBSET Year
    BY <1>0, LedgerAssumption, YearRows
  <2> QED BY <2>1, <2>2, YearComputed
<1>5. CASE SaveYear(c)
  <2>1. /\ call[c].op = "saveYear" /\ year' = call[c].year /\ cleared' = FALSE /\ Finish(c)
        /\ entries' = entries /\ decision' = decision
    BY <1>5 DEF SaveYear
  <2>2. year' \in Year
    BY <1>0, <2>1 DEF Calls, Typed
  <2>3. Calls' /\ BillsStay
    BY <1>0, <2>1, Finished, FinishedAfter
  <2>4. SourcesKept
    BY <2>1 DEF SourcesKept, EntriesKept, ReversedByHand
  <2> QED BY <1>0, <2>1, <2>2, <2>3, <2>4 DEF LedgerInv, LedgerTypeOK, YearInv
<1>6. CASE BeginYearEnd(c)
  <2> DEFINE closing == IF entries[YearEnd] = NoEntry THEN ClosingLines ELSE Zero
             job == [op |-> "yearEnd", open |-> OpenPeriods, closing |-> closing]
  <2>1. call' = [call EXCEPT ![c] = job] /\ ledgerVars' = ledgerVars
    BY <1>6 DEF BeginYearEnd, Start
  <2>2. closing \in Lines
    BY <1>0, ClosingIs DEF LedgerTypeOK, Zero, Lines
  <2> HIDE DEF closing
  <2>3. Typed(job) /\ job.op = "yearEnd"
    BY <2>2 DEF Typed
  <2> HIDE DEF job
  <2>4. Calls' /\ NoNewPosts /\ BillsStay
    BY <1>0, <2>1, <2>3, NewJob, CallsAfter DEF Posts
  <2> QED BY <2>1, <2>4, LedgerStill DEF NoNewPosts, SourcesKept
<1> QED BY <1>1, <1>2, <1>3, <1>4, <1>5, <1>6, <1>7

\* Calls at the gate.
LEMMA CallSteps ==
  ASSUME LedgerInv, RowsStay, CallNext
  PROVE  LedgerInv' /\ SourcesKept /\ BillsStay
<1>0. Calls /\ YearInv
  BY DEF LedgerInv
<1>1. PICK c \in Caller : GiveUp(c) \/ \E p \in Period : PassGate(c, p)
  BY DEF CallNext
<1>2. CASE GiveUp(c)
  <2>1. Finish(c) /\ ledgerVars' = ledgerVars
    BY <1>2 DEF GiveUp
  <2>2. Calls' /\ NoNewPosts /\ BillsStay
    BY <1>0, <2>1, Finished, FinishedAfter
  <2> QED BY <2>1, <2>2, LedgerStill DEF NoNewPosts, SourcesKept
<1>3. ASSUME NEW p \in Period, PassGate(c, p)
      PROVE  LedgerInv' /\ SourcesKept /\ BillsStay
  <2> DEFINE job == [op |-> "gate", at |-> p]
  <2>1. /\ call' = [call EXCEPT ![c] = job] /\ ledgerVars' = ledgerVars
        /\ Typed(job) /\ job.op = "gate"
    BY <1>3 DEF PassGate, Start, Typed
  <2>2. ~ cleared
    BY <1>0, <1>3 DEF PassGate, GateOpen, YearInv
  <2> HIDE DEF job
  <2>3. Calls' /\ BillsStay
    BY <1>0, <2>1, NewJob, CallsAfter
  <2> QED BY <2>1, <2>2, <2>3, LedgerStill DEF SourcesKept
<1> QED BY <1>1, <1>2, <1>3

(*****************************************************************************)
(* Steps that post nothing                                                   *)
(*****************************************************************************)
\* The lines of a document carry its effect on the control account.
LEMMA LinesOf ==
  ASSUME NEW amount \in Amount
  PROVE  /\ \A type \in {"INVOICE", "DEBIT_NOTE"} :
              /\ InvoiceLines(type, amount) \in Lines
              /\ InvoiceLines(type, amount)["CONTROL"] = amount
         /\ InvoiceLines("CREDIT_NOTE", amount) \in Lines
         /\ InvoiceLines("CREDIT_NOTE", amount)["CONTROL"] = - amount
         /\ ReceiptLines(amount) \in Lines /\ ReceiptLines(amount)["CONTROL"] = - amount
         /\ amount \in Nat /\ amount # 0 /\ - amount \in Int /\ - amount # 0
<1>1. amount \in Nat /\ amount # 0
  BY FiniteTables DEF Amount
<1>2. \A owed \in Int :
        /\ [Zero EXCEPT !["CONTROL"] = owed, !["RESULT"] = - owed] \in Lines
        /\ [Zero EXCEPT !["CONTROL"] = owed, !["RESULT"] = - owed]["CONTROL"] = owed
  BY DEF Zero, Lines, Account
<1>3. /\ ReceiptLines(amount) \in Lines /\ ReceiptLines(amount)["CONTROL"] = - amount
  BY <1>1 DEF ReceiptLines, Zero, Lines, Account
<1>4. /\ InvoiceLines("CREDIT_NOTE", amount)
            = [Zero EXCEPT !["CONTROL"] = - amount, !["RESULT"] = - (- amount)]
      /\ \A type \in {"INVOICE", "DEBIT_NOTE"} : InvoiceLines(type, amount)
            = [Zero EXCEPT !["CONTROL"] = amount, !["RESULT"] = - amount]
  BY DEF InvoiceLines
<1>5. amount \in Int /\ - amount \in Int /\ - amount # 0
  BY <1>1
<1> QED BY <1>1, <1>2, <1>3, <1>4, <1>5

\* A step that leaves the ledger alone and saves one invoice, with the same effect.
LEMMA QuietInvoice ==
  ASSUME Inv, ledgerVars' = ledgerVars, Calls', NoNewPosts, BillsStay,
         NEW i \in Invoice, NEW row \in InvoiceRow, RowSound(row),
         invoices' = [invoices EXCEPT ![i] = row], receipts' = receipts,
         delivered' = delivered, overlapped' = overlapped,
         KeepsKind(invoices[i], row), row.settled = SettledSoFar(invoices[i]),
         InvoiceEffect(row) = InvoiceEffect(invoices[i]),
         row.status \in {"NONE", "DRAFT"} => invoices[i].status \in {"NONE", "DRAFT"},
         Weight(row) <= Weight(invoices[i])
  PROVE  Inv'
<1>1. Tables /\ Settlements /\ Documents /\ Billing /\ LedgerInv /\ Calls
      /\ invoices \in InvoiceTable
      /\ delivered' \in 0 .. MaxAmount /\ overlapped' \in BOOLEAN
  BY DEF Inv, LedgerInv, Tables
<1>2. Tables' /\ Settlements'
  BY <1>1, OneInvoice
<1>3. LedgerInv' /\ \A s \in Source : EntriesKept(s) /\ ReversedByHand(s)' = ReversedByHand(s)
  BY <1>1, LedgerStill DEF NoNewPosts
<1>4. Billing'
  BY <1>1, BillsNoMore DEF BillsStay
<1>5. invoices'[i] = row /\ \A k \in Invoice \ {i} : invoices'[k] = invoices[k]
  BY <1>1 DEF InvoiceTable
<1>6. Invoice \subseteq Source /\ Receipt \subseteq Source
  BY ReceivableAssumption
<1>7. \A k \in Invoice : InvoiceSays(k)'
  BY <1>1, <1>3, <1>5, <1>6, InvoiceStill DEF Documents
<1>8. \A r \in Receipt : ReceiptSays(r)'
  BY <1>1, <1>3, <1>6, ReceiptStill DEF Documents
<1> QED BY <1>2, <1>3, <1>4, <1>7, <1>8 DEF Inv, Documents

\* The ledger's own steps.
LEMMA LedgerKeeps ==
  ASSUME Inv, LedgerNext, UNCHANGED arVars
  PROVE  Inv'
<1>1. /\ Tables /\ Settlements /\ Documents /\ Billing /\ LedgerInv
      /\ invoices' = invoices /\ receipts' = receipts /\ delivered' = delivered
      /\ overlapped' = overlapped
  BY DEF Inv, arVars
<1>2. RowsStay
  BY <1>1 DEF RowsStay
<1>3. LedgerInv' /\ SourcesKept /\ BillsStay
  BY <1>1, <1>2, JournalSteps, YearSteps, CallSteps DEF LedgerNext
<1>4. Tables' /\ Settlements'
  <2>1. \A i \in Invoice : /\ FromReceipts(receipts, i)' = FromReceipts(receipts, i)
                           /\ FromNotes(invoices, i)' = FromNotes(invoices, i)
    BY <1>1, NotesKept, ReceiptsKept
  <2> QED BY <1>1, <2>1 DEF Tables, Settlements
<1>5. Invoice \subseteq Source /\ Receipt \subseteq Source
  BY ReceivableAssumption
<1>6. \A i \in Invoice : InvoiceSays(i)'
  <2> SUFFICES ASSUME NEW i \in Invoice PROVE InvoiceSays(i)'
    OBVIOUS
  <2>1. CASE ReversedByHand(i)'
    BY <2>1 DEF InvoiceSays, LedgerSays, Fresh
  <2>2. CASE EntriesKept(i) /\ ~ ReversedByHand(i)'
    BY <2>2, <1>1, <1>3, <1>5, InvoiceStill DEF Documents, SourcesKept
  <2> QED BY <2>1, <2>2, <1>3, <1>5 DEF SourcesKept
<1>7. \A r \in Receipt : ReceiptSays(r)'
  <2> SUFFICES ASSUME NEW r \in Receipt PROVE ReceiptSays(r)'
    OBVIOUS
  <2>1. CASE ReversedByHand(r)'
    BY <2>1 DEF ReceiptSays, LedgerSays, Fresh
  <2>2. CASE EntriesKept(r) /\ ~ ReversedByHand(r)'
    BY <2>2, <1>1, <1>3, <1>5, ReceiptStill DEF Documents, SourcesKept
  <2> QED BY <2>1, <2>2, <1>3, <1>5 DEF SourcesKept
<1>8. Billing'
  BY <1>1, <1>3, BillsKept DEF BillsStay
<1> QED BY <1>3, <1>4, <1>6, <1>7, <1>8 DEF Inv, Documents

\* Sales ships a unit.
LEMMA Delivered ==
  ASSUME Inv, Deliver
  PROVE  Inv'
<1>1. /\ Tables /\ Settlements /\ Documents /\ Billing /\ LedgerInv /\ Calls /\ MaxAmount \in Nat
      /\ invoices' = invoices /\ receipts' = receipts /\ delivered' = delivered + 1
      /\ overlapped' = overlapped /\ ledgerVars' = ledgerVars /\ call' = call
      /\ delivered < MaxAmount /\ delivered \in 0 .. MaxAmount
  BY FiniteTables DEF Inv, Deliver, LedgerInv, Tables
<1>2. RowsStay
  BY <1>1 DEF RowsStay
<1>3. LedgerInv' /\ \A s \in Source : EntriesKept(s) /\ ReversedByHand(s)' = ReversedByHand(s)
  BY <1>1, <1>2, OldJobs, LedgerStill
<1>4. Tables' /\ Settlements'
  <2>1. \A i \in Invoice : /\ FromReceipts(receipts, i)' = FromReceipts(receipts, i)
                           /\ FromNotes(invoices, i)' = FromNotes(invoices, i)
    BY <1>1, NotesKept, ReceiptsKept
  <2>2. delivered' \in 0 .. MaxAmount
    BY <1>1
  <2> QED BY <1>1, <2>1, <2>2 DEF Tables, Settlements
<1>5. Invoice \subseteq Source /\ Receipt \subseteq Source
  BY ReceivableAssumption
<1>6. Documents'
  BY <1>1, <1>3, <1>5, InvoiceStill, ReceiptStill DEF Documents
<1>7. Billing'
  <2> DEFINE b == Billed(invoices)
  <2>1. b \in Int /\ delivered \in Int /\ \A c \in Caller : call[c].op = "bill" =>
        call[c].amount \in Int
    BY <1>1, BillSum, FiniteTables DEF Tables, Calls, Typed
  <2>2. \/ overlapped
        \/ /\ b <= delivered
           /\ \A c \in Caller :
                call[c].op = "bill" => b + call[c].amount <= delivered
    BY <1>1 DEF Billing
  <2> HIDE DEF b
  <2>3. \/ overlapped
        \/ /\ b <= delivered + 1
           /\ \A c \in Caller :
                call[c].op = "bill" => b + call[c].amount <= delivered + 1
    BY <2>1, <2>2
  <2>4. Billed(invoices') = b
    BY <1>1 DEF b
  <2> QED BY <1>1, <2>3, <2>4 DEF Billing
<1> QED BY <1>3, <1>4, <1>6, <1>7 DEF Inv

\* One row is saved, the others stay.
LEMMA RowsSaved ==
  ASSUME Inv, NEW i \in Invoice, NEW row \in InvoiceRow, invoices' = [invoices EXCEPT ![i] = row]
  PROVE  /\ RowsStay
         /\ invoices'[i] = row /\ row # NoInvoice /\ \A k \in Invoice \ {i} :
             invoices'[k] = invoices[k]
<1>1. invoices \in InvoiceTable /\ row # NoInvoice
  BY DEF Inv, Tables, InvoiceRow, NoInvoice
<1>2. invoices'[i] = row /\ \A k \in Invoice \ {i} : invoices'[k] = invoices[k]
  BY <1>1 DEF InvoiceTable
<1> QED BY <1>1, <1>2 DEF RowsStay

\* Rows that bill nothing.
LEMMA FreshWeight ==
  ASSUME NEW row
  PROVE  /\ row.status \in {"NONE", "VOID"} => Weight(row) = 0
         /\ row.type # "INVOICE" => Weight(row) = 0
         /\ row.linked = FALSE => Weight(row) = 0
  BY DEF Weight, Bills

\* CreateManualInvoice.
LEMMA CreatedByHand ==
  ASSUME Inv, NEW i \in Invoice, NEW amount \in Totals, NEW p \in Period,
         CreateManualInvoice(i, amount, p)
  PROVE  Inv'
<1> DEFINE no == FALSE
           row == NewInvoice("INVOICE", "DRAFT", p, amount, no, NoInvoice)
<1>1. /\ row \in InvoiceRow /\ RowSound(row) /\ row.settled = 0 /\ row.type = "INVOICE"
      /\ row.status = "DRAFT" /\ row.linked = FALSE
  <2>1. no \in BOOLEAN /\ amount \in Amount
    BY FiniteTables
  <2> HIDE DEF no
  <2>2. /\ row \in InvoiceRow /\ RowSound(row) /\ row.settled = 0 /\ row.type = "INVOICE"
        /\ row.status = "DRAFT" /\ row.linked = no
    BY <2>1, NewRow
  <2> QED BY <2>2 DEF no
<1>2. /\ invoices[i] = NoInvoice /\ invoices' = [invoices EXCEPT ![i] = row]
      /\ receipts' = receipts /\ delivered' = delivered /\ overlapped' = overlapped
      /\ ledgerVars' = ledgerVars /\ call' = call
  BY DEF CreateManualInvoice, InsertInvoice
<1>3. SettledSoFar(invoices[i]) = 0 /\ invoices[i].status = "NONE"
  BY <1>2 DEF SettledSoFar, NoInvoice
<1> HIDE DEF row
<1>4. InvoiceEffect(row) = InvoiceEffect(invoices[i])
  BY <1>1, <1>3, EffectOf
<1>5. Weight(row) = 0 /\ Weight(invoices[i]) = 0
  BY <1>1, <1>3, FreshWeight
<1>6. Calls' /\ NoNewPosts /\ BillsStay
  BY <1>1, <1>2, RowsSaved, OldJobs DEF Inv, LedgerInv, NoNewPosts, BillsStay
<1>7. KeepsKind(invoices[i], row) /\ row.settled = SettledSoFar(invoices[i])
      /\ Weight(row) <= Weight(invoices[i])
  BY <1>1, <1>2, <1>3, <1>5 DEF KeepsKind
<1> QED BY <1>1, <1>2, <1>3, <1>4, <1>6, <1>7, QuietInvoice

\* A row that is there is sound.
LEMMA SavedRow ==
  ASSUME Inv, NEW i \in Invoice, invoices[i].status # "NONE"
  PROVE  /\ invoices[i] \in InvoiceRow /\ RowSound(invoices[i]) /\ invoices[i] # NoInvoice
         /\ SettledSoFar(invoices[i]) = invoices[i].settled
<1>1. invoices[i] # NoInvoice
  BY DEF NoInvoice
<1> QED BY <1>1, InvoiceRows DEF Inv, Tables, Settlements, SettledSoFar

\* UpdateInvoice.
LEMMA Rewritten ==
  ASSUME Inv, NEW i \in Invoice, NEW amount \in Totals, NEW p \in Period,
         UpdateInvoice(i, amount, p)
  PROVE  Inv'
<1>0. PICK row \in Edits(invoices[i], amount, p) : SaveInvoice(i, row)
  BY DEF UpdateInvoice
<1>1. /\ invoices[i].status = "DRAFT" /\ invoices' = [invoices EXCEPT ![i] = row]
      /\ receipts' = receipts /\ delivered' = delivered /\ overlapped' = overlapped
      /\ ledgerVars' = ledgerVars /\ call' = call
  BY <1>0 DEF UpdateInvoice, SaveInvoice
<1>2. /\ invoices[i] \in InvoiceRow /\ RowSound(invoices[i]) /\ invoices[i] # NoInvoice
      /\ SettledSoFar(invoices[i]) = invoices[i].settled
  BY <1>1, SavedRow
<1>3. /\ row \in InvoiceRow /\ RowSound(row) /\ row.settled = invoices[i].settled
      /\ row.type = invoices[i].type /\ row.status = "DRAFT"
      /\ row.linked = FALSE
           \/ (row.linked = invoices[i].linked /\ row.total = invoices[i].total)
  BY <1>1, <1>2, FiniteTables, EditedRow
<1>4. InvoiceEffect(row) = InvoiceEffect(invoices[i])
  BY <1>1, <1>3, EffectOf
<1>5. Weight(row) <= Weight(invoices[i])
  <2>1. Weight(row) = 0 \/ Weight(row) = Weight(invoices[i])
    BY <1>1, <1>2, <1>3, FreshWeight DEF Weight, Bills, NoInvoice
  <2>2. Weight(invoices[i]) \in Nat
    BY <1>2, WeightOf
  <2> QED BY <2>1, <2>2
<1>6. Calls' /\ NoNewPosts /\ BillsStay
  BY <1>1, <1>3, RowsSaved, OldJobs DEF Inv, LedgerInv, NoNewPosts, BillsStay
<1>7. KeepsKind(invoices[i], row)
  BY <1>1, <1>2, <1>3 DEF KeepsKind, RowSound
<1> QED BY <1>1, <1>2, <1>3, <1>4, <1>5, <1>6, <1>7, QuietInvoice

\* VoidDraftInvoice.
LEMMA DraftVoided ==
  ASSUME Inv, NEW i \in Invoice, VoidDraftInvoice(i)
  PROVE  Inv'
<1> DEFINE row == VoidedInvoice(invoices[i])
<1>1. /\ invoices[i].status = "DRAFT" /\ CanVoid(invoices[i])
      /\ invoices' = [invoices EXCEPT ![i] = row]
      /\ receipts' = receipts /\ delivered' = delivered /\ overlapped' = overlapped
      /\ ledgerVars' = ledgerVars /\ call' = call
  BY DEF VoidDraftInvoice, SaveInvoice
<1>2. /\ invoices[i] \in InvoiceRow /\ RowSound(invoices[i]) /\ invoices[i] # NoInvoice
      /\ SettledSoFar(invoices[i]) = invoices[i].settled
  BY <1>1, SavedRow
<1>3. /\ row \in InvoiceRow /\ RowSound(row) /\ row.settled = invoices[i].settled
      /\ row.type = invoices[i].type /\ row.status = "VOID"
  BY <1>1, <1>2, VoidedRow
<1> HIDE DEF row
<1>4. InvoiceEffect(row) = InvoiceEffect(invoices[i])
  BY <1>1, <1>3, EffectOf
<1>5. Weight(row) <= Weight(invoices[i])
  <2>1. Weight(row) = 0 /\ Weight(invoices[i]) \in Nat
    BY <1>2, <1>3, FreshWeight, WeightOf
  <2> QED BY <2>1
<1>6. Calls' /\ NoNewPosts /\ BillsStay
  BY <1>1, <1>3, RowsSaved, OldJobs DEF Inv, LedgerInv, NoNewPosts, BillsStay
<1>7. KeepsKind(invoices[i], row)
  BY <1>1, <1>2, <1>3 DEF KeepsKind, RowSound
<1>8. row.status \in {"NONE", "DRAFT"} => invoices[i].status \in {"NONE", "DRAFT"}
  BY <1>3
<1> QED BY <1>1, <1>2, <1>3, <1>4, <1>5, <1>6, <1>7, <1>8, QuietInvoice

(*****************************************************************************)
(* Steps that post an invoice or look at one                                 *)
(*****************************************************************************)
\* An invoice saved, with what is posted for it.
LEMMA LoudInvoice ==
  ASSUME Inv, NEW i \in Invoice, NEW row \in InvoiceRow, RowSound(row),
         invoices' = [invoices EXCEPT ![i] = row], receipts' = receipts,
         delivered' \in 0 .. MaxAmount, overlapped' \in BOOLEAN,
         KeepsKind(invoices[i], row), row.settled = SettledSoFar(invoices[i]),
         InvoiceSays(i)', entries'[NoKey] = entries[NoKey],
         \A s \in Source \ {i} : EntriesKept(s)
  PROVE  Tables' /\ Settlements' /\ Documents'
<1>1. Tables /\ Settlements /\ Documents
  BY DEF Inv
<1>2. Tables' /\ Settlements'
  BY <1>1, OneInvoice
<1>3. \A k \in Invoice \ {i} : invoices'[k] = invoices[k]
  BY RowsSaved
<1>4. \A s \in Source : ReversedByHand(s)' = ReversedByHand(s)
  BY DEF ReversedByHand
<1>5. Invoice \subseteq Source /\ Receipt \subseteq Source /\ i \notin Receipt
  BY ReceivableAssumption
<1>6. \A k \in Invoice : InvoiceSays(k)'
  <2> SUFFICES ASSUME NEW k \in Invoice \ {i} PROVE InvoiceSays(k)'
    OBVIOUS
  <2> QED BY <1>1, <1>3, <1>4, <1>5, InvoiceStill DEF Documents
<1>7. \A r \in Receipt : ReceiptSays(r)'
  BY <1>1, <1>4, <1>5, ReceiptStill DEF Documents
<1> QED BY <1>2, <1>6, <1>7 DEF Documents

\* IssueInvoice.
LEMMA InvoiceIssued ==
  ASSUME Inv, NEW c \in Caller, NEW i \in Invoice, IssueInvoice(c, i)
  PROVE  Inv'
<1> DEFINE row == Issued(invoices[i])
<1>1. /\ invoices[i].status = "DRAFT" /\ invoices' = [invoices EXCEPT ![i] = row]
      /\ entries' = Posting(entries, Posted(i),
                   InvoiceLines(invoices[i].type, invoices[i].total), invoices[i].date)
      /\ receipts' = receipts /\ delivered' = delivered /\ overlapped' = overlapped
      /\ decision' = decision /\ year' = year /\ cleared' = cleared
      /\ call[c].op \in Posts /\ Finish(c)
  BY DEF IssueInvoice, SaveInvoice, ThroughGate, Posts
<1>2. /\ invoices[i] \in InvoiceRow /\ RowSound(invoices[i]) /\ invoices[i] # NoInvoice
      /\ SettledSoFar(invoices[i]) = invoices[i].settled
  BY <1>1, SavedRow
<1>3. /\ row \in InvoiceRow /\ RowSound(row) /\ row.settled = invoices[i].settled
      /\ row.type = invoices[i].type /\ row.status = "ISSUED" /\ row.total = invoices[i].total
      /\ row.linked = invoices[i].linked
  BY <1>1, <1>2, IssuedRow
<1>4. invoices[i].type = "INVOICE" /\ invoices[i].total \in Amount /\ invoices[i].date \in Period
  BY <1>1, <1>2 DEF RowSound, InvoiceRow
<1>5. PICK lines \in Lines : /\ lines = InvoiceLines(invoices[i].type, invoices[i].total)
                            /\ lines["CONTROL"] = invoices[i].total /\ lines["CONTROL"] # 0
  BY <1>4, LinesOf
<1> HIDE DEF row
<1>6. entries \in EntryTable /\ LedgerInv /\ Calls /\ Documents /\ Tables /\ Billing
      /\ i \in Source
  BY ReceivableAssumption DEF Inv, LedgerInv, LedgerTypeOK
<1>7. Fresh(i)
  BY <1>1, <1>6 DEF Documents, InvoiceSays
<1>8. /\ entries' \in EntryTable /\ LedgerSays(i, lines["CONTROL"])'
      /\ \A t \in Source \ {i} : EntriesKept(t)
      /\ entries'[NoKey] = entries[NoKey]
  BY <1>1, <1>4, <1>5, <1>6, <1>7, PostingSays
<1>9. invoices'[i] = row /\ RowsStay
  BY <1>1, <1>3, RowsSaved
<1>10. LedgerInv'
  BY <1>1, <1>6, <1>8, <1>9, GatePosts
<1>11. InvoiceSays(i)'
  <2>1. InvoiceEffect(row) = lines["CONTROL"] /\ row.status \notin {"NONE", "DRAFT"}
    BY <1>3, <1>5, EffectOf
  <2> QED BY <1>8, <1>9, <2>1 DEF InvoiceSays, LedgerSays, Empty
<1>12. Tables' /\ Settlements' /\ Documents'
  <2>1. KeepsKind(invoices[i], row) /\ row.settled = SettledSoFar(invoices[i])
    BY <1>2, <1>3, <1>4 DEF KeepsKind
  <2>2. delivered' \in 0 .. MaxAmount /\ overlapped' \in BOOLEAN
    BY <1>1, <1>6 DEF Tables
  <2> QED BY <1>1, <1>3, <1>8, <1>11, <2>1, <2>2, LoudInvoice
<1>13. Billing'
  <2>1. Weight(row) <= Weight(invoices[i])
    <3>1. Bills(row) <=> Bills(invoices[i])
      BY <1>1, <1>3 DEF Bills
    <3>2. Weight(row) = Weight(invoices[i]) /\ Weight(row) \in Nat
      BY <1>3, <3>1, WeightOf DEF Weight
    <3> QED BY <3>2
  <2>2. BillsStay /\ Calls'
    BY <1>1, <1>6, <1>10, FinishedAfter DEF LedgerInv
  <2> QED BY <1>1, <1>3, <1>6, <2>1, <2>2, BillsNoMore DEF BillsStay
<1> QED BY <1>10, <1>12, <1>13 DEF Inv

\* VoidInvoice.
LEMMA InvoiceVoided ==
  ASSUME Inv, NEW c \in Caller, NEW i \in Invoice, NEW p \in Period, VoidInvoice(c, i, p)
  PROVE  Inv'
<1> DEFINE row == VoidedInvoice(invoices[i])
<1>1. /\ invoices[i].status = "ISSUED" /\ CanVoid(invoices[i])
      /\ invoices' = [invoices EXCEPT ![i] = row]
      /\ entries' = Reversing(entries, i, p)
      /\ receipts' = receipts /\ delivered' = delivered /\ overlapped' = overlapped
      /\ decision' = decision /\ year' = year /\ cleared' = cleared
      /\ call[c].op \in Posts /\ Finish(c)
  BY DEF VoidInvoice, SaveInvoice, ThroughGate, Posts, CanVoid
<1>2. /\ invoices[i] \in InvoiceRow /\ RowSound(invoices[i]) /\ invoices[i] # NoInvoice
      /\ SettledSoFar(invoices[i]) = invoices[i].settled
  BY <1>1, SavedRow
<1>3. /\ row \in InvoiceRow /\ RowSound(row) /\ row.settled = invoices[i].settled
      /\ row.type = invoices[i].type /\ row.status = "VOID"
  BY <1>1, <1>2, VoidedRow
<1> HIDE DEF row
<1>4. invoices[i].type # "CREDIT_NOTE" /\ invoices[i].total \in Nat /\ invoices[i].total # 0
  BY <1>1, <1>2, LinesOf DEF RowSound, InvoiceRow
<1>6. entries \in EntryTable /\ LedgerInv /\ Calls /\ Documents /\ Tables /\ Billing
      /\ i \in Source
  BY ReceivableAssumption DEF Inv, LedgerInv, LedgerTypeOK
<1>7. LedgerSays(i, invoices[i].total)
  <2>1. InvoiceEffect(invoices[i]) = invoices[i].total
    BY <1>1, EffectOf
  <2> QED BY <1>1, <1>6, <2>1 DEF Documents, InvoiceSays
<1>8. /\ entries' \in EntryTable /\ LedgerSays(i, 0)'
      /\ \A t \in Source \ {i} : EntriesKept(t)
      /\ entries'[NoKey] = entries[NoKey]
  BY <1>1, <1>4, <1>6, <1>7, ReversingSays
<1>9. invoices'[i] = row /\ RowsStay
  BY <1>1, <1>3, RowsSaved
<1>10. LedgerInv'
  BY <1>1, <1>6, <1>8, <1>9, GatePosts
<1>11. InvoiceSays(i)'
  <2>1. InvoiceEffect(row) = 0 /\ row.status \notin {"NONE", "DRAFT"}
    BY <1>3, EffectOf
  <2> QED BY <1>8, <1>9, <2>1 DEF InvoiceSays, LedgerSays, Empty
<1>12. Tables' /\ Settlements' /\ Documents'
  <2>1. KeepsKind(invoices[i], row) /\ row.settled = SettledSoFar(invoices[i])
    BY <1>2, <1>3, <1>4 DEF KeepsKind
  <2>2. delivered' \in 0 .. MaxAmount /\ overlapped' \in BOOLEAN
    BY <1>1, <1>6 DEF Tables
  <2> QED BY <1>1, <1>3, <1>8, <1>11, <2>1, <2>2, LoudInvoice
<1>13. Billing'
  <2>1. Weight(row) <= Weight(invoices[i])
    <3>1. Weight(row) = 0 /\ Weight(invoices[i]) \in Nat
      BY <1>2, <1>3, FreshWeight, WeightOf
    <3> QED BY <3>1
  <2>2. BillsStay /\ Calls'
    BY <1>1, <1>6, <1>10, FinishedAfter DEF LedgerInv
  <2> QED BY <1>1, <1>3, <1>6, <2>1, <2>2, BillsNoMore DEF BillsStay
<1> QED BY <1>10, <1>12, <1>13 DEF Inv

\* Only the calls change.
LEMMA OnlyCalls ==
  ASSUME Inv, UNCHANGED <<ledgerVars, arVars>>, Calls', Billing',
         cleared => NoNewPosts
  PROVE  Inv'
<1>1. /\ Tables /\ Settlements /\ Documents /\ LedgerInv
      /\ invoices' = invoices /\ receipts' = receipts /\ delivered' = delivered
      /\ overlapped' = overlapped /\ ledgerVars' = ledgerVars
  BY DEF Inv, arVars
<1>2. LedgerInv' /\ \A s \in Source : EntriesKept(s) /\ ReversedByHand(s)' = ReversedByHand(s)
  BY <1>1, LedgerStill DEF NoNewPosts
<1>3. Tables' /\ Settlements'
  <2>1. \A i \in Invoice : /\ FromReceipts(receipts, i)' = FromReceipts(receipts, i)
                           /\ FromNotes(invoices, i)' = FromNotes(invoices, i)
    BY <1>1, NotesKept, ReceiptsKept
  <2> QED BY <1>1, <2>1 DEF Tables, Settlements
<1>4. Invoice \subseteq Source /\ Receipt \subseteq Source
  BY ReceivableAssumption
<1>5. Documents'
  BY <1>1, <1>2, <1>4, InvoiceStill, ReceiptStill DEF Documents
<1> QED BY <1>2, <1>3, <1>5 DEF Inv

\* BeginCreateFromOrder: what is read of the order is what is billed.
LEMMA OrderLooked ==
  ASSUME Inv, NEW c \in Caller, NEW qty \in Amount, NEW p \in Period,
         BeginCreateFromOrder(c, qty, p)
  PROVE  Inv'
<1> DEFINE job == [op |-> "bill", at |-> p, amount |-> qty]
<1>1. /\ call' = [call EXCEPT ![c] = job] /\ ledgerVars' = ledgerVars /\ arVars' = arVars
      /\ qty \in 1 .. OpenQty
  BY DEF BeginCreateFromOrder, Start
<1>2. job.op = "bill" /\ job.amount = qty /\ Typed(job)
  BY DEF Typed
<1> HIDE DEF job
<1>3. /\ Calls /\ Tables /\ Billing /\ invoices' = invoices /\ delivered' = delivered
      /\ overlapped' = overlapped /\ RowsStay /\ LedgerInv
  BY <1>1 DEF Inv, LedgerInv, arVars, RowsStay
<1>4. Calls' /\ NoNewPosts
  BY <1>1, <1>2, <1>3, NewJob, CallsAfter DEF Posts
<1>5. Billed(invoices) + qty <= delivered
  <2>1. Billed(invoices) \in Int /\ delivered \in Int /\ qty \in Int
        /\ qty <= delivered - Billed(invoices)
    BY <1>1, <1>3, InvoicedIsBilled, BillSum, FiniteTables DEF OpenQty, Tables
  <2> QED BY <2>1
<1>6. \A d \in Caller : call'[d] = IF d = c THEN job ELSE call[d]
  BY <1>1, <1>3 DEF Calls
<1>7. Billing'
  BY <1>2, <1>3, <1>5, <1>6 DEF Billing
<1> QED BY <1>1, <1>4, <1>7, OnlyCalls

\* BeginDebitNote.
LEMMA OriginalLooked ==
  ASSUME Inv, NEW c \in Caller, NEW i \in Invoice, NEW amount \in Totals, NEW p \in Period,
         BeginDebitNote(c, i, amount, p)
  PROVE  Inv'
<1> DEFINE job == [op |-> "debit", at |-> p, amount |-> amount, original |-> i]
<1>1. /\ call' = [call EXCEPT ![c] = job] /\ ledgerVars' = ledgerVars /\ arVars' = arVars
      /\ invoices[i] # NoInvoice /\ GateOpen(p)
  BY DEF BeginDebitNote, Start, CanBeNoted
<1>2. job.op = "debit" /\ Typed(job) /\ job.original = i
  BY FiniteTables DEF Typed
<1> HIDE DEF job
<1>3. /\ Calls /\ Billing /\ invoices' = invoices /\ delivered' = delivered
      /\ overlapped' = overlapped /\ RowsStay /\ YearInv
  BY <1>1 DEF Inv, LedgerInv, arVars, RowsStay
<1>4. Calls' /\ BillsStay
  BY <1>1, <1>2, <1>3, NewJob, CallsAfter
<1>5. ~ cleared
  BY <1>1, <1>3 DEF YearInv, GateOpen
<1>6. Billing'
  BY <1>3, <1>4, BillsKept DEF BillsStay
<1> QED BY <1>1, <1>4, <1>5, <1>6, OnlyCalls

\* CreateFromOrder: alone, it bills what its call read as open.
LEMMA OrderBilled ==
  ASSUME Inv, NEW c \in Caller, NEW i \in Invoice, CreateFromOrder(c, i)
  PROVE  Inv'
<1> DEFINE yes == TRUE
           row == NewInvoice("INVOICE", "DRAFT", call[c].at, call[c].amount, yes, NoInvoice)
<1>0. /\ entries \in EntryTable /\ LedgerInv /\ Calls /\ Documents /\ Tables /\ Billing
      /\ i \in Source /\ invoices \in InvoiceTable
  BY ReceivableAssumption DEF Inv, LedgerInv, LedgerTypeOK, Tables
<1>1. /\ invoices[i] = NoInvoice /\ invoices' = [invoices EXCEPT ![i] = row]
      /\ receipts' = receipts /\ delivered' = delivered /\ ledgerVars' = ledgerVars
      /\ overlapped' = (overlapped \/ \E k \in Caller \ {c} : call[k].op = "bill")
      /\ call[c].op = "bill" /\ Finish(c)
  BY DEF CreateFromOrder, InsertInvoice
<1>2. call[c].at \in Period /\ call[c].amount \in Amount /\ call[c].amount \in Nat
  BY <1>0, <1>1, FiniteTables DEF Calls, Typed
<1>3. /\ row \in InvoiceRow /\ RowSound(row) /\ row.settled = 0 /\ row.type = "INVOICE"
      /\ row.status = "DRAFT" /\ row.total = call[c].amount
  <2>1. yes \in BOOLEAN
    OBVIOUS
  <2> HIDE DEF yes
  <2> QED BY <1>2, <2>1, NewRow
<1> HIDE DEF row
<1>4. SettledSoFar(invoices[i]) = 0 /\ invoices[i].status = "NONE"
  BY <1>1 DEF SettledSoFar, NoInvoice
<1>5. invoices'[i] = row /\ RowsStay
  BY <1>1, <1>3, RowsSaved
<1>6. Calls'
  BY <1>0, <1>1, <1>5, Finished
<1>7. LedgerInv' /\ \A s \in Source : EntriesKept(s) /\ ReversedByHand(s)' = ReversedByHand(s)
  BY <1>0, <1>1, <1>6, FinishedAfter, LedgerStill DEF NoNewPosts
<1>8. InvoiceSays(i)'
  <2>1. InvoiceEffect(row) = InvoiceEffect(invoices[i])
    BY <1>3, <1>4, EffectOf
  <2> QED BY <1>0, <1>3, <1>4, <1>5, <1>7, <2>1, InvoiceStill DEF Documents
<1>9. Tables' /\ Settlements' /\ Documents'
  <2>1. KeepsKind(invoices[i], row) /\ row.settled = SettledSoFar(invoices[i])
    BY <1>1, <1>3, <1>4 DEF KeepsKind
  <2>2. delivered' \in 0 .. MaxAmount /\ overlapped' \in BOOLEAN
    BY <1>0, <1>1 DEF Tables
  <2>3. entries'[NoKey] = entries[NoKey]
    BY <1>1 DEF ledgerVars
  <2> QED BY <1>1, <1>3, <1>7, <1>8, <2>1, <2>2, <2>3, LoudInvoice
<1>10. Billing'
  <2> SUFFICES ASSUME ~ overlapped'
               PROVE  /\ Billed(invoices') <= delivered
                      /\ \A d \in Caller : call'[d].op # "bill"
    BY <1>1 DEF Billing
  <2>1. ~ overlapped /\ \A d \in Caller \ {c} : call[d].op # "bill"
    BY <1>1
  <2>2. \A d \in Caller : call'[d] = IF d = c THEN NoCall ELSE call[d]
    BY <1>0, <1>1 DEF Finish, Calls
  <2>3. \A d \in Caller : call'[d].op # "bill"
    BY <2>1, <2>2 DEF NoCall
  <2>4. Billed(invoices) + call[c].amount <= delivered
    BY <2>1, <1>0, <1>1 DEF Billing
  <2>5. Weight(row) = call[c].amount \/ Weight(row) = 0
    BY <1>3 DEF Weight
  <2>6. Weight(invoices[i]) = 0
    BY <1>4, FreshWeight
  <2>7. Billed(invoices') = Billed(invoices) - Weight(invoices[i]) + Weight(row)
    BY <1>0, <1>1, <1>3, BilledRow
  <2>8. Billed(invoices) \in Int /\ delivered \in Int
    BY <1>0, BillSum, FiniteTables DEF Tables
  <2> QED BY <1>2, <2>3, <2>4, <2>5, <2>6, <2>7, <2>8
<1> QED BY <1>7, <1>9, <1>10 DEF Inv

(*****************************************************************************)
(* Notes and receipts                                                        *)
(*****************************************************************************)
Settling == {"ISSUED", "PARTIALLY_PAID", "PAID"}
\* A settlement changes nothing the ledger or the order is told.
SameSay(old, new) ==
  \/ new = old
  \/ /\ old.status \in Settling /\ new.status \in Settling
     /\ new.type = old.type /\ new.total = old.total /\ new.linked = old.linked

\* ... so the effect, the weight and the status for the ledger stay.
LEMMA SameSaid ==
  ASSUME NEW old, NEW new, SameSay(old, new)
  PROVE  /\ InvoiceEffect(new) = InvoiceEffect(old) /\ (Bills(new) <=> Bills(old))
         /\ Bills(old) => new.total = old.total
         /\ new.status \in {"NONE", "DRAFT"} => old.status \in {"NONE", "DRAFT"}
         /\ old # NoInvoice => new # NoInvoice
<1>1. CASE new = old
  BY <1>1
<1>2. CASE /\ old.status \in Settling /\ new.status \in Settling
           /\ new.type = old.type /\ new.total = old.total /\ new.linked = old.linked
  <2>1. InvoiceEffect(new) = InvoiceEffect(old)
    BY <1>2, EffectOf DEF Settling
  <2>2. old.status \notin {"NONE", "VOID"} /\ new.status \notin {"NONE", "VOID", "DRAFT"}
    BY <1>2 DEF Settling
  <2>3. Bills(new) <=> Bills(old)
    BY <1>2, <2>2 DEF Bills
  <2>4. new # NoInvoice
    BY <2>2 DEF NoInvoice
  <2> QED BY <1>2, <2>1, <2>2, <2>3, <2>4
<1> QED BY <1>1, <1>2 DEF SameSay

\* Invoices that only settle leave the order and the rows in place.
LEMMA SaidStay ==
  ASSUME Inv, \A k \in Invoice : SameSay(invoices[k], invoices'[k])
  PROVE  /\ RowsStay
         /\ BillsStay /\ delivered' = delivered /\ overlapped' = overlapped => Billing'
<1>1. RowsStay
  BY SameSaid DEF RowsStay
<1>2. BillsOf(invoices') = BillsOf(invoices)
      /\ \A i \in BillsOf(invoices) : invoices'[i].total = invoices[i].total
  BY SameSaid DEF BillsOf
<1> QED BY <1>1, <1>2, BillsKept DEF Inv, BillsStay

\* DebitNote.
LEMMA DebitNoted ==
  ASSUME Inv, NEW c \in Caller, NEW n \in Invoice, DebitNote(c, n)
  PROVE  Inv'
<1>0. /\ entries \in EntryTable /\ LedgerInv /\ Calls /\ Documents /\ Tables /\ Billing
      /\ n \in Source
      /\ invoices \in InvoiceTable
  BY ReceivableAssumption DEF Inv, LedgerInv, LedgerTypeOK, Tables
<1>1. call[c].op = "debit" /\ Finish(c)
  BY DEF DebitNote
<1>2. /\ call[c].at \in Period /\ call[c].amount \in Amount /\ call[c].original \in Invoice
      /\ invoices[call[c].original] \in InvoiceRow
  BY <1>0, <1>1, InvoiceRows DEF Calls, Typed
<1>3. PICK p \in Period, amount \in Amount, original \in Invoice, linked \in BOOLEAN :
        /\ p = call[c].at /\ amount = call[c].amount /\ original = call[c].original
        /\ linked = invoices[call[c].original].linked
  BY <1>2 DEF InvoiceRow
<1> DEFINE row == NewInvoice("DEBIT_NOTE", "ISSUED", p, amount, linked, original)
<1>4. /\ row \in InvoiceRow /\ RowSound(row) /\ row.settled = 0 /\ row.type = "DEBIT_NOTE"
      /\ row.status = "ISSUED" /\ row.total = amount
  BY NewRow
<1>5. /\ invoices[n] = NoInvoice /\ invoices' = [invoices EXCEPT ![n] = row]
      /\ entries' = Posting(entries, Posted(n), InvoiceLines("DEBIT_NOTE", amount), p)
      /\ receipts' = receipts /\ delivered' = delivered /\ overlapped' = overlapped
      /\ decision' = decision /\ year' = year /\ cleared' = cleared
  BY <1>3 DEF DebitNote, InsertInvoice
<1> HIDE DEF row
<1>6. PICK lines \in Lines : /\ lines = InvoiceLines("DEBIT_NOTE", amount)
                            /\ lines["CONTROL"] = amount /\ lines["CONTROL"] # 0
  BY LinesOf
<1>7. Fresh(n)
  BY <1>0, <1>5 DEF Documents, InvoiceSays, NoInvoice
<1>8. /\ entries' \in EntryTable /\ LedgerSays(n, lines["CONTROL"])'
      /\ \A t \in Source \ {n} : EntriesKept(t)
      /\ entries'[NoKey] = entries[NoKey]
  BY <1>0, <1>5, <1>6, <1>7, PostingSays
<1>9. invoices'[n] = row /\ RowsStay
  BY <1>4, <1>5, RowsSaved
<1>10. LedgerInv'
  BY <1>0, <1>1, <1>5, <1>8, <1>9, GatePosts DEF Posts
<1>11. InvoiceSays(n)'
  <2>1. InvoiceEffect(row) = lines["CONTROL"] /\ row.status \notin {"NONE", "DRAFT"}
    BY <1>4, <1>6, EffectOf
  <2> QED BY <1>8, <1>9, <2>1 DEF InvoiceSays, LedgerSays, Empty
<1>12. Tables' /\ Settlements' /\ Documents'
  <2>1. KeepsKind(invoices[n], row) /\ row.settled = SettledSoFar(invoices[n])
    BY <1>4, <1>5 DEF KeepsKind, SettledSoFar
  <2>2. delivered' \in 0 .. MaxAmount /\ overlapped' \in BOOLEAN
    BY <1>0, <1>5 DEF Tables
  <2> QED BY <1>4, <1>5, <1>8, <1>11, <2>1, <2>2, LoudInvoice
<1>13. Billing'
  <2>1. Weight(row) <= Weight(invoices[n])
    <3>1. Weight(row) = 0 /\ Weight(invoices[n]) = 0
      <4>1. invoices[n].status = "NONE" /\ row.type # "INVOICE"
        BY <1>4, <1>5 DEF NoInvoice
      <4> QED BY <4>1, FreshWeight
    <3> QED BY <3>1
  <2>2. BillsStay /\ Calls'
    BY <1>0, <1>1, <1>10, FinishedAfter DEF LedgerInv
  <2> QED BY <1>0, <1>4, <1>5, <2>1, <2>2, BillsNoMore DEF BillsStay
<1> QED BY <1>10, <1>12, <1>13 DEF Inv

\* CreditNote: the note and its original are saved together.
LEMMA CreditNoted ==
  ASSUME Inv, NEW c \in Caller, NEW i \in Invoice, NEW n \in Invoice, NEW amount \in Amount,
         NEW p \in Period, CreditNote(c, i, n, amount, p)
  PROVE  Inv'
<1>0. /\ entries \in EntryTable /\ LedgerInv /\ Calls /\ Documents /\ Tables /\ Billing
      /\ Settlements
      /\ Invoice \subseteq Source /\ Receipt \subseteq Source /\ n \notin Receipt
      /\ invoices \in InvoiceTable /\ amount \in Int
  BY ReceivableAssumption, FiniteTables DEF Inv, LedgerInv, LedgerTypeOK, Tables
<1>1. /\ invoices[i] # NoInvoice /\ invoices[i].type = "INVOICE"
      /\ CanSettle(invoices[i], amount) /\ invoices[n] = NoInvoice /\ i # n
      /\ call[c].op \in Posts /\ Finish(c)
  BY DEF CreditNote, CanBeNoted, ThroughGate, Posts
<1>2. invoices[i] \in InvoiceRow /\ RowSound(invoices[i])
  BY <1>0, <1>1, InvoiceRows DEF Settlements
<1>3. PICK linked \in BOOLEAN : linked = invoices[i].linked
  BY <1>2 DEF InvoiceRow
<1> DEFINE note == Applied(NewInvoice("CREDIT_NOTE", "ISSUED", p, amount, linked, i))
           orig == ApplySettlement(invoices[i], amount)
<1>4. /\ note \in InvoiceRow /\ RowSound(note) /\ note.type = "CREDIT_NOTE"
      /\ note.original = i /\ note.total = amount /\ note.status = "APPLIED"
  BY NoteRow
<1>5. /\ orig \in InvoiceRow /\ RowSound(orig) /\ orig.settled = invoices[i].settled + amount
      /\ orig.type = invoices[i].type /\ orig.total = invoices[i].total
      /\ orig.linked = invoices[i].linked
      /\ orig.status \in {"PAID", "PARTIALLY_PAID"}
  BY <1>0, <1>1, <1>2, SettledRow
<1>6. /\ invoices' = [k \in Invoice |-> IF k = n THEN note
                                         ELSE IF k = i THEN orig ELSE invoices[k]]
      /\ entries' = Posting(entries, Posted(n), InvoiceLines("CREDIT_NOTE", amount), p)
      /\ receipts' = receipts /\ delivered' = delivered /\ overlapped' = overlapped
      /\ decision' = decision /\ year' = year /\ cleared' = cleared
  BY <1>1, <1>3 DEF CreditNote, SaveInvoices
<1> HIDE DEF note, orig
<1>7. Tables' /\ Settlements'
  BY <1>0, <1>1, <1>4, <1>5, <1>6, NoteApplied
<1>8. /\ invoices'[n] = note /\ \A k \in Invoice \ {n} : SameSay(invoices[k], invoices'[k])
  <2>1. invoices[i].status \in Settling
    BY <1>1 DEF CanSettle, IsOpen, Settling
  <2>2. SameSay(invoices[i], orig)
    BY <1>5, <2>1 DEF SameSay, Settling
  <2> QED BY <1>6, <2>2 DEF SameSay
<1>9. PICK lines \in Lines : /\ lines = InvoiceLines("CREDIT_NOTE", amount)
                            /\ lines["CONTROL"] = - amount /\ lines["CONTROL"] # 0
  BY LinesOf
<1>10. Fresh(n)
  BY <1>0, <1>1 DEF Documents, InvoiceSays, NoInvoice
<1>11. /\ entries' \in EntryTable /\ LedgerSays(n, lines["CONTROL"])'
       /\ \A t \in Source \ {n} : EntriesKept(t)
       /\ entries'[NoKey] = entries[NoKey]
  BY <1>0, <1>6, <1>9, <1>10, PostingSays
<1>12. RowsStay
  BY <1>1, <1>8, SameSaid DEF RowsStay
<1>13. LedgerInv'
  BY <1>0, <1>1, <1>6, <1>11, <1>12, GatePosts
<1>14. InvoiceSays(n)'
  <2>1. InvoiceEffect(note) = lines["CONTROL"] /\ note.status \notin {"NONE", "DRAFT"}
    BY <1>4, <1>9, EffectOf
  <2> QED BY <1>8, <1>11, <2>1 DEF InvoiceSays, LedgerSays, Empty
<1>15. Documents'
  <2>1. \A s \in Source : ReversedByHand(s)' = ReversedByHand(s)
    BY <1>11 DEF ReversedByHand
  <2>2. ASSUME NEW k \in Invoice \ {n} PROVE InvoiceSays(k)'
    <3>1. /\ InvoiceEffect(invoices'[k]) = InvoiceEffect(invoices[k])
          /\ invoices'[k].status \in {"NONE", "DRAFT"} =>
              invoices[k].status \in {"NONE", "DRAFT"}
      BY <1>8, SameSaid
    <3> QED BY <1>0, <1>11, <2>1, <3>1, InvoiceStill DEF Documents
  <2>3. \A r \in Receipt : ReceiptSays(r)'
    BY <1>0, <1>6, <1>11, <2>1, ReceiptStill DEF Documents
  <2> QED BY <1>14, <2>2, <2>3 DEF Documents
<1>16. Billing'
  <2>1. ~ Bills(note) /\ ~ Bills(invoices[n])
    BY <1>1, <1>4 DEF Bills, NoInvoice
  <2>2. /\ BillsOf(invoices') = BillsOf(invoices)
        /\ \A k \in BillsOf(invoices) : invoices'[k].total = invoices[k].total
    BY <1>8, <2>1, SameSaid DEF BillsOf
  <2>3. BillsStay
    BY <1>0, <1>1, FinishedAfter
  <2> QED BY <1>0, <1>6, <2>2, <2>3, BillsKept DEF BillsStay
<1> QED BY <1>7, <1>13, <1>15, <1>16 DEF Inv

\* A receipt saved, with what is posted for it and the invoices it settles.
LEMMA ReceiptSaved ==
  ASSUME Inv, NEW r \in Receipt, NEW row \in ReceiptRow,
         receipts' = [receipts EXCEPT ![r] = row],
         \A k \in Invoice : SameSay(invoices[k], invoices'[k]),
         Tables', Settlements', LedgerInv', BillsStay,
         delivered' = delivered, overlapped' = overlapped,
         ReceiptSays(r)', entries'[NoKey] = entries[NoKey],
         \A s \in Source \ {r} : EntriesKept(s)
  PROVE  Inv'
<1>0. /\ Documents /\ Tables /\ Billing /\ receipts \in ReceiptTable
      /\ Invoice \subseteq Source /\ Receipt \subseteq Source /\ r \notin Invoice
  BY ReceivableAssumption DEF Inv, Tables
<1>1. \A s \in Source : ReversedByHand(s)' = ReversedByHand(s)
  BY DEF ReversedByHand
<1>2. ASSUME NEW k \in Invoice PROVE InvoiceSays(k)'
  <2>1. /\ InvoiceEffect(invoices'[k]) = InvoiceEffect(invoices[k])
        /\ invoices'[k].status \in {"NONE", "DRAFT"} => invoices[k].status \in {"NONE", "DRAFT"}
    BY SameSaid
  <2> QED BY <1>0, <1>1, <2>1, InvoiceStill DEF Documents
<1>3. ASSUME NEW x \in Receipt \ {r} PROVE ReceiptSays(x)'
  <2>1. receipts'[x] = receipts[x]
    BY <1>0 DEF ReceiptTable
  <2> QED BY <1>0, <1>1, <2>1, ReceiptStill DEF Documents
<1>4. Billing'
  BY SaidStay
<1> QED BY <1>2, <1>3, <1>4 DEF Inv, Documents

\* A receipt saved that settles nothing: the ledger stays.
LEMMA QuietReceipt ==
  ASSUME Inv, NEW r \in Receipt, NEW row \in ReceiptRow,
         receipts' = [receipts EXCEPT ![r] = row],
         invoices' = invoices, delivered' = delivered, overlapped' = overlapped,
         ledgerVars' = ledgerVars, call' = call,
         receipts[r].status \in {"NONE", "DRAFT"}, row.status # "POSTED",
         \A i \in Invoice : row.alloc[i] > 0 =>
           invoices[i] # NoInvoice /\ invoices[i].type # "CREDIT_NOTE"
  PROVE  Inv'
<1>0. /\ Documents /\ Tables /\ Settlements /\ LedgerInv /\ Calls /\ receipts \in ReceiptTable
      /\ Receipt \subseteq Source
  BY ReceivableAssumption DEF Inv, Tables, LedgerInv
<1>1. Tables' /\ Settlements'
  BY <1>0, OneDraft
<1>2. Calls' /\ BillsStay
  BY <1>0, OldJobs DEF RowsStay, BillsStay
<1>3. LedgerInv' /\ \A s \in Source : EntriesKept(s) /\ ReversedByHand(s)' = ReversedByHand(s)
  BY <1>0, <1>2, LedgerStill
<1>4. ReceiptSays(r)'
  <2>1. receipts'[r] = row
    BY <1>0 DEF ReceiptTable
  <2>2. ReceiptEffect(row) = ReceiptEffect(receipts[r])
    BY EffectOf
  <2> QED BY <1>0, <1>3, <2>1, <2>2, ReceiptStill DEF Documents
<1>5. entries'[NoKey] = entries[NoKey]
  BY DEF ledgerVars
<1>6. \A k \in Invoice : SameSay(invoices[k], invoices'[k])
  BY DEF SameSay
<1> QED BY <1>1, <1>2, <1>3, <1>4, <1>5, <1>6, ReceiptSaved

\* CreateReceipt.
LEMMA ReceiptCreated ==
  ASSUME Inv, NEW r \in Receipt, NEW amount \in Totals, NEW alloc \in Allocation(amount),
         NEW p \in Period, CreateReceipt(r, amount, alloc, p)
  PROVE  Inv'
<1> DEFINE row == NewReceipt(amount, alloc, p)
<1>1. /\ receipts[r] = NoReceipt /\ receipts' = [receipts EXCEPT ![r] = row]
      /\ invoices' = invoices /\ delivered' = delivered /\ overlapped' = overlapped
      /\ ledgerVars' = ledgerVars /\ call' = call
      /\ \A i \in Invoice : alloc[i] > 0 => CanSettle(invoices[i], alloc[i])
  BY DEF CreateReceipt, InsertReceipt
<1>2. row \in ReceiptRow /\ row.status = "DRAFT" /\ row.alloc = alloc
  <2>1. amount \in 1 .. MaxAmount /\ MaxAmount \in Nat
    BY FiniteTables DEF Amount
  <2>2. 0 .. amount \subseteq 0 .. MaxAmount
    BY <2>1
  <2>3. alloc \in [Invoice -> 0 .. MaxAmount]
    BY <2>2 DEF Allocation
  <2> QED BY <2>1, <2>3 DEF NewReceipt, ReceiptRow, Amount
<1>3. \A i \in Invoice : CanSettle(invoices[i], alloc[i]) =>
        invoices[i] # NoInvoice /\ invoices[i].type # "CREDIT_NOTE"
  BY DEF Inv, Settlements, RowSound, CanSettle, IsOpen, NoInvoice
<1>4. receipts[r].status = "NONE"
  BY <1>1 DEF NoReceipt
<1> HIDE DEF row
<1> QED BY <1>1, <1>2, <1>3, <1>4, QuietReceipt

\* A receipt that is there, posted or voided.
LEMMA SavedReceipt ==
  ASSUME Inv, NEW r \in Receipt, receipts[r].status # "NONE"
  PROVE  /\ receipts[r] \in ReceiptRow /\ receipts[r] # NoReceipt
         /\ PostedReceipt(receipts[r]) \in ReceiptRow
         /\ PostedReceipt(receipts[r]).status = "POSTED"
         /\ VoidedReceipt(receipts[r]) \in ReceiptRow
         /\ VoidedReceipt(receipts[r]).status = "VOID"
         /\ PostedReceipt(receipts[r]).alloc = receipts[r].alloc
         /\ VoidedReceipt(receipts[r]).alloc = receipts[r].alloc
         /\ PostedReceipt(receipts[r]).amount = receipts[r].amount
         /\ \A i \in Invoice : receipts[r].alloc[i] > 0 =>
              invoices[i] # NoInvoice /\ invoices[i].type # "CREDIT_NOTE"
<1>1. receipts[r] \in ReceiptRow /\ receipts[r] # NoReceipt
  BY ReceiptRows DEF Inv, Tables, NoReceipt
<1> QED BY <1>1 DEF ReceiptRow, PostedReceipt, VoidedReceipt, Inv, Settlements

\* VoidDraftReceipt.
LEMMA ReceiptDropped ==
  ASSUME Inv, NEW r \in Receipt, VoidDraftReceipt(r)
  PROVE  Inv'
<1>1. /\ receipts[r].status = "DRAFT"
      /\ receipts' = [receipts EXCEPT ![r] = VoidedReceipt(receipts[r])]
      /\ invoices' = invoices /\ delivered' = delivered /\ overlapped' = overlapped
      /\ ledgerVars' = ledgerVars /\ call' = call
  BY DEF VoidDraftReceipt, SaveReceipt
<1> QED BY <1>1, SavedReceipt, QuietReceipt

\* PostReceipt: every allocated invoice is saved with the receipt.
LEMMA ReceiptPosted ==
  ASSUME Inv, NEW c \in Caller, NEW r \in Receipt, PostReceipt(c, r)
  PROVE  Inv'
<1> DEFINE row == PostedReceipt(receipts[r])
<1>0. /\ entries \in EntryTable /\ LedgerInv /\ Calls /\ Documents /\ Tables /\ Settlements
      /\ r \in Source /\ receipts \in ReceiptTable /\ invoices \in InvoiceTable
  BY ReceivableAssumption DEF Inv, LedgerInv, LedgerTypeOK, Tables
<1>1. /\ receipts[r].status = "DRAFT" /\ receipts' = [receipts EXCEPT ![r] = row]
      /\ \A i \in Allocated(r) : CanSettle(invoices[i], receipts[r].alloc[i])
      /\ entries' = Posting(entries, Posted(r), ReceiptLines(receipts[r].amount),
                            receipts[r].date)
      /\ delivered' = delivered /\ overlapped' = overlapped
      /\ decision' = decision /\ year' = year /\ cleared' = cleared
      /\ call[c].op \in Posts /\ Finish(c)
  BY DEF PostReceipt, SaveReceipt, ThroughGate, Posts
<1>2. /\ receipts[r] \in ReceiptRow /\ receipts[r] # NoReceipt
      /\ row \in ReceiptRow /\ row.status = "POSTED" /\ row.alloc = receipts[r].alloc
      /\ row.amount = receipts[r].amount
  BY <1>1, SavedReceipt
<1> HIDE DEF row
<1>3. /\ Allocated(r) \subseteq Invoice /\ \A i \in Allocated(r) : receipts[r].alloc[i] \in Int
      /\ receipts[r].amount \in Amount /\ receipts[r].date \in Period
  BY <1>2, FiniteTables DEF Allocated, ReceiptRow
<1>4. invoices' = [i \in Invoice |-> IF i \in Allocated(r)
                     THEN ApplySettlement(invoices[i], receipts[r].alloc[i]) ELSE invoices[i]]
  BY DEF PostReceipt, SaveInvoices
<1>5. ASSUME NEW i \in Allocated(r)
      PROVE  /\ invoices'[i] \in InvoiceRow /\ RowSound(invoices'[i]) /\ invoices'[i] # NoInvoice
             /\ invoices'[i].settled = invoices[i].settled + receipts[r].alloc[i]
             /\ invoices'[i].type = invoices[i].type
             /\ SameSay(invoices[i], invoices'[i])
  <2>1. invoices[i].status \in Settling /\ CanSettle(invoices[i], receipts[r].alloc[i])
    BY <1>1 DEF CanSettle, IsOpen, Settling
  <2>2. invoices[i] \in InvoiceRow /\ RowSound(invoices[i])
    BY <1>3, <2>1, SavedRow DEF Settling
  <2> DEFINE new == ApplySettlement(invoices[i], receipts[r].alloc[i])
  <2>3. /\ new \in InvoiceRow /\ RowSound(new)
        /\ new.settled = invoices[i].settled + receipts[r].alloc[i]
        /\ new.type = invoices[i].type /\ new.total = invoices[i].total
        /\ new.linked = invoices[i].linked /\ new.status \in {"PAID", "PARTIALLY_PAID"}
    BY <1>3, <2>1, <2>2, SettledRow
  <2>4. invoices'[i] = new
    BY <1>3, <1>4
  <2> HIDE DEF new
  <2> QED BY <2>1, <2>3, <2>4 DEF SameSay, Settling, InvoiceRow, NoInvoice
<1>6. \A i \in Invoice \ Allocated(r) : invoices'[i] = invoices[i]
  BY <1>4
<1>7. \A k \in Invoice : SameSay(invoices[k], invoices'[k])
  BY <1>5, <1>6 DEF SameSay
<1>8. Tables' /\ Settlements'
  <2>1. invoices' \in InvoiceTable
    <3>1. \A i \in Invoice : invoices'[i] \in InvoiceRow \cup {NoInvoice}
      BY <1>0, <1>5, <1>6 DEF InvoiceTable
    <3> QED BY <1>4, <3>1 DEF InvoiceTable
  <2>2. \A i \in Invoice :
           IF i \notin Allocated(r) THEN invoices'[i] = invoices[i] ELSE
           /\ invoices'[i] # NoInvoice /\ RowSound(invoices'[i])
           /\ invoices'[i].type = invoices[i].type
           /\ invoices'[i].settled = invoices[i].settled
                + (IF row.status = "POSTED" THEN row.alloc[i] ELSE - row.alloc[i])
    BY <1>2, <1>5, <1>6
  <2>3. (row.status = "POSTED") = ~ (receipts[r].status = "POSTED")
    BY <1>1, <1>2
  <2> QED BY <1>0, <1>1, <1>2, <2>1, <2>2, <2>3, ReceiptApplied
<1>9. PICK lines \in Lines : /\ lines = ReceiptLines(receipts[r].amount)
                            /\ lines["CONTROL"] = - receipts[r].amount /\ lines["CONTROL"] # 0
  BY <1>3, LinesOf
<1>10. Fresh(r)
  BY <1>0, <1>1 DEF Documents, ReceiptSays
<1>11. /\ entries' \in EntryTable /\ LedgerSays(r, lines["CONTROL"])'
       /\ \A t \in Source \ {r} : EntriesKept(t)
       /\ entries'[NoKey] = entries[NoKey]
  BY <1>0, <1>1, <1>3, <1>9, <1>10, PostingSays
<1>12. LedgerInv'
  BY <1>0, <1>1, <1>7, <1>11, SaidStay, GatePosts
<1>13. ReceiptSays(r)'
  <2>1. ReceiptEffect(row) = lines["CONTROL"] /\ row.status \notin {"NONE", "DRAFT"}
    BY <1>2, <1>9, EffectOf
  <2>2. receipts'[r] = row
    BY <1>0, <1>1 DEF ReceiptTable
  <2> QED BY <1>11, <2>1, <2>2 DEF ReceiptSays, LedgerSays, Empty
<1>14. BillsStay
  BY <1>0, <1>1, FinishedAfter
<1> QED BY <1>1, <1>2, <1>7, <1>8, <1>11, <1>12, <1>13, <1>14, ReceiptSaved

\* VoidReceipt: every allocation is given back.
LEMMA ReceiptUndone ==
  ASSUME Inv, NEW c \in Caller, NEW r \in Receipt, NEW p \in Period, VoidReceipt(c, r, p)
  PROVE  Inv'
<1> DEFINE row == VoidedReceipt(receipts[r])
<1>0. /\ entries \in EntryTable /\ LedgerInv /\ Calls /\ Documents /\ Tables /\ Settlements
      /\ r \in Source /\ receipts \in ReceiptTable /\ invoices \in InvoiceTable
  BY ReceivableAssumption DEF Inv, LedgerInv, LedgerTypeOK, Tables
<1>1. /\ receipts[r].status = "POSTED" /\ receipts' = [receipts EXCEPT ![r] = row]
      /\ \A i \in Allocated(r) : CanUnsettle(invoices[i], receipts[r].alloc[i])
      /\ entries' = Reversing(entries, r, p)
      /\ delivered' = delivered /\ overlapped' = overlapped
      /\ decision' = decision /\ year' = year /\ cleared' = cleared
      /\ call[c].op \in Posts /\ Finish(c)
  BY DEF VoidReceipt, SaveReceipt, ThroughGate, Posts
<1>2. /\ receipts[r] \in ReceiptRow /\ receipts[r] # NoReceipt
      /\ row \in ReceiptRow /\ row.status = "VOID" /\ row.alloc = receipts[r].alloc
  BY <1>1, SavedReceipt
<1> HIDE DEF row
<1>3. /\ Allocated(r) \subseteq Invoice /\ \A i \in Allocated(r) : receipts[r].alloc[i] \in Int
      /\ receipts[r].amount \in Amount
  BY <1>2, FiniteTables DEF Allocated, ReceiptRow
<1>4. invoices' = [i \in Invoice |-> IF i \in Allocated(r)
                     THEN ReverseSettlement(invoices[i], receipts[r].alloc[i]) ELSE invoices[i]]
  BY DEF VoidReceipt, SaveInvoices
<1>5. ASSUME NEW i \in Allocated(r)
      PROVE  /\ invoices'[i] \in InvoiceRow /\ RowSound(invoices'[i]) /\ invoices'[i] # NoInvoice
             /\ invoices'[i].settled = invoices[i].settled - receipts[r].alloc[i]
             /\ invoices[i].settled \in Int
             /\ invoices'[i].type = invoices[i].type
             /\ SameSay(invoices[i], invoices'[i])
  <2>1. invoices[i].status \in Settling /\ CanUnsettle(invoices[i], receipts[r].alloc[i])
    BY <1>1 DEF CanUnsettle, Settling
  <2>2. invoices[i] \in InvoiceRow /\ RowSound(invoices[i])
    BY <1>3, <2>1, SavedRow DEF Settling
  <2> DEFINE new == ReverseSettlement(invoices[i], receipts[r].alloc[i])
  <2>3. /\ new \in InvoiceRow /\ RowSound(new)
        /\ new.settled = invoices[i].settled - receipts[r].alloc[i]
        /\ new.type = invoices[i].type /\ new.total = invoices[i].total
        /\ new.linked = invoices[i].linked /\ new.status \in {"ISSUED", "PARTIALLY_PAID"}
    BY <1>3, <2>1, <2>2, UnsettledRow
  <2>4. invoices'[i] = new /\ invoices[i].settled \in Int
    BY <1>3, <1>4, <2>2, FiniteTables DEF InvoiceRow
  <2> HIDE DEF new
  <2> QED BY <2>1, <2>3, <2>4 DEF SameSay, Settling, InvoiceRow, NoInvoice
<1>6. \A i \in Invoice \ Allocated(r) : invoices'[i] = invoices[i]
  BY <1>4
<1>7. \A k \in Invoice : SameSay(invoices[k], invoices'[k])
  BY <1>5, <1>6 DEF SameSay
<1>8. Tables' /\ Settlements'
  <2>1. invoices' \in InvoiceTable
    <3>1. \A i \in Invoice : invoices'[i] \in InvoiceRow \cup {NoInvoice}
      BY <1>0, <1>5, <1>6 DEF InvoiceTable
    <3> QED BY <1>4, <3>1 DEF InvoiceTable
  <2>2. ASSUME NEW i \in Allocated(r)
        PROVE  invoices'[i].settled = invoices[i].settled
                + (IF row.status = "POSTED" THEN row.alloc[i] ELSE - row.alloc[i])
    BY <1>2, <1>3, <1>5
  <2>3. \A i \in Invoice :
           IF i \notin Allocated(r) THEN invoices'[i] = invoices[i] ELSE
           /\ invoices'[i] # NoInvoice /\ RowSound(invoices'[i])
           /\ invoices'[i].type = invoices[i].type
           /\ invoices'[i].settled = invoices[i].settled
                + (IF row.status = "POSTED" THEN row.alloc[i] ELSE - row.alloc[i])
    BY <1>5, <1>6, <2>2
  <2>4. (row.status = "POSTED") = ~ (receipts[r].status = "POSTED")
    BY <1>1, <1>2
  <2> QED BY <1>0, <1>1, <1>2, <2>1, <2>3, <2>4, ReceiptApplied
<1>9. LedgerSays(r, - receipts[r].amount) /\ - receipts[r].amount # 0
  <2>1. ReceiptEffect(receipts[r]) = - receipts[r].amount
    BY <1>1, EffectOf
  <2> QED BY <1>0, <1>1, <1>3, <2>1, LinesOf DEF Documents, ReceiptSays
<1>11. /\ entries' \in EntryTable /\ LedgerSays(r, 0)'
       /\ \A t \in Source \ {r} : EntriesKept(t)
       /\ entries'[NoKey] = entries[NoKey]
  BY <1>0, <1>1, <1>9, ReversingSays
<1>12. LedgerInv'
  BY <1>0, <1>1, <1>7, <1>11, SaidStay, GatePosts
<1>13. ReceiptSays(r)'
  <2>1. ReceiptEffect(row) = 0 /\ row.status \notin {"NONE", "DRAFT"}
    BY <1>2, EffectOf
  <2>2. receipts'[r] = row
    BY <1>0, <1>1 DEF ReceiptTable
  <2> QED BY <1>11, <2>1, <2>2 DEF ReceiptSays, LedgerSays, Empty
<1>14. BillsStay
  BY <1>0, <1>1, FinishedAfter
<1> QED BY <1>1, <1>2, <1>7, <1>8, <1>11, <1>12, <1>13, <1>14, ReceiptSaved

(*****************************************************************************)
(* The theorems                                                              *)
(*****************************************************************************)
\* Empty tables and an open year.
LEMMA InitHolds == Init => Inv
<1> SUFFICES ASSUME Init PROVE Inv
  OBVIOUS
<1>1. /\ entries = [k \in Key |-> NoEntry] /\ decision = "NONE" /\ year = NewYear
      /\ cleared = FALSE /\ call = [c \in Caller |-> NoCall]
      /\ invoices = [i \in Invoice |-> NoInvoice] /\ receipts = [r \in Receipt |-> NoReceipt]
      /\ delivered = 0 /\ overlapped = FALSE
  BY DEF Init, LedgerInit
<1>2. Tables
  <2>1. invoices \in InvoiceTable /\ receipts \in ReceiptTable
    BY <1>1 DEF InvoiceTable, ReceiptTable
  <2>2. delivered \in 0 .. MaxAmount
    BY <1>1, ReceivableAssumption
  <2>3. overlapped \in BOOLEAN
    BY <1>1
  <2> QED BY <2>1, <2>2, <2>3 DEF Tables
<1>3. Settlements
  <2>1. ASSUME NEW i \in Invoice
        PROVE  FromReceipts(receipts, i) = 0 /\ FromNotes(invoices, i) = 0
    <3>1. PostedOf(receipts) = {} /\ NotesOf(invoices, i) = {}
      BY <1>1 DEF PostedOf, NotesOf, NoReceipt
    <3>2. /\ [r \in PostedOf(receipts) |-> receipts[r].alloc[i]] \in [{} -> Int]
          /\ [n \in NotesOf(invoices, i) |-> invoices[n].total] \in [{} -> Int]
      BY <3>1
    <3> QED BY <3>2, SumOfNothing DEF FromReceipts, FromNotes
  <2> QED BY <1>1, <2>1 DEF Settlements, SettledSoFar
<1>4. Documents
  <2>1. \A s \in Source : Fresh(s)
    BY <1>1, KeysApart DEF Fresh, Empty
  <2> QED BY <1>1, <2>1, ReceivableAssumption DEF Documents, InvoiceSays, ReceiptSays,
                                                  NoInvoice, NoReceipt
<1>5. Billing
  <2>1. BillsOf(invoices) = {}
    BY <1>1 DEF BillsOf, Bills, NoInvoice
  <2>2. [i \in BillsOf(invoices) |-> invoices[i].total] \in [{} -> Int]
    BY <2>1
  <2>3. Billed(invoices) = 0
    BY <2>2, SumOfNothing DEF Billed
  <2> QED BY <1>1, <2>3 DEF Billing, NoCall
<1>6. LedgerInv
  <2>1. LedgerTypeOK
    BY <1>1 DEF LedgerTypeOK, EntryTable, Year, PeriodTable, NewYear
  <2>2. Calls
    BY <1>1 DEF Calls, Typed, NoCall
  <2> QED BY <1>1, <2>1, <2>2 DEF LedgerInv, YearInv
<1> QED BY <1>2, <1>3, <1>4, <1>5, <1>6 DEF Inv

\* Every action preserves the invariant.
LEMMA StepHolds == Inv /\ [Next]_vars => Inv'
<1>1. ASSUME Inv, InvoiceNext PROVE Inv'
  <2>1. CASE Deliver
    BY <1>1, <2>1, Delivered
  <2>2. ASSUME NEW i \in Invoice, NEW p \in Period,
               \/ VoidDraftInvoice(i)
               \/ \E amount \in Totals :
                    CreateManualInvoice(i, amount, p) \/ UpdateInvoice(i, amount, p)
        PROVE  Inv'
    BY <1>1, <2>2, DraftVoided, CreatedByHand, Rewritten
  <2>3. ASSUME NEW c \in Caller, NEW i \in Invoice, NEW p \in Period,
               \/ \E qty \in Amount : BeginCreateFromOrder(c, qty, p)
               \/ CreateFromOrder(c, i) \/ DebitNote(c, i)
               \/ IssueInvoice(c, i) \/ VoidInvoice(c, i, p)
               \/ \E n \in Invoice, amount \in Amount : CreditNote(c, i, n, amount, p)
               \/ \E amount \in Totals : BeginDebitNote(c, i, amount, p)
        PROVE  Inv'
    BY <1>1, <2>3, OrderLooked, OrderBilled, DebitNoted, InvoiceIssued, InvoiceVoided,
       CreditNoted, OriginalLooked
  <2> QED BY <1>1, <2>1, <2>2, <2>3 DEF InvoiceNext
<1>2. ASSUME Inv, ReceiptNext PROVE Inv'
  <2>1. ASSUME NEW r \in Receipt, NEW p \in Period,
               \/ VoidDraftReceipt(r)
               \/ \E amount \in Totals :
                    \E alloc \in Allocation(amount) : CreateReceipt(r, amount, alloc, p)
               \/ \E c \in Caller : PostReceipt(c, r) \/ VoidReceipt(c, r, p)
        PROVE  Inv'
    BY <1>2, <2>1, ReceiptDropped, ReceiptCreated, ReceiptPosted, ReceiptUndone
  <2> QED BY <1>2, <2>1 DEF ReceiptNext
<1>3. ASSUME Inv, UNCHANGED vars PROVE Inv'
  <2>1. Calls' /\ NoNewPosts /\ BillsStay
    BY <1>3, OldJobs DEF vars, arVars, Inv, LedgerInv, RowsStay, NoNewPosts, BillsStay
  <2>2. Billing'
    BY <1>3 DEF vars, arVars, Inv, Billing
  <2> QED BY <1>3, <2>1, <2>2, OnlyCalls DEF vars
<1> QED BY <1>1, <1>2, <1>3, LedgerKeeps DEF Next

\* The invariant holds throughout.
LEMMA InvHolds == Spec => []Inv
BY InitHolds, StepHolds, PTL DEF Spec

\* What the run checks follows from the invariant.
LEMMA Implied == Inv => /\ TypeOK /\ SettlementsHoldTogether /\ EntriesMatchDocuments
                        /\ BilledAtMostDelivered /\ ClosedYearIsCleared
<1> SUFFICES ASSUME Inv PROVE /\ TypeOK /\ SettlementsHoldTogether /\ EntriesMatchDocuments
                        /\ BilledAtMostDelivered /\ ClosedYearIsCleared
  OBVIOUS
<1>1. TypeOK
  BY DEF Inv, Tables, LedgerInv, Calls, TypeOK
<1>2. SettlementsHoldTogether
  BY SettlementsFollow DEF Inv
<1>3. ClosedYearIsCleared
  BY DEF Inv, LedgerInv, YearInv, ClosedYearIsCleared
<1> QED BY <1>1, <1>2, <1>3, DocumentsFollow, BilledFollows

\* Rows of every table are of their kind, and a debit note is about an invoice that
\* exists (invoice.use-cases.ts, receipt.use-cases.ts).
THEOREM TypeCorrect == Spec => []TypeOK
BY InvHolds, Implied, PTL

\* What is settled of an invoice is what posted receipts and credit notes settle of
\* it, never more than its total, and every posted receipt can be voided
\* (sales-invoice.ts, applySettlement, reverseSettlement).
THEOREM SettlementsSafe == Spec => []SettlementsHoldTogether
BY InvHolds, Implied, PTL

\* The ledger says of every document what the document says of itself, for any
\* overlap of calls (posting.service.ts, post, reverse).
THEOREM DocumentsSafe == Spec => []EntriesMatchDocuments
BY InvHolds, Implied, PTL

\* No more is billed than was delivered unless two calls billed from one reading
\* (invoice.use-cases.ts, CreateInvoiceFromSalesOrderUseCase).
THEOREM BilledSafe == Spec => []BilledAtMostDelivered
BY InvHolds, Implied, PTL

\* A year-end close that ran alone leaves nothing on the result accounts, and nothing
\* is posted to them afterwards (period.use-cases.ts, CloseFiscalYearUseCase).
THEOREM YearCleared == Spec => []ClosedYearIsCleared
BY InvHolds, Implied, PTL

(*****************************************************************************)
(* A closed year                                                             *)
(*****************************************************************************)
\* A call about to save a year has loaded an open one.
LoadedOpen ==
  /\ call = [c \in Caller |-> call[c]]
  /\ \A c \in Caller : call[c].op = "saveYear" => call[c].loaded.status = "OPEN"

\* What ClosedIsFinal says of a step.
ClosedStays ==
  year.status = "CLOSED" /\ year' # year =>
    \E c \in Caller : call[c].op = "saveYear" /\ call[c].loaded.status = "OPEN"

\* A call that begins with a job, or ends.
LEMMA JobKeeps ==
  ASSUME LoadedOpen, NEW c \in Caller, NEW job, call' = [call EXCEPT ![c] = job],
         job.op = "saveYear" => job.loaded.status = "OPEN"
  PROVE  LoadedOpen'
  BY DEF LoadedOpen

\* The end of a call.
LEMMA FinishKeeps ==
  ASSUME LoadedOpen, NEW c \in Caller, Finish(c)
  PROVE  LoadedOpen'
  BY JobKeeps DEF Finish, NoCall

\* A call that changes the year has loaded an open one.
LEMMA ChangeKeeps ==
  ASSUME LoadedOpen, NEW c \in Caller, NEW next, next # {} => year.status = "OPEN",
         \E y \in next :
           call' = [call EXCEPT ![c] = [op |-> "saveYear", loaded |-> year, year |-> y]]
  PROVE  LoadedOpen'
<1>1. PICK y \in next :
        call' = [call EXCEPT ![c] = [op |-> "saveYear", loaded |-> year, year |-> y]]
  OBVIOUS
<1>. QED  BY <1>1, JobKeeps

\* The accountant, with the year and the calls at its gate.
LEMMA LedgerSteps ==
  ASSUME LoadedOpen, LedgerNext
  PROVE  LoadedOpen' /\ ClosedStays
<1>1. CASE JournalNext
  <2>1. year' = year
    BY <1>1 DEF JournalNext, CreateJournal, SubmitJournal, ReopenJournal, VoidJournal,
                Decide, PostJournal, ReverseJournal
  <2>2. call' = call \/ \E c \in Caller : Finish(c)
    BY <1>1 DEF JournalNext, CreateJournal, SubmitJournal, ReopenJournal, VoidJournal,
                Decide, PostJournal, ReverseJournal, ThroughGate
  <2>. QED  BY <2>1, <2>2, FinishKeeps DEF LoadedOpen, ClosedStays
<1>2. CASE YearNext
  <2>1. PICK c \in Caller :
          \/ \E p \in Period : \/ LockPeriod(c, p) \/ UnlockPeriod(c, p)
                               \/ ClosePeriod(c, p) \/ SaveYearEnd(c, p)
          \/ LockCounted(c) \/ CloseYear(c) \/ SaveYear(c) \/ BeginYearEnd(c)
    BY <1>2 DEF YearNext
  <2>2. ASSUME \/ \E p \in Period : LockPeriod(c, p) \/ UnlockPeriod(c, p)
               \/ LockCounted(c)
        PROVE  LoadedOpen' /\ ClosedStays
    <3>1. \A p, to : Transition(year, p, to) # {} => year.status = "OPEN"
      BY DEF Transition
    <3>2. PICK y :
            /\ year.status = "OPEN"
            /\ call' = [call EXCEPT ![c] = [op |-> "saveYear", loaded |-> year, year |-> y]]
      BY <2>2, <3>1 DEF LockPeriod, UnlockPeriod, LockCounted, ChangeYear, Start
    <3>3. year' = year
      BY <2>2 DEF LockCounted, LockPeriod, UnlockPeriod, ledgerVars
    <3>. QED  BY <3>2, <3>3, JobKeeps DEF ClosedStays
  <2>7. ASSUME NEW p \in Period, ClosePeriod(c, p)
        PROVE  LoadedOpen' /\ ClosedStays
    BY <2>7, JobKeeps DEF ClosePeriod, Start, ledgerVars, ClosedStays
  <2>3. ASSUME NEW p \in Period, SaveYearEnd(c, p)
        PROVE  LoadedOpen' /\ ClosedStays
    BY <2>3, FinishKeeps DEF SaveYearEnd, ClosedStays
  <2>4. CASE CloseYear(c)
    <3>1. Close(year) # {} => year.status = "OPEN"
      BY DEF Close
    <3>2. \E y \in Close(year) :
            call' = [call EXCEPT ![c] = [op |-> "saveYear", loaded |-> year, year |-> y]]
      BY <2>4 DEF CloseYear, ChangeYear, Start
    <3>. QED  BY <2>4, <3>1, <3>2, ChangeKeeps DEF CloseYear, ledgerVars, ClosedStays
  <2>5. CASE SaveYear(c)
    BY <2>5, FinishKeeps DEF SaveYear, ClosedStays, LoadedOpen
  <2>6. CASE BeginYearEnd(c)
    <3> DEFINE job == [op |-> "yearEnd", open |-> OpenPeriods,
                       closing |-> IF entries[YearEnd] = NoEntry THEN ClosingLines
                                   ELSE Zero]
    <3>1. call' = [call EXCEPT ![c] = job] /\ year' = year
      BY <2>6 DEF BeginYearEnd, Start, ledgerVars
    <3>2. job.op # "saveYear"
      OBVIOUS
    <3>. HIDE DEF job
    <3>. QED  BY <3>1, <3>2, JobKeeps DEF ClosedStays
  <2>. QED  BY <2>1, <2>2, <2>3, <2>4, <2>5, <2>6, <2>7
<1>3. CASE CallNext
  <2>1. PICK c \in Caller : GiveUp(c) \/ \E p \in Period : PassGate(c, p)
    BY <1>3 DEF CallNext
  <2>2. year' = year
    BY <2>1 DEF GiveUp, PassGate, ledgerVars
  <2>3. LoadedOpen'
    BY <2>1, FinishKeeps, JobKeeps DEF GiveUp, PassGate, Start
  <2>. QED  BY <2>2, <2>3 DEF ClosedStays
<1>. QED  BY <1>1, <1>2, <1>3 DEF LedgerNext

\* Invoices, notes and receipts leave the year alone.
LEMMA ReceivableSteps ==
  ASSUME LoadedOpen, InvoiceNext \/ ReceiptNext
  PROVE  LoadedOpen' /\ ClosedStays
<1>1. CASE InvoiceNext
  <2>1. CASE Deliver \/ \E i \in Invoice, p \in Period : VoidDraftInvoice(i)
               \/ \E amount \in Totals : CreateManualInvoice(i, amount, p)
                                       \/ UpdateInvoice(i, amount, p)
    <3>1. year' = year /\ call' = call
      BY <2>1 DEF Deliver, VoidDraftInvoice, CreateManualInvoice, UpdateInvoice, ledgerVars
    <3>. QED  BY <3>1 DEF LoadedOpen, ClosedStays
  <2>2. ASSUME NEW c \in Caller, NEW i \in Invoice, NEW p \in Period,
               \/ CreateFromOrder(c, i) \/ DebitNote(c, i)
               \/ IssueInvoice(c, i) \/ VoidInvoice(c, i, p)
               \/ \E n \in Invoice, amount \in Amount : CreditNote(c, i, n, amount, p)
        PROVE  LoadedOpen' /\ ClosedStays
    <3>1. year' = year
      BY <2>2 DEF CreateFromOrder, DebitNote, IssueInvoice, VoidInvoice, CreditNote,
                  ledgerVars
    <3>2. Finish(c)
      BY <2>2 DEF CreateFromOrder, DebitNote, IssueInvoice, VoidInvoice, CreditNote,
                  ThroughGate
    <3>. QED  BY <3>1, <3>2, FinishKeeps DEF ClosedStays
  <2>3. ASSUME NEW c \in Caller, NEW p \in Period, NEW qty \in Amount,
               BeginCreateFromOrder(c, qty, p)
        PROVE  LoadedOpen' /\ ClosedStays
    <3> DEFINE job == [op |-> "bill", at |-> p, amount |-> qty]
    <3>1. call' = [call EXCEPT ![c] = job] /\ year' = year
      BY <2>3 DEF BeginCreateFromOrder, Start, ledgerVars
    <3>2. job.op # "saveYear"
      OBVIOUS
    <3>. HIDE DEF job
    <3>. QED  BY <3>1, <3>2, JobKeeps DEF ClosedStays
  <2>4. ASSUME NEW c \in Caller, NEW i \in Invoice, NEW p \in Period,
               NEW amount \in Totals, BeginDebitNote(c, i, amount, p)
        PROVE  LoadedOpen' /\ ClosedStays
    <3> DEFINE job == [op |-> "debit", at |-> p, amount |-> amount, original |-> i]
    <3>1. call' = [call EXCEPT ![c] = job] /\ year' = year
      BY <2>4 DEF BeginDebitNote, Start, ledgerVars
    <3>2. job.op # "saveYear"
      OBVIOUS
    <3>. HIDE DEF job
    <3>. QED  BY <3>1, <3>2, JobKeeps DEF ClosedStays
  <2>. QED  BY <1>1, <2>1, <2>2, <2>3, <2>4 DEF InvoiceNext
<1>2. CASE ReceiptNext
  <2>1. year' = year /\ (call' = call \/ \E c \in Caller : Finish(c))
    BY <1>2 DEF ReceiptNext, VoidDraftReceipt, CreateReceipt, PostReceipt, VoidReceipt,
                ThroughGate, ledgerVars
  <2>. QED  BY <2>1, FinishKeeps DEF LoadedOpen, ClosedStays
<1>. QED  BY <1>1, <1>2

\* A closed year, with the status of each of its periods, changes only by the save
\* of a call that loaded it open, for any calls, periods and documents
\* (fiscal-year.ts, close; prisma-fiscal-year.repository.ts, save).
THEOREM ClosedFinal == Spec => ClosedIsFinal
<1>1. Init => LoadedOpen
  BY DEF Init, LedgerInit, LoadedOpen, NoCall
<1>2. LoadedOpen /\ [Next]_vars => LoadedOpen'
  <2>1. LoadedOpen /\ Next => LoadedOpen'
    BY LedgerSteps, ReceivableSteps DEF Next
  <2>2. LoadedOpen /\ UNCHANGED vars => LoadedOpen'
    BY DEF vars, LoadedOpen
  <2>. QED  BY <2>1, <2>2
<1>3. LoadedOpen /\ [Next]_vars =>
        [year.status = "CLOSED" /\ year' # year =>
           \E c \in Caller : /\ call[c].op = "saveYear"
                             /\ call[c].loaded.status = "OPEN"]_<<ledgerVars, call>>
  <2>1. LoadedOpen /\ Next => ClosedStays
    BY LedgerSteps, ReceivableSteps DEF Next
  <2>. QED  BY <2>1 DEF ClosedStays, vars
<1>. QED  BY <1>1, <1>2, <1>3, PTL DEF Spec, ClosedIsFinal
=============================================================================
