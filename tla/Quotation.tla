----------------------------- MODULE Quotation -----------------------------
(***************************************************************************)
(* Quotations and their revisions (src/src/modules/sales/quotation).       *)
(*                                                                         *)
(* A row is saved under the version it was loaded with, so a transition is *)
(* one step on the row as it is, the nightly expiry included: it lists the *)
(* rows first, but a row that changed since keeps its new version.  Two    *)
(* calls decide on a row they do not save: Revise reads the revision it    *)
(* copies, a conversion reads the quotation before its transaction begins. *)
(* What they read is in call[c].  Time appears as one question: has        *)
(* validUntil passed?                                                      *)
(***************************************************************************)
EXTENDS Integers, FiniteSets

CONSTANTS Caller,       \* concurrent HTTP calls
          Number,       \* quotation numbers
          MaxRevision,  \* bound on the revisions of a number
          Order         \* sales orders

ASSUME QuotationAssumption == MaxRevision \in Nat \ {0}

VARIABLES
  quotations,   \* sal_quotation, by number and revision (unique together)
  call          \* what a call under way has read

Quotation == Number \X (1 .. MaxRevision)
NoDoc == [status |-> "NONE"]
NoOrder == "none"
NoQuotation == <<"none", 0>>
NoCall == [op |-> "none"]

QuotationRow == [status : {"DRAFT", "SENT", "ACCEPTED", "REJECTED", "EXPIRED",
                           "CANCELLED"},
                 overdue : BOOLEAN, order : Order \cup {NoOrder}]
QuotationTable == [Quotation -> QuotationRow \cup {NoDoc}]

QuoteInit ==
  /\ quotations = [q \in Quotation |-> NoDoc]
  /\ call = [c \in Caller |-> NoCall]

Start(c, job) == call[c] = NoCall /\ call' = [call EXCEPT ![c] = job]
Finish(c) == call' = [call EXCEPT ![c] = NoCall]

\* A refusal, a conflict or a crash.
GiveUp(c) ==
  /\ call[c] # NoCall
  /\ Finish(c)
  /\ UNCHANGED quotations

QuotationMoves ==
  ({"DRAFT"} \X {"SENT", "CANCELLED"}) \cup
  ({"SENT"} \X {"ACCEPTED", "REJECTED", "EXPIRED", "CANCELLED"})
Revisable == {"SENT", "REJECTED", "EXPIRED"}

NewQuotation(overdue) ==
  [status |-> "DRAFT", overdue |-> overdue, order |-> NoOrder]

EditedQuotation(row, overdue) == [row EXCEPT !.overdue = overdue]
LinkedQuotation(row, o) == [row EXCEPT !.order = o]

\* Number and revision are unique together; a save finds the version it read.
InsertQuotation(q, row) ==
  quotations[q] = NoDoc /\ quotations' = [quotations EXCEPT ![q] = row]
SaveQuotation(q, row) == quotations' = [quotations EXCEPT ![q] = row]

CreateQuotation(n, overdue) ==
  /\ InsertQuotation(<<n, 1>>, NewQuotation(overdue))
  /\ UNCHANGED call

UpdateQuotation(q, overdue) ==
  /\ quotations[q].status = "DRAFT"
  /\ SaveQuotation(q, EditedQuotation(quotations[q], overdue))
  /\ UNCHANGED call

\* Only a DRAFT or SENT quotation is ever asked about its validity.
ValidityEnds(q) ==
  /\ quotations[q].status \in {"DRAFT", "SENT"}
  /\ quotations' = [quotations EXCEPT ![q].overdue = TRUE]
  /\ UNCHANGED call

MayMove(row, to) == <<row.status, to>> \in QuotationMoves
CanSend(row) == MayMove(row, "SENT") /\ ~ row.overdue
CanAccept(row) == MayMove(row, "ACCEPTED") /\ ~ row.overdue
IsDueForExpiry(row) == row.status = "SENT" /\ row.overdue
DueForExpiry == {q \in Quotation : IsDueForExpiry(quotations[q])}

MoveQuotation(q, to) ==
  /\ MayMove(quotations[q], to)
  /\ SaveQuotation(q, [quotations[q] EXCEPT !.status = to])
  /\ UNCHANGED call

SendQuotation(q) == CanSend(quotations[q]) /\ MoveQuotation(q, "SENT")
AcceptQuotation(q) == CanAccept(quotations[q]) /\ MoveQuotation(q, "ACCEPTED")
RejectQuotation(q) == MoveQuotation(q, "REJECTED")
CancelQuotation(q) == MoveQuotation(q, "CANCELLED")
ExpireQuotation(q) == q \in DueForExpiry /\ MoveQuotation(q, "EXPIRED")

\* Later revisions of the same number.
Later(q) == {r \in Quotation : /\ r[1] = q[1] /\ r[2] > q[2]
                               /\ quotations[r] # NoDoc}
Successor(q) == <<q[1], q[2] + 1>>
IsRevisable(row) == row.status \in Revisable

BeginRevise(c, q) ==
  /\ IsRevisable(quotations[q])
  /\ Later(q) = {} /\ q[2] < MaxRevision
  /\ Start(c, [op |-> "revise", of |-> q])
  /\ UNCHANGED quotations

\* The unique index on number and revision refuses a second copy.  The
\* source may have been accepted meanwhile: it is not saved.
Revise(c) ==
  /\ call[c].op = "revise"
  /\ InsertQuotation(Successor(call[c].of), NewQuotation(FALSE))
  /\ Finish(c)

CanConvert(row) == row.status = "ACCEPTED" /\ row.order = NoOrder

\* findForConversion, before the transaction of the order.
BeginConvert(c, q) ==
  /\ CanConvert(quotations[q])
  /\ Start(c, [op |-> "convert", of |-> q])
  /\ UNCHANGED quotations

\* Mutant: a quotation may be linked again.
LinksAgain(q, o) == quotations[q].status = "ACCEPTED"

CanLink(q, o) == /\ quotations[q].status = "ACCEPTED"
                 /\ quotations[q].order \in {NoOrder, o}

\* markConverted, in the transaction of the order.
LinkSalesOrder(q, o) ==
  /\ CanLink(q, o)
  /\ SaveQuotation(q, LinkedQuotation(quotations[q], o))

QuoteNext ==
  \/ \E n \in Number, overdue \in BOOLEAN : CreateQuotation(n, overdue)
  \/ \E q \in Quotation :
       \/ \E overdue \in BOOLEAN : UpdateQuotation(q, overdue)
       \/ ValidityEnds(q)
       \/ SendQuotation(q) \/ AcceptQuotation(q) \/ RejectQuotation(q)
       \/ CancelQuotation(q) \/ ExpireQuotation(q)
       \/ \E c \in Caller : BeginRevise(c, q) \/ BeginConvert(c, q)
  \/ \E c \in Caller : Revise(c) \/ GiveUp(c)

(***************************************************************************)
(* Properties                                                              *)
(***************************************************************************)
\* The revisions of a number follow on each other, only the last of them can
\* be a DRAFT, and an order is linked to an ACCEPTED quotation only: what a
\* customer was sent stays as it was, however two revisions and the answers
\* to the older one interleave (quotation.use-cases.ts: Revise).
OnlyLastIsDraft ==
  \A q \in Quotation :
    /\ quotations[q] # NoDoc => q[2] = 1 \/ quotations[<<q[1], q[2] - 1>>] # NoDoc
    /\ quotations[q].status = "DRAFT" => Later(q) = {}
    /\ quotations[q] # NoDoc /\ quotations[q].order # NoOrder =>
         quotations[q].status = "ACCEPTED"
============================================================================
