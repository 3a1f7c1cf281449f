----------------------------- MODULE Stocktake ------------------------------
(***************************************************************************)
(* Physical counts, transfers and manual movements (src/src/modules/       *)
(* inventory) in the warehouses sales orders hold stock in and ship from.  *)
(*                                                                         *)
(* Sheets and transfers are loaded and saved in one transaction under      *)
(* their version and post through the ledger in it: one step.  A sheet is  *)
(* made of balances that were read before its transaction: two steps.      *)
(* Both have one line, of the one item there is; a unit costs 1, so the    *)
(* amount an adjustment is approved for is the size of its variance.       *)
(***************************************************************************)
EXTENDS SalesOrder

CONSTANTS Sheet,       \* physical counts
          Transfer,    \* transfers between the warehouses
          MaxVariance, \* bound on how far a count is from the balance
          MaxManual    \* bound on the net quantity moved by hand

ASSUME StocktakeAssumption ==
  /\ IsFiniteSet(Sheet) /\ IsFiniteSet(Transfer)
  /\ MaxVariance \in Nat \ {0} /\ MaxManual \in Nat

VARIABLES
  sheets,       \* inv_stock_count with its line
  adjustments,  \* the latest STOCK_ADJUSTMENT request of a sheet
  agreed,       \* history: the request a sheet was posted on
  transfers,    \* inv_stock_transfer with its line
  manual        \* history: net quantity moved by hand

stockVars == <<sheets, adjustments, agreed, transfers, manual>>
allVars == <<vars, stockVars>>

Uncounted == -1
SheetRow == [status : {"FROZEN", "DRAFT", "COUNTING", "REVIEW", "POSTED", "CANCELLED"},
             at : Warehouse, system : Nat, counted : Nat \cup {Uncounted}]
TransferRow == [status : {"DRAFT", "IN_TRANSIT", "RECEIVED", "CANCELLED"},
                from : Warehouse, to : Warehouse, qty : Qty]
Adjustment == [status : {"NONE", "PENDING", "APPROVED", "REJECTED", "CANCELLED"},
               amount : Nat, direct : BOOLEAN]
SheetTable == [Sheet -> SheetRow \cup {NoDoc}]
TransferTable == [Transfer -> TransferRow \cup {NoDoc}]
NoAdjustment == [status |-> "NONE", amount |-> 0, direct |-> FALSE]

StockInit ==
  /\ sheets = [s \in Sheet |-> NoDoc]
  /\ adjustments = [s \in Sheet |-> NoAdjustment]
  /\ agreed = [s \in Sheet |-> NoAdjustment]
  /\ transfers = [t \in Transfer |-> NoDoc]
  /\ manual = [w \in Warehouse |-> 0]

(***************************************************************************)
(* Movements                                                               *)
(***************************************************************************)
\* Nothing that leaves without a reservation takes what is reserved.
CanMove(w, qty) == qty < 0 => -qty <= Available(w)
Moved(w, qty) == [onHand EXCEPT ![w] = @ + qty]

\* A movement's quantity is positive, its type carries the sign.
Inbound == {"RECEIPT", "TRANSFER_IN", "ADJUST_IN"}
Signed(type, qty) == IF type \in Inbound THEN qty ELSE -qty

MoveByHand(w, qty) ==
  /\ CanMove(w, qty)
  /\ manual[w] + qty \in -MaxManual .. MaxManual
  /\ onHand' = Moved(w, qty)
  /\ manual' = [manual EXCEPT ![w] = @ + qty]
  /\ UNCHANGED <<quotations, call, orders, notes, requests, backing, held, freed, given,
                 raced, sheets, adjustments, agreed, transfers>>

(***************************************************************************)
(* Transfers                                                               *)
(***************************************************************************)
\* Mutant: what is on its way can be cancelled.
CancelsInTransit ==
  {<<"DRAFT", "IN_TRANSIT">>, <<"DRAFT", "CANCELLED">>,
   <<"IN_TRANSIT", "RECEIVED">>, <<"IN_TRANSIT", "CANCELLED">>}

TransferMoves ==
  {<<"DRAFT", "IN_TRANSIT">>, <<"DRAFT", "CANCELLED">>, <<"IN_TRANSIT", "RECEIVED">>}

NewTransfer(from, to, qty) ==
  [status |-> "DRAFT", from |-> from, to |-> to, qty |-> qty]

\* A save finds the version its call loaded.
InsertTransfer(t, row) ==
  transfers[t] = NoDoc /\ transfers' = [transfers EXCEPT ![t] = row]
SaveTransfer(t, row) == transfers' = [transfers EXCEPT ![t] = row]

MoveTransfer(t, to) ==
  /\ <<transfers[t].status, to>> \in TransferMoves
  /\ SaveTransfer(t, [transfers[t] EXCEPT !.status = to])

TransferRest == <<quotations, call, orders, notes, requests, backing, held, freed, given,
                  raced, sheets, adjustments, agreed, manual>>

CreateTransfer(t, from, to, qty) ==
  /\ from # to
  /\ InsertTransfer(t, NewTransfer(from, to, qty))
  /\ UNCHANGED <<TransferRest, onHand>>

ShipTransfer(t) ==
  /\ MoveTransfer(t, "IN_TRANSIT")
  /\ CanMove(transfers[t].from, Signed("TRANSFER_OUT", transfers[t].qty))
  /\ onHand' = Moved(transfers[t].from, Signed("TRANSFER_OUT", transfers[t].qty))
  /\ UNCHANGED TransferRest

ReceiveTransfer(t) ==
  /\ MoveTransfer(t, "RECEIVED")
  /\ onHand' = Moved(transfers[t].to, Signed("TRANSFER_IN", transfers[t].qty))
  /\ UNCHANGED TransferRest

CancelTransfer(t) ==
  /\ MoveTransfer(t, "CANCELLED")
  /\ UNCHANGED <<TransferRest, onHand>>

(***************************************************************************)
(* Physical counts                                                         *)
(***************************************************************************)
Variance(s) ==
  IF sheets[s].counted = Uncounted THEN 0 ELSE sheets[s].counted - sheets[s].system
VarianceValue(s) == IF Variance(s) < 0 THEN -Variance(s) ELSE Variance(s)

SheetMoves ==
  ({"DRAFT"} \X {"COUNTING", "CANCELLED"}) \cup
  ({"COUNTING"} \X {"REVIEW", "CANCELLED"}) \cup
  ({"REVIEW"} \X {"POSTED", "COUNTING", "CANCELLED"})

CountRest == <<quotations, call, orders, notes, requests, backing, held, freed, given,
               raced, transfers, manual>>

InsertSheet(s) ==
  /\ sheets[s].status = "FROZEN"
  /\ sheets' = [sheets EXCEPT ![s].status = "DRAFT"]
SaveSheet(s, row) == sheets' = [sheets EXCEPT ![s] = row]

NewSheet(w) ==
  [status |-> "FROZEN", at |-> w, system |-> onHand[w], counted |-> Uncounted]

\* The balances are read, then a sheet is made of them.
FreezeSheet(s, w) ==
  /\ sheets[s] = NoDoc
  /\ sheets' = [sheets EXCEPT ![s] = NewSheet(w)]
  /\ UNCHANGED <<CountRest, onHand, adjustments, agreed>>

CreateSheet(s) ==
  /\ InsertSheet(s)
  /\ UNCHANGED <<CountRest, onHand, adjustments, agreed>>

MoveSheet(s, to) ==
  /\ <<sheets[s].status, to>> \in SheetMoves
  /\ SaveSheet(s, [sheets[s] EXCEPT !.status = to])

\* Every way into COUNTING looks at the transition table alone.
StartCount(s) ==
  /\ MoveSheet(s, "COUNTING")
  /\ UNCHANGED <<CountRest, onHand, adjustments, agreed>>

Counts(s) ==
  Nat \cap (sheets[s].system - MaxVariance .. sheets[s].system + MaxVariance)

RecordCounts(s) ==
  /\ sheets[s].status = "COUNTING"
  /\ \E n \in Counts(s) : SaveSheet(s, [sheets[s] EXCEPT !.counted = n])
  /\ UNCHANGED <<CountRest, onHand, adjustments, agreed>>

\* Posts the variance, which is a difference from what was frozen.
PostAdjustment(s) ==
  /\ CanMove(sheets[s].at, Variance(s))
  /\ onHand' = Moved(sheets[s].at, Variance(s))
  /\ agreed' = [agreed EXCEPT ![s] = adjustments'[s]]

AskAdjustment(s, outcome, amount, direct) ==
  /\ adjustments[s].status # "PENDING"
  /\ adjustments' = [adjustments EXCEPT ![s] =
       [status |-> outcome, amount |-> amount, direct |-> direct]]

\* Mutant: only a refusal is waited out.
PostsUnlessRefused(outcome) == outcome # "REJECTED"

PostsAtOnce(outcome) == outcome = "APPROVED"

CanSubmitCount(row) == row.status = "COUNTING" /\ row.counted # Uncounted
PostedSheet(row) == [row EXCEPT !.status = "POSTED"]
UnderReview(row) == [row EXCEPT !.status = "REVIEW"]

\* No variance, or an approval at once: posted without a review.
SubmitCount(s, outcome) ==
  /\ CanSubmitCount(sheets[s])
  /\ \/ /\ Variance(s) = 0 /\ outcome = "NONE"
        /\ SaveSheet(s, PostedSheet(sheets[s]))
        /\ UNCHANGED <<adjustments, onHand, agreed>>
     \/ /\ Variance(s) # 0 /\ outcome # "NONE"
        /\ AskAdjustment(s, outcome, VarianceValue(s), FALSE)
        /\ IF PostsAtOnce(outcome)
           THEN /\ SaveSheet(s, PostedSheet(sheets[s]))
                /\ PostAdjustment(s)
           ELSE /\ SaveSheet(s, UnderReview(sheets[s]))
                /\ UNCHANGED <<onHand, agreed>>
  /\ UNCHANGED CountRest

PostCount(s) ==
  /\ UNCHANGED <<CountRest, adjustments>>
  /\ \/ /\ adjustments[s].status \in {"APPROVED", "NONE"}
        /\ MoveSheet(s, "POSTED")
        /\ PostAdjustment(s)
     \/ /\ adjustments[s].status \in {"REJECTED", "CANCELLED"}
        /\ MoveSheet(s, "COUNTING")
        /\ UNCHANGED <<onHand, agreed>>

\* The request of the review stays as it is.
Recount(s) ==
  /\ MoveSheet(s, "COUNTING")
  /\ UNCHANGED <<CountRest, onHand, adjustments, agreed>>

CancelCount(s) ==
  /\ MoveSheet(s, "CANCELLED")
  /\ UNCHANGED <<CountRest, onHand, adjustments, agreed>>

AnswerAdjustment(s, verdict) ==
  /\ adjustments[s].status = "PENDING"
  /\ adjustments' = [adjustments EXCEPT ![s].status = verdict]
  /\ UNCHANGED <<CountRest, onHand, sheets, agreed>>

AskAdjustmentDirectly(s, outcome) ==
  /\ AskAdjustment(s, outcome, 0, TRUE)
  /\ UNCHANGED <<CountRest, onHand, sheets, agreed>>

MovementNext ==
  \E w \in Warehouse, qty \in Qty, type \in {"RECEIPT", "ISSUE"} :
    MoveByHand(w, Signed(type, qty))

TransferNext ==
  \E t \in Transfer :
    \/ \E from, to \in Warehouse, qty \in Qty : CreateTransfer(t, from, to, qty)
    \/ ShipTransfer(t) \/ ReceiveTransfer(t) \/ CancelTransfer(t)

CountNext ==
  \E s \in Sheet :
    \/ \E w \in Warehouse : FreezeSheet(s, w)
    \/ \E outcome \in {"NONE", "PENDING", "APPROVED"} : SubmitCount(s, outcome)
    \/ CreateSheet(s) \/ StartCount(s) \/ RecordCounts(s) \/ PostCount(s) \/ Recount(s) \/ CancelCount(s)

AdjustmentNext ==
  \E s \in Sheet :
    \/ \E verdict \in {"APPROVED", "REJECTED", "CANCELLED"} : AnswerAdjustment(s, verdict)
    \/ /\ sheets[s] # NoDoc
       /\ \E outcome \in {"PENDING", "APPROVED"} : AskAdjustmentDirectly(s, outcome)

StockNext == MovementNext \/ TransferNext \/ CountNext \/ AdjustmentNext

StocktakeSpec ==
  /\ Init /\ StockInit
  /\ [][(Next /\ UNCHANGED stockVars) \/ StockNext]_allVars

(***************************************************************************)
(* Properties                                                              *)
(***************************************************************************)
\* Rows have their types and no balance goes negative, whatever is shipped,
\* transferred, adjusted and taken by hand beside each other.
TypeOK ==
  /\ SalesTypeOK
  /\ sheets \in SheetTable
  /\ transfers \in TransferTable
  /\ adjustments \in [Sheet -> Adjustment] /\ agreed \in [Sheet -> Adjustment]
  /\ manual \in [Warehouse -> Int]

\* A warehouse holds what it had, what was moved by hand, and what its
\* documents say: notes and transfers that left, transfers that arrived, and
\* the variance of every posted sheet once, however often a sheet was
\* recounted and its request answered (transfer.use-cases.ts: Ship, Receive;
\* physical-count.use-cases.ts: postAdjustments).
StockFollowsDocuments ==
  \A w \in Warehouse :
    LET left == {t \in Transfer : /\ transfers[t] # NoDoc /\ transfers[t].from = w
                                  /\ transfers[t].status \in {"IN_TRANSIT", "RECEIVED"}}
        came == {t \in Transfer : /\ transfers[t] # NoDoc /\ transfers[t].to = w
                                  /\ transfers[t].status = "RECEIVED"}
        shipped == {n \in Note : notes[n].status = "SHIPPED" /\ notes[n].from = w}
        posted == {s \in Sheet : sheets[s].status = "POSTED" /\ sheets[s].at = w}
    IN onHand[w] =
         (IF w = "default" THEN Stock ELSE Elsewhere) + manual[w]
         + SumFunction([t \in came |-> transfers[t].qty])
         + SumFunction([s \in posted |-> Variance(s)])
         - SumFunction([t \in left |-> transfers[t].qty])
         - SumFunction([n \in shipped |-> notes[n].qty])

\* A variance reaches the stock on an approval of just that variance, never
\* on one of an earlier count of the sheet, unless someone asked for the
\* approval through the approval API (physical-count.use-cases.ts: Submit,
\* Post, Recount).
AdjustedAsApproved ==
  \A s \in Sheet : sheets[s].status = "POSTED" /\ Variance(s) # 0 =>
    /\ agreed[s].status = "APPROVED"
    /\ agreed[s].direct \/ agreed[s].amount = VarianceValue(s)
============================================================================
