------------------------------ MODULE MCSales ------------------------------
(***************************************************************************)
(* Quotations, orders, delivery notes, counts and transfers on a few       *)
(* documents.  A scope bounds each behaviour to the parts that share       *)
(* state; the rest stays as it began.                                      *)
(***************************************************************************)
EXTENDS Stocktake, TLC

VARIABLE scope

Symmetry == Permutations(Caller) \cup Permutations(Order) \cup Permutations(Note)
            \cup Permutations(Sheet)

AtMostOne(set, doc) == Cardinality({x \in set : doc[x] # NoDoc}) <= 1

\* Revisions and conversions.
Quoting ==
  /\ QuotationNext \/ OrderNext
  /\ \A o \in Order : orders'[o].status \in {"NONE", "DRAFT", "CANCELLED"}
  /\ UNCHANGED requests

\* Orders of one customer and their approval; a request is cancelled only
\* while there is one order.
Selling ==
  /\ OrderNext \/ ApprovalNext \/ \E c \in Caller : GiveUp(c) /\ UNCHANGED saleVars
  /\ UNCHANGED quotations
  /\ AtMostOne(Order, orders') \/ \A o \in Order : requests'[o].status # "CANCELLED"

\* Confirmed orders, their deliveries, and hands on the hold of one of them.
Delivering ==
  /\ OrderNext \/ NoteNext \/ HandNext
  /\ Cardinality(freed' \cup given') <= 1
  /\ \A o \in Order : requests'[o].status # "PENDING"
  /\ UNCHANGED quotations

\* Two sheets for one warehouse, what they ask for, and movements by hand.
Counting ==
  /\ CountNext \/ AdjustmentNext \/ MovementNext
  /\ \A s \in Sheet : sheets'[s] # NoDoc => sheets'[s].at = "default"
  /\ manual'["other"] = 0

\* One sheet and a transfer beside the holds and the delivery of one order.
Stocking ==
  \/ /\ CountNext \/ TransferNext \/ AdjustmentNext
     /\ AtMostOne(Sheet, sheets')
     /\ \A s \in Sheet : adjustments'[s].status # "CANCELLED" /\ ~ adjustments'[s].direct
  \/ /\ OrderNext \/ NoteNext
     /\ AtMostOne(Order, orders') /\ AtMostOne(Note, notes')
     /\ \A o \in Order : requests'[o].status # "PENDING" /\ orders'[o].status # "CANCELLED"
     /\ UNCHANGED <<stockVars, quotations>>

MCInit == Init /\ StockInit /\ scope \in {"quote", "sell", "deliver", "count", "stock"}
MCNext ==
  /\ \/ scope = "quote" /\ Quoting /\ UNCHANGED stockVars
     \/ scope = "sell" /\ Selling /\ UNCHANGED stockVars
     \/ scope = "deliver" /\ Delivering /\ UNCHANGED stockVars
     \/ scope = "count" /\ Counting
     \/ scope = "stock" /\ Stocking
  /\ UNCHANGED scope
MCSpec == MCInit /\ [][MCNext]_<<allVars, scope>>
============================================================================
