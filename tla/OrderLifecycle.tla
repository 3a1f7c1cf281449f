--------------------------- MODULE OrderLifecycle ---------------------------
(***************************************************************************)
(* What the production-order module promises: each order is an object on   *)
(* which commands act one at a time, and its log of events says what       *)
(* happened to it.  No versions, no copies, no transactions.               *)
(***************************************************************************)
EXTENDS OrderDomain

VARIABLES order,  \* order[id]: the order, or NoOrder
          log     \* log[id]: the events announced for it, oldest first

Exists(id) == order[id] # NoOrder

Init ==
  /\ order = [id \in Orders |-> NoOrder]
  /\ log = [id \in Orders |-> <<>>]

\* One command on one order: its new state and what is announced.
Apply(id, next, events) ==
  /\ order' = [order EXCEPT ![id] = next]
  /\ log' = [log EXCEPT ![id] = @ \o events]

Create(id) ==
  /\ ~Exists(id)
  /\ \E creator \in Users, amount \in Amounts :
       Apply(id, Draft(creator, amount), <<>>)

Submit(id) ==
  /\ Exists(id)
  /\ CanTransition(order[id].status, "SUBMITTED")
  /\ Apply(id, Moved(order[id], "SUBMITTED"), MoveEvents("submitted", "SUBMITTED"))

Approve(id) ==
  /\ Exists(id)
  /\ \E actor \in Users :
       /\ MayApprove(order[id], actor)
       /\ Apply(id, AfterApprove(order[id], actor), ApproveEvents(order[id]))

Release(id) ==
  /\ Exists(id)
  /\ CanTransition(order[id].status, "RELEASED")
  /\ Apply(id, Moved(order[id], "RELEASED"), MoveEvents("released", "RELEASED"))

Report(id) ==
  /\ Exists(id)
  /\ \E quantity \in ReportSizes :
       /\ MayReport(order[id], quantity)
       /\ Apply(id, AfterReport(order[id], quantity), ReportEvents(order[id], quantity))

Cancel(id) ==
  /\ Exists(id)
  /\ CanTransition(order[id].status, "CANCELLED")
  /\ Apply(id, Moved(order[id], "CANCELLED"), MoveEvents("cancelled", "CANCELLED"))

Next ==
  \E id \in Orders :
    \/ Create(id) \/ Submit(id) \/ Approve(id)
    \/ Release(id) \/ Report(id) \/ Cancel(id)

Spec == Init /\ [][Next]_<<order, log>>
=============================================================================
