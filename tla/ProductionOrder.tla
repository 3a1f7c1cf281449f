-------------------------- MODULE ProductionOrder --------------------------
(***************************************************************************)
(* The production-order use cases over their repository                    *)
(* (src/src/modules/production-order/application and infrastructure).      *)
(*                                                                         *)
(* Every command is one transaction: findById copies the row, the          *)
(* aggregate decides on the copy, save writes it back if the version is    *)
(* still the one read, and each pending event becomes an outbox row under  *)
(* a key made of type, order and new version.  Reads hold no locks and a   *)
(* transaction that fails or whose process dies leaves nothing, so a call  *)
(* is two read steps and a commit step with other calls in between.        *)
(***************************************************************************)
EXTENDS OrderDomain, FiniteSets

CONSTANTS Calls,       \* concurrent HTTP calls
          NeedsStock,  \* orders whose BOM has components to reserve
          MaxVersion   \* bound: version at which an order is left alone

ASSUME OrdersAssumption == Orders # {}
ASSUME NeedsStockAssumption == NeedsStock \subseteq Orders
ASSUME MaxVersionAssumption == MaxVersion \in Nat

VARIABLES
  row,      \* production_order: version and order; version 0 is no row
  reports,  \* progress_report: how many rows an order has and their total
  outbox,   \* outbox[id]: events written for the order, oldest first
  keys,     \* idempotency keys of those rows
  held,     \* orders with an inventory hold PRODUCTION_ORDER/<id>
  calls     \* the memory of each call

vars == <<row, reports, outbox, keys, held, calls>>

Op == {"submit", "approve", "release", "report", "cancel"}

Row == [version : Nat, order : Order \union {NoOrder}]

Reports == [count : Nat, total : Nat]

NoRow == [version |-> 0, order |-> NoOrder]

\* The actor is kept for approve, the one command whose guards ask for it.
Call == {call \in [phase : {"idle", "rowRead", "loaded"},
                   op    : Op,
                   actor : Users \union {NoUser},
                   id    : Orders,
                   copy  : Row,     \* the row as it was read
                   seen  : Nat] :   \* progress reports read after it
           call.op = "approve" => call.actor \in Users}

IdleCall == [phase |-> "idle", op |-> "submit", actor |-> NoUser,
             id |-> CHOOSE id \in Orders : TRUE, copy |-> NoRow, seen |-> 0]

-----------------------------------------------------------------------------

Init ==
  /\ row = [id \in Orders |-> NoRow]
  /\ reports = [id \in Orders |-> [count |-> 0, total |-> 0]]
  /\ outbox = [id \in Orders |-> <<>>]
  /\ keys = {}
  /\ held = {}
  /\ calls = [c \in Calls |-> IdleCall]

\* CreateDraftOrderUseCase: version 0 and no row inserts version 1; an id that is
\* taken ends in OptimisticLockError or in the primary key.
Create(id) ==
  /\ row[id].order = NoOrder
  /\ \E creator \in Users, amount \in Amounts :
       row' = [row EXCEPT ![id] = [version |-> 1, order |-> Draft(creator, amount)]]
  /\ UNCHANGED <<reports, outbox, keys, held, calls>>

\* findById of a command on an existing order, first query: the row.
ReadRow(c, op, actor, id) ==
  /\ calls[c].phase = "idle"
  /\ row[id].order # NoOrder
  /\ row[id].version < MaxVersion
  /\ op # "approve" <=> actor = NoUser
  /\ calls' = [calls EXCEPT ![c] = [phase |-> "rowRead", op |-> op, actor |-> actor,
                                    id |-> id, copy |-> row[id], seen |-> 0]]
  /\ UNCHANGED <<row, reports, outbox, keys, held>>

\* findById, second query: the progress reports, with other commits in between.
ReadReports(c) ==
  /\ calls[c].phase = "rowRead"
  /\ calls' = [calls EXCEPT ![c].phase = "loaded",
                            ![c].seen = reports[calls[c].id].count]
  /\ UNCHANGED <<row, reports, outbox, keys, held>>

\* The order call c works on, as it was read.
Copy(c) == calls[c].copy.order

\* The keys of the events of a commit.
KeysOf(c, events) ==
  {<<events[i].type, calls[c].id, calls[c].copy.version + 1>> : i \in DOMAIN events}

\* Mutant: save writes by id alone.
MaySaveById(c, events) == keys \cap KeysOf(c, events) = {}

\* The database takes the commit: the version is the one read, and no key is taken.
MaySave(c, events) ==
  /\ row[calls[c].id].version = calls[c].copy.version
  /\ keys \cap KeysOf(c, events) = {}

\* Mutant: the version written is the version read.
SavedRowKeepingVersion(c, next) == [version |-> calls[c].copy.version, order |-> next]

SavedRow(c, next) == [version |-> calls[c].copy.version + 1, order |-> next]

\* persistAndDispatch: save, then one outbox row per event, in one transaction.
Persist(c, next, events) ==
  /\ MaySave(c, events)
  /\ row' = [row EXCEPT ![calls[c].id] = SavedRow(c, next)]
  /\ outbox' = [outbox EXCEPT ![calls[c].id] = @ \o events]
  /\ keys' = keys \union KeysOf(c, events)
  /\ calls' = [calls EXCEPT ![c] = IdleCall]

Running(c, op) == calls[c].phase = "loaded" /\ calls[c].op = op

Submit(c) ==
  /\ Running(c, "submit")
  /\ CanTransition(Copy(c).status, "SUBMITTED")
  /\ Persist(c, Moved(Copy(c), "SUBMITTED"), MoveEvents("submitted", "SUBMITTED"))
  /\ UNCHANGED <<reports, held>>

Approve(c) ==
  /\ Running(c, "approve")
  /\ MayApprove(Copy(c), calls[c].actor)
  /\ Persist(c, AfterApprove(Copy(c), calls[c].actor), ApproveEvents(Copy(c)))
  /\ UNCHANGED <<reports, held>>

\* ReleaseOrderUseCase: the hold is part of the transaction; a shortage rolls it
\* back, and an order without components needs none.
Release(c) ==
  /\ Running(c, "release")
  /\ CanTransition(Copy(c).status, "RELEASED")
  /\ Persist(c, Moved(Copy(c), "RELEASED"), MoveEvents("released", "RELEASED"))
  /\ held' = IF calls[c].id \in NeedsStock THEN held \union {calls[c].id} ELSE held
  /\ UNCHANGED reports

\* syncProgress counts the rows there are and inserts what the aggregate has
\* beyond that many: the new report, unless reports it has not seen were added.
SyncProgress(c, quantity) ==
  reports' = [reports EXCEPT ![calls[c].id] =
    IF calls[c].seen + 1 <= @.count THEN @
    ELSE [count |-> calls[c].seen + 1, total |-> @.total + quantity]]

\* ReportProgressUseCase; the command needs a quantity, zero included.
Report(c) ==
  /\ Running(c, "report")
  /\ \E quantity \in ReportSizes :
       /\ MayReport(Copy(c), quantity)
       /\ Persist(c, AfterReport(Copy(c), quantity), ReportEvents(Copy(c), quantity))
       /\ SyncProgress(c, quantity)
  /\ UNCHANGED held

\* CancelOrderUseCase: the aggregate and its event; the inventory is not called.
Cancel(c) ==
  /\ Running(c, "cancel")
  /\ CanTransition(Copy(c).status, "CANCELLED")
  /\ Persist(c, Moved(Copy(c), "CANCELLED"), MoveEvents("cancelled", "CANCELLED"))
  /\ UNCHANGED <<reports, held>>

\* A domain error, a shortage, OptimisticLockError, the time limit or the death of
\* the process: the transaction rolls back.
Fail(c) ==
  /\ calls[c].phase # "idle"
  /\ calls' = [calls EXCEPT ![c] = IdleCall]
  /\ UNCHANGED <<row, reports, outbox, keys, held>>

Next ==
  \/ \E id \in Orders : Create(id)
  \/ \E c \in Calls, op \in Op, actor \in Users \union {NoUser}, id \in Orders :
       ReadRow(c, op, actor, id)
  \/ \E c \in Calls :
       \/ ReadReports(c) \/ Submit(c) \/ Approve(c) \/ Release(c)
       \/ Report(c) \/ Cancel(c) \/ Fail(c)

Spec == Init /\ [][Next]_vars

-----------------------------------------------------------------------------

TypeOK ==
  /\ row \in [Orders -> Row]
  /\ reports \in [Orders -> Reports]
  /\ outbox \in [Orders -> Seq(Event)]
  /\ keys \subseteq {"submitted", "approved", "released", "progress_reported",
                     "completed", "cancelled"} \X Orders \X Nat
  /\ held \subseteq NeedsStock
  /\ calls \in [Calls -> Call]

\* R2 and R3: an order that got past SUBMITTED was approved by somebody other than
\* its creator, and by two different people if it needs two, however many approve
\* calls overlapped (approve, optimistic lock).
ApproversAreDistinct ==
  \A id \in Orders :
    LET o == row[id].order IN
    o # NoOrder /\ o.status \in {"APPROVED", "RELEASED", "IN_PROGRESS", "COMPLETED"} =>
      /\ o.firstApprover \notin {NoUser, o.createdBy}
      /\ DualRequired(o) => o.secondApprover \notin {NoUser, o.createdBy, o.firstApprover}

\* R7, "the outbox row IS the audit trail": the last event written for an order
\* announces the status it has now (persistAndDispatch).
AuditTrailTellsStatus ==
  \A id \in Orders :
    row[id].order # NoOrder =>
      row[id].order.status =
        IF outbox[id] = <<>> THEN "DRAFT" ELSE outbox[id][Len(outbox[id])].toStatus

\* R9 is kept in two places, the producedQuantity column and the progress_report
\* rows: they tell the same total however reports overlap (save, syncProgress).
ProducedMatchesReports ==
  \A id \in Orders :
    reports[id].total =
      IF row[id].order = NoOrder THEN 0 ELSE row[id].order.produced

\* A key is never made of a version the order has not reached, so a commit whose
\* version check passed cannot fail on the unique key (idempotencyKeyFor).
KeysStayBelowVersion ==
  \A k \in keys : k[3] <= row[k[2]].version

\* "released by the inventory gateway when the order is cancelled" (comment of
\* InventoryGatewayAdapter): a cancelled order holds no stock.
CancelledHoldsNothing ==
  \A id \in held : row[id].order.status # "CANCELLED"

\* Copies, versions and transactions behave as one command at a time on the order.
OrderOf == [id \in Orders |-> row[id].order]

Lifecycle == INSTANCE OrderLifecycle WITH order <- OrderOf, log <- outbox

ImplementsLifecycle == Lifecycle!Spec
=============================================================================
