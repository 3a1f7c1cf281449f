-------------------------- MODULE Production_proofs --------------------------
(***************************************************************************)
(* Proofs about ProductionOrder and, from the section "Master data" on,    *)
(* about MasterData: partners, recipes, price lists, rates and taxes, and  *)
(* the catalogue.                                                          *)
(*                                                                         *)
(* Production orders rest on one fact about the optimistic lock            *)
(* (CopiesAreCurrent): a copy whose version is still the version of the    *)
(* row is the row.  A commit that passed the version check has therefore   *)
(* decided on the present state of the order.  Master data has no such     *)
(* lock: its rows are kept by the unique keys of the tables, and by what   *)
(* a caller had read being still true when it writes.                      *)
(***************************************************************************)
EXTENDS ProductionOrder, MasterData, SumLemmas, TLAPS

PastApproval == {"APPROVED", "RELEASED", "IN_PROGRESS", "COMPLETED"}

\* What the aggregate keeps true of its approvers, whatever its status.
ApproversSound(o) ==
  /\ o.firstApprover # o.createdBy
  /\ o.status \in PastApproval =>
       /\ o.firstApprover # NoUser
       /\ DualRequired(o) =>
            o.secondApprover \notin {NoUser, o.createdBy, o.firstApprover}

OrdersAreSound ==
  \A id \in Orders : row[id].order # NoOrder => ApproversSound(row[id].order)

\* A copy is never ahead of its row, and equals it while the versions agree.
CopyIsCurrent(c) ==
  calls[c].phase # "idle" =>
    LET stored == row[calls[c].id] IN
    /\ calls[c].copy.order # NoOrder
    /\ stored.order # NoOrder
    /\ calls[c].copy.version <= stored.version
    /\ calls[c].copy.version = stored.version =>
         /\ calls[c].copy.order = stored.order
         /\ calls[c].phase = "loaded" => calls[c].seen = reports[calls[c].id].count

\* An order that does not exist has no version and no history.
BlankRows ==
  \A id \in Orders :
    row[id].order = NoOrder => row[id].version = 0 /\ outbox[id] = <<>>

CopiesAreCurrent == \A c \in Calls : CopyIsCurrent(c)

Inv ==
  /\ TypeOK
  /\ CopiesAreCurrent
  /\ KeysStayBelowVersion
  /\ BlankRows
  /\ OrdersAreSound
  /\ AuditTrailTellsStatus
  /\ ProducedMatchesReports

\* What persistAndDispatch is handed: an order that follows from the copy, and
\* events of which the last announces its status.
Follows(c, next, events) ==
  /\ next \in Order
  /\ ApproversSound(next)
  /\ events \in Seq(Event)
  /\ IF events = <<>> THEN next.status = Copy(c).status
     ELSE events[Len(events)].toStatus = next.status

-----------------------------------------------------------------------------
(* The aggregate. *)

\* overCeiling is a natural number.
LEMMA CeilingIsNat == OverCeiling \in Nat
  <1> DEFINE n == Ordered * (10000 + OverBp)
  <1>1. n \in Nat
    BY QuantityAssumption
  <1>2. n \div 10000 \in Nat
    <2> HIDE DEF n
    <2> QED BY <1>1
  <1> QED BY <1>2 DEF OverCeiling

\* A new draft is an order with no approver.
LEMMA DraftIsSound ==
  ASSUME NEW creator \in Users, NEW amount \in Amounts
  PROVE  Draft(creator, amount) \in Order /\ ApproversSound(Draft(creator, amount))
  <1>1. Draft(creator, amount) \in Order
    BY CeilingIsNat DEF Draft, Order, Status
  <1>2. creator # NoUser
    BY NoUserAssumption
  <1> QED BY <1>1, <1>2 DEF Draft, ApproversSound, PastApproval

\* submit, release and cancel keep the aggregate sound.
LEMMA MovedIsSound ==
  ASSUME NEW o \in Order, NEW s \in {"SUBMITTED", "RELEASED", "CANCELLED"},
         ApproversSound(o), CanTransition(o.status, s)
  PROVE  /\ Moved(o, s) \in Order
         /\ ApproversSound(Moved(o, s))
         /\ Moved(o, s).status = s
         /\ Moved(o, s).produced = o.produced
  <1>1. Moved(o, s) \in Order
    BY DEF Moved, Order, Status
  <1>2. s = "RELEASED" => o.status \in PastApproval
    BY DEF CanTransition, AllowedTransitions, PastApproval
  <1> QED BY <1>1, <1>2 DEF Moved, ApproversSound, DualRequired, PastApproval, Order

\* approve records somebody other than the creator, and a second approval
\* somebody other than the first approver.
LEMMA ApprovedIsSound ==
  ASSUME NEW o \in Order, NEW actor \in Users, ApproversSound(o), MayApprove(o, actor)
  PROVE  /\ AfterApprove(o, actor) \in Order
         /\ ApproversSound(AfterApprove(o, actor))
         /\ AfterApprove(o, actor).status = IF IsFirstOfTwo(o) THEN "SUBMITTED"
                                            ELSE "APPROVED"
         /\ AfterApprove(o, actor).produced = o.produced
  <1> DEFINE first == [o EXCEPT !.firstApprover = actor]
             second == [o EXCEPT !.secondApprover = actor, !.status = "APPROVED"]
             only == [o EXCEPT !.firstApprover = actor, !.status = "APPROVED"]
  <1>0. actor # NoUser /\ actor # o.createdBy /\ o.status = "SUBMITTED"
    BY NoUserAssumption DEF MayApprove
  <1>1. CASE IsFirstOfTwo(o)
    <2>1. first \in Order /\ first.status = "SUBMITTED"
      BY <1>0 DEF Order
    <2>2. ApproversSound(first)
      BY <1>0 DEF ApproversSound, PastApproval, Order
    <2> QED BY <1>1, <2>1, <2>2 DEF AfterApprove, Order
  <1>2. CASE ~IsFirstOfTwo(o) /\ DualRequired(o)
    <2>1. second \in Order
      BY DEF Order, Status
    <2>2. o.firstApprover # NoUser /\ actor # o.firstApprover
      BY <1>2 DEF IsFirstOfTwo, MayApprove
    <2>3. ApproversSound(second)
      BY <1>0, <2>2 DEF ApproversSound, Order
    <2> QED BY <1>2, <2>1, <2>3 DEF AfterApprove, Order
  <1>3. CASE ~DualRequired(o)
    <2>1. only \in Order
      BY DEF Order, Status
    <2>2. ApproversSound(only)
      BY <1>0, <1>3 DEF ApproversSound, DualRequired, Order
    <2> QED BY <1>3, <2>1, <2>2 DEF AfterApprove, IsFirstOfTwo, Order
  <1> QED BY <1>1, <1>2, <1>3

\* reportProgress adds the quantity and stays below the ceiling.
LEMMA ReportedIsSound ==
  ASSUME NEW o \in Order, NEW quantity \in ReportSizes, ApproversSound(o),
         MayReport(o, quantity)
  PROVE  /\ AfterReport(o, quantity) \in Order
         /\ ApproversSound(AfterReport(o, quantity))
         /\ AfterReport(o, quantity).status = IF Completes(o, quantity) THEN "COMPLETED"
                                              ELSE "IN_PROGRESS"
         /\ AfterReport(o, quantity).produced = o.produced + quantity
  <1> DEFINE status == IF Completes(o, quantity) THEN "COMPLETED" ELSE "IN_PROGRESS"
             next == [o EXCEPT !.produced = o.produced + quantity, !.status = status]
  <1>1. AfterReport(o, quantity) = next
    BY DEF AfterReport, Order
  <1>2. status \in {"COMPLETED", "IN_PROGRESS"}
    OBVIOUS
  <1> HIDE DEF status
  <1>3. o.produced + quantity \in 0..OverCeiling
    BY CeilingIsNat, QuantityAssumption DEF MayReport, Order
  <1>4. next \in Order
    BY <1>2, <1>3 DEF Order, Status
  <1>5. next.status = status /\ next.produced = o.produced + quantity
    BY DEF Order
  <1>6. /\ next.firstApprover = o.firstApprover /\ next.secondApprover = o.secondApprover
        /\ next.createdBy = o.createdBy /\ next.totalAmount = o.totalAmount
    BY DEF Order
  <1>7. o.status \in PastApproval
    BY DEF MayReport, PastApproval
  <1>8. ApproversSound(next)
    <2> HIDE DEF next
    <2> QED BY <1>6, <1>7 DEF ApproversSound, DualRequired
  <1> QED BY <1>1, <1>4, <1>5, <1>8 DEF status

-----------------------------------------------------------------------------
(* Commits. *)

\* The copy of a running call is an order the row has had.
LEMMA CopyIsOrder ==
  ASSUME Inv, NEW c \in Calls, NEW op, Running(c, op)
  PROVE  /\ calls[c].id \in Orders
         /\ calls[c].copy.version \in Nat
         /\ Copy(c) \in Order
  <1>1. calls[c] \in Call
    BY DEF Inv, TypeOK
  <1>2. Copy(c) # NoOrder
    BY DEF Inv, CopiesAreCurrent, CopyIsCurrent, Running, Copy
  <1> QED BY <1>1, <1>2 DEF Call, Row, Copy

\* A commit that the database takes decided on the order as it is.
LEMMA CommitSeesTheRow ==
  ASSUME Inv, NEW c \in Calls, NEW op, Running(c, op), NEW events, MaySave(c, events)
  PROVE  /\ row[calls[c].id].version = calls[c].copy.version
         /\ row[calls[c].id].order = Copy(c)
         /\ calls[c].seen = reports[calls[c].id].count
         /\ ApproversSound(Copy(c))
  <1>1. CopyIsCurrent(c)
    BY DEF Inv, CopiesAreCurrent
  <1>2. /\ row[calls[c].id].order = Copy(c)
        /\ calls[c].seen = reports[calls[c].id].count
    BY <1>1 DEF CopyIsCurrent, MaySave, Running, Copy
  <1> QED BY <1>2, CopyIsOrder, NoOrderAssumption DEF Inv, OrdersAreSound, MaySave

\* The row a commit leaves and the rows it does not touch.
LEMMA CommittedRow ==
  ASSUME Inv, NEW c \in Calls, NEW op, Running(c, op), NEW next, NEW events,
         Persist(c, next, events)
  PROVE  /\ row'[calls[c].id].order = next
         /\ row'[calls[c].id].version = row[calls[c].id].version + 1
         /\ outbox'[calls[c].id] = outbox[calls[c].id] \o events
         /\ \A id \in Orders \ {calls[c].id} :
              row'[id] = row[id] /\ outbox'[id] = outbox[id]
         /\ calls'[c] = IdleCall
         /\ \A other \in Calls \ {c} : calls'[other] = calls[other]
  <1>1. calls[c].id \in Orders
    BY CopyIsOrder
  <1>2. row[calls[c].id].version = calls[c].copy.version
    BY DEF Persist, MaySave
  <1> QED BY <1>1, <1>2 DEF Persist, SavedRow, Inv, TypeOK

\* A commit that follows from its copy keeps the types.
LEMMA CommittedTypes ==
  ASSUME Inv, NEW c \in Calls, NEW op, Running(c, op), NEW next, NEW events,
         Persist(c, next, events), Follows(c, next, events)
  PROVE  /\ row' \in [Orders -> Row]
         /\ outbox' \in [Orders -> Seq(Event)]
         /\ keys' \subseteq {"submitted", "approved", "released", "progress_reported",
                             "completed", "cancelled"} \X Orders \X Nat
         /\ calls' \in [Calls -> Call]
  <1> DEFINE id == calls[c].id
  <1>1. id \in Orders /\ calls[c].copy.version \in Nat
    BY CopyIsOrder
  <1>2. SavedRow(c, next) \in Row
    BY <1>1 DEF SavedRow, Row, Follows
  <1>3. row' \in [Orders -> Row]
    BY <1>1, <1>2 DEF Persist, Inv, TypeOK
  <1>4. outbox[id] \o events \in Seq(Event)
    BY <1>1 DEF Inv, TypeOK, Follows
  <1>5. outbox' \in [Orders -> Seq(Event)]
    BY <1>1, <1>4 DEF Persist, Inv, TypeOK
  <1>6. IdleCall \in Call
    BY OrdersAssumption DEF IdleCall, Call, Op, Row, NoRow
  <1>7. calls' \in [Calls -> Call]
    BY <1>6 DEF Persist, Inv, TypeOK
  <1>8. \A i \in DOMAIN events : events[i] \in Event
    BY DEF Follows
  <1>9. KeysOf(c, events) \subseteq
          {"submitted", "approved", "released", "progress_reported",
           "completed", "cancelled"} \X Orders \X Nat
    BY <1>1, <1>8 DEF KeysOf, Event
  <1> QED BY <1>3, <1>5, <1>7, <1>9 DEF Persist, Inv, TypeOK

\* A commit leaves every other copy of its order behind.
LEMMA CommittedCopies ==
  ASSUME Inv, NEW c \in Calls, NEW op, Running(c, op), NEW next, NEW events,
         Persist(c, next, events), next \in Order,
         \A id \in Orders \ {calls[c].id} : reports'[id] = reports[id]
  PROVE  CopiesAreCurrent'
  <1> SUFFICES ASSUME NEW d \in Calls
               PROVE  CopyIsCurrent(d)'
    BY DEF CopiesAreCurrent
  <1>1. CASE d = c
    <2>1. calls'[d] = IdleCall
      BY <1>1, CommittedRow
    <2>2. IdleCall.phase = "idle"
      BY DEF IdleCall
    <2> QED BY <2>1, <2>2 DEF CopyIsCurrent
  <1>2. CASE d # c
    <2>1. calls'[d] = calls[d] /\ calls[d] \in Call /\ CopyIsCurrent(d)
      BY <1>2, CommittedRow DEF Inv, TypeOK, CopiesAreCurrent
    <2>2. CASE calls[d].id = calls[c].id
      <3>1. row'[calls[d].id].version = row[calls[d].id].version + 1
        BY <2>2, CommittedRow
      <3>2. row[calls[d].id].version \in Nat /\ calls[d].copy.version \in Nat
        BY <2>1 DEF Inv, TypeOK, Call, Row
      <3>3. row'[calls[d].id].order # NoOrder
        BY <2>2, CommittedRow, NoOrderAssumption
      <3> QED BY <2>1, <3>1, <3>2, <3>3 DEF CopyIsCurrent
    <2>3. CASE calls[d].id # calls[c].id
      <3>1. /\ row'[calls[d].id] = row[calls[d].id]
            /\ reports'[calls[d].id] = reports[calls[d].id]
        BY <2>1, <2>3, CommittedRow DEF Call
      <3> QED BY <2>1, <3>1 DEF CopyIsCurrent
    <2> QED BY <2>2, <2>3
  <1> QED BY <1>1, <1>2

\* The keys of a commit carry the version it writes.
LEMMA CommittedKeys ==
  ASSUME Inv, NEW c \in Calls, NEW op, Running(c, op), NEW next, NEW events,
         Persist(c, next, events)
  PROVE  KeysStayBelowVersion'
  <1> SUFFICES ASSUME NEW k \in keys'
               PROVE  k[3] <= row'[k[2]].version
    BY DEF KeysStayBelowVersion
  <1>1. row[calls[c].id].version = calls[c].copy.version /\ calls[c].copy.version \in Nat
    BY CopyIsOrder DEF Persist, MaySave
  <1>2. CASE k \in keys
    <2>1. k[2] \in Orders /\ k[3] \in Nat /\ k[3] <= row[k[2]].version
      BY <1>2 DEF Inv, TypeOK, KeysStayBelowVersion
    <2>2. row[k[2]].version \in Nat
      BY <2>1 DEF Inv, TypeOK, Row
    <2>3. \/ row'[k[2]].version = row[k[2]].version
          \/ row'[k[2]].version = row[k[2]].version + 1
      BY <2>1, CommittedRow
    <2> QED BY <2>1, <2>2, <2>3
  <1>3. CASE k \in KeysOf(c, events)
    <2>1. k[2] = calls[c].id /\ k[3] = calls[c].copy.version + 1
      BY <1>3 DEF KeysOf
    <2>2. row'[calls[c].id].version = row[calls[c].id].version + 1
      BY CommittedRow
    <2> QED BY <1>1, <2>1, <2>2
  <1> QED BY <1>2, <1>3 DEF Persist

\* A commit keeps orders sound and their audit trail up to date.
LEMMA CommittedOrders ==
  ASSUME Inv, NEW c \in Calls, NEW op, Running(c, op), NEW next, NEW events,
         Persist(c, next, events), Follows(c, next, events)
  PROVE  OrdersAreSound' /\ AuditTrailTellsStatus'
  <1> DEFINE id == calls[c].id
             Told(i) == row[i].order.status =
                          IF outbox[i] = <<>> THEN "DRAFT"
                          ELSE outbox[i][Len(outbox[i])].toStatus
  <1>1. OrdersAreSound'
    <2> SUFFICES ASSUME NEW i \in Orders, row'[i].order # NoOrder
                 PROVE  ApproversSound(row'[i].order)
      BY DEF OrdersAreSound, ApproversSound, DualRequired
    <2>1. CASE i = id
      BY <2>1, CommittedRow DEF Follows
    <2>2. CASE i # id
      BY <2>2, CommittedRow DEF Inv, OrdersAreSound
    <2> QED BY <2>1, <2>2
  <1>2. AuditTrailTellsStatus'
    <2> SUFFICES ASSUME NEW i \in Orders, row'[i].order # NoOrder
                 PROVE  Told(i)'
      BY DEF AuditTrailTellsStatus
    <2>1. CASE i # id
      BY <2>1, CommittedRow DEF Inv, AuditTrailTellsStatus
    <2>2. CASE i = id /\ events = <<>>
      <3>1. outbox'[i] = outbox[i] /\ row'[i].order = next
        <4>1. outbox[i] \in Seq(Event)
          BY DEF Inv, TypeOK
        <4>2. outbox[i] \o <<>> = outbox[i]
          BY <4>1
        <4>3. outbox'[id] = outbox[id] \o events /\ row'[id].order = next
          BY CommittedRow
        <4> QED BY <2>2, <4>2, <4>3
      <3>2. next.status = Copy(c).status
        BY <2>2 DEF Follows
      <3>3. MaySave(c, events)
        BY DEF Persist
      <3>4. row[i].order = Copy(c) /\ Copy(c) # NoOrder
        BY <2>2, <3>3, CommitSeesTheRow, CopyIsOrder, NoOrderAssumption
      <3>5. Told(i)
        BY <3>4 DEF Inv, AuditTrailTellsStatus
      <3> QED BY <3>1, <3>2, <3>4, <3>5
    <2>3. CASE i = id /\ events # <<>>
      <3>1. outbox[i] \in Seq(Event) /\ events \in Seq(Event)
        BY DEF Inv, TypeOK, Follows
      <3>2. outbox'[i] = outbox[i] \o events /\ row'[i].order = next
        BY <2>3, CommittedRow
      <3>3. /\ outbox'[i] # <<>>
            /\ outbox'[i][Len(outbox'[i])] = events[Len(events)]
        BY <2>3, <3>1, <3>2
      <3> QED BY <2>3, <3>2, <3>3 DEF Follows
    <2> QED BY <2>1, <2>2, <2>3
  <1> QED BY <1>1, <1>2

\* A commit writes an order, never a blank row.
LEMMA CommittedBlankRows ==
  ASSUME Inv, NEW c \in Calls, NEW op, Running(c, op), NEW next, NEW events,
         Persist(c, next, events), next \in Order
  PROVE  BlankRows'
  <1> SUFFICES ASSUME NEW id \in Orders, row'[id].order = NoOrder
               PROVE  row'[id].version = 0 /\ outbox'[id] = <<>>
    BY DEF BlankRows
  <1>1. id # calls[c].id
    BY CommittedRow, NoOrderAssumption
  <1>2. row'[id] = row[id] /\ outbox'[id] = outbox[id]
    BY <1>1, CommittedRow
  <1> QED BY <1>2 DEF Inv, BlankRows

\* A commit that keeps the reports in step keeps the invariant.
LEMMA CommitKeepsInv ==
  ASSUME Inv, NEW c \in Calls, NEW op, Running(c, op), NEW next, NEW events,
         Persist(c, next, events), Follows(c, next, events),
         held' \subseteq NeedsStock,
         reports' \in [Orders -> Reports],
         \A id \in Orders \ {calls[c].id} : reports'[id] = reports[id],
         reports'[calls[c].id].total = next.produced
  PROVE  Inv'
  <1>1. TypeOK'
    BY CommittedTypes DEF TypeOK
  <1>2. CopiesAreCurrent' /\ KeysStayBelowVersion' /\ OrdersAreSound' /\ AuditTrailTellsStatus'
    BY CommittedCopies, CommittedKeys, CommittedOrders DEF Follows
  <1>3. BlankRows'
    BY CommittedBlankRows DEF Follows
  <1>4. ProducedMatchesReports'
    <2> SUFFICES ASSUME NEW id \in Orders
                 PROVE  reports'[id].total =
                          IF row'[id].order = NoOrder THEN 0 ELSE row'[id].order.produced
      BY DEF ProducedMatchesReports
    <2>1. CASE id = calls[c].id
      BY <2>1, CommittedRow, NoOrderAssumption DEF Follows
    <2>2. CASE id # calls[c].id
      <3>1. row'[id] = row[id] /\ reports'[id] = reports[id]
        BY <2>2, CommittedRow
      <3> QED BY <3>1 DEF Inv, ProducedMatchesReports
    <2> QED BY <2>1, <2>2
  <1> QED BY <1>1, <1>2, <1>3, <1>4 DEF Inv

\* The commits that file no report.
LEMMA QuietCommitKeepsInv ==
  ASSUME Inv, NEW c \in Calls, NEW op, Running(c, op), NEW next, NEW events,
         Persist(c, next, events), Follows(c, next, events),
         held' \subseteq NeedsStock, UNCHANGED reports,
         next.produced = Copy(c).produced
  PROVE  Inv'
  <1>1. calls[c].id \in Orders /\ Copy(c) \in Order
    BY CopyIsOrder
  <1>2. row[calls[c].id].order = Copy(c)
    BY CommitSeesTheRow DEF Persist
  <1>3. reports[calls[c].id].total = Copy(c).produced
    BY <1>1, <1>2, NoOrderAssumption DEF Inv, ProducedMatchesReports
  <1>4. reports' \in [Orders -> Reports]
    BY DEF Inv, TypeOK
  <1> QED BY <1>3, <1>4, CommitKeepsInv

\* submit, release and cancel announce the status they reach.
LEMMA MovedFollows ==
  ASSUME Inv, NEW c \in Calls, NEW op, Running(c, op),
         NEW s \in {"SUBMITTED", "RELEASED", "CANCELLED"},
         CanTransition(Copy(c).status, s),
         NEW type \in {"submitted", "released", "cancelled"},
         MaySave(c, MoveEvents(type, s))
  PROVE  /\ Follows(c, Moved(Copy(c), s), MoveEvents(type, s))
         /\ Moved(Copy(c), s).produced = Copy(c).produced
  <1> DEFINE event == [type |-> type, toStatus |-> s]
  <1>1. Copy(c) \in Order /\ ApproversSound(Copy(c))
    BY CopyIsOrder, CommitSeesTheRow
  <1>2. /\ Moved(Copy(c), s) \in Order
        /\ ApproversSound(Moved(Copy(c), s))
        /\ Moved(Copy(c), s).status = s
        /\ Moved(Copy(c), s).produced = Copy(c).produced
    BY <1>1, MovedIsSound
  <1>3. MoveEvents(type, s) = <<event>> /\ event \in Event /\ event.toStatus = s
    BY DEF MoveEvents, Event, Status
  <1>4. <<event>> \in Seq(Event) /\ <<event>> # <<>> /\ <<event>>[Len(<<event>>)] = event
    BY <1>3
  <1> QED BY <1>2, <1>3, <1>4 DEF Follows

\* approve announces the approval that changes the status.
LEMMA ApprovedFollows ==
  ASSUME Inv, NEW c \in Calls, Running(c, "approve"),
         MayApprove(Copy(c), calls[c].actor), calls[c].actor \in Users,
         MaySave(c, ApproveEvents(Copy(c)))
  PROVE  /\ Follows(c, AfterApprove(Copy(c), calls[c].actor), ApproveEvents(Copy(c)))
         /\ AfterApprove(Copy(c), calls[c].actor).produced = Copy(c).produced
  <1> DEFINE o == Copy(c)
             next == AfterApprove(o, calls[c].actor)
             event == [type |-> "approved", toStatus |-> "APPROVED"]
  <1>1. o \in Order /\ ApproversSound(o)
    BY CopyIsOrder, CommitSeesTheRow
  <1>2. /\ next \in Order /\ ApproversSound(next) /\ next.produced = o.produced
        /\ next.status = IF IsFirstOfTwo(o) THEN "SUBMITTED" ELSE "APPROVED"
    BY <1>1, ApprovedIsSound
  <1>3. event \in Event /\ event.toStatus = "APPROVED"
    BY DEF Event, Status
  <1>4. <<event>> \in Seq(Event) /\ <<event>> # <<>> /\ <<event>>[Len(<<event>>)] = event
    BY <1>3
  <1>5. o.status = "SUBMITTED"
    BY DEF MayApprove
  <1> HIDE DEF next, o, event
  <1>6. ApproveEvents(o) = IF IsFirstOfTwo(o) THEN <<>> ELSE <<event>>
    BY DEF ApproveEvents, event
  <1>7. CASE IsFirstOfTwo(o)
    BY <1>2, <1>5, <1>6, <1>7 DEF Follows, next, o
  <1>8. CASE ~IsFirstOfTwo(o)
    BY <1>2, <1>3, <1>4, <1>6, <1>8 DEF Follows, next, o
  <1> QED BY <1>7, <1>8

\* reportProgress announces the report and, after it, the completion.
LEMMA ReportedFollows ==
  ASSUME Inv, NEW c \in Calls, Running(c, "report"), NEW quantity \in ReportSizes,
         MayReport(Copy(c), quantity), MaySave(c, ReportEvents(Copy(c), quantity))
  PROVE  /\ Follows(c, AfterReport(Copy(c), quantity), ReportEvents(Copy(c), quantity))
         /\ AfterReport(Copy(c), quantity).produced = Copy(c).produced + quantity
  <1> DEFINE o == Copy(c)
             next == AfterReport(o, quantity)
             progress == [type |-> "progress_reported", toStatus |-> "IN_PROGRESS"]
             completed == [type |-> "completed", toStatus |-> "COMPLETED"]
             events == ReportEvents(o, quantity)
  <1>1. o \in Order /\ ApproversSound(o)
    BY CopyIsOrder, CommitSeesTheRow
  <1>2. /\ next \in Order /\ ApproversSound(next) /\ next.produced = o.produced + quantity
        /\ next.status = IF Completes(o, quantity) THEN "COMPLETED" ELSE "IN_PROGRESS"
    BY <1>1, ReportedIsSound
  <1>3. /\ progress \in Event /\ progress.toStatus = "IN_PROGRESS"
        /\ completed \in Event /\ completed.toStatus = "COMPLETED"
    BY DEF Event, Status
  <1>4. events = IF Completes(o, quantity) THEN <<progress, completed>> ELSE <<progress>>
    BY DEF ReportEvents
  <1> HIDE DEF next, o, progress, completed, events
  <1>5. CASE Completes(o, quantity)
    <2>1. events \in Seq(Event) /\ events # <<>> /\ events[Len(events)] = completed
      BY <1>3, <1>4, <1>5
    <2> QED BY <1>2, <1>3, <1>5, <2>1 DEF Follows, next, o, events
  <1>6. CASE ~Completes(o, quantity)
    <2>1. events \in Seq(Event) /\ events # <<>> /\ events[Len(events)] = progress
      BY <1>3, <1>4, <1>6
    <2> QED BY <1>2, <1>3, <1>6, <2>1 DEF Follows, next, o, events
  <1> QED BY <1>5, <1>6

-----------------------------------------------------------------------------
(* The invariant. *)

\* The invariant holds initially.
LEMMA InitInv == Init => Inv
  <1> SUFFICES ASSUME Init PROVE Inv
    OBVIOUS
  <1>1. IdleCall \in Call
    BY OrdersAssumption DEF IdleCall, Call, Op, Row, NoRow
  <1>2. NoRow \in Row /\ NoRow.order = NoOrder
    BY DEF NoRow, Row
  <1>3. TypeOK
    BY <1>1, <1>2 DEF Init, TypeOK, Reports
  <1>4. CopiesAreCurrent
    BY DEF Init, CopiesAreCurrent, CopyIsCurrent, IdleCall
  <1>5. KeysStayBelowVersion /\ BlankRows /\ OrdersAreSound /\ AuditTrailTellsStatus
    BY <1>2 DEF Init, NoRow, BlankRows, KeysStayBelowVersion, OrdersAreSound,
       AuditTrailTellsStatus
  <1>6. ProducedMatchesReports
    BY <1>2 DEF Init, ProducedMatchesReports
  <1> QED BY <1>3, <1>4, <1>5, <1>6 DEF Inv

\* The steps that commit nothing: reads and failures.
LEMMA ReadsKeepInv ==
  ASSUME Inv, NEW c \in Calls, calls' \in [Calls -> Call],
         UNCHANGED <<row, reports, outbox, keys, held>>,
         \A d \in Calls \ {c} : calls'[d] = calls[d],
         CopyIsCurrent(c)'
  PROVE  Inv'
  <1>1. TypeOK'
    BY DEF Inv, TypeOK
  <1>2. CopiesAreCurrent'
    <2> SUFFICES ASSUME NEW d \in Calls PROVE CopyIsCurrent(d)'
      BY DEF CopiesAreCurrent
    <2>1. d # c => CopyIsCurrent(d)'
      BY DEF Inv, CopiesAreCurrent, CopyIsCurrent
    <2> QED BY <2>1
  <1>3. KeysStayBelowVersion' /\ BlankRows' /\ OrdersAreSound' /\ AuditTrailTellsStatus'
    BY DEF Inv, BlankRows, KeysStayBelowVersion, OrdersAreSound, AuditTrailTellsStatus,
           ApproversSound, DualRequired
  <1>4. ProducedMatchesReports'
    BY DEF Inv, ProducedMatchesReports
  <1> QED BY <1>1, <1>2, <1>3, <1>4 DEF Inv

\* A new row disturbs no copy: copies are of orders that exist.
LEMMA CreateKeepsInv ==
  ASSUME Inv, NEW id \in Orders, Create(id)
  PROVE  Inv'
  <1> PICK creator \in Users, amount \in Amounts :
        row' = [row EXCEPT ![id] = [version |-> 1, order |-> Draft(creator, amount)]]
    BY DEF Create
  <1> DEFINE new == Draft(creator, amount)
  <1>1. new \in Order /\ ApproversSound(new)
    BY DraftIsSound
  <1>2. new.status = "DRAFT" /\ new.produced = 0
    BY DEF Draft
  <1> HIDE DEF new
  <1>3. [version |-> 1, order |-> new] \in Row
    BY <1>1 DEF Row
  <1>4. /\ row' \in [Orders -> Row]
        /\ row'[id].order = new /\ row'[id].version = 1
        /\ \A i \in Orders \ {id} : row'[i] = row[i]
    BY <1>3 DEF Inv, TypeOK, new
  <1>5. row[id].order = NoOrder /\ UNCHANGED <<reports, outbox, keys, held, calls>>
    BY DEF Create
  <1>6. TypeOK'
    BY <1>4, <1>5 DEF Inv, TypeOK
  <1>7. row[id].version = 0 /\ outbox[id] = <<>>
    BY <1>5 DEF Inv, BlankRows
  <1>8. CopiesAreCurrent'
    <2> SUFFICES ASSUME NEW d \in Calls, calls[d].phase # "idle"
                 PROVE  CopyIsCurrent(d)'
      BY <1>5 DEF CopiesAreCurrent, CopyIsCurrent
    <2>1. CopyIsCurrent(d) /\ calls[d].id \in Orders
      BY DEF Inv, CopiesAreCurrent, TypeOK, Call
    <2>2. calls[d].id # id
      BY <1>5, <2>1 DEF CopyIsCurrent
    <2>3. row'[calls[d].id] = row[calls[d].id]
      BY <1>4, <2>1, <2>2
    <2> QED BY <1>5, <2>1, <2>3 DEF CopyIsCurrent
  <1>9. KeysStayBelowVersion'
    <2> SUFFICES ASSUME NEW k \in keys
                 PROVE  k[3] <= row'[k[2]].version
      BY <1>5 DEF KeysStayBelowVersion
    <2>1. k[2] \in Orders /\ k[3] \in Nat /\ k[3] <= row[k[2]].version
      BY DEF Inv, TypeOK, KeysStayBelowVersion
    <2> QED BY <1>4, <1>7, <2>1
  <1>10. BlankRows'
    BY <1>1, <1>4, <1>5, NoOrderAssumption DEF Inv, BlankRows
  <1>11. OrdersAreSound'
    <2> SUFFICES ASSUME NEW i \in Orders, row'[i].order # NoOrder
                 PROVE  ApproversSound(row'[i].order)
      BY DEF OrdersAreSound, ApproversSound, DualRequired
    <2> QED BY <1>1, <1>4 DEF Inv, OrdersAreSound
  <1>12. AuditTrailTellsStatus'
    <2> SUFFICES ASSUME NEW i \in Orders, row'[i].order # NoOrder
                 PROVE  row'[i].order.status =
                          IF outbox[i] = <<>> THEN "DRAFT"
                          ELSE outbox[i][Len(outbox[i])].toStatus
      BY <1>5 DEF AuditTrailTellsStatus
    <2>1. CASE i = id
      BY <1>2, <1>4, <1>7, <2>1
    <2>2. CASE i # id
      BY <1>4, <2>2 DEF Inv, AuditTrailTellsStatus
    <2> QED BY <2>1, <2>2
  <1>13. ProducedMatchesReports'
    <2> SUFFICES ASSUME NEW i \in Orders
                 PROVE  reports[i].total =
                          IF row'[i].order = NoOrder THEN 0 ELSE row'[i].order.produced
      BY <1>5 DEF ProducedMatchesReports
    <2>1. CASE i = id
      BY <1>2, <1>4, <1>5, <2>1, NoOrderAssumption DEF Inv, ProducedMatchesReports
    <2>2. CASE i # id
      BY <1>4, <2>2 DEF Inv, ProducedMatchesReports
    <2> QED BY <2>1, <2>2
  <1> QED BY <1>6, <1>8, <1>9, <1>10, <1>11, <1>12, <1>13 DEF Inv

\* Every step keeps the invariant.
LEMMA NextInv == Inv /\ [Next]_vars => Inv'
  <1> SUFFICES ASSUME Inv, [Next]_vars PROVE Inv'
    OBVIOUS
  <1>1. CASE UNCHANGED vars
    <2>1. UNCHANGED <<row, reports, outbox, keys, held, calls>>
      BY <1>1 DEF vars
    <2> QED
      BY <2>1 DEF Inv, TypeOK, CopiesAreCurrent, CopyIsCurrent, KeysStayBelowVersion,
         BlankRows, OrdersAreSound, ApproversSound, DualRequired,
         AuditTrailTellsStatus, ProducedMatchesReports
  <1>2. ASSUME NEW id \in Orders, Create(id) PROVE Inv'
    BY <1>2, CreateKeepsInv
  <1>3. ASSUME NEW c \in Calls, NEW op \in Op, NEW actor \in Users \union {NoUser},
               NEW id \in Orders, ReadRow(c, op, actor, id)
        PROVE  Inv'
    <2> DEFINE call == [phase |-> "rowRead", op |-> op, actor |-> actor, id |-> id,
                        copy |-> row[id], seen |-> 0]
    <2>1. call \in Call
      BY <1>3 DEF ReadRow, Call, Inv, TypeOK
    <2>2. calls' \in [Calls -> Call] /\ calls'[c] = call
      BY <1>3, <2>1 DEF ReadRow, Inv, TypeOK
    <2>3. \A d \in Calls \ {c} : calls'[d] = calls[d]
      BY <1>3 DEF ReadRow, Inv, TypeOK
    <2>4. CopyIsCurrent(c)'
      <3>1. row' = row /\ row[id].order # NoOrder /\ row[id].version \in Nat
        BY <1>3 DEF ReadRow, Inv, TypeOK, Row
      <3> QED BY <2>2, <3>1 DEF CopyIsCurrent
    <2>5. UNCHANGED <<row, reports, outbox, keys, held>>
      BY <1>3 DEF ReadRow
    <2> QED BY <2>2, <2>3, <2>4, <2>5, ReadsKeepInv
  <1>4. ASSUME NEW c \in Calls, ReadReports(c) PROVE Inv'
    <2> DEFINE count == reports[calls[c].id].count
               call == [calls[c] EXCEPT !.phase = "loaded", !.seen = count]
    <2>1. calls[c] \in Call /\ calls[c].id \in Orders
      BY DEF Inv, TypeOK, Call
    <2>2. count \in Nat
      BY <2>1 DEF Inv, TypeOK, Reports
    <2> HIDE DEF count
    <2>3. call \in Call
      BY <2>1, <2>2 DEF Call
    <2>4. calls' = [calls EXCEPT ![c] = call]
      BY <1>4 DEF ReadReports, Inv, TypeOK, count
    <2>5. /\ calls' \in [Calls -> Call] /\ calls'[c] = call
          /\ \A d \in Calls \ {c} : calls'[d] = calls[d]
      BY <2>3, <2>4 DEF Inv, TypeOK
    <2>6. UNCHANGED <<row, reports, outbox, keys, held>>
      BY <1>4 DEF ReadReports
    <2>7. call.id = calls[c].id /\ call.copy = calls[c].copy /\ call.seen = count
      BY <2>1 DEF Call
    <2>8. CopyIsCurrent(c)'
      <3>1. CopyIsCurrent(c) /\ calls[c].phase # "idle"
        BY <1>4 DEF ReadReports, Inv, CopiesAreCurrent
      <3> QED BY <2>5, <2>6, <2>7, <3>1 DEF CopyIsCurrent, count
    <2> QED BY <2>5, <2>6, <2>8, ReadsKeepInv
  <1>5. ASSUME NEW c \in Calls, Fail(c) PROVE Inv'
    <2>1. IdleCall \in Call
      BY OrdersAssumption DEF IdleCall, Call, Op, Row, NoRow
    <2>2. /\ calls' \in [Calls -> Call] /\ calls'[c] = IdleCall
          /\ \A d \in Calls \ {c} : calls'[d] = calls[d]
      BY <1>5, <2>1 DEF Fail, Inv, TypeOK
    <2>3. IdleCall.phase = "idle"
      BY DEF IdleCall
    <2>4. CopyIsCurrent(c)'
      BY <2>2, <2>3 DEF CopyIsCurrent
    <2>5. UNCHANGED <<row, reports, outbox, keys, held>>
      BY <1>5 DEF Fail
    <2> QED BY <2>2, <2>4, <2>5, ReadsKeepInv
  <1>6. ASSUME NEW c \in Calls, Submit(c) PROVE Inv'
    <2>1. held' \subseteq NeedsStock
      BY <1>6 DEF Submit, Inv, TypeOK
    <2> QED BY <1>6, <2>1, MovedFollows, QuietCommitKeepsInv DEF Submit, Persist
  <1>7. ASSUME NEW c \in Calls, Approve(c) PROVE Inv'
    <2>1. held' \subseteq NeedsStock
      BY <1>7 DEF Approve, Inv, TypeOK
    <2>2. calls[c].actor \in Users
      BY <1>7 DEF Approve, Running, Inv, TypeOK, Call
    <2> QED BY <1>7, <2>1, <2>2, ApprovedFollows, QuietCommitKeepsInv DEF Approve, Persist
  <1>8. ASSUME NEW c \in Calls, Release(c) PROVE Inv'
    <2>1. held' \subseteq NeedsStock
      BY <1>8 DEF Release, Inv, TypeOK
    <2> QED BY <1>8, <2>1, MovedFollows, QuietCommitKeepsInv DEF Release, Persist
  <1>9. ASSUME NEW c \in Calls, Cancel(c) PROVE Inv'
    <2>1. held' \subseteq NeedsStock
      BY <1>9 DEF Cancel, Inv, TypeOK
    <2> QED BY <1>9, <2>1, MovedFollows, QuietCommitKeepsInv DEF Cancel, Persist
  <1>10. ASSUME NEW c \in Calls, Report(c) PROVE Inv'
    <2>0. PICK quantity \in ReportSizes :
            /\ MayReport(Copy(c), quantity)
            /\ Persist(c, AfterReport(Copy(c), quantity), ReportEvents(Copy(c), quantity))
            /\ SyncProgress(c, quantity)
      BY <1>10 DEF Report
    <2> DEFINE next == AfterReport(Copy(c), quantity)
               events == ReportEvents(Copy(c), quantity)
               id == calls[c].id
    <2>1. held' \subseteq NeedsStock /\ Running(c, "report")
      BY <1>10 DEF Report, Inv, TypeOK
    <2>2. MaySave(c, events)
      BY <2>0 DEF Persist
    <2>3. Follows(c, next, events) /\ next.produced = Copy(c).produced + quantity
      BY <2>0, <2>1, <2>2, ReportedFollows
    <2>4. /\ id \in Orders /\ Copy(c) \in Order /\ row[id].order = Copy(c)
          /\ calls[c].seen = reports[id].count
      BY <2>1, <2>2, CopyIsOrder, CommitSeesTheRow
    <2>5. reports[id] \in Reports /\ reports[id].total = Copy(c).produced
      BY <2>4, NoOrderAssumption DEF Inv, TypeOK, ProducedMatchesReports
    <2> DEFINE new == [count |-> calls[c].seen + 1, total |-> reports[id].total + quantity]
    <2>6. ~(calls[c].seen + 1 <= reports[id].count)
      BY <2>4, <2>5 DEF Reports
    <2>7. reports' = [reports EXCEPT ![id] = new]
      BY <2>0, <2>4, <2>6 DEF SyncProgress, Inv, TypeOK
    <2>8. new \in Reports /\ new.total = reports[id].total + quantity
      BY <2>4, <2>5, QuantityAssumption DEF Reports
    <2> HIDE DEF new
    <2>9. /\ reports' \in [Orders -> Reports]
          /\ reports'[id] = new
          /\ \A i \in Orders \ {id} : reports'[i] = reports[i]
      BY <2>4, <2>7, <2>8 DEF Inv, TypeOK
    <2>10. reports'[id].total = next.produced
      BY <2>3, <2>5, <2>8, <2>9
    <2> HIDE DEF next, events
    <2> QED BY <2>0, <2>1, <2>3, <2>9, <2>10, CommitKeepsInv DEF next, events
  <1> QED
    BY <1>1, <1>2, <1>3, <1>4, <1>5, <1>6, <1>7, <1>8, <1>9, <1>10 DEF Next

\* The invariant holds in every behaviour.
LEMMA Invariance == Spec => []Inv
  BY InitInv, NextInv, PTL DEF Spec

-----------------------------------------------------------------------------
(* The theorems. *)

\* Every variable has its type: in particular no stored order was ever produced
\* beyond the ceiling of its tolerance (reportProgress).
THEOREM TypeCorrect == Spec => []TypeOK
  <1>1. Inv => TypeOK
    BY DEF Inv
  <1> QED BY <1>1, Invariance, PTL

\* R2 and R3 for any number of overlapping approvals (approve, save).
THEOREM ApproversSafe == Spec => []ApproversAreDistinct
  <1>1. Inv => ApproversAreDistinct
    <2> SUFFICES ASSUME Inv, NEW id \in Orders, row[id].order # NoOrder,
                        row[id].order.status \in PastApproval
                 PROVE  /\ row[id].order.firstApprover \notin {NoUser, row[id].order.createdBy}
                        /\ DualRequired(row[id].order) =>
                             row[id].order.secondApprover \notin
                               {NoUser, row[id].order.createdBy, row[id].order.firstApprover}
      BY DEF ApproversAreDistinct, PastApproval
    <2> QED BY DEF Inv, OrdersAreSound, ApproversSound
  <1> QED BY <1>1, Invariance, PTL

\* R7: the last outbox row of an order tells its status (persistAndDispatch).
THEOREM AuditTrailSafe == Spec => []AuditTrailTellsStatus
  <1>1. Inv => AuditTrailTellsStatus
    BY DEF Inv
  <1> QED BY <1>1, Invariance, PTL

\* R9: column and progress reports tell one total (save, syncProgress).
THEOREM ProducedSafe == Spec => []ProducedMatchesReports
  <1>1. Inv => ProducedMatchesReports
    BY DEF Inv
  <1> QED BY <1>1, Invariance, PTL

\* No key belongs to a version the order has not reached (idempotencyKeyFor).
THEOREM KeysSafe == Spec => []KeysStayBelowVersion
  <1>1. Inv => KeysStayBelowVersion
    BY DEF Inv
  <1> QED BY <1>1, Invariance, PTL

-----------------------------------------------------------------------------
(* Refinement of OrderLifecycle. *)

\* An initial state is an initial state of the abstract specification.
LEMMA InitRefines == Init => Lifecycle!Init
  BY DEF Init, Lifecycle!Init, NoRow, OrderOf

\* A commit is one command applied to the order as it is.
LEMMA CommitApplies ==
  ASSUME Inv, NEW c \in Calls, NEW op, Running(c, op), NEW next, NEW events,
         Persist(c, next, events)
  PROVE  /\ calls[c].id \in Orders
         /\ Lifecycle!Exists(calls[c].id)
         /\ OrderOf[calls[c].id] = Copy(c)
         /\ Lifecycle!Apply(calls[c].id, next, events)
  <1> DEFINE id == calls[c].id
  <1>1. id \in Orders /\ row[id].order = Copy(c) /\ Copy(c) # NoOrder
    BY CopyIsOrder, CommitSeesTheRow, NoOrderAssumption DEF Persist
  <1>2. OrderOf[id] = Copy(c)
    BY <1>1 DEF OrderOf
  <1>3. OrderOf' = [OrderOf EXCEPT ![id] = next]
    <2>1. \A i \in Orders : row'[i].order = IF i = id THEN next ELSE row[i].order
      BY CommittedRow
    <2> QED BY <1>1, <2>1 DEF OrderOf
  <1>4. outbox' = [outbox EXCEPT ![id] = @ \o events]
    BY DEF Persist
  <1> QED BY <1>1, <1>2, <1>3, <1>4 DEF Lifecycle!Exists, Lifecycle!Apply

\* Every step is a step of the abstract specification or stutters.
LEMMA NextRefines == Inv /\ [Next]_vars => [Lifecycle!Next]_<<OrderOf, outbox>>
  <1> SUFFICES ASSUME Inv, [Next]_vars
               PROVE  Lifecycle!Next \/ UNCHANGED <<OrderOf, outbox>>
    OBVIOUS
  <1>1. CASE UNCHANGED vars
    BY <1>1 DEF vars, OrderOf
  <1>2. ASSUME NEW id \in Orders, Create(id) PROVE Lifecycle!Next
    <2>1. PICK creator \in Users, amount \in Amounts :
            row' = [row EXCEPT ![id] = [version |-> 1, order |-> Draft(creator, amount)]]
      BY <1>2 DEF Create
    <2>2. row[id].order = NoOrder /\ outbox' = outbox
      BY <1>2 DEF Create
    <2>3. OrderOf' = [OrderOf EXCEPT ![id] = Draft(creator, amount)]
      BY <2>1 DEF OrderOf, Inv, TypeOK
    <2>4. outbox' = [outbox EXCEPT ![id] = @ \o <<>>]
      BY <2>2 DEF Inv, TypeOK
    <2>5. Lifecycle!Draft(creator, amount) = Draft(creator, amount)
      BY DEF Lifecycle!Draft, Draft
    <2>6. Lifecycle!Apply(id, Draft(creator, amount), <<>>)
      BY <2>3, <2>4 DEF Lifecycle!Apply
    <2>7. ~Lifecycle!Exists(id)
      BY <2>2 DEF Lifecycle!Exists, OrderOf
    <2> QED BY <2>5, <2>6, <2>7 DEF Lifecycle!Create, Lifecycle!Next
  <1>3. ASSUME NEW c \in Calls, NEW op \in Op, NEW actor \in Users \union {NoUser},
               NEW id \in Orders, ReadRow(c, op, actor, id)
        PROVE  UNCHANGED <<OrderOf, outbox>>
    BY <1>3 DEF ReadRow, OrderOf
  <1>4. ASSUME NEW c \in Calls, ReadReports(c) \/ Fail(c)
        PROVE  UNCHANGED <<OrderOf, outbox>>
    BY <1>4 DEF ReadReports, Fail, OrderOf
  <1>5. ASSUME NEW c \in Calls, Submit(c) PROVE Lifecycle!Next
    <2>1. /\ calls[c].id \in Orders /\ Lifecycle!Exists(calls[c].id)
          /\ OrderOf[calls[c].id] = Copy(c)
          /\ Lifecycle!Apply(calls[c].id, Moved(Copy(c), "SUBMITTED"),
                             MoveEvents("submitted", "SUBMITTED"))
      BY <1>5, CommitApplies DEF Submit
    <2>2. Lifecycle!Submit(calls[c].id)
      BY <1>5, <2>1 DEF Submit, Lifecycle!Submit, Lifecycle!CanTransition, CanTransition,
         Lifecycle!AllowedTransitions, AllowedTransitions, Lifecycle!Moved, Moved,
         Lifecycle!MoveEvents, MoveEvents
    <2> QED BY <2>1, <2>2 DEF Lifecycle!Next
  <1>6. ASSUME NEW c \in Calls, Release(c) PROVE Lifecycle!Next
    <2>1. /\ calls[c].id \in Orders /\ Lifecycle!Exists(calls[c].id)
          /\ OrderOf[calls[c].id] = Copy(c)
          /\ Lifecycle!Apply(calls[c].id, Moved(Copy(c), "RELEASED"),
                             MoveEvents("released", "RELEASED"))
      BY <1>6, CommitApplies DEF Release
    <2>2. Lifecycle!Release(calls[c].id)
      BY <1>6, <2>1 DEF Release, Lifecycle!Release, Lifecycle!CanTransition, CanTransition,
         Lifecycle!AllowedTransitions, AllowedTransitions, Lifecycle!Moved, Moved,
         Lifecycle!MoveEvents, MoveEvents
    <2> QED BY <2>1, <2>2 DEF Lifecycle!Next
  <1>7. ASSUME NEW c \in Calls, Cancel(c) PROVE Lifecycle!Next
    <2>1. /\ calls[c].id \in Orders /\ Lifecycle!Exists(calls[c].id)
          /\ OrderOf[calls[c].id] = Copy(c)
          /\ Lifecycle!Apply(calls[c].id, Moved(Copy(c), "CANCELLED"),
                             MoveEvents("cancelled", "CANCELLED"))
      BY <1>7, CommitApplies DEF Cancel
    <2>2. Lifecycle!Cancel(calls[c].id)
      BY <1>7, <2>1 DEF Cancel, Lifecycle!Cancel, Lifecycle!CanTransition, CanTransition,
         Lifecycle!AllowedTransitions, AllowedTransitions, Lifecycle!Moved, Moved,
         Lifecycle!MoveEvents, MoveEvents
    <2> QED BY <2>1, <2>2 DEF Lifecycle!Next
  <1>8. ASSUME NEW c \in Calls, Approve(c) PROVE Lifecycle!Next
    <2>1. calls[c].actor \in Users
      BY <1>8 DEF Approve, Running, Inv, TypeOK, Call
    <2>2. /\ calls[c].id \in Orders /\ Lifecycle!Exists(calls[c].id)
          /\ OrderOf[calls[c].id] = Copy(c)
          /\ Lifecycle!Apply(calls[c].id, AfterApprove(Copy(c), calls[c].actor),
                             ApproveEvents(Copy(c)))
      BY <1>8, CommitApplies DEF Approve
    <2>3. /\ Lifecycle!MayApprove(Copy(c), calls[c].actor)
          /\ Lifecycle!AfterApprove(Copy(c), calls[c].actor) = AfterApprove(Copy(c), calls[c].actor)
          /\ Lifecycle!ApproveEvents(Copy(c)) = ApproveEvents(Copy(c))
      BY <1>8 DEF Approve, Lifecycle!MayApprove, MayApprove, Lifecycle!AfterApprove,
         AfterApprove,
         Lifecycle!ApproveEvents, ApproveEvents, Lifecycle!IsFirstOfTwo, IsFirstOfTwo,
         Lifecycle!DualRequired, DualRequired
    <2>4. Lifecycle!Approve(calls[c].id)
      BY <2>1, <2>2, <2>3 DEF Lifecycle!Approve
    <2> QED BY <2>2, <2>4 DEF Lifecycle!Next
  <1>9. ASSUME NEW c \in Calls, Report(c) PROVE Lifecycle!Next
    <2>1. PICK quantity \in ReportSizes :
            /\ MayReport(Copy(c), quantity)
            /\ Persist(c, AfterReport(Copy(c), quantity), ReportEvents(Copy(c), quantity))
      BY <1>9 DEF Report
    <2>2. /\ calls[c].id \in Orders /\ Lifecycle!Exists(calls[c].id)
          /\ OrderOf[calls[c].id] = Copy(c)
          /\ Lifecycle!Apply(calls[c].id, AfterReport(Copy(c), quantity),
                             ReportEvents(Copy(c), quantity))
      BY <1>9, <2>1, CommitApplies DEF Report
    <2>3. /\ Lifecycle!MayReport(Copy(c), quantity)
          /\ Lifecycle!AfterReport(Copy(c), quantity) = AfterReport(Copy(c), quantity)
          /\ Lifecycle!ReportEvents(Copy(c), quantity) = ReportEvents(Copy(c), quantity)
      BY <2>1 DEF Lifecycle!MayReport, MayReport, Lifecycle!AfterReport, AfterReport,
         Lifecycle!ReportEvents, ReportEvents, Lifecycle!Completes, Completes,
         Lifecycle!OverCeiling, OverCeiling, Lifecycle!CompletionFloor, CompletionFloor
    <2>4. Lifecycle!Report(calls[c].id)
      BY <2>2, <2>3 DEF Lifecycle!Report
    <2> QED BY <2>2, <2>4 DEF Lifecycle!Next
  <1> QED
    BY <1>1, <1>2, <1>3, <1>4, <1>5, <1>6, <1>7, <1>8, <1>9 DEF Next

\* Copies, versions and transactions implement one command at a time on the order
\* and its log: no update is lost and no event is without its change.
THEOREM Refinement == Spec => ImplementsLifecycle
  BY InitRefines, NextRefines, Invariance, PTL DEF Spec, ImplementsLifecycle, Lifecycle!Spec

-----------------------------------------------------------------------------
(* Chains of steps and lists in order. *)

\* A set of naturals that is not empty has a least member.
LEMMA LeastNumber ==
  ASSUME NEW T, T \subseteq Nat, T # {}
  PROVE  \E n \in T : \A m \in T : n <= m
  <1>1. PICK t \in T : TRUE
    OBVIOUS
  <1> DEFINE B == {0 .. d : d \in {d \in T : d <= t}}
  <1>2. B # {} /\ B \in SUBSET (SUBSET (0 .. t))
    <2>1. 0 .. t \in B /\ t \in Nat
      BY <1>1
    <2>2. ASSUME NEW V \in B PROVE V \in SUBSET (0 .. t)
      <3>1. PICK d \in T : d <= t /\ V = 0 .. d
        BY <2>2
      <3> QED BY <3>1, <2>1
    <2> HIDE DEF B
    <2> QED BY <2>1, <2>2
  <1>6. IsFiniteSet(0 .. t)
    BY FS_Interval
  <1>3. PICK U \in B : \A V \in B : ~ (V \subseteq U /\ V # U)
    <2> DEFINE S == 0 .. t
    <2>1. IsFiniteSet(S) /\ B # {} /\ B \in SUBSET (SUBSET S)
      BY <1>6, <1>2
    <2> HIDE DEF B, S
    <2> QED BY <2>1, MinimalSubset
  <1>4. PICK n \in T : n <= t /\ U = 0 .. n
    OBVIOUS
  <1>5. ASSUME NEW m \in T, m < n PROVE FALSE
    <2>1. 0 .. m \in B /\ 0 .. m \subseteq U
      BY <1>4, <1>5
    <2>2. n \in U /\ n \notin 0 .. m
      BY <1>4, <1>5
    <2> QED BY <2>1, <2>2, <1>3
  <1> QED BY <1>4, <1>5

\* Induction along an interval.
LEMMA IntervalInduction ==
  ASSUME NEW N \in Nat, NEW P, 0 \in P, \A d \in 1 .. N : d - 1 \in P => d \in P
  PROVE  0 .. N \subseteq P
  <1> SUFFICES ASSUME ~ (0 .. N \subseteq P) PROVE FALSE
    OBVIOUS
  <1> DEFINE T == {n \in 0 .. N : n \notin P}
  <1>3. T \subseteq Nat /\ T # {}
    OBVIOUS
  <1>1. PICK n \in T : \A m \in T : n <= m
    <2> HIDE DEF T
    <2> QED BY <1>3, LeastNumber
  <1>2. n # 0 /\ n - 1 \in 0 .. N /\ n \in 1 .. N
    BY <1>1
  <1>4. n - 1 \in P
    BY <1>1, <1>2
  <1> QED BY <1>1, <1>2, <1>4

\* The values of a function that starts at a and takes one step of G after the
\* other, where every step stays in X.
StepsStayIn(G, N, X) == \A d \in 1 .. N : \A x \in X : G[d][x] \in X
IsChain(h, a, G, N, X) ==
  h \in [0 .. N -> X] /\ h[0] = a /\ \A d \in 1 .. N : h[d] = G[d][h[d - 1]]

\* Such a function exists.
LEMMA ChainExists ==
  ASSUME NEW N \in Nat, NEW X, NEW a \in X, NEW G, StepsStayIn(G, N, X)
  PROVE  \E h : IsChain(h, a, G, N, X)
  <1> DEFINE Chain(n, h) == h[0] = a /\ \A d \in 1 .. n : h[d] = G[d][h[d - 1]]
             P == {n \in 0 .. N : \E h \in [0 .. n -> X] : Chain(n, h)}
  <1>1. 0 \in P
    <2>1. [i \in 0 .. 0 |-> a] \in [0 .. 0 -> X] /\ Chain(0, [i \in 0 .. 0 |-> a])
      OBVIOUS
    <2>2. \E h \in [0 .. 0 -> X] : Chain(0, h)
      <3> HIDE DEF Chain
      <3> QED BY <2>1
    <2>3. 0 \in 0 .. N
      OBVIOUS
    <2> HIDE DEF Chain
    <2> QED BY <2>2, <2>3
  <1>2. ASSUME NEW n \in 1 .. N, n - 1 \in P PROVE n \in P
    <2>1. PICK h \in [0 .. n - 1 -> X] : Chain(n - 1, h)
      BY <1>2
    <2> DEFINE k == [i \in 0 .. n |-> IF i = n THEN G[n][h[n - 1]] ELSE h[i]]
    <2>2. k \in [0 .. n -> X]
      <3>1. h[n - 1] \in X
        OBVIOUS
      <3>2. G[n][h[n - 1]] \in X
        BY <3>1 DEF StepsStayIn
      <3> QED BY <3>2
    <2>3. k[0] = a
      BY <2>1
    <2>4. ASSUME NEW d \in 1 .. n PROVE k[d] = G[d][k[d - 1]]
      <3>1. CASE d = n
        BY <3>1
      <3>2. CASE d # n
        BY <3>2, <2>1
      <3> QED BY <3>1, <3>2
    <2>5. Chain(n, k)
      BY <2>3, <2>4
    <2> HIDE DEF Chain, k
    <2> QED BY <2>2, <2>5
  <1>3. N \in P
    <2> HIDE DEF P
    <2> QED BY <1>1, <1>2, IntervalInduction
  <1> QED BY <1>3 DEF IsChain

\* Before is a strict total order on S.
StrictOrder(less, S) ==
  /\ \A x, y \in S : <<x, y>> \in less => ~ (<<y, x>> \in less)
  /\ \A x, y \in S : x # y => <<x, y>> \in less \/ <<y, x>> \in less
  /\ \A x, y, z \in S : <<x, y>> \in less /\ <<y, z>> \in less => <<x, z>> \in less

IsLast(x, less, S) == x \in S /\ \A y \in S : y # x => <<y, x>> \in less

\* A finite set in a strict order has a last member.
LEMMA LastExists ==
  ASSUME NEW S, IsFiniteSet(S), NEW less, StrictOrder(less, S),
         NEW T, T \subseteq S, T # {}
  PROVE  \E x \in T : IsLast(x, less, T)
  <1> DEFINE B == {U \in SUBSET S : U # {} /\ ~ \E x \in U : IsLast(x, less, U)}
  <1> SUFFICES ASSUME B # {} PROVE FALSE
    OBVIOUS
  <1>1. PICK U \in B : \A V \in B : ~ (V \subseteq U /\ V # U)
    <2>1. B \in SUBSET (SUBSET S)
      OBVIOUS
    <2> HIDE DEF B
    <2> QED BY <2>1, MinimalSubset
  <1>2. PICK x \in U : TRUE
    OBVIOUS
  <1> DEFINE V == U \ {x}
  <1>3. V \in SUBSET S /\ V \notin B
    BY <1>1, <1>2
  <1>4. CASE V = {}
    <2>1. IsLast(x, less, U)
      BY <1>4 DEF IsLast
    <2> QED BY <2>1
  <1>5. CASE V # {}
    <2>1. PICK y \in V : IsLast(y, less, V)
      BY <1>3, <1>5
    <2>2. x \in S /\ y \in S /\ x # y
      BY <1>3
    <2>3. <<x, y>> \in less => IsLast(y, less, U)
      BY <2>1 DEF IsLast
    <2>4. ASSUME <<y, x>> \in less PROVE IsLast(x, less, U)
      <3>1. ASSUME NEW z \in U, z # x PROVE <<z, x>> \in less
        <4>1. z = y \/ <<z, y>> \in less
          BY <2>1, <3>1 DEF IsLast
        <4>2. z \in S
          OBVIOUS
        <4> QED BY <4>1, <4>2, <2>2, <2>4 DEF StrictOrder
      <3> QED BY <3>1 DEF IsLast
    <2>5. <<x, y>> \in less \/ <<y, x>> \in less
      BY <2>2 DEF StrictOrder
    <2> QED BY <2>3, <2>4, <2>5
  <1> QED BY <1>4, <1>5

Sorts(log, less, S) ==
  /\ log \in [1 .. Cardinality(S) -> S]
  /\ \A i, j \in 1 .. Cardinality(S) : i < j => <<log[i], log[j]>> \in less

\* A finite set in a strict order can be listed in that order.
LEMMA SortExists ==
  ASSUME NEW S, IsFiniteSet(S), NEW less, StrictOrder(less, S)
  PROVE  \E log : Sorts(log, less, S)
  <1> DEFINE B == {U \in SUBSET S : ~ \E log : Sorts(log, less, U)}
  <1> SUFFICES ASSUME B # {} PROVE FALSE
    OBVIOUS
  <1>1. PICK U \in B : \A V \in B : ~ (V \subseteq U /\ V # U)
    <2>1. B \in SUBSET (SUBSET S)
      OBVIOUS
    <2> HIDE DEF B
    <2> QED BY <2>1, MinimalSubset
  <1>2. CASE U = {}
    <2>1. Cardinality(U) = 0
      BY <1>2, FS_EmptySet
    <2>2. Sorts([i \in 1 .. 0 |-> i], less, U)
      BY <2>1, <1>2 DEF Sorts
    <2> QED BY <2>2
  <1>3. CASE U # {}
    <2>1. PICK x \in U : IsLast(x, less, U)
      BY <1>3, LastExists
    <2> DEFINE V == U \ {x}
    <2>2. V \in SUBSET S /\ V \notin B
      BY <1>1
    <2>3. PICK log : Sorts(log, less, V)
      BY <2>2
    <2>4. IsFiniteSet(U)
      BY FS_Subset
    <2>5. PICK n \in Nat : n = Cardinality(V) /\ Cardinality(U) = n + 1
      <3>1. IsFiniteSet(V) /\ Cardinality(V) = Cardinality(U) - 1
        BY <2>4, FS_RemoveElement
      <3>2. Cardinality(U) \in Nat /\ Cardinality(V) \in Nat
        BY <2>4, <3>1, FS_CardinalityType
      <3> HIDE DEF V
      <3> QED BY <3>1, <3>2
    <2> DEFINE next == [i \in 1 .. n + 1 |-> IF i = n + 1 THEN x ELSE log[i]]
    <2>6. log \in [1 .. n -> V] /\ \A i, j \in 1 .. n : i < j => <<log[i], log[j]>> \in less
      BY <2>3, <2>5 DEF Sorts
    <2>7. next \in [1 .. n + 1 -> U]
      BY <2>6
    <2>8. ASSUME NEW i \in 1 .. n + 1, NEW j \in 1 .. n + 1, i < j
          PROVE  <<next[i], next[j]>> \in less
      <3>1. i \in 1 .. n
        BY <2>8
      <3>2. CASE j = n + 1
        <4>1. log[i] \in V
          BY <3>1, <2>6
        <4> QED BY <4>1, <3>2, <3>1, <2>1 DEF IsLast
      <3>3. CASE j # n + 1
        BY <3>1, <3>3, <2>8, <2>6
      <3> QED BY <3>2, <3>3
    <2>9. Sorts(next, less, U)
      <3> HIDE DEF next
      <3> QED BY <2>5, <2>7, <2>8 DEF Sorts
    <2> QED BY <2>9
  <1> QED BY <1>2, <1>3

\* And such a listing leaves nothing out.
LEMMA SortIsOnto ==
  ASSUME NEW S, IsFiniteSet(S), NEW less, StrictOrder(less, S), NEW log, Sorts(log, less, S)
  PROVE  \A x \in S : \E i \in 1 .. Cardinality(S) : log[i] = x
  <1>1. PICK n \in Nat : n = Cardinality(S)
    BY FS_CardinalityType
  <1>2. log \in [1 .. n -> S] /\ \A i, j \in 1 .. n : i < j => <<log[i], log[j]>> \in less
    BY <1>1 DEF Sorts
  <1>3. ASSUME NEW i \in 1 .. n, NEW j \in 1 .. n, i # j PROVE log[i] # log[j]
    <2>1. i < j \/ j < i
      BY <1>3
    <2>2. <<log[i], log[j]>> \in less \/ <<log[j], log[i]>> \in less
      BY <2>1, <1>2
    <2>3. log[i] \in S /\ log[j] \in S
      BY <1>2
    <2> QED BY <2>2, <2>3 DEF StrictOrder
  <1>4. log \in Injection(1 .. n, S)
    BY <1>2, <1>3 DEF Injection, IsInjective
  <1>5. Cardinality(1 .. n) = n
    BY FS_Interval
  <1>6. log \in Surjection(1 .. n, S)
    BY <1>1, <1>4, <1>5, FS_Injection
  <1> QED BY <1>1, <1>6 DEF Surjection

-----------------------------------------------------------------------------
(* Master data: partners. *)

\* The shapes of the rows, and of what a clerk has read.
ContactRow == [owner : Owner, primary : BOOLEAN, erased : BOOLEAN]
RequestRow == [owner : Owner, type : RequestType, status : {"PENDING", "COMPLETED", "REJECTED"},
               seen : SUBSET Contact, answers : Nat]
ConsentRow == [owner : Owner, purpose : Purpose, action : {"GRANT", "WITHDRAW"},
               at : 0 .. MaxTime]
Answering(k) == work[k].op \in {"fulfil", "reject"}
ClerkReads(k) ==
  /\ work[k].op = "contact" => work[k].row \in ContactRow /\ work[k].row.erased = FALSE
  /\ work[k].op = "request" =>
       \E w \in Owner, t \in RequestType : work[k].row = NewRequest(w, t)

PartnerTypes ==
  /\ contacts \in [Contact -> ContactRow \cup {NoRecord}]
  /\ consents \in [Consent -> ConsentRow \cup {NoRecord}]
  /\ pdpa \in [Request -> RequestRow \cup {NoRecord}]
  /\ work = [k \in Clerk |-> work[k]]
  /\ \A k \in Clerk : ClerkReads(k)

\* An answer in progress is to a request that is still pending, unless another
\* answer was in progress beside it; and it has found contacts of the subject.
AnswersAreFresh ==
  \A k \in Clerk : Answering(k) =>
    /\ work[k].request \in Rows(pdpa)
    /\ work[k].seen \subseteq ContactsOf(pdpa[work[k].request].owner)
    /\ work[k].contacts = work[k].seen
    /\ pdpa[work[k].request].status = "PENDING" \/ work[k].request \in together

PendingIsUnanswered == \A r \in Rows(pdpa) : pdpa[r].status = "PENDING" => pdpa[r].answers = 0

\* What was seen was erased, whatever the status says by now.
SeenIsErased ==
  \A r \in Rows(pdpa) : pdpa[r].type = "ERASURE" =>
    \A c \in pdpa[r].seen : c \in Rows(contacts) /\ contacts[c].erased

PartnerInv ==
  /\ PartnerTypes /\ AnswersAreFresh /\ PendingIsUnanswered
  /\ SeenIsErased /\ ErasedOnRequest /\ AnsweredOnce

(* The consent log. *)

ConsentsOf(w) == {n \in Rows(consents) : consents[n].owner = w}
EarlierOf(w) == {q \in ConsentsOf(w) \X ConsentsOf(w) : Earlier(q[1], q[2])}

\* The order of the log is a strict order.
LEMMA LogIsOrdered ==
  ASSUME PartnerTypes, NEW w \in Owner
  PROVE  /\ IsFiniteSet(ConsentsOf(w))
         /\ StrictOrder(EarlierOf(w), ConsentsOf(w))
         /\ \A n \in ConsentsOf(w) : n \in Nat \ {0} /\ consents[n] \in ConsentRow
  <1>1. \A n \in ConsentsOf(w) : n \in Consent /\ consents[n] \in ConsentRow
    BY DEF ConsentsOf, Rows, PartnerTypes
  <1>2. \A n \in ConsentsOf(w) : n \in Nat \ {0} /\ consents[n].at \in Nat
    BY <1>1, ConsentAssumption, MaxTimeAssumption DEF ConsentRow
  <1>3. ConsentsOf(w) \in SUBSET Consent /\ IsFiniteSet(ConsentsOf(w))
    BY <1>1, FS_Subset, ConsentAssumption
  <1>4. ASSUME NEW x \in ConsentsOf(w), NEW y \in ConsentsOf(w)
        PROVE  <<x, y>> \in EarlierOf(w) <=> Earlier(x, y)
    BY DEF EarlierOf
  <1>5. \A x, y \in ConsentsOf(w) : Earlier(x, y) => ~ Earlier(y, x)
    BY <1>2 DEF Earlier
  <1>6. \A x, y \in ConsentsOf(w) : x # y => Earlier(x, y) \/ Earlier(y, x)
    BY <1>2 DEF Earlier
  <1>7. \A x, y, z \in ConsentsOf(w) : Earlier(x, y) /\ Earlier(y, z) => Earlier(x, z)
    BY <1>2 DEF Earlier
  <1> QED BY <1>1, <1>2, <1>3, <1>4, <1>5, <1>6, <1>7 DEF StrictOrder

\* The log of an owner: every record of the owner once, in order.
LEMMA LogSorts ==
  ASSUME PartnerTypes, NEW w \in Owner
  PROVE  Sorts(ConsentLog(w), EarlierOf(w), ConsentsOf(w))
  <1> DEFINE R == ConsentsOf(w)
             N == Cardinality(R)
             Good(log) == \A i, j \in 1 .. N : i < j => Earlier(log[i], log[j])
  <1>1. PICK log : Sorts(log, EarlierOf(w), R)
    BY LogIsOrdered, SortExists
  <1>2. ASSUME NEW l \in [1 .. N -> R]
        PROVE  Good(l) <=> Sorts(l, EarlierOf(w), R)
    BY <1>2 DEF Sorts, EarlierOf
  <1>3. \E l \in [1 .. N -> R] : Good(l)
    BY <1>1, <1>2 DEF Sorts
  <1>4. ConsentLog(w) = CHOOSE l \in [1 .. N -> R] : Good(l)
    BY DEF ConsentLog, ConsentsOf
  <1>5. ConsentLog(w) \in [1 .. N -> R] /\ Good(ConsentLog(w))
    <2> HIDE DEF Good, N, R
    <2> QED BY <1>3, <1>4
  <1> HIDE DEF Good
  <1> QED BY <1>5, <1>2

\* The record that holds for a purpose: among the last of them, if there are any.
LEMMA LatestIsLast ==
  ASSUME PartnerTypes, NEW w \in Owner, NEW p \in Purpose
  PROVE  LET of == {n \in ConsentsOf(w) : consents[n].purpose = p}
             latest == LatestRecord(w, p)
         IN /\ latest = 0 <=> of = {}
            /\ latest # 0 => latest \in of /\ \A m \in of : consents[m].at <= consents[latest].at
  <1> DEFINE R == ConsentsOf(w)
             log == ConsentLog(w)
             of == {n \in R : consents[n].purpose = p}
             Step(i, x) == IF consents[log[i]].purpose = p /\ (x = 0 \/ Supersedes(log[i], x))
                           THEN log[i] ELSE x
             X == {0} \cup R
  <1>1. PICK n \in Nat : n = Cardinality(R)
    BY LogIsOrdered, FS_CardinalityType
  <1>2. /\ log \in [1 .. n -> R]
        /\ \A i, j \in 1 .. n : i < j => Earlier(log[i], log[j])
        /\ \A x \in R : \E i \in 1 .. n : log[i] = x
    <2>1. Sorts(log, EarlierOf(w), R)
      BY LogSorts
    <2>2. log \in [1 .. n -> R] /\ \A i, j \in 1 .. n : i < j => <<log[i],
          log[j]>> \in EarlierOf(w)
      BY <2>1, <1>1 DEF Sorts
    <2>3. \A x \in R : \E i \in 1 .. Cardinality(R) : log[i] = x
      BY <2>1, LogIsOrdered, SortIsOnto
    <2> HIDE DEF R, log
    <2>4. \A i, j \in 1 .. n : i < j => Earlier(log[i], log[j])
      BY <2>2 DEF EarlierOf
    <2> QED BY <2>2, <2>3, <2>4, <1>1
  <1>3. \A x \in R : x \in Nat \ {0} /\ consents[x].at \in Nat
    BY LogIsOrdered, MaxTimeAssumption DEF ConsentRow
  <1> HIDE DEF R, log
  <1>4. Len(log) = n
    BY <1>2
  <1> DEFINE IsTable(f) == f = [i \in 0 .. n |-> IF i = 0 THEN 0 ELSE Step(i, f[i - 1])]
             latest == CHOOSE f : IsTable(f)
  <1>5. LatestRecord(w, p) = latest[n]
    BY <1>4 DEF LatestRecord, log
  <1>6. IsTable(latest)
    <2> DEFINE G == [i \in 1 .. n |-> [x \in X |-> Step(i, x)]]
    <2>1. \A i \in 1 .. n : \A x \in X : G[i][x] = Step(i, x) /\ Step(i, x) \in X
      BY <1>2
    <2>4. StepsStayIn(G, n, X) /\ 0 \in X
      <3> HIDE DEF G, Step
      <3> QED BY <2>1 DEF StepsStayIn
    <2>5. PICK h : IsChain(h, 0, G, n, X)
      <3> HIDE DEF G, Step, X
      <3> QED BY <2>4, ChainExists
    <2>2. h \in [0 .. n -> X] /\ h[0] = 0 /\ \A i \in 1 .. n : h[i] = G[i][h[i - 1]]
      <3> HIDE DEF G, Step, X
      <3> QED BY <2>5 DEF IsChain
    <2>3. IsTable(h)
      <3> HIDE DEF G, Step
      <3>1. \A i \in 1 .. n : h[i - 1] \in X
        BY <2>2
      <3>2. \A i \in 1 .. n : h[i] = Step(i, h[i - 1])
        BY <3>1, <2>1, <2>2
      <3>3. \A i \in 0 .. n : h[i] = IF i = 0 THEN 0 ELSE Step(i, h[i - 1])
        BY <3>2, <2>2
      <3> QED BY <3>3, <2>2
    <2> HIDE DEF IsTable
    <2> QED BY <2>3
  <1>7. latest[0] = 0 /\ \A i \in 1 .. n : latest[i] = Step(i, latest[i - 1])
    <2> HIDE DEF latest, Step
    <2> QED BY <1>6
  <1> HIDE DEF latest
  <1> DEFINE Found(i) == {log[j] : j \in 1 .. i} \cap of
             IsNewest(x, i) == x \in Found(i) /\ \A m \in Found(i) :
             consents[m].at <= consents[x].at
             P == {i \in 0 .. n : /\ latest[i] = 0 => Found(i) = {}
                                  /\ latest[i] # 0 => IsNewest(latest[i], i)}
  <1>8. 0 \in P
    BY <1>7
  <1>9. ASSUME NEW i \in 1 .. n, i - 1 \in P PROVE i \in P
    <2> DEFINE x == latest[i - 1]
    <2>1. latest[i] = Step(i, x) /\ log[i] \in R
      BY <1>7, <1>2
    <2>2. Found(i) = Found(i - 1) \cup ({log[i]} \cap of)
      OBVIOUS
    <2>3. Found(i - 1) \subseteq of /\ of \subseteq R
      OBVIOUS
    <2>4. /\ x = 0 => Found(i - 1) = {}
          /\ x # 0 => x \in Found(i - 1) /\ \A m \in Found(i - 1) :
              consents[m].at <= consents[x].at
      BY <1>9
    <2>5. log[i] \in of <=> consents[log[i]].purpose = p
      BY <2>1
    <2>6. x # 0 => consents[x].at <= consents[log[i]].at
      <3>1. SUFFICES ASSUME x # 0 PROVE consents[x].at <= consents[log[i]].at
        OBVIOUS
      <3>2. PICK j \in 1 .. i - 1 : x = log[j]
        BY <2>4, <3>1
      <3>3. Earlier(log[j], log[i])
        BY <3>2, <1>2
      <3>4. x \in R
        BY <3>2, <1>2
      <3> QED BY <3>2, <3>3, <3>4, <2>1, <1>3 DEF Earlier
    <2> HIDE DEF Found
    <2>7. CASE log[i] \in of
      <3>1. latest[i] = log[i] /\ Found(i) = Found(i - 1) \cup {log[i]}
        BY <2>7, <2>5, <2>1, <2>6, <2>2, <2>3, <2>4, <1>3 DEF Supersedes
      <3>2. \A m \in Found(i) : consents[m].at <= consents[log[i]].at
        <4>1. SUFFICES ASSUME NEW m \in Found(i - 1) PROVE consents[m].at <= consents[log[i]].at
          BY <3>1, <2>1, <1>3
        <4>2. x # 0 /\ x \in R /\ m \in R
          BY <4>1, <2>4, <2>3
        <4> QED BY <4>2, <2>4, <2>6, <2>1, <1>3
      <3>3. log[i] # 0
        BY <2>1, <1>3
      <3> QED BY <3>1, <3>2, <3>3, <2>7
    <2>8. CASE log[i] \notin of
      <3>1. latest[i] = x /\ Found(i) = Found(i - 1)
        BY <2>8, <2>5, <2>1, <2>2
      <3> QED BY <3>1, <2>4
    <2> QED BY <2>7, <2>8
  <1>10. n \in P
    <2> HIDE DEF P
    <2> QED BY <1>8, <1>9, IntervalInduction
  <1>11. Found(n) = of
    BY <1>2
  <1> QED BY <1>5, <1>10, <1>11 DEF R

\* Consent is what the last record says.
LEMMA TheLastWordHolds == ASSUME PartnerTypes PROVE ConsentIsTheLastWord
  <1> SUFFICES ASSUME NEW w \in Owner, NEW p \in Purpose
      PROVE  LET of == {n \in Rows(consents) : consents[n].owner = w /\ consents[n].purpose = p}
                 last == {n \in of : \A m \in of : consents[m].at <= consents[n].at}
             IN /\ ConsentGranted(w, p) => \E n \in last : consents[n].action = "GRANT"
                /\ (\A n \in last : consents[n].action = "GRANT") /\ last # {} =>
                    ConsentGranted(w, p)
    BY DEF ConsentIsTheLastWord
  <1> DEFINE of == {n \in Rows(consents) : consents[n].owner = w /\ consents[n].purpose = p}
             last == {n \in of : \A m \in of : consents[m].at <= consents[n].at}
             latest == LatestRecord(w, p)
  <1>1. of = {n \in ConsentsOf(w) : consents[n].purpose = p}
    BY DEF ConsentsOf
  <1>2. /\ latest = 0 <=> of = {}
        /\ latest # 0 => latest \in of /\ \A m \in of : consents[m].at <= consents[latest].at
    BY <1>1, LatestIsLast
  <1>3. latest # 0 => latest \in last
    BY <1>2
  <1>4. last # {} => latest # 0
    BY <1>2
  <1>5. ConsentGranted(w, p) <=> latest # 0 /\ consents[latest].action = "GRANT"
    BY DEF ConsentGranted
  <1> HIDE DEF latest, last
  <1> QED BY <1>3, <1>4, <1>5 DEF last

(* The steps. *)

\* What the writing of one row leaves: the other rows, and which rows there are.
LEMMA NoRecordIsNone ==
  /\ NoRecord \notin ContactRow /\ NoRecord \notin RequestRow /\ NoRecord \notin ConsentRow
  /\ \A x \in ContactRow \cup RequestRow \cup ConsentRow : x.owner \in Owner /\ x.owner # "none"
  <1>1. \A x \in ContactRow \cup RequestRow \cup ConsentRow : x.owner \in Owner
    BY DEF ContactRow, RequestRow, ConsentRow
  <1>2. NoRecord.owner = "none"
    BY DEF NoRecord
  <1> QED BY <1>1, <1>2, OwnerAssumption

LEMMA RowShapes ==
  ASSUME PartnerTypes
  PROVE  /\ \A c \in Rows(contacts) : c \in Contact /\ contacts[c] \in ContactRow
         /\ \A r \in Rows(pdpa) : r \in Request /\ pdpa[r] \in RequestRow
  BY DEF PartnerTypes, Rows

\* The clerk who finishes is free again, and the others go on as they were.
ClerkDone(k) == work' = [work EXCEPT ![k] = Idle]
LEMMA ClerkIsDone ==
  ASSUME PartnerTypes, NEW k \in Clerk, ClerkDone(k)
  PROVE  /\ work' = [j \in Clerk |-> work'[j]]
         /\ \A j \in Clerk : work'[j] = IF j = k THEN Idle ELSE work[j]
         /\ \A j \in Clerk : ClerkReads(j)'
         /\ \A j \in Clerk : Answering(j)' => j # k /\ Answering(j) /\ work'[j] = work[j]
  <1>1. /\ work' = [j \in Clerk |-> work'[j]]
        /\ \A j \in Clerk : work'[j] = IF j = k THEN Idle ELSE work[j]
    BY DEF PartnerTypes, ClerkDone
  <1>2. Idle.op = "idle"
    BY DEF Idle
  <1>3. \A j \in Clerk : ClerkReads(j)'
    BY <1>1, <1>2 DEF ClerkReads, PartnerTypes
  <1> QED BY <1>1, <1>2, <1>3 DEF Answering

LEMMA ClerkStarts ==
  ASSUME PartnerTypes, NEW k \in Clerk, NEW read, work' = [work EXCEPT ![k] = read]
  PROVE  /\ work' = [j \in Clerk |-> work'[j]]
         /\ work'[k] = read
         /\ \A j \in Clerk \ {k} : work'[j] = work[j]
         /\ \A j \in Clerk \ {k} : ClerkReads(j)' <=> ClerkReads(j)
         /\ \A j \in Clerk \ {k} : Answering(j)' <=> Answering(j)
  <1>1. /\ work' = [j \in Clerk |-> work'[j]]
        /\ work'[k] = read
        /\ \A j \in Clerk \ {k} : work'[j] = work[j]
    BY DEF PartnerTypes
  <1> QED BY <1>1 DEF ClerkReads, Answering

LEMMA PartnerStarts == PartnerInit => PartnerInv
  <1> SUFFICES ASSUME PartnerInit PROVE PartnerInv
    OBVIOUS
  <1>1. Rows(contacts) = {} /\ Rows(pdpa) = {}
    BY DEF PartnerInit, Rows
  <1>2. \A k \in Clerk : work[k].op = "idle"
    BY DEF PartnerInit, Idle
  <1>3. PartnerTypes
    BY <1>2 DEF PartnerInit, PartnerTypes, ClerkReads
  <1> QED BY <1>1, <1>2, <1>3
       DEF PartnerInv, AnswersAreFresh, Answering, PendingIsUnanswered, SeenIsErased,
           ErasedOnRequest, AnsweredOnce

\* Reading for a create, and abandoning: only the clerks change, and nobody
\* starts to answer.
LEMMA OnlyClerksMove ==
  ASSUME PartnerInv, UNCHANGED <<contacts, consents, pdpa, together>>,
         work' = [j \in Clerk |-> work'[j]],
         \A j \in Clerk : ClerkReads(j)',
         \A j \in Clerk : Answering(j)' =>
            \/ Answering(j) /\ work'[j] = work[j]
            \/ /\ work'[j].request \in Rows(pdpa)
               /\ work'[j].seen = ContactsOf(pdpa[work'[j].request].owner)
               /\ work'[j].contacts = work'[j].seen
               /\ pdpa[work'[j].request].status = "PENDING"
  PROVE  PartnerInv'
  <1>1. Rows(contacts)' = Rows(contacts) /\ Rows(pdpa)' = Rows(pdpa)
    BY DEF Rows
  <1>2. \A w : ContactsOf(w)' = ContactsOf(w)
    BY <1>1 DEF ContactsOf
  <1>3. PartnerTypes'
    BY DEF PartnerInv, PartnerTypes
  <1>4. AnswersAreFresh'
    BY <1>1, <1>2 DEF PartnerInv, AnswersAreFresh
  <1> QED BY <1>1, <1>3, <1>4
       DEF PartnerInv, PendingIsUnanswered, SeenIsErased, ErasedOnRequest, AnsweredOnce

LEMMA StartContactKeeps ==
  ASSUME PartnerInv, NEW k \in Clerk, NEW w \in Owner, NEW b \in BOOLEAN, StartContact(k, w, b)
  PROVE  PartnerInv'
  <1> DEFINE read == [op |-> "contact", row |-> NewContact(w, b)]
  <1>1. read.op = "contact" /\ read.row \in ContactRow /\ read.row.erased = FALSE
    BY DEF NewContact, ContactRow
  <1>2. work' = [work EXCEPT ![k] = read] /\ PartnerTypes
    BY DEF StartContact, PartnerInv
  <1> HIDE DEF read
  <1>3. ClerkReads(k)' /\ ~ Answering(k)'
    BY <1>1, <1>2, ClerkStarts DEF ClerkReads, Answering
  <1>4. \A j \in Clerk : ClerkReads(j)' /\ (Answering(j)' => Answering(j) /\ work'[j] = work[j])
    BY <1>2, <1>3, ClerkStarts DEF PartnerTypes
  <1>5. work' = [j \in Clerk |-> work'[j]]
    BY <1>2, ClerkStarts
  <1> QED BY <1>4, <1>5, OnlyClerksMove DEF StartContact

LEMMA StartAddressKeeps ==
  ASSUME PartnerInv, NEW k \in Clerk, NEW w \in Owner, NEW t \in AddressType, NEW b \in BOOLEAN,
         StartAddress(k, w, t, b)
  PROVE  PartnerInv'
  <1> DEFINE read == [op |-> "address", row |-> NewAddress(w, t, b)]
  <1>1. read.op = "address"
    OBVIOUS
  <1>2. work' = [work EXCEPT ![k] = read] /\ PartnerTypes
    BY DEF StartAddress, PartnerInv
  <1> HIDE DEF read
  <1>3. ClerkReads(k)' /\ ~ Answering(k)'
    BY <1>1, <1>2, ClerkStarts DEF ClerkReads, Answering
  <1>4. \A j \in Clerk : ClerkReads(j)' /\ (Answering(j)' => Answering(j) /\ work'[j] = work[j])
    BY <1>2, <1>3, ClerkStarts DEF PartnerTypes
  <1>5. work' = [j \in Clerk |-> work'[j]]
    BY <1>2, ClerkStarts
  <1> QED BY <1>4, <1>5, OnlyClerksMove DEF StartAddress

LEMMA StartRequestKeeps ==
  ASSUME PartnerInv, NEW k \in Clerk, NEW w \in Owner, NEW t \in RequestType,
         StartRequest(k, w, t)
  PROVE  PartnerInv'
  <1> DEFINE read == [op |-> "request", row |-> NewRequest(w, t)]
  <1>1. read.op = "request" /\ read.row = NewRequest(w, t)
    OBVIOUS
  <1>2. work' = [work EXCEPT ![k] = read] /\ PartnerTypes
    BY DEF StartRequest, PartnerInv
  <1> HIDE DEF read
  <1>6. work'[k] = read
    BY <1>2, ClerkStarts
  <1>3. ClerkReads(k)' /\ ~ Answering(k)'
    BY <1>1, <1>6 DEF ClerkReads, Answering
  <1>4. \A j \in Clerk : ClerkReads(j)' /\ (Answering(j)' => Answering(j) /\ work'[j] = work[j])
    BY <1>2, <1>3, ClerkStarts DEF PartnerTypes
  <1>5. work' = [j \in Clerk |-> work'[j]]
    BY <1>2, ClerkStarts
  <1> QED BY <1>4, <1>5, OnlyClerksMove DEF StartRequest

LEMMA StartAnswerKeeps ==
  ASSUME PartnerInv, NEW k \in Clerk, NEW r \in Request, NEW op \in {"fulfil", "reject"},
         StartAnswer(k, r, op)
  PROVE  PartnerInv'
  <1> DEFINE found == ContactsOf(pdpa[r].owner)
             read == [op |-> op, request |-> r, contacts |-> found, seen |-> found]
  <1>1. read.op \in {"fulfil", "reject"} /\ read.request = r /\ read.seen = found
        /\ read.contacts = found
    OBVIOUS
  <1>2. work' = [work EXCEPT ![k] = read] /\ PartnerTypes
    BY DEF StartAnswer, PartnerInv, ListedForErasure
  <1>6. r \in Rows(pdpa) /\ pdpa[r].status = "PENDING"
    BY DEF StartAnswer
  <1> HIDE DEF read
  <1>3. ClerkReads(k)'
    BY <1>1, <1>2, ClerkStarts DEF ClerkReads
  <1>4. \A j \in Clerk : ClerkReads(j)'
        /\ (j # k /\ Answering(j)' => Answering(j) /\ work'[j] = work[j])
    BY <1>2, <1>3, ClerkStarts DEF PartnerTypes
  <1>5. work' = [j \in Clerk |-> work'[j]] /\ work'[k] = read
    BY <1>2, ClerkStarts
  <1> QED BY <1>1, <1>4, <1>5, <1>6, OnlyClerksMove DEF StartAnswer

\* A clerk is done and no row that matters here has moved.
LEMMA DoneKeeps ==
  ASSUME PartnerInv, NEW k \in Clerk, ClerkDone(k), UNCHANGED <<contacts, consents, pdpa,
         together>>
  PROVE  PartnerInv'
  BY ClerkIsDone, OnlyClerksMove DEF PartnerInv

LEMMA InsertContactKeeps ==
  ASSUME PartnerInv, NEW k \in Clerk, NEW c \in Contact, InsertContact(k, c)
  PROVE  PartnerInv'
  <1>1. PICK new : new = work[k].row
    OBVIOUS
  <1>2. new \in ContactRow /\ new.erased = FALSE /\ PartnerTypes /\ ClerkDone(k)
        /\ contacts[c] = NoRecord
    BY <1>1 DEF InsertContact, PartnerInv, PartnerTypes, ClerkReads, ClerkDone
  <1>3. contacts' = [contacts EXCEPT ![c] = new] \/ contacts' = contacts
    <2>1. contacts' = [contacts EXCEPT ![c] = @] \/ contacts' = [contacts EXCEPT ![c] = new]
      BY <1>1 DEF InsertContact
    <2>2. [contacts EXCEPT ![c] = @] = contacts
      BY <1>2 DEF PartnerTypes
    <2> QED BY <2>1, <2>2
  <1>4. UNCHANGED <<consents, pdpa, together>>
    BY DEF InsertContact
  <1>5. CASE contacts' = contacts
    BY <1>2, <1>4, <1>5, DoneKeeps
  <1>6. CASE contacts' = [contacts EXCEPT ![c] = new]
    <2>1. /\ contacts' \in [Contact -> ContactRow \cup {NoRecord}]
          /\ contacts'[c] = new
          /\ \A d \in Contact \ {c} : contacts'[d] = contacts[d]
      BY <1>2, <1>6 DEF PartnerTypes
    <2>2. PartnerTypes'
      BY <2>1, <1>2, <1>4, ClerkIsDone DEF PartnerTypes
    <2>3. \A d \in Rows(contacts) : d \in Rows(contacts)' /\ contacts'[d] = contacts[d]
      BY <2>1, <1>2 DEF Rows, PartnerTypes
    <2>4. \A w : ContactsOf(w) \subseteq ContactsOf(w)'
      BY <2>3 DEF ContactsOf
    <2>5. Rows(pdpa)' = Rows(pdpa)
      BY <1>4 DEF Rows
    <2>6. AnswersAreFresh'
      BY <2>4, <2>5, <1>2, <1>4, ClerkIsDone DEF PartnerInv, AnswersAreFresh
    <2>7. SeenIsErased'
      BY <2>3, <2>5, <1>4 DEF PartnerInv, SeenIsErased
    <2>8. ErasedOnRequest'
      <3>1. ASSUME NEW d \in Rows(contacts)', contacts'[d].erased
            PROVE  d \in Rows(contacts) /\ contacts[d] = contacts'[d]
        BY <3>1, <2>1, <1>2 DEF Rows, PartnerTypes
      <3> QED BY <3>1, <2>5, <1>4 DEF PartnerInv, ErasedOnRequest
    <2> QED BY <2>2, <2>5, <2>6, <2>7, <2>8, <1>4
         DEF PartnerInv, PendingIsUnanswered, AnsweredOnce
  <1> QED BY <1>3, <1>5, <1>6

LEMMA InsertRequestKeeps ==
  ASSUME PartnerInv, NEW k \in Clerk, NEW r \in Request, InsertRequest(k, r)
  PROVE  PartnerInv'
  <1>1. PICK new : new = work[k].row
    OBVIOUS
  <1>2. PartnerTypes /\ ClerkDone(k) /\ pdpa[r] = NoRecord
    BY DEF InsertRequest, PartnerInv, ClerkDone
  <1>7. new \in RequestRow /\ new.status = "PENDING" /\ new.seen = {} /\ new.answers = 0
    <2>1. PICK w \in Owner, t \in RequestType : new = NewRequest(w, t)
      BY <1>1 DEF InsertRequest, PartnerInv, PartnerTypes, ClerkReads
    <2> QED BY <2>1 DEF NewRequest, RequestRow
  <1>3. pdpa' = [pdpa EXCEPT ![r] = new] \/ pdpa' = pdpa
    <2>1. pdpa' = [pdpa EXCEPT ![r] = @] \/ pdpa' = [pdpa EXCEPT ![r] = new]
      BY <1>1 DEF InsertRequest
    <2>2. [pdpa EXCEPT ![r] = @] = pdpa
      BY <1>2 DEF PartnerTypes
    <2> QED BY <2>1, <2>2
  <1>4. UNCHANGED <<consents, contacts, together>>
    BY DEF InsertRequest
  <1>5. CASE pdpa' = pdpa
    BY <1>2, <1>4, <1>5, DoneKeeps
  <1>6. CASE pdpa' = [pdpa EXCEPT ![r] = new]
    <2>1. /\ pdpa' \in [Request -> RequestRow \cup {NoRecord}]
          /\ pdpa'[r] = new
          /\ \A d \in Request \ {r} : pdpa'[d] = pdpa[d]
      BY <1>2, <1>6, <1>7 DEF PartnerTypes
    <2>2. PartnerTypes'
      BY <2>1, <1>2, <1>4, ClerkIsDone DEF PartnerTypes
    <2>3. \A d \in Rows(pdpa) : d \in Rows(pdpa)' /\ pdpa'[d] = pdpa[d]
      BY <2>1, <1>2 DEF Rows, PartnerTypes
    <2>4. \A d \in Rows(pdpa)' : d = r \/ (d \in Rows(pdpa) /\ pdpa'[d] = pdpa[d])
      BY <2>1, <1>2 DEF Rows, PartnerTypes
    <2>5. Rows(contacts)' = Rows(contacts)
      BY <1>4 DEF Rows
    <2>6. \A w : ContactsOf(w) = ContactsOf(w)'
      BY <2>5, <1>4 DEF ContactsOf
    <2>7. AnswersAreFresh'
      BY <2>3, <2>6, <1>2, <1>4, ClerkIsDone DEF PartnerInv, AnswersAreFresh
    <2>8. SeenIsErased'
      BY <2>1, <2>4, <2>5, <1>4, <1>7 DEF PartnerInv, SeenIsErased
    <2>9. ErasedOnRequest'
      BY <2>3, <2>5, <1>4 DEF PartnerInv, ErasedOnRequest
    <2> QED BY <2>1, <2>2, <2>4, <2>7, <2>8, <2>9, <1>4, <1>7
         DEF PartnerInv, PendingIsUnanswered, AnsweredOnce
  <1> QED BY <1>3, <1>5, <1>6

LEMMA RecordConsentKeeps ==
  ASSUME PartnerInv, NEW n \in Consent, NEW w \in Owner, NEW p \in Purpose,
         NEW a \in {"GRANT", "WITHDRAW"}, NEW at \in 0 .. MaxTime, RecordConsent(n, w, p, a, at)
  PROVE  PartnerInv'
  <1> DEFINE new == [owner |-> w, purpose |-> p, action |-> a, at |-> at]
  <1>1. new \in ConsentRow
    BY DEF ConsentRow
  <1>2. consents' = [consents EXCEPT ![n] = new] /\ UNCHANGED <<contacts, pdpa, work, together>>
    BY DEF RecordConsent
  <1> HIDE DEF new
  <1>3. consents' \in [Consent -> ConsentRow \cup {NoRecord}]
    BY <1>1, <1>2 DEF PartnerInv, PartnerTypes
  <1>4. Rows(contacts)' = Rows(contacts) /\ Rows(pdpa)' = Rows(pdpa)
    BY <1>2 DEF Rows
  <1>5. \A x : ContactsOf(x)' = ContactsOf(x)
    BY <1>2, <1>4 DEF ContactsOf
  <1>6. PartnerTypes'
    BY <1>2, <1>3 DEF PartnerInv, PartnerTypes, ClerkReads
  <1>7. AnswersAreFresh'
    BY <1>2, <1>4, <1>5 DEF PartnerInv, AnswersAreFresh, Answering
  <1> QED BY <1>2, <1>4, <1>6, <1>7
       DEF PartnerInv, PendingIsUnanswered, SeenIsErased, ErasedOnRequest, AnsweredOnce

\* The row of an answered request.
LEMMA AnsweredShape ==
  ASSUME NEW x \in RequestRow, NEW s \in {"COMPLETED", "REJECTED"}, NEW seen \in SUBSET Contact
  PROVE  LET y == Answered(x, s, seen) IN
         /\ y \in RequestRow /\ y.owner = x.owner /\ y.type = x.type /\ y.status = s
         /\ y.seen = x.seen \cup seen /\ y.answers = x.answers + 1
  <1>1. PICK n \in Nat : n = x.answers + 1
    BY DEF RequestRow
  <1>2. PICK all \in SUBSET Contact : all = x.seen \cup seen
    BY DEF RequestRow
  <1>3. Answered(x, s, seen) = [x EXCEPT !.status = s, !.seen = all, !.answers = n]
    BY <1>1, <1>2 DEF Answered
  <1>4. Answered(x, s, seen) \in RequestRow
    BY <1>3 DEF RequestRow
  <1> QED BY <1>4 DEF Answered, RequestRow

LEMMA ErasedShape ==
  ASSUME NEW x \in ContactRow
  PROVE  Erased(x) \in ContactRow /\ Erased(x).owner = x.owner /\ Erased(x).erased = TRUE
  <1>1. Erased(x) \in ContactRow
    BY DEF Erased, ContactRow
  <1>2. Erased(x).owner = x.owner
    BY DEF Erased, ContactRow
  <1>3. Erased(x).erased = TRUE
    BY DEF Erased, ContactRow
  <1> QED BY <1>1, <1>2, <1>3

\* An answer is written: the contacts it blanks, if any, and its request.
LEMMA AnswerKeeps ==
  ASSUME PartnerInv, NEW k \in Clerk, Answering(k), FinishAnswer(k),
         NEW r, r = work[k].request,
         NEW s \in {"COMPLETED", "REJECTED"}, NEW seen, seen \subseteq work[k].seen,
         pdpa' = [pdpa EXCEPT ![r] = Answered(@, s, seen)],
         contacts' \in [Contact -> ContactRow \cup {NoRecord}],
         \A c \in Contact : contacts'[c] = contacts[c]
            \/ /\ contacts'[c] = Erased(contacts[c]) /\ c \in work[k].seen
               /\ pdpa[r].type = "ERASURE" /\ s = "COMPLETED",
         pdpa[r].type = "ERASURE" => \A c \in seen : contacts'[c] = Erased(contacts[c])
  PROVE  PartnerInv'
  <1>1. /\ PartnerTypes /\ ClerkDone(k) /\ consents' = consents
        /\ together' = together \cup {x \in {r} : Racing(k, x)}
    BY DEF PartnerInv, FinishAnswer, ClerkDone
  <1>2. /\ r \in Rows(pdpa) /\ r \in Request /\ pdpa[r] \in RequestRow
        /\ work[k].seen \subseteq ContactsOf(pdpa[r].owner)
        /\ pdpa[r].status = "PENDING" \/ r \in together
    BY <1>1, RowShapes DEF PartnerInv, AnswersAreFresh
  <1>3. \A c \in work[k].seen : c \in Rows(contacts) /\ c \in Contact
        /\ contacts[c] \in ContactRow /\ contacts[c].owner = pdpa[r].owner
    BY <1>1, <1>2, RowShapes DEF ContactsOf
  <1>4. PICK old \in RequestRow : old = pdpa[r]
    BY <1>2
  <1>5. PICK new : new = Answered(old, s, seen)
    OBVIOUS
  <1>6. /\ new \in RequestRow /\ new.owner = old.owner /\ new.type = old.type /\ new.status = s
        /\ new.seen = old.seen \cup seen /\ new.answers = old.answers + 1
    <2>1. seen \in SUBSET Contact
      BY <1>3
    <2> QED BY <2>1, <1>5, AnsweredShape
  <1>7. /\ pdpa' \in [Request -> RequestRow \cup {NoRecord}]
        /\ pdpa'[r] = new
        /\ \A d \in Request \ {r} : pdpa'[d] = pdpa[d]
    <2>1. pdpa' = [pdpa EXCEPT ![r] = new]
      BY <1>4, <1>5
    <2> QED BY <2>1, <1>1, <1>2, <1>6 DEF PartnerTypes
  <1>8. Rows(pdpa)' = Rows(pdpa)
    BY <1>1, <1>2, <1>6, <1>7, NoRecordIsNone DEF Rows, PartnerTypes
  <1>9. \A c \in Contact : \/ contacts'[c] = contacts[c]
                           \/ contacts'[c] = Erased(contacts[c]) /\ contacts[c] \in ContactRow
    BY <1>3
  <1>10. /\ Rows(contacts)' = Rows(contacts)
         /\ \A c \in Rows(contacts) : /\ contacts'[c].owner = contacts[c].owner
                                      /\ contacts[c].erased => contacts'[c].erased
    <2>1. \A c \in Contact : contacts[c] = NoRecord <=> contacts'[c] = NoRecord
      <3>1. SUFFICES ASSUME NEW c \in Contact, contacts'[c] = Erased(contacts[c]),
                            contacts[c] \in ContactRow
            PROVE  contacts[c] # NoRecord /\ contacts'[c] # NoRecord
        BY <1>9
      <3>2. contacts'[c] \in ContactRow
        BY <3>1, ErasedShape
      <3> QED BY <3>1, <3>2, NoRecordIsNone
    <2>2. Rows(contacts)' = Rows(contacts)
      BY <2>1, <1>1 DEF Rows, PartnerTypes
    <2>3. \A c \in Rows(contacts) : c \in Contact
      BY <1>1, RowShapes
    <2> QED BY <2>2, <2>3, <1>9, ErasedShape
  <1>11. \A w : ContactsOf(w)' = ContactsOf(w)
    BY <1>10 DEF ContactsOf
  <1>12. PartnerTypes'
    BY <1>1, <1>7, ClerkIsDone DEF PartnerTypes
  <1>13. AnswersAreFresh'
    <2> SUFFICES ASSUME NEW j \in Clerk, Answering(j)'
        PROVE  /\ work'[j].request \in Rows(pdpa)
               /\ work'[j].seen \subseteq ContactsOf(pdpa'[work'[j].request].owner)
               /\ work'[j].contacts = work'[j].seen
               /\ pdpa'[work'[j].request].status = "PENDING" \/ work'[j].request \in together'
      BY <1>8, <1>11 DEF AnswersAreFresh
    <2>1. j # k /\ Answering(j) /\ work'[j] = work[j]
      BY <1>1, ClerkIsDone
    <2>2. PICK q : q = work[j].request
      OBVIOUS
    <2>3. /\ q \in Rows(pdpa) /\ work[j].seen \subseteq ContactsOf(pdpa[q].owner)
          /\ work[j].contacts = work[j].seen /\ (pdpa[q].status = "PENDING" \/ q \in together)
      BY <2>1, <2>2 DEF PartnerInv, AnswersAreFresh
    <2>4. q \in Request /\ pdpa'[q].owner = pdpa[q].owner
      BY <2>3, <1>1, <1>4, <1>6, <1>7, RowShapes
    <2>5. q = r => Racing(k, q)
      BY <2>1, <2>2 DEF Racing, Answering
    <2>6. q \in together' \/ (q # r /\ pdpa'[q] = pdpa[q])
      BY <2>4, <2>5, <1>1, <1>7
    <2> QED BY <2>1, <2>2, <2>3, <2>4, <2>6, <1>1
  <1>14. PendingIsUnanswered'
    BY <1>1, <1>6, <1>7, <1>8, RowShapes DEF PartnerInv, PendingIsUnanswered
  <1>15. SeenIsErased'
    <2> SUFFICES ASSUME NEW q \in Rows(pdpa), pdpa'[q].type = "ERASURE", NEW c \in pdpa'[q].seen
        PROVE  c \in Rows(contacts) /\ contacts'[c].erased
      BY <1>8, <1>10 DEF SeenIsErased
    <2>1. CASE q = r /\ c \in seen
      <3>1. c \in Rows(contacts) /\ contacts[c] \in ContactRow
        BY <2>1, <1>3
      <3>2. pdpa[r].type = "ERASURE"
        BY <2>1, <1>4, <1>6, <1>7
      <3>3. contacts'[c] = Erased(contacts[c])
        BY <2>1, <3>2
      <3> QED BY <3>1, <3>3, ErasedShape
    <2>2. CASE ~ (q = r /\ c \in seen)
      <3>1. pdpa[q].type = "ERASURE" /\ c \in pdpa[q].seen
        BY <2>2, <1>1, <1>4, <1>6, <1>7, RowShapes
      <3> QED BY <3>1, <1>10 DEF PartnerInv, SeenIsErased
    <2> QED BY <2>1, <2>2
  <1>16. ErasedOnRequest'
    <2> SUFFICES ASSUME NEW c \in Rows(contacts), contacts'[c].erased
        PROVE  \E q \in Rows(pdpa) : /\ pdpa'[q].type = "ERASURE"
                                     /\ pdpa'[q].owner = contacts[c].owner
                                     /\ pdpa'[q].status = "COMPLETED" \/ q \in together'
      BY <1>8, <1>10 DEF ErasedOnRequest
    <2>1. c \in Contact
      BY <1>1, RowShapes
    <2>2. CASE contacts'[c] = contacts[c]
      <3>1. PICK q \in Rows(pdpa) : /\ pdpa[q].type = "ERASURE"
                                    /\ pdpa[q].owner = contacts[c].owner
                                    /\ pdpa[q].status = "COMPLETED" \/ q \in together
        BY <2>2 DEF PartnerInv, ErasedOnRequest
      <3>2. CASE q = r
        <4>1. r \in together
          BY <3>1, <3>2, <1>2
        <4> QED BY <4>1, <3>1, <3>2, <1>1, <1>4, <1>6, <1>7
      <3>3. CASE q # r
        <4>1. pdpa'[q] = pdpa[q]
          BY <3>3, <1>1, <1>7, RowShapes
        <4> QED BY <4>1, <3>1, <1>1
      <3> QED BY <3>2, <3>3
    <2>3. CASE contacts'[c] # contacts[c]
      <3>1. c \in work[k].seen /\ pdpa[r].type = "ERASURE" /\ s = "COMPLETED"
        BY <2>1, <2>3
      <3> QED BY <3>1, <1>2, <1>3, <1>4, <1>6, <1>7
    <2> QED BY <2>2, <2>3
  <1>17. AnsweredOnce'
    <2> SUFFICES ASSUME NEW q \in Rows(pdpa), pdpa'[q].answers > 1 PROVE q \in together'
      BY <1>8 DEF AnsweredOnce
    <2>1. CASE q = r
      <3>1. pdpa[r].status # "PENDING"
        BY <2>1, <1>2, <1>4, <1>6, <1>7 DEF PartnerInv, PendingIsUnanswered
      <3> QED BY <2>1, <3>1, <1>1, <1>2
    <2>2. CASE q # r
      BY <2>2, <1>1, <1>7, RowShapes DEF PartnerInv, AnsweredOnce
    <2> QED BY <2>1, <2>2
  <1> QED BY <1>12, <1>13, <1>14, <1>15, <1>16, <1>17 DEF PartnerInv

LEMMA FulfilKeeps ==
  ASSUME PartnerInv, NEW k \in Clerk, Fulfil(k)
  PROVE  PartnerInv'
  <1>1. PICK r : r = work[k].request
    OBVIOUS
  <1>2. PICK seen : seen = work[k].seen
    OBVIOUS
  <1>3. Answering(k) /\ FinishAnswer(k)
        /\ pdpa' = [pdpa EXCEPT ![r] = Answered(@, "COMPLETED", seen)]
    BY <1>1, <1>2 DEF Fulfil, Answering
  <1>4. contacts' = [c \in Contact |-> IF pdpa[r].type = "ERASURE" /\ c \in work[k].contacts
                                       THEN Erased(contacts[c]) ELSE contacts[c]]
    BY <1>1 DEF Fulfil
  <1>5. work[k].contacts = seen
    BY <1>2, <1>3 DEF PartnerInv, AnswersAreFresh
  <1>6. \A c \in seen : c \in Contact /\ contacts[c] \in ContactRow
    BY <1>1, <1>2, <1>3, RowShapes DEF PartnerInv, AnswersAreFresh, ContactsOf
  <1>7. contacts' \in [Contact -> ContactRow \cup {NoRecord}]
    BY <1>4, <1>5, <1>6, ErasedShape DEF PartnerInv, PartnerTypes
  <1>8. \A c \in Contact : \/ contacts'[c] = contacts[c]
                           \/ /\ contacts'[c] = Erased(contacts[c])
                              /\ c \in work[k].seen /\ pdpa[r].type = "ERASURE"
    BY <1>2, <1>4, <1>5
  <1>9. pdpa[r].type = "ERASURE" => \A c \in seen : contacts'[c] = Erased(contacts[c])
    BY <1>4, <1>5, <1>6
  <1> QED BY <1>1, <1>2, <1>3, <1>7, <1>8, <1>9, AnswerKeeps

LEMMA RejectKeeps ==
  ASSUME PartnerInv, NEW k \in Clerk, Reject(k)
  PROVE  PartnerInv'
  <1>1. PICK r : r = work[k].request
    OBVIOUS
  <1>2. PICK seen : seen = {}
    OBVIOUS
  <1>3. /\ Answering(k) /\ FinishAnswer(k)
            /\ pdpa' = [pdpa EXCEPT ![r] = Answered(@, "REJECTED", seen)]
        /\ contacts' = contacts
    BY <1>1, <1>2 DEF Reject, Answering
  <1>4. contacts' \in [Contact -> ContactRow \cup {NoRecord}]
    BY <1>3 DEF PartnerInv, PartnerTypes
  <1>5. seen \subseteq work[k].seen /\ \A c \in seen : contacts'[c] = Erased(contacts[c])
    BY <1>2
  <1> QED BY <1>1, <1>3, <1>4, <1>5, AnswerKeeps

LEMMA PartnerStep == PartnerInv /\ [PartnerNext]_partnerVars => PartnerInv'
  <1> SUFFICES ASSUME PartnerInv, [PartnerNext]_partnerVars PROVE PartnerInv'
    OBVIOUS
  <1>1. CASE UNCHANGED partnerVars
    <2>1. \A j \in Clerk : ClerkReads(j)'
          /\ (Answering(j)' => Answering(j) /\ work'[j] = work[j])
      BY <1>1 DEF partnerVars, PartnerInv, PartnerTypes, ClerkReads, Answering
    <2>2. work' = [j \in Clerk |-> work'[j]]
      BY <1>1 DEF partnerVars, PartnerInv, PartnerTypes
    <2> QED BY <1>1, <2>1, <2>2, OnlyClerksMove DEF partnerVars
  <1>2. ASSUME NEW k \in Clerk, NEW w \in Owner, NEW b \in BOOLEAN,
               StartContact(k, w, b) \/ \E t \in AddressType : StartAddress(k, w, t, b)
        PROVE  PartnerInv'
    BY <1>2, StartContactKeeps, StartAddressKeeps
  <1>3. ASSUME NEW k \in Clerk, NEW c \in Contact, InsertContact(k, c) PROVE PartnerInv'
    BY <1>3, InsertContactKeeps
  <1>4. ASSUME NEW k \in Clerk, NEW a \in Address, InsertAddress(k, a) PROVE PartnerInv'
    BY <1>4, DoneKeeps DEF InsertAddress, ClerkDone
  <1>5. ASSUME NEW k \in Clerk, NEW r \in Request, InsertRequest(k, r) PROVE PartnerInv'
    BY <1>5, InsertRequestKeeps
  <1>6. ASSUME NEW k \in Clerk, Fulfil(k) \/ Reject(k) \/ Abandon(k) PROVE PartnerInv'
    <2>1. CASE Abandon(k)
      BY <2>1, DoneKeeps DEF Abandon, ClerkDone
    <2> QED BY <1>6, <2>1, FulfilKeeps, RejectKeeps
  <1>7. ASSUME NEW k \in Clerk, NEW w \in Owner, NEW t \in RequestType, StartRequest(k, w, t)
        PROVE  PartnerInv'
    BY <1>7, StartRequestKeeps
  <1>8. ASSUME NEW k \in Clerk, NEW r \in Request, NEW op \in {"fulfil", "reject"},
               StartAnswer(k, r, op)
        PROVE  PartnerInv'
    BY <1>8, StartAnswerKeeps
  <1>9. ASSUME NEW n \in Consent, NEW w \in Owner, NEW p \in Purpose,
               NEW a \in {"GRANT", "WITHDRAW"},
               NEW at \in 0 .. MaxTime, RecordConsent(n, w, p, a, at)
        PROVE  PartnerInv'
    BY <1>9, RecordConsentKeeps
  <1>10. CASE PartnerNext
    BY <1>10, <1>2, <1>3, <1>4, <1>5, <1>6, <1>7, <1>8, <1>9 DEF PartnerNext
  <1> QED BY <1>1, <1>10

LEMMA PartnerInvHolds == PartnerInv => PartnersHoldTogether
  <1> SUFFICES ASSUME PartnerInv PROVE PartnersHoldTogether
    OBVIOUS
  <1>1. ErasureIsDone
    BY DEF PartnerInv, SeenIsErased, ErasureIsDone
  <1> QED BY <1>1, TheLastWordHolds DEF PartnersHoldTogether, PartnerInv

-----------------------------------------------------------------------------
(* Master data: recipes (bills of materials). *)

BomRow == [item : Item, version : 1 .. MaxBomVersion, components : SUBSET Item, active : BOOLEAN]

\* A set of items that holds the components, and with a product what it is made
\* of by the versions vs, and not the product itself: following components
\* through vs never comes back.
Ends(i, components, vs) ==
  \E T \in SUBSET Item :
    /\ components \subseteq T /\ i \notin T
    /\ \A v \in vs : boms[v].item \in T => boms[v].components \subseteq T

\* What a check has looked at so far does not lead to the product but through
\* what it has still to look at.
Queued(check) == {q[1] : q \in check.queue}
Looked(check, kept) ==
  \E T \in SUBSET Item :
    /\ check.row.components \subseteq T \cup check.starts \cup Queued(check)
    /\ check.row.item \notin T /\ check.seen \subseteq T
    /\ \A v \in check.known :
         kept[v].item \in T => kept[v].components \subseteq T \cup Queued(check)

\* The record of a check, and what it is made of.
IsCheck(check) ==
  /\ check = [op |-> "create", row |-> check.row, starts |-> check.starts,
              queue |-> check.queue, seen |-> check.seen, known |-> check.known]
  /\ check.row \in BomRow /\ check.row.active = FALSE
  /\ check.starts \subseteq Item /\ Queued(check) \subseteq Item

PlannerReads(p) ==
  /\ job[p].op = "create" =>
       /\ IsCheck(job[p]) /\ job[p].known \subseteq Active /\ Looked(job[p], boms)
  /\ job[p].op = "activate" =>
       /\ job[p].bom \in Versions
       /\ job[p].current \subseteq OfItem(boms[job[p].bom].item)

BomTypes ==
  /\ boms \in [Bom -> BomRow \cup {NoBom}]
  /\ known = [b \in Bom |-> known[b]]
  /\ job = [p \in Planner |-> job[p]]
  /\ \A p \in Planner : PlannerReads(p)

AtMostOneActive == \A i \in Item : \A b, c \in ActiveFor(i) : b = c
OnceIsKept == \A i \in once : i \in Item /\ ActiveFor(i) # {}
VersionsEnd ==
  \A b \in Versions : known[b] \subseteq Versions
  /\ Ends(boms[b].item, boms[b].components, known[b])

BomInv == BomTypes /\ AtMostOneActive /\ OnceIsKept /\ VersionsEnd

(* The walk. *)

LEMMA VersionShapes ==
  ASSUME BomTypes
  PROVE  /\ NoBom \notin BomRow
         /\ \A b \in Versions : b \in Bom /\ boms[b] \in BomRow
  <1>1. \A x \in BomRow : x.item \in Item
    BY DEF BomRow
  <1>2. NoBom.item = "none"
    BY DEF NoBom
  <1>3. NoBom \notin BomRow
    BY <1>1, <1>2, ItemAssumption
  <1> QED BY <1>3 DEF BomTypes, Versions

LEMMA SubComponentsAreItems ==
  ASSUME BomTypes, NEW items
  PROVE  SubComponents(items) \subseteq Item
  <1>1. ASSUME NEW b \in UNION {ActiveFor(i) : i \in items}
        PROVE  boms[b].components \subseteq Item
    <2>1. b \in Versions
      BY DEF ActiveFor, OfItem
    <2> QED BY <2>1, VersionShapes DEF BomRow
  <1> QED BY <1>1 DEF SubComponents

\* What a check reads next is looked at, and what it is made of is to be looked at.
LEMMA WalkedOn ==
  ASSUME BomTypes, NEW check, IsCheck(check), check.known \subseteq Active, Looked(check, boms),
         NEW q \in Ahead(check), ~ GivesUp(check, q)
  PROVE  /\ IsCheck(Walked(check, q)) /\ Looked(Walked(check, q), boms)
         /\ Walked(check, q).known = check.known /\ Walked(check, q).op = "create"
  <1> DEFINE seen == {q[1]} \cup (IF check.queue = {} THEN {} ELSE check.seen)
             found == SubComponents({q[1]}) \X {q[2] + 1}
             starts == IF check.queue = {} THEN check.starts \ {q[1]} ELSE check.starts
             queue == {r \in check.queue \cup found : r[1] \notin seen}
             new == Walked(check, q)
  <1>1. new = [op |-> "create", row |-> check.row, starts |-> starts, queue |-> queue,
               seen |-> seen, known |-> check.known]
    <2>1. new = [check EXCEPT !.starts = starts, !.queue = queue, !.seen = seen]
      BY DEF Walked
    <2> HIDE DEF starts, queue, seen, new
    <2>2. PICK r0, st, qu, se, kn :
            check = [op |-> "create", row |-> r0, starts |-> st, queue |-> qu, seen |-> se,
                     known |-> kn]
      BY DEF IsCheck
    <2>3. check.row = r0 /\ check.known = kn
      BY <2>2
    <2>4. PICK s, u, e, x : s = starts /\ u = queue /\ e = seen /\ x = new
      OBVIOUS
    <2>5. PICK y : y = [check EXCEPT !.starts = s]
      OBVIOUS
    <2>6. PICK z : z = [y EXCEPT !.queue = u]
      OBVIOUS
    <2>7. y = [op |-> "create", row |-> r0, starts |-> s, queue |-> qu, seen |-> se,
               known |-> kn]
      BY ONLY <2>2, <2>5
    <2>8. z = [op |-> "create", row |-> r0, starts |-> s, queue |-> u, seen |-> se,
               known |-> kn]
      BY ONLY <2>6, <2>7
    <2>9. x = [z EXCEPT !.seen = e]
      BY <2>1, <2>4, <2>5, <2>6
    <2>10. x = [op |-> "create", row |-> r0, starts |-> s, queue |-> u, seen |-> e,
                known |-> kn]
      BY ONLY <2>8, <2>9
    <2>11. x = [op |-> "create", row |-> check.row, starts |-> s, queue |-> u, seen |-> e,
                known |-> check.known]
      BY ONLY <2>3, <2>10
    <2> QED BY ONLY <2>4, <2>11
  <1>2. q[1] \in Item
    <2>1. CASE check.queue = {}
      BY <2>1 DEF Ahead, IsCheck
    <2>2. CASE check.queue # {}
      BY <2>2 DEF Ahead, IsCheck, Queued
    <2> QED BY <2>1, <2>2
  <1>3. /\ \A c \in SubComponents({q[1]}) : c \in Item /\ <<c, q[2] + 1>> \in found
        /\ \A r \in found : r[1] \in Item
    BY SubComponentsAreItems
  <1> HIDE DEF found
  <1>4. PICK T \in SUBSET Item :
          /\ check.row.components \subseteq T \cup check.starts \cup Queued(check)
          /\ check.row.item \notin T /\ check.seen \subseteq T
          /\ \A v \in check.known :
               boms[v].item \in T => boms[v].components \subseteq T \cup Queued(check)
    BY DEF Looked
  <1> DEFINE U == T \cup {q[1]}
             queued == {r[1] : r \in queue}
  <1>5. seen \subseteq U /\ U \in SUBSET Item /\ check.row.item \notin U
    BY <1>2, <1>4 DEF GivesUp
  <1>6. Queued(check) \subseteq U \cup queued
    <2>1. ASSUME NEW r \in check.queue PROVE r[1] \in U \cup queued
      BY <1>5
    <2> QED BY <2>1 DEF Queued
  <1>7. SubComponents({q[1]}) \subseteq U \cup queued
    <2>1. ASSUME NEW c \in SubComponents({q[1]}) PROVE c \in U \cup queued
      <3>1. PICK r \in found : r[1] = c
        BY <1>3
      <3>2. r[1] \in seen \/ r \in queue
        BY <3>1
      <3> QED BY <1>5, <3>1, <3>2
    <2> QED BY <2>1
  <1>8. queued \subseteq Item
    BY <1>3 DEF IsCheck, Queued
  <1>9. check.row.components \subseteq U \cup starts \cup queued
    BY <1>4, <1>6
  <1> HIDE DEF queued
  <1>10. ASSUME NEW v \in check.known, boms[v].item \in U
         PROVE  boms[v].components \subseteq U \cup queued
    <2>1. CASE boms[v].item \in T
      BY <1>4, <1>6, <2>1
    <2>2. CASE boms[v].item = q[1]
      <3>1. v \in ActiveFor(q[1])
        BY <2>2 DEF Active, ActiveFor, OfItem
      <3>2. boms[v].components \subseteq SubComponents({q[1]})
        BY <3>1 DEF SubComponents
      <3> QED BY <1>7, <3>2
    <2> QED BY <1>10, <2>1, <2>2
  <1> HIDE DEF U, seen, starts, queue, new
  <1>11. /\ new.op = "create" /\ new.row = check.row /\ new.starts = starts
         /\ new.queue = queue /\ new.seen = seen /\ new.known = check.known
    BY <1>1
  <1>12. Queued(new) = queued
    BY <1>11 DEF Queued, queued
  <1>13. starts \subseteq Item
    BY DEF IsCheck, starts
  <1>14. IsCheck(new)
    BY <1>1, <1>8, <1>11, <1>12, <1>13 DEF IsCheck
  <1>15. Looked(new, boms)
    BY <1>5, <1>9, <1>10, <1>11, <1>12 DEF Looked
  <1> QED BY <1>11, <1>14, <1>15 DEF new

\* A check that has nothing left to look at has found that the version ends,
\* through the versions that were active throughout.
LEMMA CheckedEnds ==
  ASSUME NEW check, Looked(check, boms), check.starts = {}, check.queue = {}
  PROVE  Ends(check.row.item, check.row.components, check.known)
  BY DEF Looked, Queued, Ends

\* And what ends is found to end by following the components.
LEMMA EndsIsChecked == BomInv => CheckedRecipesEnd
  <1> SUFFICES ASSUME BomInv, NEW b \in Versions PROVE boms[b].item \notin MadeFrom(b)
    BY DEF CheckedRecipesEnd
  <1> DEFINE N == Cardinality(Item)
             Made(items) ==
               items \cup UNION {boms[v].components : v \in {v \in known[b] : boms[v].item \in items}}
             first == boms[b].components
             IsTable(f) == f = [n \in 0 .. N |-> IF n = 0 THEN first ELSE Made(f[n - 1])]
  <1>1. PICK T \in SUBSET Item :
          /\ first \subseteq T /\ boms[b].item \notin T
          /\ \A v \in known[b] : boms[v].item \in T => boms[v].components \subseteq T
    BY DEF BomInv, VersionsEnd, Ends
  <1> DEFINE X == SUBSET T
             G == [n \in 1 .. N |-> [items \in X |-> Made(items)]]
  <1>2. N \in Nat
    BY ItemAssumption, FS_CardinalityType
  <1>3. MadeFrom(b) = (CHOOSE f : IsTable(f))[N]
    BY DEF MadeFrom
  <1>4. \A items \in X : Made(items) \in X
    BY <1>1
  <1>5. first \in X
    BY <1>1
  <1> HIDE DEF N, Made, first
  <1>6. \A n \in 1 .. N : \A items \in X : G[n][items] = Made(items)
    OBVIOUS
  <1>7. StepsStayIn(G, N, X)
    <2> HIDE DEF G
    <2> QED BY <1>4, <1>6 DEF StepsStayIn
  <1> HIDE DEF G, X
  <1>8. PICK h : IsChain(h, first, G, N, X)
    BY <1>2, <1>5, <1>7, ChainExists
  <1>9. h \in [0 .. N -> X] /\ h[0] = first /\ \A n \in 1 .. N : h[n] = G[n][h[n - 1]]
    BY <1>8 DEF IsChain
  <1>10. \A n \in 1 .. N : h[n - 1] \in X
    BY <1>2, <1>9
  <1>11. \A n \in 1 .. N : h[n] = Made(h[n - 1])
    BY <1>6, <1>9, <1>10
  <1>12. \A n \in 0 .. N : h[n] = IF n = 0 THEN first ELSE Made(h[n - 1])
    BY <1>2, <1>9, <1>11
  <1>13. IsTable(h)
    BY <1>9, <1>12
  <1> DEFINE reach == CHOOSE f : IsTable(f)
  <1>14. IsTable(reach)
    <2> HIDE DEF IsTable
    <2> QED BY <1>13
  <1> HIDE DEF reach
  <1>15. reach[0] = first /\ \A n \in 1 .. N : reach[n] = Made(reach[n - 1])
    BY <1>2, <1>14
  <1> DEFINE P == {n \in 0 .. N : reach[n] \in X}
  <1>16. 0 .. N \subseteq P
    <2>1. 0 \in P
      BY <1>2, <1>5, <1>15
    <2>2. \A n \in 1 .. N : n - 1 \in P => n \in P
      BY <1>2, <1>4, <1>15
    <2> HIDE DEF P
    <2> QED BY <1>2, <2>1, <2>2, IntervalInduction
  <1>17. reach[N] \subseteq T
    BY <1>2, <1>16 DEF X
  <1> QED BY <1>1, <1>3, <1>17 DEF reach

LEMMA OneRecipeHolds == BomInv => OneRecipe
  <1> SUFFICES ASSUME BomInv, NEW i \in once PROVE Cardinality(ActiveFor(i)) = 1
    BY DEF OneRecipe
  <1>1. PICK b \in ActiveFor(i) : TRUE
    BY DEF BomInv, OnceIsKept
  <1>2. ActiveFor(i) = {b}
    BY <1>1 DEF BomInv, OnceIsKept, AtMostOneActive
  <1> QED BY <1>2, FS_Singleton

(* The steps. *)

LEMMA BomStarts == BomInit => BomInv
  <1> SUFFICES ASSUME BomInit PROVE BomInv
    OBVIOUS
  <1>1. Versions = {} /\ \A i \in Item : ActiveFor(i) = {}
    BY DEF BomInit, Versions, OfItem, ActiveFor
  <1>2. \A p \in Planner : job[p].op = "none"
    BY DEF BomInit, NoJob
  <1>3. BomTypes
    BY <1>2 DEF BomInit, BomTypes, PlannerReads
  <1> QED BY <1>1, <1>3 DEF BomInv, AtMostOneActive, OnceIsKept, VersionsEnd, BomInit

\* Rows stay, and what a row is made of never changes.
RowsStay ==
  \A v \in Versions : /\ v \in Versions' /\ boms'[v].item = boms[v].item
                      /\ boms'[v].components = boms[v].components

LEMMA EndsStays ==
  ASSUME RowsStay, NEW i, NEW components, NEW vs, vs \subseteq Versions, Ends(i, components, vs)
  PROVE  Ends(i, components, vs)'
  BY DEF RowsStay, Ends

\* A planner's job stays, but that a check hears of retired versions.
LEMMA ReadsStay ==
  ASSUME RowsStay, BomTypes, NEW p \in Planner, NEW still, PlannerReads(p),
         job'[p] = job[p] \/ job'[p] = Retiring(job[p], still),
         job'[p].op = "create" => job'[p].known \subseteq Active'
  PROVE  PlannerReads(p)'
  <1>1. \A i : OfItem(i) \subseteq OfItem(i)'
    BY DEF RowsStay, OfItem
  <1>2. job[p].op # "create" => job'[p] = job[p]
    BY DEF Retiring
  <1>3. ASSUME job[p].op = "create"
        PROVE  job'[p].op = "create" /\ IsCheck(job'[p]) /\ Looked(job'[p], boms')
    <2>1. PICK old, new : old = job[p] /\ new = job'[p]
      OBVIOUS
    <2>2. IsCheck(old) /\ Looked(old, boms) /\ old.op = "create" /\ old.known \subseteq Versions
      BY <1>3, <2>1 DEF PlannerReads, Active
    <2>3. PICK vs : vs \subseteq old.known
            /\ new = [op |-> "create", row |-> old.row, starts |-> old.starts,
                      queue |-> old.queue, seen |-> old.seen, known |-> vs]
      <3>1. CASE new = old
        BY <2>2, <3>1 DEF IsCheck
      <3>2. CASE new = [old EXCEPT !.known = @ \cap still]
        <4>1. new = [op |-> "create", row |-> old.row, starts |-> old.starts,
                     queue |-> old.queue, seen |-> old.seen, known |-> old.known \cap still]
          BY <2>2, <3>2 DEF IsCheck
        <4>2. old.known \cap still \subseteq old.known
          OBVIOUS
        <4> QED BY <4>1, <4>2
      <3> QED BY <2>1, <2>2, <3>1, <3>2 DEF Retiring
    <2>4. /\ new.op = "create" /\ new.row = old.row /\ new.starts = old.starts
          /\ new.queue = old.queue /\ new.seen = old.seen /\ new.known = vs
      BY <2>3
    <2>5. IsCheck(new) /\ Queued(new) = Queued(old)
      BY <2>2, <2>3, <2>4 DEF IsCheck, Queued
    <2>6. PICK T \in SUBSET Item :
            /\ old.row.components \subseteq T \cup old.starts \cup Queued(old)
            /\ old.row.item \notin T /\ old.seen \subseteq T
            /\ \A v \in old.known :
                 boms[v].item \in T => boms[v].components \subseteq T \cup Queued(old)
      BY <2>2 DEF Looked
    <2>7. \A v \in vs : boms'[v].item \in T => boms'[v].components \subseteq T \cup Queued(new)
      BY <2>2, <2>3, <2>5, <2>6 DEF RowsStay
    <2>8. Looked(new, boms')
      BY <2>4, <2>5, <2>6, <2>7 DEF Looked, Queued
    <2> QED BY <2>1, <2>4, <2>5, <2>8 DEF Looked, Queued
  <1>4. ASSUME job[p].op = "activate"
        PROVE  (job[p].bom \in Versions /\ job[p].current \subseteq OfItem(boms[job[p].bom].item))'
    <2>1. job[p].bom \in Versions /\ job[p].current \subseteq OfItem(boms[job[p].bom].item)
          /\ job'[p] = job[p]
      BY <1>2, <1>4 DEF PlannerReads
    <2>2. boms'[job[p].bom].item = boms[job[p].bom].item
      BY <2>1 DEF RowsStay
    <2> QED BY <1>1, <2>1, <2>2 DEF RowsStay, OfItem
  <1>5. CASE job[p].op = "create"
    BY <1>3, <1>5 DEF PlannerReads, IsCheck, Queued
  <1>6. CASE job[p].op # "create"
    BY <1>2, <1>4, <1>6 DEF PlannerReads, OfItem
  <1> QED BY <1>5, <1>6

LEMMA KnownStays ==
  ASSUME RowsStay, BomInv, NEW b \in Versions, known'[b] = known[b]
  PROVE  known'[b] \subseteq Versions' /\ Ends(boms[b].item, boms[b].components, known[b])'
  <1>1. known[b] \subseteq Versions /\ Ends(boms[b].item, boms[b].components, known[b])
    BY DEF BomInv, VersionsEnd
  <1>2. PICK i, components, vs : i = boms[b].item /\ components = boms[b].components
             /\ vs = known[b]
    OBVIOUS
  <1>3. Ends(i, components, vs)'
    BY <1>1, <1>2, EndsStays
  <1>4. i = boms'[b].item /\ components = boms'[b].components
    BY <1>2 DEF RowsStay
  <1> QED BY <1>1, <1>2, <1>3, <1>4 DEF RowsStay, Ends

\* Only the jobs move.
LEMMA JobsMove ==
  ASSUME BomInv, UNCHANGED <<boms, known, once>>, job' = [p \in Planner |-> job'[p]],
         \A p \in Planner : job'[p] # job[p] => PlannerReads(p)'
  PROVE  BomInv'
  <1>1. RowsStay /\ Versions' = Versions /\ Active' = Active
    BY DEF RowsStay, Versions, Active
  <1>2. \A p \in Planner : PlannerReads(p)'
    <2> SUFFICES ASSUME NEW p \in Planner, job'[p] = job[p] PROVE PlannerReads(p)'
      OBVIOUS
    <2>1. BomTypes /\ PlannerReads(p) /\ (job'[p].op = "create" => job'[p].known \subseteq Active')
      BY <1>1 DEF BomInv, BomTypes, PlannerReads
    <2> QED BY <1>1, <2>1, ReadsStay
  <1>3. BomTypes'
    BY <1>2 DEF BomInv, BomTypes
  <1>4. \A i : ActiveFor(i)' = ActiveFor(i)
    BY <1>1 DEF ActiveFor, OfItem
  <1>5. VersionsEnd'
    BY <1>1 DEF BomInv, VersionsEnd, Ends
  <1> QED BY <1>3, <1>4, <1>5 DEF BomInv, AtMostOneActive, OnceIsKept

LEMMA JobSet ==
  ASSUME BomTypes, NEW p \in Planner, NEW new, job' = [job EXCEPT ![p] = new]
  PROVE  /\ job' = [q \in Planner |-> job'[q]] /\ job'[p] = new
         /\ \A q \in Planner : q # p => job'[q] = job[q]
  BY DEF BomTypes

LEMMA StartBomKeeps ==
  ASSUME BomInv, NEW p \in Planner, NEW i \in Item, NEW components \in SUBSET Item, NEW version,
         StartBom(p, i, version, components)
  PROVE  BomInv'
  <1> DEFINE new == [op |-> "create", row |-> NewVersion(i, version, components),
                     starts |-> components, queue |-> {}, seen |-> {}, known |-> Active]
  <1>1. job' = [job EXCEPT ![p] = new] /\ UNCHANGED <<boms, known, once>> /\ BomTypes
        /\ version \in 1 .. MaxBomVersion
    BY DEF StartBom, BomInv
  <1>2. new.row \in BomRow /\ new.row.active = FALSE /\ new.row.components = components
    BY <1>1 DEF NewVersion, BomRow
  <1>3. IsCheck(new)
    BY <1>2 DEF IsCheck, Queued
  <1>4. new.op = "create" /\ new.known = Active /\ Active' = Active
    BY <1>1 DEF Active, Versions
  <1>5. Looked(new, boms')
    <2>1. new.starts = components /\ new.seen = {}
      OBVIOUS
    <2> HIDE DEF new
    <2> SUFFICES /\ new.row.components \subseteq {} \cup new.starts \cup Queued(new)
                 /\ new.row.item \notin {} /\ new.seen \subseteq {}
                 /\ \A v \in new.known :
                      boms'[v].item \in {} => boms'[v].components \subseteq {} \cup Queued(new)
      BY DEF Looked
    <2> QED BY <1>2, <2>1
  <1> HIDE DEF new
  <1>6. job'[p] = new
    BY <1>1, JobSet
  <1>7. PlannerReads(p)'
    BY <1>3, <1>4, <1>5, <1>6 DEF PlannerReads, Looked, IsCheck, Queued
  <1> QED BY <1>1, <1>7, JobSet, JobsMove

LEMMA ReadComponentKeeps ==
  ASSUME BomInv, NEW p \in Planner, ReadComponent(p)
  PROVE  BomInv'
  <1>1. PICK check, q : check = job[p] /\ q \in Ahead(check)
          /\ job' = [job EXCEPT ![p] = IF GivesUp(check, q) THEN NoJob ELSE Walked(check, q)]
    BY DEF ReadComponent, BomInv, BomTypes
  <1>2. job[p].op = "create" /\ UNCHANGED <<boms, known, once>> /\ BomTypes
    BY DEF ReadComponent, BomInv
  <1>3. IsCheck(check) /\ check.known \subseteq Active /\ Looked(check, boms)
    BY <1>1, <1>2 DEF BomTypes, PlannerReads
  <1>4. Active' = Active
    BY <1>2 DEF Active, Versions
  <1>5. PlannerReads(p)'
    <2>1. CASE GivesUp(check, q)
      <3>1. job'[p] = NoJob
        BY <1>1, <1>2, <2>1, JobSet
      <3> QED BY <3>1 DEF PlannerReads, NoJob
    <2>2. CASE ~ GivesUp(check, q)
      <3>1. PICK new : new = Walked(check, q)
        OBVIOUS
      <3>2. /\ IsCheck(new) /\ Looked(new, boms)
            /\ new.known = check.known /\ new.op = "create"
        BY <1>1, <1>2, <1>3, <2>2, <3>1, WalkedOn
      <3>3. job'[p] = new
        BY <1>1, <1>2, <2>2, <3>1, JobSet
      <3>4. Looked(new, boms')
        BY <1>2, <3>2 DEF Looked, Queued
      <3> QED BY <1>3, <1>4, <3>2, <3>3, <3>4 DEF PlannerReads, Looked, IsCheck, Queued
    <2> QED BY <2>1, <2>2
  <1>6. PICK new : job' = [job EXCEPT ![p] = new]
    BY <1>1
  <1> QED BY <1>2, <1>5, <1>6, JobSet, JobsMove

LEMMA StartActivationKeeps ==
  ASSUME BomInv, NEW p \in Planner, NEW b \in Bom, StartActivation(p, b)
  PROVE  BomInv'
  <1> DEFINE new == [op |-> "activate", bom |-> b, current |-> ActiveFor(boms[b].item)]
  <1>1. job' = [job EXCEPT ![p] = new] /\ UNCHANGED <<boms, known, once>> /\ BomTypes
        /\ b \in Versions
    BY DEF StartActivation, BomInv
  <1>2. new.op = "activate" /\ new.bom = b /\ new.current = ActiveFor(boms[b].item)
    OBVIOUS
  <1> HIDE DEF new
  <1>3. Versions' = Versions /\ \A i : OfItem(i)' = OfItem(i)
    BY <1>1 DEF Versions, OfItem
  <1>4. ActiveFor(boms[b].item) \subseteq OfItem(boms[b].item)
    BY DEF ActiveFor
  <1>5. job'[p] = new
    BY <1>1, JobSet
  <1>6. PlannerReads(p)'
    BY <1>1, <1>2, <1>3, <1>4, <1>5 DEF PlannerReads
  <1> QED BY <1>1, <1>6, JobSet, JobsMove

LEMMA CreateBomKeeps ==
  ASSUME BomInv, NEW p \in Planner, NEW b \in Bom, CreateBom(p, b)
  PROVE  BomInv'
  <1>1. /\ BomTypes /\ job' = [job EXCEPT ![p] = NoJob] /\ once' = once /\ boms[b] = NoBom
        /\ job[p].op = "create" /\ job[p].starts = {} /\ job[p].queue = {}
    BY DEF CreateBom, BomInv
  <1>2. PICK new, seen : new = job[p].row /\ seen = job[p].known
    OBVIOUS
  <1>3. new \in BomRow /\ new.active = FALSE /\ seen \subseteq Versions
        /\ Ends(new.item, new.components, seen)
    <2>1. PICK check : check = job[p]
      OBVIOUS
    <2>2. IsCheck(check) /\ check.known \subseteq Versions /\ Looked(check, boms)
          /\ check.starts = {} /\ check.queue = {}
      BY <1>1, <2>1 DEF BomTypes, PlannerReads, Active
    <2> QED BY <1>2, <2>1, <2>2, CheckedEnds DEF IsCheck
  <1>4. \/ boms' = [boms EXCEPT ![b] = @] /\ known' = [known EXCEPT ![b] = @]
        \/ boms' = [boms EXCEPT ![b] = new] /\ known' = [known EXCEPT ![b] = seen]
    BY <1>2 DEF CreateBom
  <1>5. NoJob.op = "none"
    BY DEF NoJob
  <1>6. \A q \in Planner : job'[q] = job[q] \/ job'[q] = NoJob
    BY <1>1, JobSet
  <1>7. CASE boms' = [boms EXCEPT ![b] = @] /\ known' = [known EXCEPT ![b] = @]
    <2>1. boms' = boms /\ known' = known
      BY <1>1, <1>7 DEF BomTypes
    <2>2. \A q \in Planner : job'[q] # job[q] => PlannerReads(q)'
      BY <1>5, <1>6 DEF PlannerReads
    <2> QED BY <1>1, <2>1, <2>2, JobSet, JobsMove
  <1>8. CASE boms' = [boms EXCEPT ![b] = new] /\ known' = [known EXCEPT ![b] = seen]
    <2>1. /\ boms' \in [Bom -> BomRow \cup {NoBom}] /\ boms'[b] = new
          /\ \A v \in Bom \ {b} : boms'[v] = boms[v]
          /\ known' = [v \in Bom |-> known'[v]] /\ known'[b] = seen
          /\ \A v \in Bom \ {b} : known'[v] = known[v]
      BY <1>1, <1>3, <1>8 DEF BomTypes
    <2>2. b \notin Versions /\ b \in Versions' /\ Versions \subseteq Bom
      BY <1>1, <1>3, <2>1, VersionShapes DEF Versions, BomTypes
    <2>3. \A v \in Versions' : v = b \/ v \in Versions
      BY <1>1, <2>1 DEF Versions, BomTypes
    <2>4. \A v \in Versions : v \in Versions' /\ boms'[v] = boms[v] /\ known'[v] = known[v]
      BY <2>1, <2>2 DEF Versions
    <2>5. RowsStay
      BY <2>4 DEF RowsStay
    <2>6. \A q \in Planner : PlannerReads(q)'
      <3>1. \A q \in Planner : job'[q] = NoJob => PlannerReads(q)'
        BY <1>5 DEF PlannerReads
      <3>2. Active \subseteq Active'
        BY <2>4 DEF Active
      <3>3. ASSUME NEW q \in Planner, job'[q] = job[q] PROVE PlannerReads(q)'
        <4>1. PlannerReads(q) /\ (job'[q].op = "create" => job'[q].known \subseteq Active')
          BY <1>1, <3>2, <3>3 DEF BomTypes, PlannerReads
        <4> QED BY <1>1, <2>5, <3>3, <4>1, ReadsStay
      <3> QED BY <1>6, <3>1, <3>3
    <2>7. BomTypes'
      BY <1>1, <2>1, <2>6, JobSet DEF BomTypes
    <2>8. \A i : ActiveFor(i)' = ActiveFor(i)
      BY <1>3, <2>1, <2>2, <2>3, <2>4 DEF ActiveFor, OfItem
    <2>9. VersionsEnd'
      <3>1. Ends(new.item, new.components, seen)'
        BY <1>3, <2>5, EndsStays
      <3>2. known'[b] \subseteq Versions' /\ Ends(boms[b].item, boms[b].components, known[b])'
        BY <1>3, <2>1, <2>4, <3>1 DEF Ends
      <3>3. \A v \in Versions : known'[v] \subseteq Versions'
            /\ Ends(boms[v].item, boms[v].components, known[v])'
        BY <2>4, <2>5, KnownStays
      <3> QED BY <2>3, <3>2, <3>3 DEF VersionsEnd
    <2> QED BY <1>1, <2>7, <2>8, <2>9 DEF BomInv, AtMostOneActive, OnceIsKept
  <1> QED BY <1>4, <1>7, <1>8

LEMMA SwitchedShape ==
  ASSUME BomTypes, NEW v \in Versions, NEW on \in BOOLEAN
  PROVE  /\ Switched(v, on) \in BomRow /\ Switched(v, on).item = boms[v].item
         /\ Switched(v, on).components = boms[v].components /\ Switched(v, on).active = on
  <1>1. boms[v] \in BomRow
    BY VersionShapes
  <1>2. Switched(v, on) \in BomRow
    BY <1>1 DEF Switched, BomRow
  <1>3. Switched(v, on).item = boms[v].item /\ Switched(v, on).components = boms[v].components
    BY <1>1 DEF Switched, BomRow
  <1>4. Switched(v, on).active = on
    BY <1>1 DEF Switched, BomRow
  <1> QED BY <1>2, <1>3, <1>4

\* Activating one version and retiring those that were active, where none but it
\* stays active for its product.
LEMMA ActivateBomKeeps ==
  ASSUME BomInv, NEW p \in Planner, ActivateBom(p)
  PROVE  BomInv'
  <1> DEFINE active == {v \in Versions : boms'[v].active}
  <1>1. /\ BomTypes /\ known' = known /\ job[p].op = "activate"
        /\ job' = [q \in Planner |-> IF q = p THEN NoJob ELSE Retiring(job[q], active)]
    BY DEF ActivateBom, BomInv
  <1>2. PICK b, current : b = job[p].bom /\ current = job[p].current
    OBVIOUS
  <1>3. b \in Versions /\ current \subseteq OfItem(boms[b].item) /\ current \subseteq Versions
    BY <1>1, <1>2 DEF BomTypes, PlannerReads, OfItem
  <1> DEFINE after == [v \in Bom |-> IF v = b THEN Switched(v, TRUE)
                                     ELSE IF v \in current THEN Switched(v, FALSE) ELSE boms[v]]
  <1>4. /\ \/ boms' = boms
           \/ boms' = after /\ \A v \in OfItem(boms[b].item) \ {b} : ~ after[v].active
        /\ once' = once \cup {boms[v].item : v \in {v \in Versions : boms'[v].active}}
    BY <1>2 DEF ActivateBom, Swap
  <1>5. NoJob.op = "none"
    BY DEF NoJob
  <1>6. \A q \in Planner : job'[q] = Retiring(job[q], active) \/ job'[q] = NoJob
    BY <1>1
  <1>7. /\ boms' \in [Bom -> BomRow \cup {NoBom}] /\ Versions' = Versions
        /\ \A v \in Versions : boms'[v].item = boms[v].item
            /\ boms'[v].components = boms[v].components
    <2>1. CASE boms' = boms
      BY <1>1, <2>1 DEF BomTypes, Versions
    <2>2. CASE boms' = after
      <3>1. \A v \in Bom : boms'[v] = boms[v]
            \/ (v \in Versions /\ \E on \in BOOLEAN : boms'[v] = Switched(v, on))
        BY <1>3, <2>2
      <3>2. \A v \in Bom : boms'[v] \in BomRow \cup {NoBom}
        BY <1>1, <3>1, SwitchedShape DEF BomTypes
      <3>3. boms' \in [Bom -> BomRow \cup {NoBom}]
        <4>1. boms' = [v \in Bom |-> boms'[v]]
          BY <2>2
        <4> HIDE DEF after
        <4> QED BY <3>2, <4>1
      <3>4. \A v \in Versions : v \in Bom /\ boms'[v] # NoBom /\ boms'[v].item = boms[v].item
                                 /\ boms'[v].components = boms[v].components
        BY <1>1, <3>1, SwitchedShape, VersionShapes
      <3>5. Versions' = Versions
        BY <1>1, <3>1, <3>3, <3>4 DEF Versions, BomTypes
      <3> QED BY <3>3, <3>4, <3>5
    <2> QED BY <1>4, <2>1, <2>2
  <1>8. RowsStay
    BY <1>7 DEF RowsStay
  <1>9. \A q \in Planner : PlannerReads(q)'
    <2>1. \A q \in Planner : job'[q] = NoJob => PlannerReads(q)'
      BY <1>5 DEF PlannerReads
    <2>2. active = Active'
      BY <1>7 DEF Active
    <2>3. ASSUME NEW q \in Planner, job'[q] = Retiring(job[q], active) PROVE PlannerReads(q)'
      <3>1. PlannerReads(q)
        BY <1>1 DEF BomTypes
      <3>2. job'[q].op = "create" => job'[q].known \subseteq Active'
        <4>1. CASE job[q].op = "create"
          <5>1. IsCheck(job[q])
            BY <3>1, <4>1 DEF PlannerReads
          <5>2. PICK old : old = job[q]
            OBVIOUS
          <5>3. /\ job'[q] = [old EXCEPT !.known = @ \cap active]
                /\ old = [op |-> "create", row |-> old.row, starts |-> old.starts,
                          queue |-> old.queue, seen |-> old.seen, known |-> old.known]
            BY <2>3, <4>1, <5>1, <5>2 DEF Retiring, IsCheck
          <5>4. job'[q].known = old.known \cap active
            BY <5>3
          <5> QED BY <2>2, <5>4
        <4>2. CASE job[q].op # "create"
          BY <2>3, <4>2 DEF Retiring
        <4> QED BY <4>1, <4>2
      <3> HIDE DEF active
      <3> QED BY <1>1, <1>8, <2>3, <3>1, <3>2, ReadsStay
    <2> QED BY <1>6, <2>1, <2>3
  <1>10. BomTypes'
    <2>1. job' = [q \in Planner |-> job'[q]]
      BY <1>1
    <2> QED BY <1>1, <1>7, <1>9, <2>1 DEF BomTypes
  <1>11. VersionsEnd'
    <2>1. \A v \in Versions : known'[v] \subseteq Versions'
          /\ Ends(boms[v].item, boms[v].components, known[v])'
      BY <1>1, <1>8, KnownStays
    <2> QED BY <1>7, <2>1 DEF VersionsEnd
  <1>12. AtMostOneActive' /\ \A i \in Item : ActiveFor(i) # {} => ActiveFor(i)' # {}
    <2>1. CASE boms' = boms
      <3>1. \A i : ActiveFor(i)' = ActiveFor(i)
        BY <2>1 DEF ActiveFor, OfItem, Versions
      <3> QED BY <3>1 DEF BomInv, AtMostOneActive
    <2>2. CASE boms' = after /\ \A v \in OfItem(boms[b].item) \ {b} : ~ after[v].active
      <3>1. ASSUME NEW i \in Item, i # boms[b].item PROVE ActiveFor(i)' = ActiveFor(i)
        <4>1. \A v \in Versions : boms[v].item = i => v # b /\ v \notin current
          BY <1>3, <3>1 DEF OfItem
        <4>2. \A v \in Versions : boms[v].item = i => boms'[v] = boms[v]
          BY <1>1, <2>2, <4>1, VersionShapes
        <4> QED BY <1>7, <4>2 DEF ActiveFor, OfItem
      <3>3. PICK j : j = boms[b].item
        OBVIOUS
      <3>4. ActiveFor(j)' = {b}
        <4>1. b \in Bom /\ boms'[b].active = TRUE
          BY <1>1, <1>3, <2>2, SwitchedShape, VersionShapes
        <4>3. \A v \in OfItem(j) \ {b} : ~ boms'[v].active
          <5>1. \A v \in OfItem(j) : v \in Bom
            BY <1>1, VersionShapes DEF OfItem
          <5> QED BY <2>2, <3>3, <5>1
        <4>4. OfItem(j)' = OfItem(j) /\ b \in OfItem(j)
          BY <1>3, <1>7, <3>3 DEF OfItem
        <4> QED BY <4>1, <4>3, <4>4 DEF ActiveFor
      <3> HIDE DEF after
      <3> QED BY <3>1, <3>3, <3>4 DEF BomInv, AtMostOneActive
    <2> HIDE DEF after
    <2> QED BY <1>4, <2>1, <2>2
  <1> HIDE DEF after
  <1>13. OnceIsKept'
    <2> SUFFICES ASSUME NEW i \in once' PROVE i \in Item /\ ActiveFor(i)' # {}
      BY DEF OnceIsKept
    <2>1. CASE i \in once
      BY <1>12, <2>1 DEF BomInv, OnceIsKept
    <2>2. CASE \E v \in Versions : boms'[v].active /\ i = boms[v].item
      <3>1. PICK v \in Versions : boms'[v].active /\ i = boms[v].item
        BY <2>2
      <3>2. v \in ActiveFor(i)'
        BY <1>7, <3>1 DEF ActiveFor, OfItem
      <3> QED BY <3>1, <3>2, <1>1, VersionShapes DEF BomRow
    <2> QED BY <1>4, <2>1, <2>2
  <1> QED BY <1>10, <1>11, <1>12, <1>13 DEF BomInv

LEMMA BomStep == BomInv /\ [BomNext]_bomVars => BomInv'
  <1> SUFFICES ASSUME BomInv, [BomNext]_bomVars PROVE BomInv'
    OBVIOUS
  <1>1. CASE UNCHANGED bomVars
    <2>1. job' = [p \in Planner |-> job'[p]]
      BY <1>1 DEF bomVars, BomInv, BomTypes
    <2> QED BY <1>1, <2>1, JobsMove DEF bomVars
  <1>2. CASE BomNext
    BY <1>2, StartBomKeeps, ReadComponentKeeps, CreateBomKeeps, StartActivationKeeps,
       ActivateBomKeeps DEF BomNext
  <1> QED BY <1>1, <1>2

LEMMA BomInvHolds == BomInv => RecipesHoldTogether
  BY OneRecipeHolds, EndsIsChecked DEF RecipesHoldTogether

-----------------------------------------------------------------------------
(* Master data: price lists. *)

ListRow == [customer : Customer \cup {AnyCustomer}, currency : Currencies,
            from : 0 .. MaxDate, to : 0 .. MaxDate]
LineRow == [list : Code, tier : 1 .. MaxTier, price : 0 .. MaxPrice]

PricerReads(p) ==
  /\ entry[p].op = "list" => entry[p].code \in Code /\ entry[p].row \in ListRow
  /\ entry[p].op = "line" => entry[p].row \in LineRow /\ entry[p].row.list \in Lists

PriceTypes ==
  /\ lists \in [Code -> ListRow \cup {NoList}]
  /\ prices \in [Line -> LineRow \cup {NoLine}]
  /\ entry = [p \in Pricer |-> entry[p]]
  /\ \A p \in Pricer : PricerReads(p)

LinesAreOfLists == \A n \in Lines : prices[n].list \in Lists

PriceInv == PriceTypes /\ LinesAreOfLists

LEMMA PriceShapes ==
  PriceInv =>
    /\ NoList \notin ListRow /\ NoLine \notin LineRow
    /\ \A l \in Lists : l \in Code /\ lists[l] \in ListRow
    /\ \A n \in Lines : n \in Line /\ prices[n] \in LineRow /\ prices[n].list \in Lists
  <1> SUFFICES ASSUME PriceInv
      PROVE  /\ NoList \notin ListRow /\ NoLine \notin LineRow
             /\ \A l \in Lists : l \in Code /\ lists[l] \in ListRow
             /\ \A n \in Lines : n \in Line /\ prices[n] \in LineRow /\ prices[n].list \in Lists
    OBVIOUS
  <1>1. \A x \in ListRow : x.customer \in Customer \cup {AnyCustomer}
    BY DEF ListRow
  <1>2. NoList.customer = "none" /\ "none" \notin Customer \cup {AnyCustomer}
    BY CustomerAssumption DEF NoList, AnyCustomer
  <1>3. \A x \in LineRow : x.list \in Nat
    BY KeysAssumption DEF LineRow
  <1>4. NoLine.list = -1
    BY DEF NoLine
  <1>5. NoList \notin ListRow /\ NoLine \notin LineRow
    BY <1>1, <1>2, <1>3, <1>4
  <1> QED BY <1>5 DEF PriceInv, PriceTypes, LinesAreOfLists, Lists, Lines

\* The five things a line is compared by, the first that tells them apart last.
From(n) == lists[prices[n].list].from
Beats(m, n) ==
  \/ Scope(m) < Scope(n)
  \/ /\ Scope(m) = Scope(n)
     /\ \/ prices[m].tier > prices[n].tier
        \/ /\ prices[m].tier = prices[n].tier
           /\ \/ From(m) > From(n)
              \/ /\ From(m) = From(n)
                 /\ \/ prices[m].list < prices[n].list
                    \/ prices[m].list = prices[n].list /\ m < n

LEMMA KeysAreNumbers ==
  PriceInv => \A n \in Lines : /\ Scope(n) \in {0, 1} /\ prices[n].tier \in Int
                               /\ From(n) \in Int /\ prices[n].list \in Int /\ n \in Int
  <1> SUFFICES ASSUME PriceInv, NEW n \in Lines
      PROVE  /\ Scope(n) \in {0, 1} /\ prices[n].tier \in Int /\ From(n) \in Int
             /\ prices[n].list \in Int /\ n \in Int
    OBVIOUS
  <1>1. n \in Line /\ prices[n] \in LineRow /\ prices[n].list \in Lists
    BY PriceShapes
  <1>2. lists[prices[n].list] \in ListRow
    BY <1>1, PriceShapes
  <1>3. From(n) \in Int
    BY <1>2, LimitsAssumption DEF From, ListRow
  <1>4. prices[n].tier \in Int /\ prices[n].list \in Int /\ n \in Int
    <2>1. prices[n].tier \in 1 .. MaxTier /\ prices[n].list \in Code
      BY <1>1 DEF LineRow
    <2>2. \A x \in Code : x \in Int
      BY KeysAssumption
    <2>3. \A x \in Line : x \in Int
      BY KeysAssumption
    <2>4. \A x \in 1 .. MaxTier : x \in Int
      BY LimitsAssumption
    <2> QED BY <1>1, <2>1, <2>2, <2>3, <2>4
  <1>5. Scope(n) \in {0, 1}
    BY DEF Scope
  <1> QED BY <1>3, <1>4, <1>5

\* The comparison is lexicographic.
Lexicographic == \A m, n \in Lines : Before(m, n) <=> Beats(m, n)
LEMMA BeforeIsBeats == PriceInv => Lexicographic
  <1> SUFFICES ASSUME PriceInv, NEW m \in Lines,
                      NEW n \in Lines PROVE Before(m, n) <=> Beats(m, n)
    BY DEF Lexicographic
  <1> DEFINE from(k) == lists[prices[k].list].from
             key(k) == <<Scope(k), - prices[k].tier, - from(k), prices[k].list, k>>
             Wins(i) == key(m)[i] < key(n)[i] /\ \A j \in 1 .. i - 1 : key(m)[j] = key(n)[j]
  <1>1. Before(m, n) <=> \E i \in 1 .. 5 : Wins(i)
    BY DEF Before
  <1>2. (\E i \in 1 .. 5 : Wins(i)) <=> Wins(1) \/ Wins(2) \/ Wins(3) \/ Wins(4) \/ Wins(5)
    <2> HIDE DEF Wins
    <2>1. 1 .. 5 = {1, 2, 3, 4, 5}
      OBVIOUS
    <2> QED BY <2>1
  <1>3. \A k \in {m, n} : /\ key(k)[1] = Scope(k) /\ key(k)[2] = - prices[k].tier
                          /\ key(k)[3] = - from(k)
                          /\ key(k)[4] = prices[k].list /\ key(k)[5] = k
    OBVIOUS
  <1> HIDE DEF key
  <1>4. /\ 1 .. 1 - 1 = {} /\ 1 .. 2 - 1 = {1} /\ 1 .. 3 - 1 = {1, 2}
        /\ 1 .. 4 - 1 = {1, 2, 3} /\ 1 .. 5 - 1 = {1, 2, 3, 4}
    OBVIOUS
  <1>5. Wins(1) <=> Scope(m) < Scope(n)
    BY <1>3, <1>4
  <1>6. Wins(2) <=> - prices[m].tier < - prices[n].tier /\ Scope(m) = Scope(n)
    BY <1>3, <1>4
  <1>7. Wins(3) <=> - from(m) < - from(n) /\ Scope(m) = Scope(n)
        /\ - prices[m].tier = - prices[n].tier
    BY <1>3, <1>4
  <1>8. Wins(4) <=> /\ prices[m].list < prices[n].list /\ Scope(m) = Scope(n)
                    /\ - prices[m].tier = - prices[n].tier /\ - from(m) = - from(n)
    BY <1>3, <1>4
  <1>9. Wins(5) <=> /\ m < n /\ Scope(m) = Scope(n) /\ - prices[m].tier = - prices[n].tier
                    /\ - from(m) = - from(n) /\ prices[m].list = prices[n].list
    BY <1>3, <1>4
  <1>10. \A k \in {m, n} : /\ Scope(k) \in Int /\ prices[k].tier \in Int /\ from(k) \in Int
                           /\ prices[k].list \in Int /\ k \in Int /\ from(k) = From(k)
    BY KeysAreNumbers DEF From
  <1> HIDE DEF Wins, from
  <1> QED BY <1>1, <1>2, <1>5, <1>6, <1>7, <1>8, <1>9, <1>10 DEF Beats

\* Of two lines one comes first.
LEMMA OneComesFirst ==
  PriceInv => \A m, n \in Lines : /\ Beats(m, n) => ~ Beats(n, m)
                                  /\ m # n => Beats(m, n) \/ Beats(n, m)
  BY KeysAreNumbers DEF Beats

LEMMA BestAreLines ==
  ASSUME NEW customer, NEW date, NEW qty
  PROVE  Best(customer, date, qty) \subseteq Eligible(customer, date, qty)
         /\ Eligible(customer, date, qty) \subseteq Lines
  BY DEF Best, Eligible, CandidatesFor

LEMMA AtMostOneBest ==
  PriceInv => \A customer, date, qty : \A m, n \in Best(customer, date, qty) : m = n
  <1> SUFFICES ASSUME PriceInv, NEW customer, NEW date, NEW qty,
                      NEW m \in Best(customer, date, qty), NEW n \in Best(customer, date, qty)
      PROVE  m = n
    OBVIOUS
  <1>1. m \in Lines /\ n \in Lines
    BY BestAreLines
  <1>2. ~ Before(m, n) /\ ~ Before(n, m)
    BY DEF Best
  <1> QED BY <1>1, <1>2, BeforeIsBeats, OneComesFirst DEF Lexicographic

LEMMA OnePriceHolds == PriceInv => OnePrice
  <1> SUFFICES ASSUME PriceInv, NEW q \in Queries PROVE Cardinality(Best(q[1], q[3], q[4])) <= 1
    BY DEF OnePrice
  <1> DEFINE best == Best(q[1], q[3], q[4])
  <1>1. \A m, n \in best : m = n
    BY AtMostOneBest
  <1>2. CASE best = {}
    <2>1. Cardinality(best) = 0
      BY <1>2, FS_EmptySet
    <2> QED BY <2>1
  <1>3. CASE best # {}
    <2>1. PICK n \in best : best = {n}
      BY <1>1, <1>3
    <2>2. Cardinality(best) = 1
      BY <2>1, FS_Singleton
    <2> QED BY <2>2
  <1> QED BY <1>2, <1>3

LEMMA OwnPriceHolds == PriceInv => OwnPrice
  <1> SUFFICES ASSUME PriceInv, NEW q \in Queries, NEW n \in Best(q[1], q[3], q[4]),
                      Scope(n) = 1,
                      NEW m \in Lines, lists[prices[m].list].customer = q[1],
                      IsValidOn(prices[m].list, q[3]), ~ (prices[m].tier > q[4])
      PROVE  FALSE
    BY DEF OwnPrice
  <1>1. q[1] \in Customer /\ q[4] \in Int /\ q[1] # AnyCustomer
    BY LimitsAssumption, CustomerAssumption DEF Queries, AnyCustomer
  <1>2. m \in Eligible(q[1], q[3], q[4])
    BY <1>1, KeysAreNumbers DEF Eligible, CandidatesFor
  <1>3. Scope(m) = 0
    BY <1>1 DEF Scope
  <1>4. n \in Lines /\ ~ Before(m, n)
    BY <1>2, BestAreLines DEF Best
  <1> QED BY <1>3, <1>4, BeforeIsBeats DEF Beats, Lexicographic

LEMMA PriceInvHolds == PriceInv => PricesHoldTogether
  BY OnePriceHolds, OwnPriceHolds DEF PricesHoldTogether

(* The steps. *)

LEMMA PriceStarts == PriceInit => PriceInv
  <1> SUFFICES ASSUME PriceInit PROVE PriceInv
    OBVIOUS
  <1>1. \A p \in Pricer : entry[p].op = "none"
    BY DEF PriceInit, NoEntry
  <1>2. Lines = {}
    BY DEF PriceInit, Lines
  <1> QED BY <1>1, <1>2 DEF PriceInit, PriceInv, PriceTypes, PricerReads, LinesAreOfLists

\* What a step leaves of the lists and lines there were.
ListsStay == \A l \in Lists : l \in Lists' /\ lists'[l] = lists[l]
LinesStay == \A n \in Lines : n \in Lines' /\ prices'[n] = prices[n]

LEMMA PricerKeeps ==
  ASSUME ListsStay, NEW p \in Pricer, PricerReads(p), entry'[p] = entry[p]
  PROVE  PricerReads(p)'
  BY DEF ListsStay, PricerReads

LEMMA EntrySet ==
  ASSUME PriceInv, NEW p \in Pricer, NEW new, entry' = [entry EXCEPT ![p] = new]
  PROVE  /\ entry' = [o \in Pricer |-> entry'[o]] /\ entry'[p] = new
         /\ \A o \in Pricer : o # p => entry'[o] = entry[o]
  BY DEF PriceInv, PriceTypes

\* Every step keeps the rows and adds at most one list or one line, from what a
\* caller had read.
Added ==
  /\ ListsStay /\ LinesStay /\ PriceInv'
  /\ prices' = prices \/ lists' = lists
  /\ \A m, n \in Lines' \ Lines : m = n

LEMMA Idles ==
  ASSUME PriceInv, UNCHANGED <<lists, prices>>, entry' = [p \in Pricer |-> entry'[p]],
         \A p \in Pricer : entry'[p] # entry[p] => PricerReads(p)'
  PROVE  Added
  <1>1. ListsStay /\ LinesStay /\ Lines' = Lines /\ Lists' = Lists
    BY DEF ListsStay, LinesStay, Lists, Lines
  <1>2. \A p \in Pricer : PricerReads(p)'
    BY <1>1, PricerKeeps DEF PriceInv, PriceTypes
  <1>3. PriceInv'
    BY <1>1, <1>2 DEF PriceInv, PriceTypes, LinesAreOfLists
  <1> QED BY <1>1, <1>3 DEF Added

LEMMA StartListAdds ==
  ASSUME PriceInv, NEW p \in Pricer, NEW l \in Code, NEW w \in Customer \cup {AnyCustomer},
         NEW c \in Currencies, NEW d \in Period, StartList(p, l, NewList(w, c, d[1], d[2]))
  PROVE  Added
  <1> DEFINE new == [op |-> "list", code |-> l, row |-> NewList(w, c, d[1], d[2])]
  <1>1. entry' = [entry EXCEPT ![p] = new] /\ UNCHANGED <<lists, prices>>
    BY DEF StartList
  <1>2. new.op = "list" /\ new.code \in Code /\ new.row \in ListRow
    BY DEF NewList, Period, ListRow
  <1> HIDE DEF new
  <1>3. entry'[p] = new
    BY <1>1, EntrySet
  <1>4. PricerReads(p)'
    BY <1>2, <1>3 DEF PricerReads
  <1> QED BY <1>1, <1>4, EntrySet, Idles

LEMMA StartLineAdds ==
  ASSUME PriceInv, NEW p \in Pricer, NEW l \in Code, NEW tier \in 1 .. MaxTier,
         NEW price \in 0 .. MaxPrice, StartLine(p, l, tier, price)
  PROVE  Added
  <1> DEFINE new == [op |-> "line", row |-> NewLine(l, tier, price)]
  <1>1. entry' = [entry EXCEPT ![p] = new] /\ UNCHANGED <<lists, prices>> /\ l \in Lists
    BY DEF StartLine
  <1>2. new.op = "line" /\ new.row \in LineRow /\ new.row.list = l
    BY DEF NewLine, LineRow
  <1> HIDE DEF new
  <1>3. entry'[p] = new /\ Lists' = Lists
    BY <1>1, EntrySet DEF Lists
  <1>4. PricerReads(p)'
    BY <1>1, <1>2, <1>3 DEF PricerReads
  <1> QED BY <1>1, <1>4, EntrySet, Idles

LEMMA CreateListAdds ==
  ASSUME PriceInv, NEW p \in Pricer, CreateList(p)
  PROVE  Added
  <1>1. /\ entry[p].op = "list" /\ entry' = [entry EXCEPT ![p] = NoEntry] /\ prices' = prices
    BY DEF CreateList
  <1>2. PICK l, new : l = entry[p].code /\ new = entry[p].row
    OBVIOUS
  <1>3. l \in Code /\ new \in ListRow
    BY <1>1, <1>2 DEF PriceInv, PriceTypes, PricerReads
  <1>4. lists' = [lists EXCEPT ![l] = IF lists[l] = NoList THEN new ELSE lists[l]]
    BY <1>2 DEF CreateList
  <1>5. /\ lists' \in [Code -> ListRow \cup {NoList}]
        /\ \A k \in Code : lists[k] # NoList => lists'[k] = lists[k]
    BY <1>3, <1>4 DEF PriceInv, PriceTypes
  <1>6. ListsStay
    BY <1>5 DEF ListsStay, Lists
  <1>7. LinesStay /\ Lines' = Lines
    BY <1>1 DEF LinesStay, Lines
  <1>8. NoEntry.op = "none"
    BY DEF NoEntry
  <1>9. \A o \in Pricer : PricerReads(o)'
    <2>1. entry'[p] = NoEntry /\ \A o \in Pricer : o # p => entry'[o] = entry[o]
      BY <1>1, EntrySet
    <2>2. PricerReads(p)'
      BY <1>8, <2>1 DEF PricerReads
    <2> QED BY <1>6, <2>1, <2>2, PricerKeeps DEF PriceInv, PriceTypes
  <1>10. PriceTypes'
    BY <1>1, <1>5, <1>9, EntrySet DEF PriceInv, PriceTypes
  <1>11. LinesAreOfLists'
    BY <1>1, <1>6, <1>7 DEF PriceInv, LinesAreOfLists, ListsStay
  <1> QED BY <1>1, <1>6, <1>7, <1>10, <1>11 DEF Added, PriceInv

LEMMA AddLineAdds ==
  ASSUME PriceInv, NEW p \in Pricer, NEW n \in Line, AddLine(p, n)
  PROVE  Added
  <1>1. /\ entry[p].op = "line" /\ entry' = [entry EXCEPT ![p] = NoEntry] /\ lists' = lists
        /\ prices[n] = NoLine
    BY DEF AddLine
  <1>2. PICK new : new = entry[p].row
    OBVIOUS
  <1>3. new \in LineRow /\ new.list \in Lists
    BY <1>1, <1>2 DEF PriceInv, PriceTypes, PricerReads
  <1>4. prices' = [prices EXCEPT ![n] = @] \/ prices' = [prices EXCEPT ![n] = new]
    BY <1>2 DEF AddLine
  <1>5. /\ prices' \in [Line -> LineRow \cup {NoLine}]
        /\ prices'[n] = NoLine \/ prices'[n] = new
        /\ \A m \in Line : m # n => prices'[m] = prices[m]
    BY <1>1, <1>3, <1>4 DEF PriceInv, PriceTypes
  <1>6. ListsStay /\ Lists' = Lists
    BY <1>1 DEF ListsStay, Lists
  <1>7. LinesStay /\ \A m \in Lines' : m \in Lines \/ (m = n /\ prices'[m] = new)
    BY <1>1, <1>5 DEF LinesStay, Lines
  <1>8. NoEntry.op = "none"
    BY DEF NoEntry
  <1>9. \A o \in Pricer : PricerReads(o)'
    <2>1. entry'[p] = NoEntry /\ \A o \in Pricer : o # p => entry'[o] = entry[o]
      BY <1>1, EntrySet
    <2>2. PricerReads(p)'
      BY <1>8, <2>1 DEF PricerReads
    <2> QED BY <1>6, <2>1, <2>2, PricerKeeps DEF PriceInv, PriceTypes
  <1>10. PriceTypes'
    BY <1>1, <1>5, <1>9, EntrySet DEF PriceInv, PriceTypes
  <1>11. LinesAreOfLists'
    BY <1>3, <1>6, <1>7 DEF PriceInv, LinesAreOfLists, LinesStay
  <1> QED BY <1>1, <1>6, <1>7, <1>10, <1>11 DEF Added, PriceInv

LEMMA PriceStepAdds == PriceInv /\ [PriceNext]_priceVars => Added
  <1> SUFFICES ASSUME PriceInv, [PriceNext]_priceVars PROVE Added
    OBVIOUS
  <1>1. CASE UNCHANGED priceVars
    <2>1. entry' = [p \in Pricer |-> entry'[p]]
      BY <1>1 DEF priceVars, PriceInv, PriceTypes
    <2> QED BY <1>1, <2>1, Idles DEF priceVars
  <1>2. CASE PriceNext
    BY <1>2, StartListAdds, StartLineAdds, CreateListAdds, AddLineAdds DEF PriceNext
  <1> QED BY <1>1, <1>2

LEMMA PriceStep == PriceInv /\ [PriceNext]_priceVars => PriceInv'
  BY PriceStepAdds DEF Added

(* What a step does to an answer. *)

LEMMA StaysLexicographic == PriceInv' => Lexicographic'
  BY BeforeIsBeats, PTL

\* The rows of a line and of its list.
LinesShaped == \A n \in Lines : prices[n] \in LineRow /\ lists[prices[n].list] \in ListRow
LEMMA LinesAreShaped == PriceInv => LinesShaped
  BY PriceShapes DEF LinesShaped
LEMMA LinesStayShaped == PriceInv' => LinesShaped'
  BY LinesAreShaped, PTL

\* Lines that stay are compared as before.
LEMMA CompareStays ==
  ASSUME PriceInv, Added
  PROVE  /\ \A n \in Lines : lists'[prices'[n].list] = lists[prices[n].list]
             /\ Scope(n)' = Scope(n)
         /\ \A m, n \in Lines : Before(m, n)' <=> Before(m, n)
  <1>1. \A n \in Lines : prices'[n] = prices[n]
        /\ lists'[prices'[n].list] = lists[prices[n].list]
    BY PriceShapes DEF Added, LinesStay, ListsStay
  <1>2. \A n \in Lines : Scope(n)' = Scope(n) /\ From(n)' = From(n)
    BY <1>1 DEF Scope, From
  <1>3. \A m, n \in Lines : Beats(m, n)' <=> Beats(m, n)
    BY <1>1, <1>2 DEF Beats
  <1>4. \A m, n \in Lines' : Before(m, n)' <=> Beats(m, n)'
    BY StaysLexicographic DEF Added, Lexicographic
  <1>5. \A m, n \in Lines : Before(m, n) <=> Beats(m, n)
    BY BeforeIsBeats DEF Lexicographic
  <1>6. Lines \subseteq Lines'
    BY DEF Added, LinesStay
  <1> QED BY <1>1, <1>2, <1>3, <1>4, <1>5, <1>6

\* A line that stays is eligible as before.
LEMMA EligibleStays ==
  ASSUME PriceInv, Added, NEW customer, NEW date, NEW qty
  PROVE  \A n \in Lines :
         n \in Eligible(customer, date, qty)' <=> n \in Eligible(customer, date, qty)
  <1>1. \A n \in Lines : n \in Lines' /\ prices'[n] = prices[n]
        /\ lists'[prices'[n].list] = lists[prices[n].list]
    BY CompareStays DEF Added, LinesStay
  <1> QED BY <1>1 DEF Eligible, CandidatesFor, IsValidOn

\* Where the best line stays the same, so does the answer.
LEMMA SameBestSameAnswer ==
  ASSUME PriceInv, Added, NEW q, Best(q[1], q[3], q[4])' = Best(q[1], q[3], q[4])
  PROVE  Answer(q)' = Answer(q)
  <1> DEFINE best == Best(q[1], q[3], q[4])
             Said(n) == Priced("PRICE_LIST", prices[n].price, prices[n].list)
  <1>1. best \subseteq Lines
    BY BestAreLines
  <1>2. \A n \in best : prices'[n] = prices[n] /\ lists'[prices'[n].list] = lists[prices[n].list]
    BY <1>1, CompareStays DEF Added, LinesStay
  <1>3. Answer(q) = {Said(n) : n \in {n \in best : lists[prices[n].list].currency = q[2]}}
    BY DEF Answer, PriceLine
  <1>4. Answer(q)' = {Said(n)' : n \in {n \in best' : lists'[prices'[n].list].currency = q[2]}}
    BY DEF Answer, PriceLine, Priced
  <1>5. best' = best
    OBVIOUS
  <1>6. \A n \in best : Said(n)' = Said(n)
    BY <1>2 DEF Priced
  <1> HIDE DEF best, Said
  <1>7. {n \in best' : lists'[prices'[n].list].currency = q[2]}
          = {n \in best : lists[prices[n].list].currency = q[2]}
    BY <1>2, <1>5
  <1> QED BY <1>3, <1>4, <1>6, <1>7

\* Where no line that was added is eligible, the best line stays the same.
LEMMA NoNewEligible ==
  ASSUME PriceInv, Added, NEW customer, NEW date, NEW qty,
         \A n \in Lines' \ Lines : n \notin Eligible(customer, date, qty)'
  PROVE  Best(customer, date, qty)' = Best(customer, date, qty)
  <1>1. Eligible(customer, date, qty)' = Eligible(customer, date, qty)
    <2>1. Eligible(customer, date, qty)' \subseteq Lines'
      BY DEF Eligible, CandidatesFor
    <2>2. Eligible(customer, date, qty) \subseteq Lines
      BY BestAreLines
    <2> QED BY <2>1, <2>2, EligibleStays
  <1>2. Eligible(customer, date, qty) \subseteq Lines
    BY BestAreLines
  <1>3. \A m, n \in Eligible(customer, date, qty) : Before(m, n)' <=> Before(m, n)
    BY <1>2, CompareStays
  <1> QED BY <1>1, <1>3 DEF Best

\* A line of a list for everyone does not come before the customer's own.
LEMMA OwnComesFirst ==
  ASSUME PriceInv, Added, NEW customer, NEW date, NEW qty, NEW m \in Best(customer, date, qty),
         Scope(m) # 1,
         NEW n \in Lines' \ Lines, Scope(n)' = 1
  PROVE  Best(customer, date, qty)' = Best(customer, date, qty)
  <1> DEFINE eligible == Eligible(customer, date, qty)
             best == Best(customer, date, qty)
  <1>1. eligible \subseteq Lines /\ m \in eligible /\ m \in Lines /\ \A x \in best : x = m
    BY BestAreLines, AtMostOneBest
  <1>2. \A x \in eligible' : x \in eligible \/ x = n
    <2>1. eligible' \subseteq Lines'
      BY DEF Eligible, CandidatesFor
    <2>2. \A x \in Lines' : x \in Lines \/ x = n
      BY DEF Added
    <2> QED BY <2>1, <2>2, EligibleStays
  <1>3. eligible \subseteq eligible' /\ Lines \subseteq Lines'
    BY <1>1, EligibleStays DEF Added, LinesStay
  <1>4. Scope(m)' = 0
    <2>1. Scope(m) = 0
      BY DEF Scope
    <2> QED BY <1>1, <2>1, CompareStays
  <1>5. \A x, y \in Lines' : Before(x, y)' <=> Beats(x, y)'
    BY StaysLexicographic DEF Added, Lexicographic
  <1>6. Before(m, n)' /\ ~ Before(n, m)'
    BY <1>1, <1>3, <1>4, <1>5 DEF Added, Beats
  <1>7. \A x, y \in eligible : Before(x, y)' <=> Before(x, y)
    BY <1>1, CompareStays
  <1>8. best = {x \in eligible : \A y \in eligible : ~ Before(y, x)}
        /\ best' = {x \in eligible' : \A y \in eligible' : ~ Before(y, x)'}
    BY DEF Best
  <1> HIDE DEF eligible, best
  <1>9. m \in best'
    BY <1>1, <1>2, <1>3, <1>6, <1>7, <1>8 DEF best
  <1>10. \A x \in best' : x = m
    <2> SUFFICES ASSUME NEW x \in best' PROVE x = m
      OBVIOUS
    <2>1. x \in eligible
      BY <1>1, <1>2, <1>3, <1>6, <1>8
    <2>2. x \in best
      BY <2>1, <1>3, <1>7, <1>8
    <2> QED BY <2>2, <1>1
  <1> QED BY <1>1, <1>9, <1>10 DEF best

LEMMA PricesMove == PriceInv /\ [PriceNext]_priceVars => PriceMoves
  <1> SUFFICES ASSUME PriceInv, [PriceNext]_priceVars, NEW q \in Queries, Answer(q) # Answer(q)'
      PROVE  \E n \in Lines' \ Lines :
               LET list == lists'[prices'[n].list]
               IN /\ list.customer \in {AnyCustomer, q[1]}
                  /\ q[3] \in list.from .. list.to
                  /\ prices'[n].tier <= q[4]
                  /\ list.customer = AnyCustomer => \A m \in Best(q[1], q[3], q[4]) :
                      Scope(m) = 1
    BY DEF PriceMoves
  <1>1. Added
    BY PriceStepAdds
  <1>2. Best(q[1], q[3], q[4])' # Best(q[1], q[3], q[4])
    BY <1>1, SameBestSameAnswer
  <1>3. PICK n \in Lines' \ Lines : n \in Eligible(q[1], q[3], q[4])'
    BY <1>1, <1>2, NoNewEligible
  <1> DEFINE list == lists'[prices'[n].list]
  <1>4. list.customer \in {AnyCustomer, q[1]} /\ list.from <= q[3] /\ q[3] <= list.to
        /\ prices'[n].tier <= q[4]
    BY <1>3 DEF Eligible, CandidatesFor, IsValidOn
  <1>5. q[3] \in list.from .. list.to
    <2>2. list \in ListRow
      BY <1>1, LinesStayShaped DEF Added, LinesShaped
    <2>3. list.from \in Int /\ list.to \in Int /\ q[3] \in Int
      BY <2>2, LimitsAssumption DEF ListRow, Queries
    <2> QED BY <1>4, <2>3
  <1>6. list.customer = AnyCustomer => \A m \in Best(q[1], q[3], q[4]) : Scope(m) = 1
    <2> SUFFICES ASSUME list.customer = AnyCustomer, NEW m \in Best(q[1], q[3], q[4]),
                        Scope(m) # 1 PROVE FALSE
      OBVIOUS
    <2>1. Scope(n)' = 1
      BY DEF Scope
    <2> QED BY <1>1, <1>2, <2>1, OwnComesFirst
  <1> QED BY <1>3, <1>4, <1>5, <1>6

-----------------------------------------------------------------------------
(* Master data: rates and taxes. *)

(* Rounding. *)

\* A multiple of d that is closer than d is none.
LEMMA NoSmallMultiple ==
  ASSUME NEW a \in Int, NEW d \in Nat \ {0}, a * d < d, - d < a * d
  PROVE  a = 0
  <1>1. ASSUME a >= 1 PROVE FALSE
    <2>1. PICK b \in Nat : a = b + 1
      BY <1>1
    <2>2. a * d = b * d + d /\ b * d >= 0
      BY <2>1
    <2> QED BY <2>2
  <1>2. ASSUME a <= -1 PROVE FALSE
    <2>1. PICK b \in Nat : a = - b - 1
      BY <1>2
    <2>2. a * d = - (b * d) - d /\ b * d >= 0
      BY <2>1
    <2> QED BY <2>2
  <1> QED BY <1>1, <1>2

\* Integer division rounds down.
LEMMA DivBounds ==
  ASSUME NEW s \in Nat, NEW d \in Nat \ {0}, NEW x \in Int, x = s \div d
  PROVE  x * d <= s /\ s < x * d + d
  OBVIOUS

\* roundDiv is the nearest integer.
LEMMA RoundDivIsNear ==
  ASSUME NEW n \in Int, NEW d \in Nat \ {0}
  PROVE  /\ RoundDiv(n, d) \in Int
         /\ 2 * (RoundDiv(n, d) * d - n) <= d /\ 2 * (n - RoundDiv(n, d) * d) <= d
  <1> DEFINE h == d \div 2
             q(m) == (m + h) \div d
  <1>1. h \in Nat /\ 2 * h <= d /\ d <= 2 * h + 1
    OBVIOUS
  <1>2. ASSUME NEW m \in Nat
        PROVE  q(m) \in Int /\ 2 * (q(m) * d - m) <= d /\ 2 * (m - q(m) * d) <= d
    <2> HIDE DEF h
    <2>1. PICK x \in Int : x = q(m)
      BY <1>1
    <2>2. x * d <= m + h /\ m + h < x * d + d
      <3>1. PICK s \in Nat : s = m + h
        BY <1>1
      <3>2. x = s \div d
        BY <2>1, <3>1
      <3> QED BY <3>1, <3>2, DivBounds
    <2>3. PICK p \in Int : p = x * d
      BY <2>1
    <2>4. 2 * (p - m) <= d /\ 2 * (m - p) <= d
      BY <1>1, <2>2, <2>3
    <2> QED BY <2>1, <2>3, <2>4
  <1>3. CASE n < 0
    <2>1. PICK m \in Nat : n = - m
      BY <1>3
    <2>2. RoundDiv(n, d) = - q(m)
      BY <1>3, <2>1 DEF RoundDiv
    <2>3. PICK x \in Int : x = q(m)
      BY <1>2
    <2>4. PICK p \in Int : p = x * d
      BY <2>3
    <2>5. 2 * (p - m) <= d /\ 2 * (m - p) <= d
      BY <1>2, <2>3, <2>4
    <2>6. RoundDiv(n, d) = - x /\ (- x) * d = - p
      BY <2>2, <2>3, <2>4
    <2> QED BY <2>1, <2>5, <2>6
  <1>4. CASE ~ (n < 0)
    <2>1. RoundDiv(n, d) = q(n)
      BY <1>4 DEF RoundDiv
    <2> QED BY <1>2, <1>4, <2>1
  <1> QED BY <1>3, <1>4

\* And no other integer is as near as less than a half.
LEMMA RoundDivIs ==
  ASSUME NEW n \in Int, NEW d \in Nat \ {0}, NEW x \in Int,
         2 * (x * d - n) < d, 2 * (n - x * d) < d
  PROVE  RoundDiv(n, d) = x
  <1>1. PICK r \in Int : /\ r = RoundDiv(n, d)
                         /\ 2 * (r * d - n) <= d /\ 2 * (n - r * d) <= d
    BY RoundDivIsNear
  <1>2. PICK a \in Int : a = r - x
    OBVIOUS
  <1>3. a * d = r * d - x * d
    BY <1>2
  <1>4. PICK p \in Int, s \in Int : p = r * d /\ s = x * d
    OBVIOUS
  <1>5. p - s < d /\ - d < p - s
    BY <1>1, <1>4
  <1>6. a = 0
    BY <1>3, <1>4, <1>5, NoSmallMultiple
  <1>7. r = x
    BY <1>2, <1>6
  <1> QED BY <1>1, <1>7

\* From one scale into a coarser one and back is the same number.
LEMMA RoundTrip ==
  ASSUME NEW x \in Int, NEW A \in Nat \ {0}, NEW B \in Nat \ {0}, B <= A
  PROVE  RoundDiv(RoundDiv(x * A, B) * B, A) = x
  <1>1. PICK xa \in Int : xa = x * A
    OBVIOUS
  <1>2. PICK y \in Int : /\ y = RoundDiv(x * A, B)
                         /\ 2 * (y * B - xa) <= B /\ 2 * (xa - y * B) <= B
    BY <1>1, RoundDivIsNear
  <1>3. PICK yb \in Int : yb = y * B
    OBVIOUS
  <1>4. CASE B < A
    <2>1. 2 * (x * A - yb) < A /\ 2 * (yb - x * A) < A
      BY <1>1, <1>2, <1>3, <1>4
    <2>2. RoundDiv(yb, A) = x
      BY <2>1, RoundDivIs
    <2> QED BY <1>2, <1>3, <2>2
  <1>5. CASE B = A
    <2>1. RoundDiv(xa, A) = x
      BY <1>1, RoundDivIs
    <2>2. y = x /\ yb = xa
      BY <1>1, <1>2, <1>3, <1>5, <2>1
    <2> QED BY <1>2, <1>3, <2>1, <2>2
  <1> QED BY <1>4, <1>5

\* A tax and a base that are both rounded add up to the gross amount, to a unit.
LEMMA SplitAgrees ==
  ASSUME NEW g \in Int, NEW P \in Nat \ {0}, NEW r \in 0 .. P
  PROVE  LET base == RoundDiv(g * P, P + r)
         IN RoundDiv(base * r, P) - (g - base) \in -1 .. 1
  <1>1. g * P \in Int /\ P + r \in Nat \ {0}
    OBVIOUS
  <1>2. PICK base \in Int : /\ base = RoundDiv(g * P, P + r)
                            /\ 2 * (base * (P + r) - g * P) <= P + r
                            /\ 2 * (g * P - base * (P + r)) <= P + r
    BY <1>1, RoundDivIsNear
  <1>3. base * r \in Int
    OBVIOUS
  <1>4. PICK t \in Int : /\ t = RoundDiv(base * r, P)
                         /\ 2 * (t * P - base * r) <= P /\ 2 * (base * r - t * P) <= P
    BY <1>3, RoundDivIsNear
  <1>5. PICK D \in Int : D = t - (g - base)
    OBVIOUS
  <1>6. PICK gp \in Int, bp \in Int, br \in Int, tp \in Int :
          gp = g * P /\ bp = base * P /\ br = base * r /\ tp = t * P
    OBVIOUS
  <1>7. base * (P + r) = bp + br
    BY <1>6
  <1>8. D * P = tp - gp + bp
    BY <1>5, <1>6
  <1>9. 2 * (tp - gp + bp) <= 3 * P /\ - 3 * P <= 2 * (tp - gp + bp)
    BY <1>2, <1>4, <1>6, <1>7
  <1>10. ASSUME D >= 2 PROVE FALSE
    <2>1. PICK b \in Nat : D = b + 2
      BY <1>10
    <2>2. D * P = b * P + 2 * P /\ b * P >= 0
      BY <2>1
    <2> QED BY <1>8, <1>9, <2>2
  <1>11. ASSUME D <= -2 PROVE FALSE
    <2>1. PICK b \in Nat : D = - b - 2
      BY <1>11
    <2>2. D * P = - (b * P) - 2 * P /\ b * P >= 0
      BY <2>1
    <2> QED BY <1>8, <1>9, <2>2
  <1>12. D \in -1 .. 1
    BY <1>10, <1>11
  <1> QED BY <1>2, <1>4, <1>5, <1>12

(* Exchange rates and tax codes. *)

RateRow == [source : {"NONE", "MANUAL", "BOT"}, rate : 0 .. MaxRate]
PullRow == [currency : Currency, day : Day, rate : 1 .. MaxRate]
CodeRow == [kind : TaxKind, treatment : Treatment \cup {"NONE"}, rate : 0 .. BASIS_POINTS,
            default : BOOLEAN]

FxTypes ==
  /\ currencies \in [Currency -> -1 .. 4]
  /\ rates \in [Currency \X Day -> RateRow]
  /\ pull \in [Sync -> PullRow \cup {NoPull}]
  /\ entered \in [Currency \X Day -> 0 .. MaxRate]

\* A row whose entry no pull had overtaken is the entry, and no pull is about
\* to write it.
Pulls(s, q) == pull[s] # NoPull /\ <<pull[s].currency, pull[s].day>> = q
EntriesKept ==
  \A q \in Currency \X Day :
    entered[q] # 0 /\ q \notin raced =>
      /\ rates[q] = [source |-> "MANUAL", rate |-> entered[q]]
      /\ \A s \in Sync : ~ Pulls(s, q)

TaxTypes ==
  /\ codes \in [TaxCode -> CodeRow \cup {NoCode}]
  /\ draft \in [Keeper -> CodeRow \cup {NoCode}]
  /\ pinned \in [Article \X TaxKind -> SUBSET TaxCode]

OneDefault == \A kind \in TaxKind : \A t, u \in DefaultOf(kind) : t = u
PinnedOfKind ==
  \A q \in Article \X TaxKind : \A t \in pinned[q] : codes[t].kind = q[2] /\ \A u \in pinned[q] :
  u = t

FxInv == FxTypes /\ EntriesKept
TaxInv == TaxTypes /\ OneDefault /\ PinnedOfKind
RatesInv == FxInv /\ TaxInv

LEMMA RatesStarts == RatesInit => RatesInv
  <1> SUFFICES ASSUME RatesInit PROVE RatesInv
    OBVIOUS
  <1>1. currencies \in [Currency -> -1 .. 4] /\ pull \in [Sync -> PullRow \cup {NoPull}]
    BY DEF RatesInit
  <1>2. NoRate \in RateRow
    BY RangesAssumption DEF NoRate, RateRow
  <1>3. rates \in [Currency \X Day -> RateRow]
    BY <1>2 DEF RatesInit
  <1>4. entered \in [Currency \X Day -> 0 .. MaxRate] /\ EntriesKept
    BY RangesAssumption DEF RatesInit, EntriesKept
  <1>5. TaxTypes
    BY DEF RatesInit, TaxTypes
  <1>6. \A kind \in TaxKind : DefaultOf(kind) = {}
    BY DEF RatesInit, DefaultOf, TaxKind, NoCode
  <1>7. OneDefault /\ PinnedOfKind
    BY <1>6 DEF OneDefault, PinnedOfKind, RatesInit
  <1> QED BY <1>1, <1>3, <1>4, <1>5, <1>7 DEF RatesInv, FxInv, TaxInv, FxTypes

LEMMA PullShapes ==
  FxTypes => \A s \in Sync : pull[s] # NoPull =>
               /\ pull[s] \in PullRow /\ pull[s].currency \in Currency /\ pull[s].day \in Day
               /\ pull[s].rate \in 1 .. MaxRate
  <1>1. \A x \in PullRow : x.currency \in Currency /\ x.day \in Day /\ x.rate \in 1 .. MaxRate
    BY DEF PullRow
  <1> QED BY <1>1 DEF FxTypes

LEMMA UpsertKeeps ==
  ASSUME FxInv, NEW c \in Currency, NEW d \in Day, NEW rate \in 1 .. MaxRate,
         UpsertFxRate(c, d, rate)
  PROVE  FxInv'
  <1>1. PICK q, new : q = <<c, d>> /\ new = [source |-> "MANUAL", rate |-> rate]
    OBVIOUS
  <1>2. q \in Currency \X Day /\ new \in RateRow /\ rate \in 0 .. MaxRate
    BY <1>1, RangesAssumption DEF RateRow
  <1>3. /\ rates' = [rates EXCEPT ![q] = new] /\ entered' = [entered EXCEPT ![q] = rate]
        /\ UNCHANGED <<currencies, pull>>
    BY <1>1 DEF UpsertFxRate, Upserted
  <1>4. FxTypes'
    BY <1>2, <1>3 DEF FxInv, FxTypes
  <1>5. /\ rates'[q] = new /\ entered'[q] = rate
        /\ \A o \in Currency \X Day : o # q => rates'[o] = rates[o] /\ entered'[o] = entered[o]
    BY <1>2, <1>3 DEF FxInv, FxTypes
  <1>6. /\ \A o \in Currency \X Day : o # q => (o \in raced' <=> o \in raced)
        /\ q \notin raced' => \A s \in Sync : ~ ReadBy(s, c, d)
    BY <1>1 DEF UpsertFxRate
  <1>7. \A s \in Sync : Pulls(s, q) => ReadBy(s, c, d)
    BY <1>1 DEF Pulls, ReadBy
  <1>8. \A s \in Sync, o \in Currency \X Day : Pulls(s, o)' <=> Pulls(s, o)
    BY <1>3 DEF Pulls
  <1>9. EntriesKept'
    <2> SUFFICES ASSUME NEW o \in Currency \X Day, entered'[o] # 0, o \notin raced'
        PROVE  /\ rates'[o] = [source |-> "MANUAL", rate |-> entered'[o]]
               /\ \A s \in Sync : ~ Pulls(s, o)'
      BY DEF EntriesKept
    <2>1. CASE o = q
      BY <2>1, <1>1, <1>5, <1>6, <1>7, <1>8
    <2>2. CASE o # q
      BY <2>2, <1>5, <1>6, <1>8 DEF FxInv, EntriesKept
    <2> QED BY <2>1, <2>2
  <1> QED BY <1>4, <1>9 DEF FxInv

LEMMA PullChanges ==
  ASSUME FxInv, UNCHANGED <<currencies, rates, entered, raced>>,
         pull' \in [Sync -> PullRow \cup {NoPull}],
         \A s \in Sync : pull'[s] = pull[s] \/ pull'[s] = NoPull
                         \/ ~ Skips(pull'[s].currency, pull'[s].day)
  PROVE  FxInv'
  <1>1. FxTypes'
    BY DEF FxInv, FxTypes
  <1>2. EntriesKept'
    <2> SUFFICES ASSUME NEW q \in Currency \X Day, entered[q] # 0, q \notin raced,
                        NEW s \in Sync, Pulls(s, q)'
        PROVE  FALSE
      BY DEF FxInv, EntriesKept
    <2>1. rates[q] = [source |-> "MANUAL", rate |-> entered[q]] /\ ~ Pulls(s, q)
      BY DEF FxInv, EntriesKept
    <2>4. rates[q].source = "MANUAL"
      BY <2>1
    <2>2. pull'[s] # NoPull /\ <<pull'[s].currency, pull'[s].day>> = q
      BY DEF Pulls
    <2>3. Skips(pull'[s].currency, pull'[s].day)
      BY <2>2, <2>4 DEF Skips
    <2> QED BY <2>1, <2>2, <2>3 DEF Pulls
  <1> QED BY <1>1, <1>2 DEF FxInv

LEMMA ReadKeeps ==
  ASSUME FxInv, NEW s \in Sync, NEW c \in Currency, NEW d \in Day, NEW rate \in 1 .. MaxRate,
         ReadRate(s, c, d, rate)
  PROVE  FxInv'
  <1>1. PICK new : new = [currency |-> c, day |-> d, rate |-> rate]
    OBVIOUS
  <1>2. new \in PullRow /\ new.currency = c /\ new.day = d
    BY <1>1 DEF PullRow
  <1>3. pull' = [pull EXCEPT ![s] = new] /\ UNCHANGED <<currencies, rates, entered, raced>>
        /\ ~ Skips(c, d)
    BY <1>1 DEF ReadRate
  <1>4. pull' \in [Sync -> PullRow \cup {NoPull}] /\ pull'[s] = new /\ \A o \in Sync : o # s =>
        pull'[o] = pull[o]
    BY <1>2, <1>3 DEF FxInv, FxTypes
  <1> QED BY <1>2, <1>3, <1>4, PullChanges

LEMMA LoseKeeps ==
  ASSUME FxInv, NEW s \in Sync, LosePull(s)
  PROVE  FxInv'
  <1>1. pull' = [pull EXCEPT ![s] = NoPull] /\ UNCHANGED <<currencies, rates, entered, raced>>
    BY DEF LosePull
  <1>2. pull' \in [Sync -> PullRow \cup {NoPull}] /\ \A o \in Sync : pull'[o] = pull[o]
        \/ pull'[o] = NoPull
    BY <1>1 DEF FxInv, FxTypes
  <1> QED BY <1>1, <1>2, PullChanges

LEMMA PullKeeps ==
  ASSUME FxInv, NEW s \in Sync, PullRate(s)
  PROVE  FxInv'
  <1>1. PICK q, new : /\ q = <<pull[s].currency, pull[s].day>>
                      /\ new = [source |-> "BOT", rate |-> pull[s].rate]
    OBVIOUS
  <1>2. /\ rates' = [rates EXCEPT ![q] = new] /\ pull' = [pull EXCEPT ![s] = NoPull]
        /\ UNCHANGED <<currencies, entered, raced>> /\ pull[s] # NoPull
    BY <1>1 DEF PullRate, Upserted
  <1>3. q \in Currency \X Day /\ new \in RateRow
    <2>1. pull[s].currency \in Currency /\ pull[s].day \in Day /\ pull[s].rate \in 1 .. MaxRate
      BY <1>2, PullShapes DEF FxInv
    <2>2. pull[s].rate \in 0 .. MaxRate
      BY <2>1, RangesAssumption
    <2> QED BY <1>1, <2>1, <2>2 DEF RateRow
  <1>4. rates' \in [Currency \X Day -> RateRow] /\ \A o \in Currency \X Day : o # q =>
        rates'[o] = rates[o]
    BY <1>2, <1>3 DEF FxInv, FxTypes
  <1>5. /\ pull' \in [Sync -> PullRow \cup {NoPull}]
        /\ \A o \in Sync : pull'[o] = pull[o] \/ pull'[o] = NoPull
    BY <1>2 DEF FxInv, FxTypes
  <1>6. FxTypes'
    BY <1>2, <1>4, <1>5 DEF FxInv, FxTypes
  <1>7. Pulls(s, q)
    BY <1>1, <1>2 DEF Pulls
  <1>8. EntriesKept'
    <2> SUFFICES ASSUME NEW o \in Currency \X Day, entered[o] # 0, o \notin raced
        PROVE  /\ rates'[o] = [source |-> "MANUAL", rate |-> entered[o]]
               /\ \A p \in Sync : ~ Pulls(p, o)'
      BY <1>2 DEF EntriesKept
    <2>1. rates[o] = [source |-> "MANUAL", rate |-> entered[o]] /\ \A p \in Sync : ~ Pulls(p, o)
      BY DEF FxInv, EntriesKept
    <2>2. \A p \in Sync : ~ Pulls(p, o)'
      BY <1>5, <2>1 DEF Pulls
    <2> QED BY <1>4, <1>7, <2>1, <2>2
  <1> QED BY <1>6, <1>8 DEF FxInv

LEMMA CurrencyKeeps ==
  ASSUME FxInv, NEW c \in Currency, NEW units \in 0 .. 4, CreateCurrency(c, units)
  PROVE  FxInv' /\ \A o \in Currency : currencies[o] # -1 => currencies'[o] = currencies[o]
  <1>1. /\ currencies' = [currencies EXCEPT ![c] = units] /\ UNCHANGED <<rates, pull, entered,
            raced>>
        /\ currencies[c] = -1
    BY DEF CreateCurrency
  <1>2. currencies' \in [Currency -> -1 .. 4] /\ \A o \in Currency : o # c =>
        currencies'[o] = currencies[o]
    BY <1>1 DEF FxInv, FxTypes
  <1>3. FxTypes' /\ EntriesKept'
    BY <1>1, <1>2 DEF FxInv, FxTypes, EntriesKept, Pulls
  <1> QED BY <1>1, <1>2, <1>3 DEF FxInv

LEMMA FxStep ==
  ASSUME FxInv, FxNext \/ UNCHANGED fxVars
  PROVE  FxInv' /\ \A o \in Currency : currencies[o] # -1 => currencies'[o] = currencies[o]
  <1>1. CASE UNCHANGED fxVars
    BY <1>1 DEF fxVars, FxInv, FxTypes, EntriesKept, Pulls
  <1>2. CASE \E c \in Currency, units \in 0 .. 4 : CreateCurrency(c, units)
    BY <1>2, CurrencyKeeps
  <1>3. CASE \E c \in Currency, d \in Day, rate \in 1 .. MaxRate : UpsertFxRate(c, d, rate)
    BY <1>3, UpsertKeeps DEF UpsertFxRate
  <1>4. CASE \E c \in Currency, d \in Day, rate \in 1 .. MaxRate, s \in Sync :
             ReadRate(s, c, d, rate)
    BY <1>4, ReadKeeps DEF ReadRate
  <1>5. CASE \E s \in Sync : PullRate(s)
    BY <1>5, PullKeeps DEF PullRate
  <1>6. CASE \E s \in Sync : LosePull(s)
    BY <1>6, LoseKeeps DEF LosePull
  <1> QED BY <1>1, <1>2, <1>3, <1>4, <1>5, <1>6 DEF FxNext

LEMMA CodeShapes ==
  TaxTypes => \A t \in TaxCode : codes[t].kind \in TaxKind =>
                codes[t] # NoCode /\ codes[t] \in CodeRow /\ codes[t].rate \in 0 .. BASIS_POINTS
  <1>1. NoCode.kind \notin TaxKind
    BY DEF NoCode, TaxKind
  <1>2. \A x \in CodeRow : x.rate \in 0 .. BASIS_POINTS
    BY DEF CodeRow
  <1> QED BY <1>1, <1>2 DEF TaxTypes

LEMMA CreateCodeKeeps ==
  ASSUME TaxInv, NEW k \in Keeper, NEW t \in TaxCode, CreateTaxCode(k, t)
  PROVE  TaxInv'
  <1>1. PICK new : new = draft[k]
    OBVIOUS
  <1>2. new \in CodeRow /\ codes[t] = NoCode /\ new.kind \in TaxKind
    <2>1. \A x \in CodeRow : x.kind \in TaxKind
      BY DEF CodeRow
    <2> QED BY <1>1, <2>1 DEF CreateTaxCode, TaxInv, TaxTypes
  <1>3. /\ draft' = [draft EXCEPT ![k] = NoCode] /\ pinned' = pinned
        /\ \/ codes' = [codes EXCEPT ![t] = @]
           \/ codes' = [codes EXCEPT ![t] = new] /\ ~ (new.default /\ DefaultOf(new.kind) # {})
    BY <1>1 DEF CreateTaxCode
  <1>4. CASE codes' = [codes EXCEPT ![t] = @]
    <2>1. codes' = codes
      BY <1>4 DEF TaxInv, TaxTypes
    <2>2. draft' \in [Keeper -> CodeRow \cup {NoCode}]
      BY <1>3 DEF TaxInv, TaxTypes
    <2> QED BY <1>3, <2>1, <2>2 DEF TaxInv, TaxTypes, OneDefault, DefaultOf, PinnedOfKind
  <1>5. CASE codes' = [codes EXCEPT ![t] = new] /\ ~ (new.default /\ DefaultOf(new.kind) # {})
    <2>1. /\ codes' \in [TaxCode -> CodeRow \cup {NoCode}] /\ codes'[t] = new
          /\ \A u \in TaxCode : u # t => codes'[u] = codes[u]
      BY <1>2, <1>5 DEF TaxInv, TaxTypes
    <2>2. draft' \in [Keeper -> CodeRow \cup {NoCode}]
      BY <1>3 DEF TaxInv, TaxTypes
    <2>3. \A kind \in TaxKind : \A u \in DefaultOf(kind)' :
            u \in DefaultOf(kind) \/ (u = t /\ new.kind = kind /\ new.default)
      BY <2>1 DEF DefaultOf
    <2>4. OneDefault'
      BY <1>5, <2>3 DEF OneDefault, TaxInv
    <2>5. PinnedOfKind'
      <3> SUFFICES ASSUME NEW q \in Article \X TaxKind, NEW u \in pinned[q]
          PROVE  codes'[u].kind = q[2] /\ \A v \in pinned[q] : v = u
        BY <1>3 DEF PinnedOfKind
      <3>1. codes[u].kind = q[2] /\ q[2] \in TaxKind /\ u \in TaxCode /\ \A v \in pinned[q] :
            v = u
        BY DEF TaxInv, TaxTypes, PinnedOfKind
      <3>2. u # t
        BY <1>2, <3>1, CodeShapes DEF TaxInv
      <3> QED BY <2>1, <3>1, <3>2
    <2> QED BY <1>3, <2>1, <2>2, <2>4, <2>5 DEF TaxInv, TaxTypes
  <1> QED BY <1>3, <1>4, <1>5

LEMMA StartCodeKeeps ==
  ASSUME TaxInv, NEW k \in Keeper, NEW kind \in TaxKind, NEW tr \in Treatment \cup {"NONE"},
         NEW rate \in 0 .. BASIS_POINTS, NEW b \in BOOLEAN,
         StartTaxCode(k, NewCode(kind, tr, rate, b))
  PROVE  TaxInv'
  <1>1. NewCode(kind, tr, rate, b) \in CodeRow
    BY DEF NewCode, CodeRow
  <1>2. draft' = [draft EXCEPT ![k] = NewCode(kind, tr, rate, b)] /\ UNCHANGED <<codes, pinned>>
    BY DEF StartTaxCode
  <1>3. draft' \in [Keeper -> CodeRow \cup {NoCode}]
    BY <1>1, <1>2 DEF TaxInv, TaxTypes
  <1> QED BY <1>2, <1>3 DEF TaxInv, TaxTypes, OneDefault, DefaultOf, PinnedOfKind

LEMMA PinKeeps ==
  ASSUME TaxInv, NEW a \in Article, NEW kind \in TaxKind, NEW t \in TaxCode,
         SetItemTaxOverride(a, kind, t)
  PROVE  TaxInv'
  <1>1. PICK q : q = <<a, kind>>
    OBVIOUS
  <1>2. q \in Article \X TaxKind /\ q[2] = kind
    BY <1>1
  <1>3. pinned' = [pinned EXCEPT ![q] = {t}] /\ UNCHANGED <<codes, draft>>
        /\ codes[t].kind = kind
    BY <1>1 DEF SetItemTaxOverride
  <1>4. /\ pinned' \in [Article \X TaxKind -> SUBSET TaxCode] /\ pinned'[q] = {t}
        /\ \A o \in Article \X TaxKind : o # q => pinned'[o] = pinned[o]
    BY <1>2, <1>3 DEF TaxInv, TaxTypes
  <1>5. PinnedOfKind'
    BY <1>2, <1>3, <1>4 DEF TaxInv, PinnedOfKind
  <1> QED BY <1>3, <1>4, <1>5 DEF TaxInv, TaxTypes, OneDefault, DefaultOf

LEMMA TaxStep ==
  ASSUME TaxInv, TaxNext \/ UNCHANGED taxVars
  PROVE  TaxInv'
  <1>1. CASE UNCHANGED taxVars
    BY <1>1 DEF taxVars, TaxInv, TaxTypes, OneDefault, DefaultOf, PinnedOfKind
  <1>2. CASE TaxNext
    BY <1>2, StartCodeKeeps, CreateCodeKeeps, PinKeeps DEF TaxNext
  <1> QED BY <1>1, <1>2

LEMMA RatesStepKeeps ==
  RatesInv /\ [RatesNext]_ratesVars =>
    RatesInv' /\ \A o \in Currency : currencies[o] # -1 => currencies'[o] = currencies[o]
  <1> SUFFICES ASSUME RatesInv, [RatesNext]_ratesVars
      PROVE  RatesInv' /\ \A o \in Currency : currencies[o] # -1 =>
             currencies'[o] = currencies[o]
    OBVIOUS
  <1>1. FxNext \/ UNCHANGED fxVars
    BY DEF RatesNext, ratesVars, TaxNext
  <1>2. TaxNext \/ UNCHANGED taxVars
    BY DEF RatesNext, ratesVars, FxNext
  <1> QED BY <1>1, <1>2, FxStep, TaxStep DEF RatesInv

LEMMA RatesStep == RatesInv /\ [RatesNext]_ratesVars => RatesInv'
  BY RatesStepKeeps

(* What the invariant gives. *)

LEMMA ManualStandsHolds == RatesInv => ManualStands
  BY DEF RatesInv, FxInv, EntriesKept, ManualStands

LEMMA PowersOfTen == 10 ^ BaseUnits = 100 /\ \A units \in 0 .. 4 : 10 ^ units \in Nat \ {0}
  <1>1. 10 ^ 0 = 1 /\ 10 ^ 1 = 10 /\ 10 ^ 2 = 100 /\ 10 ^ 3 = 1000 /\ 10 ^ 4 = 10000
    OBVIOUS
  <1>2. \A units \in 0 .. 4 : units \in {0, 1, 2, 3, 4}
    OBVIOUS
  <1> QED BY <1>1, <1>2 DEF BaseUnits

LEMMA ConversionReturnsHolds == RatesInv => ConversionReturns
  <1> SUFFICES ASSUME RatesInv, NEW c \in Currency, NEW d \in Day, NEW x \in MinorAmounts,
                      currencies[c] # -1,
                      rates[<<c, d>>].rate * 10 ^ BaseUnits >= RATE_SCALE * 10 ^ currencies[c]
      PROVE  ConvertFromBase(ConvertToBase(x, currencies[c], rates[<<c, d>>].rate),
                             currencies[c], rates[<<c, d>>].rate) = x
    BY DEF ConversionReturns
  <1>1. PICK rate, units : rate = rates[<<c, d>>].rate /\ units = currencies[c]
    OBVIOUS
  <1>2. rate \in Nat /\ units \in 0 .. 4
    <2>1. rates[<<c, d>>] \in RateRow /\ units \in -1 .. 4 /\ units # -1
      BY <1>1 DEF RatesInv, FxInv, FxTypes
    <2>2. rate \in 0 .. MaxRate
      BY <1>1, <2>1 DEF RateRow
    <2> QED BY <2>1, <2>2
  <1>3. PICK p, o : p = 10 ^ units /\ o = 10 ^ BaseUnits
    OBVIOUS
  <1>4. p \in Nat \ {0} /\ o = 100
    BY <1>2, <1>3, PowersOfTen
  <1>5. PICK A, B : A = rate * o /\ B = RATE_SCALE * p
    OBVIOUS
  <1>6. A \in Int /\ B \in Int /\ B > 0 /\ B <= A
    <2>1. PICK k \in Nat : RATE_SCALE = k + 1
      <3>1. RATE_SCALE - 1 \in Nat /\ RATE_SCALE = (RATE_SCALE - 1) + 1
        BY ScalesAssumption
      <3> QED BY <3>1
    <2>2. B = k * p + p /\ k * p >= 0
      BY <1>4, <1>5, <2>1
    <2> QED BY <1>1, <1>2, <1>3, <1>4, <1>5, <2>2
  <1>7. x \in Int /\ x * rate * o = x * A
    BY <1>2, <1>4, <1>5, RangesAssumption DEF MinorAmounts
  <1>8. ConvertToBase(x, units, rate) = RoundDiv(x * A, B)
    BY <1>3, <1>5, <1>7 DEF ConvertToBase
  <1>9. PICK y \in Int : y = RoundDiv(x * A, B)
    BY <1>6, <1>7, RoundDivIsNear
  <1>10. y * RATE_SCALE * p = y * B
    BY <1>4, <1>5, ScalesAssumption
  <1>11. ConvertFromBase(y, units, rate) = RoundDiv(y * B, A)
    BY <1>3, <1>5, <1>10 DEF ConvertFromBase
  <1>12. RoundDiv(RoundDiv(x * A, B) * B, A) = x
    <2>1. A \in Nat \ {0} /\ B \in Nat \ {0}
      BY <1>6
    <2> QED BY <1>6, <1>7, <2>1, RoundTrip
  <1> QED BY <1>1, <1>8, <1>9, <1>11, <1>12

LEMMA TaxesAgreeHolds == RatesInv => TaxesAgree
  <1> SUFFICES ASSUME RatesInv, NEW a \in Article, NEW kind \in TaxKind
      PROVE  /\ Cardinality(ResolveTax(a, kind)) <= 1
             /\ \A t \in ResolveTax(a, kind) :
                  /\ codes[t].kind = kind
                  /\ \A gross \in MinorAmounts :
                       LET split == SplitInclusive(gross, codes[t].rate)
                       IN ComputeTax(split.base, codes[t].rate) - split.tax \in -1 .. 1
    BY DEF TaxesAgree
  <1> DEFINE resolved == ResolveTax(a, kind)
             q == <<a, kind>>
  <1>1. \A t, u \in resolved : t = u /\ codes[t].kind = kind /\ t \in TaxCode
    <2>1. q \in Article \X TaxKind /\ q[2] = kind
      OBVIOUS
    <2>2. \A t, u \in pinned[q] : t = u /\ codes[t].kind = kind /\ t \in TaxCode
      BY <2>1 DEF RatesInv, TaxInv, TaxTypes, PinnedOfKind
    <2>3. \A t, u \in DefaultOf(kind) : t = u /\ codes[t].kind = kind /\ t \in TaxCode
      BY DEF RatesInv, TaxInv, OneDefault, DefaultOf
    <2> QED BY <2>2, <2>3 DEF ResolveTax
  <1>2. Cardinality(resolved) <= 1
    <2>1. CASE resolved = {}
      <3>1. Cardinality(resolved) = 0
        BY <2>1, FS_EmptySet
      <3> QED BY <3>1
    <2>2. CASE resolved # {}
      <3>1. PICK t \in resolved : resolved = {t}
        BY <1>1, <2>2
      <3>2. Cardinality(resolved) = 1
        BY <3>1, FS_Singleton
      <3> QED BY <3>2
    <2> QED BY <2>1, <2>2
  <1>3. ASSUME NEW t \in resolved, NEW gross \in MinorAmounts
        PROVE  LET split == SplitInclusive(gross, codes[t].rate)
               IN ComputeTax(split.base, codes[t].rate) - split.tax \in -1 .. 1
    <2>1. PICK r \in 0 .. BASIS_POINTS : r = codes[t].rate
      BY <1>1, CodeShapes DEF RatesInv, TaxInv
    <2>2. gross \in Int
      BY RangesAssumption DEF MinorAmounts
    <2>3. PICK base : base = RoundDiv(gross * BASIS_POINTS, BASIS_POINTS + r)
      OBVIOUS
    <2>4. RoundDiv(base * r, BASIS_POINTS) - (gross - base) \in -1 .. 1
      BY <2>2, <2>3, ScalesAssumption, SplitAgrees
    <2>5. SplitInclusive(gross, r).base = base /\ SplitInclusive(gross, r).tax = gross - base
      BY <2>3 DEF SplitInclusive
    <2> QED BY <2>1, <2>4, <2>5 DEF ComputeTax
  <1> QED BY <1>1, <1>2, <1>3

LEMMA RatesInvHolds == RatesInv => RatesHoldTogether
  BY ManualStandsHolds, ConversionReturnsHolds, TaxesAgreeHolds DEF RatesHoldTogether

(* What a step does to a value. *)

LEMMA GreatestIsOne ==
  ASSUME NEW S, S \subseteq Nat, S # {}, NEW bound \in Nat, \A x \in S : x <= bound
  PROVE  Max(S) \in S
  <1> DEFINE T == {n \in 0 .. bound : bound - n \in S}
  <1>1. T \subseteq Nat /\ T # {}
    <2>1. PICK x \in S : TRUE
      OBVIOUS
    <2>2. x \in Nat /\ x <= bound
      OBVIOUS
    <2>3. bound - x \in 0 .. bound /\ bound - (bound - x) = x
      BY <2>2
    <2>4. bound - x \in T
      BY <2>1, <2>3
    <2> HIDE DEF T
    <2>5. T \subseteq 0 .. bound
      BY DEF T
    <2>6. 0 .. bound \subseteq Nat
      OBVIOUS
    <2> QED BY <2>4, <2>5, <2>6
  <1>2. PICK n \in T : \A m \in T : n <= m
    <2> HIDE DEF T
    <2> QED BY <1>1, LeastNumber
  <1>3. bound - n \in S
    OBVIOUS
  <1>4. \A x \in S : bound - n >= x
    <2> SUFFICES ASSUME NEW x \in S PROVE bound - n >= x
      OBVIOUS
    <2>1. x \in Nat /\ x <= bound
      OBVIOUS
    <2>2. bound - x \in T
      <3>1. bound - x \in 0 .. bound /\ bound - (bound - x) = x
        BY <2>1
      <3> QED BY <3>1
    <2>3. n <= bound - x /\ n \in Nat
      BY <1>2, <2>2
    <2> QED BY <2>1, <2>3
  <1>5. \E y \in S : \A x \in S : y >= x
    BY <1>3, <1>4
  <1> QED BY <1>5 DEF Max

LEMMA LatestStays ==
  ASSUME NEW c \in Currency, NEW date \in Day,
         \A d \in Day : d <= date => rates'[<<c, d>>] = rates[<<c, d>>]
  PROVE  LatestOnOrBefore(c, date)' = LatestOnOrBefore(c, date)
  <1> DEFINE dated == {d \in Day : d <= date /\ rates[<<c, d>>] # NoRate}
  <1>1. dated' = dated
    OBVIOUS
  <1>2. CASE dated = {}
    BY <1>1, <1>2 DEF LatestOnOrBefore
  <1>3. CASE dated # {}
    <2>1. PICK m : m = Max(dated)
      OBVIOUS
    <2>2. m \in dated
      <3>1. dated \subseteq Nat /\ date \in Nat /\ \A x \in dated : x <= date
        BY RangesAssumption
      <3> HIDE DEF dated
      <3> QED BY <1>3, <2>1, <3>1, GreatestIsOne
    <2>3. rates'[<<c, m>>] = rates[<<c, m>>]
      BY <2>2
    <2>4. LatestOnOrBefore(c, date) = rates[<<c, m>>].rate
      BY <1>3, <2>1 DEF LatestOnOrBefore
    <2>5. LatestOnOrBefore(c, date)' = rates'[<<c, m>>].rate
      BY <1>1, <1>3, <2>1 DEF LatestOnOrBefore
    <2> QED BY <2>3, <2>4, <2>5
  <1> QED BY <1>2, <1>3

LEMMA RatesMove == RatesInv /\ [RatesNext]_ratesVars => RateMoves
  <1> SUFFICES ASSUME RatesInv, [RatesNext]_ratesVars, NEW q \in Dated,
                      NEW to \in Currency \ {q[1]},
                      currencies[to] # -1,
                      \A c \in {q[1], to}, d \in Day : d <= q[2] =>
                      rates[<<c, d>>] = rates'[<<c, d>>]
      PROVE  ConvertAmount(q[3], q[1], to, q[2]) = ConvertAmount(q[3], q[1], to, q[2])'
    BY DEF RateMoves
  <1>1. PICK from, date, amount : from = q[1] /\ date = q[2] /\ amount = q[3]
    OBVIOUS
  <1>2. from \in Currency /\ date \in Day /\ currencies[from] # -1 /\ to \in Currency
    BY <1>1 DEF Dated
  <1>3. currencies'[from] = currencies[from] /\ currencies'[to] = currencies[to]
    BY <1>2, RatesStepKeeps
  <1>4. \A c \in {from, to} : LatestOnOrBefore(c, date)' = LatestOnOrBefore(c, date)
    BY <1>1, <1>2, LatestStays
  <1>5. ConvertAmount(amount, from, to, date)' = ConvertAmount(amount, from, to, date)
    BY <1>3, <1>4 DEF ConvertAmount
  <1> QED BY <1>1, <1>5

-----------------------------------------------------------------------------
(* Master data: the catalogue. *)

(* Trees. *)

TreeKind == {"category", "account"}

\* A path that goes on from another by one code.
OneBelow(p, r) ==
  Len(p.path) = Len(r.path) - 1 /\ \A i \in 1 .. Len(p.path) : p.path[i] = r.path[i]

\* What a node says, of itself and of the row it is below.
NodeStands(r) ==
  /\ r.code \in Name /\ r.path \in Seq(Name) /\ Len(r.path) \in 1 .. MAX_DEPTH + 1
  /\ r.path[Len(r.path)] = r.code
  /\ r.kind = "category" => r.key = None
  /\ r.parent = None => Len(r.path) = 1
  /\ r.parent # None => \E p \in Of(r.kind) : p.code = r.parent /\ p.key = r.key
      /\ OneBelow(p, r)

NodesStand == \A r \in table : r.kind \in TreeKind => NodeStands(r)
CodesAreTaken == \A r, s \in table : r.kind = s.kind /\ r.code = s.code => r = s

LEMMA RowOfIs ==
  ASSUME NEW kind, NEW code \in Codes(kind)
  PROVE  RowOf(kind, code) \in Of(kind) /\ RowOf(kind, code).code = code
  <1>1. \E r \in Of(kind) : r.code = code
    BY DEF Codes
  <1> QED BY <1>1 DEF RowOf

\* A node of a known parent stands.
LEMMA NodeBelowStands ==
  ASSUME NodesStand, NEW kind \in TreeKind, NEW code \in Name, NEW parent, NEW key,
         parent = None \/ (parent \in Codes(kind) /\ RowOf(kind, parent).key = key),
         kind = "category" => key = None,
         NEW path, path = PathBelow(kind, code, parent), Depth(path) <= MAX_DEPTH,
         NEW node, node = Fields(kind, code, parent, key, path, None)
  PROVE  NodeStands(node)
  <1>1. /\ node.kind = kind /\ node.code = code /\ node.parent = parent /\ node.key = key
        /\ node.path = path
    BY DEF Fields
  <1>2. CASE parent = None
    <2>1. path = <<code>>
      BY <1>2 DEF PathBelow
    <2>2. path \in Seq(Name) /\ Len(path) = 1 /\ path[1] = code
      BY <2>1
    <2>3. 1 \in 1 .. MAX_DEPTH + 1
      BY MaxDepthAssumption
    <2> QED BY <1>1, <1>2, <2>2, <2>3 DEF NodeStands
  <1>3. CASE parent # None
    <2>1. PICK p : p = RowOf(kind, parent)
      OBVIOUS
    <2>2. p \in Of(kind) /\ p.code = parent /\ p.key = key
      BY <1>3, <2>1, RowOfIs
    <2>3. NodeStands(p)
      BY <2>2 DEF NodesStand, Of
    <2>4. PICK above \in Seq(Name) : above = p.path
      BY <2>3 DEF NodeStands
    <2>5. Len(above) \in Nat /\ Len(above) >= 1
      BY <2>3, <2>4 DEF NodeStands
    <2>6. path = above \o <<code>>
      BY <1>3, <2>1, <2>4 DEF PathBelow
    <2>7. /\ path \in Seq(Name) /\ Len(path) = Len(above) + 1 /\ path[Len(path)] = code
          /\ \A i \in 1 .. Len(above) : path[i] = above[i]
      BY <2>5, <2>6
    <2>8. Len(path) \in 1 .. MAX_DEPTH + 1
      BY <2>5, <2>7, MaxDepthAssumption DEF Depth
    <2>9. OneBelow(p, node)
      BY <1>1, <2>4, <2>5, <2>7 DEF OneBelow
    <2> QED BY <1>1, <1>3, <2>2, <2>7, <2>8, <2>9 DEF NodeStands
  <1> QED BY <1>2, <1>3

\* And goes on standing as rows are added.
LEMMA NodeStays ==
  ASSUME table \subseteq table', NEW r, NodeStands(r)
  PROVE  NodeStands(r)'
  <1>1. Of(r.kind) \subseteq Of(r.kind)'
    BY DEF Of
  <1> QED BY <1>1 DEF NodeStands, OneBelow

(* Paths. *)

Agrees(a, r) == Len(a.path) <= Len(r.path) /\ \A i \in 1 .. Len(a.path) : a.path[i] = r.path[i]

LEMMA PrefixIsAgreement ==
  ASSUME NEW s \in Seq(Name), NEW t \in Seq(Name)
  PROVE  IsPrefix(s, t) <=> (Len(s) <= Len(t) /\ \A i \in 1 .. Len(s) : s[i] = t[i])
  <1> SUFFICES ASSUME Len(s) <= Len(t)
      PROVE  SubSeq(s, 1, Len(s)) = SubSeq(t, 1, Len(s)) <=> \A i \in 1 .. Len(s) : s[i] = t[i]
    BY DEF IsPrefix
  <1>1. PICK n \in Nat : n = Len(s)
    OBVIOUS
  <1>2. PICK x, y : x = SubSeq(s, 1, n) /\ y = SubSeq(t, 1, n)
    OBVIOUS
  <1>3. x = [i \in 1 .. n |-> s[i]] /\ y = [i \in 1 .. n |-> t[i]]
    BY <1>1, <1>2
  <1>4. x = y <=> \A i \in 1 .. n : s[i] = t[i]
    BY <1>3
  <1> QED BY <1>1, <1>2, <1>4

LEMMA NodeShapes ==
  ASSUME NodesStand, NEW kind \in TreeKind, NEW r \in Of(kind)
  PROVE  /\ r \in table /\ r.kind = kind /\ NodeStands(r)
         /\ r.code \in Name /\ r.code # None /\ r.path \in Seq(Name)
         /\ Len(r.path) \in Nat /\ Len(r.path) >= 1 /\ Len(r.path) <= MAX_DEPTH + 1
         /\ r.path[Len(r.path)] = r.code
  <1>1. r \in table /\ r.kind = kind /\ NodeStands(r)
    BY DEF Of, NodesStand
  <1> QED BY <1>1, NamesAssumption, MaxDepthAssumption DEF NodeStands, None

\* A path is the path of one node.
LEMMA PathNamesNode ==
  ASSUME NodesStand, CodesAreTaken, NEW kind \in TreeKind, NEW a \in Of(kind),
         NEW b \in Of(kind),
         Len(a.path) = Len(b.path), Agrees(a, b)
  PROVE  a = b
  <1>1. PICK n \in Nat : n = Len(a.path) /\ n >= 1 /\ a.path[n] = a.code /\ b.path[n] = b.code
    BY NodeShapes
  <1>2. a.path[n] = b.path[n]
    BY <1>1 DEF Agrees
  <1>3. a \in table /\ b \in table /\ a.kind = b.kind /\ a.code = b.code
    BY <1>1, <1>2, NodeShapes
  <1> QED BY <1>3 DEF CodesAreTaken

\* The row above a node.
LEMMA ParentOf ==
  ASSUME NodesStand, CodesAreTaken, NEW kind \in TreeKind, NEW r \in Of(kind)
  PROVE  /\ r.parent = None => Len(r.path) = 1
         /\ r.parent # None => \E p \in Of(kind) : p.code = r.parent /\ p.key = r.key
             /\ OneBelow(p, r)
         /\ \A p \in Of(kind) : p.code = r.parent => p.key = r.key /\ OneBelow(p, r)
  <1>1. NodeStands(r) /\ r.kind = kind
    BY NodeShapes
  <1>2. r.parent # None => \E p \in Of(kind) : p.code = r.parent /\ p.key = r.key
        /\ OneBelow(p, r)
    BY <1>1 DEF NodeStands
  <1>3. ASSUME NEW p \in Of(kind), p.code = r.parent PROVE p.key = r.key /\ OneBelow(p, r)
    <2>1. p.code # None /\ p \in table /\ p.kind = kind
      BY NodeShapes
    <2>2. PICK o \in Of(kind) : o.code = r.parent /\ o.key = r.key /\ OneBelow(o, r)
      BY <1>2, <1>3, <2>1
    <2>3. o \in table /\ o.kind = kind
      BY NodeShapes
    <2>4. o = p
      BY <1>3, <2>1, <2>2, <2>3 DEF CodesAreTaken
    <2> QED BY <2>2, <2>4
  <1> QED BY <1>1, <1>2, <1>3 DEF NodeStands

\* Every beginning of a path is the path of a node, with the key of its end.
LEMMA PrefixesAreNodes ==
  ASSUME NodesStand, CodesAreTaken, NEW kind \in TreeKind, NEW r \in Of(kind),
         NEW k \in 1 .. Len(r.path)
  PROVE  \E a \in Of(kind) : a.key = r.key /\ Len(a.path) = k /\ Agrees(a, r)
  <1>1. PICK L \in Nat : L = Len(r.path) /\ L >= 1
    BY NodeShapes
  <1> DEFINE IsAt(a, n) == a.key = r.key /\ Len(a.path) = L - n /\ Agrees(a, r)
             P == {n \in 0 .. L - 1 : \E a \in Of(kind) : IsAt(a, n)}
  <1>2. 0 \in P
    <2>1. IsAt(r, 0) /\ 0 \in 0 .. L - 1
      BY <1>1 DEF Agrees
    <2> HIDE DEF IsAt
    <2> QED BY <2>1
  <1>3. ASSUME NEW n \in 1 .. L - 1, n - 1 \in P PROVE n \in P
    <2>1. PICK a \in Of(kind) : IsAt(a, n - 1)
      BY <1>3
    <2>2. Len(a.path) = L - n + 1 /\ L - n >= 1
      BY <1>1, <2>1
    <2>3. a.parent # None
      <3>1. Len(a.path) # 1
        BY <1>1, <2>2
      <3> QED BY <3>1, ParentOf
    <2>4. PICK p \in Of(kind) : p.key = a.key /\ OneBelow(p, a)
      BY <2>3, ParentOf
    <2>5. Len(p.path) = L - n
      BY <1>1, <2>2, <2>4 DEF OneBelow
    <2>6. Agrees(p, r)
      BY <1>1, <2>1, <2>2, <2>4, <2>5 DEF OneBelow, Agrees
    <2>7. IsAt(p, n)
      BY <2>1, <2>4, <2>5, <2>6
    <2>8. n \in 0 .. L - 1
      BY <1>1
    <2> HIDE DEF IsAt
    <2> QED BY <2>7, <2>8
  <1>4. 0 .. L - 1 \subseteq P
    <2>1. L - 1 \in Nat
      BY <1>1
    <2> HIDE DEF P
    <2> QED BY <1>2, <1>3, <2>1, IntervalInduction
  <1>5. PICK n \in 0 .. L - 1 : L - n = k
    <2>1. L - k \in 0 .. L - 1 /\ L - (L - k) = k
      BY <1>1
    <2> QED BY <2>1
  <1>6. n \in P
    BY <1>4
  <1> QED BY <1>5, <1>6

\* Following parents from a node gives the nodes whose path its path begins with.
LEMMA AncestorsAreThere ==
  ASSUME NodesStand, CodesAreTaken, NEW kind \in TreeKind, NEW r \in Of(kind)
  PROVE  Ancestors(r) = {a \in Of(kind) : Agrees(a, r)}
  <1> DEFINE N == MAX_DEPTH + 1
             Up(rows) ==
               rows \cup {p \in table : \E x \in rows : p.kind = x.kind /\ p.code = x.parent}
             first == {r}
             IsTable(f) == f = [n \in 0 .. N |-> IF n = 0 THEN first ELSE Up(f[n - 1])]
             X == SUBSET table
             G == [n \in 1 .. N |-> [rows \in X |-> Up(rows)]]
             Near(n) == {a \in Of(kind) : Agrees(a, r) /\ Len(a.path) >= Len(r.path) - n}
  <1>1. PICK L \in Nat : L = Len(r.path) /\ L >= 1 /\ L <= N
    BY NodeShapes
  <1>2. N \in Nat /\ r \in table
    BY MaxDepthAssumption, NodeShapes
  <1>3. Ancestors(r) = (CHOOSE f : IsTable(f))[N]
    BY DEF Ancestors
  <1>4. \A rows \in X : Up(rows) \in X
    OBVIOUS
  <1>5. first \in X
    BY <1>2
  <1>6. \A n \in 0 .. N : \A a \in Near(n) : a \in Of(kind) /\ a \in table /\ a.kind = kind
                            /\ Len(a.path) \in Nat /\ Len(a.path) >= 1 /\ Len(a.path) <= L
    BY <1>1, NodeShapes DEF Agrees
  <1>7. Near(0) = first
    <2>1. r \in Near(0)
      BY <1>1 DEF Agrees
    <2>2. ASSUME NEW a \in Near(0) PROVE a = r
      <3>1. Len(a.path) = Len(r.path) /\ Agrees(a, r) /\ a \in Of(kind)
        BY <1>1, <1>2, <1>6
      <3> QED BY <3>1, PathNamesNode
    <2> HIDE DEF Near
    <2> QED BY <2>1, <2>2
  <1>8. ASSUME NEW n \in 1 .. N PROVE Up(Near(n - 1)) = Near(n)
    <2>1. n \in Nat /\ n - 1 \in 0 .. N /\ n \in 0 .. N
      BY <1>2
    <2>2. ASSUME NEW a \in Near(n - 1) PROVE a \in Near(n)
      BY <1>1, <1>6, <2>1
    <2>3. ASSUME NEW p \in table, NEW x \in Near(n - 1), p.kind = x.kind, p.code = x.parent
          PROVE  p \in Near(n)
      <3>1. x \in Of(kind) /\ x.kind = kind /\ Len(x.path) \in Nat /\ Len(x.path) <= L
            /\ Agrees(x, r) /\ Len(x.path) >= L - (n - 1)
        BY <1>1, <1>6, <2>1
      <3>2. p \in Of(kind)
        BY <2>3, <3>1 DEF Of
      <3>3. OneBelow(p, x) /\ Len(p.path) \in Nat
        BY <2>3, <3>1, <3>2, ParentOf, NodeShapes
      <3>4. Agrees(p, r)
        BY <1>1, <3>1, <3>3 DEF Agrees, OneBelow
      <3>5. Len(p.path) >= Len(r.path) - n
        BY <1>1, <2>1, <3>1, <3>3 DEF OneBelow
      <3> QED BY <3>2, <3>4, <3>5
    <2>4. ASSUME NEW a \in Near(n), a \notin Near(n - 1)
          PROVE  \E x \in Near(n - 1) : a.kind = x.kind /\ a.code = x.parent
      <3>1. a \in Of(kind) /\ a.kind = kind /\ Agrees(a, r) /\ Len(a.path) \in Nat
            /\ Len(a.path) >= 1
            /\ Len(a.path) = L - n
        BY <1>1, <1>6, <2>1, <2>4
      <3>2. PICK k \in 1 .. Len(r.path) : k = L - n + 1 /\ k >= 2
        <4>1. L - n + 1 \in 1 .. Len(r.path) /\ L - n + 1 >= 2
          BY <1>1, <2>1, <3>1
        <4> QED BY <4>1
      <3>3. PICK x \in Of(kind) : Len(x.path) = k /\ Agrees(x, r)
        BY PrefixesAreNodes
      <3>4. x \in Near(n - 1) /\ x.kind = kind
        <4>1. x.kind = kind /\ Len(x.path) >= Len(r.path) - (n - 1)
          BY <1>1, <2>1, <3>2, <3>3, NodeShapes
        <4> QED BY <3>3, <4>1
      <3>5. x.parent # None
        <4>1. Len(x.path) # 1
          BY <1>1, <2>1, <3>2, <3>3
        <4> QED BY <4>1, ParentOf
      <3>6. PICK p \in Of(kind) : p.code = x.parent /\ OneBelow(p, x)
        BY <3>5, ParentOf
      <3>7. Len(p.path) = Len(a.path) /\ Agrees(p, a)
        <4>1. PICK m \in Nat : m = Len(a.path) /\ k = m + 1
          BY <1>1, <2>1, <3>1, <3>2
        <4>2. Len(x.path) = m + 1 /\ Len(p.path) = m
          <5>1. Len(x.path) = m + 1 /\ m + 1 - 1 = m
            BY <3>3, <4>1
          <5> QED BY <3>6, <5>1 DEF OneBelow
        <4>3. \A i \in 1 .. m : i \in 1 .. m + 1 /\ a.path[i] = r.path[i]
          BY <3>1, <4>1 DEF Agrees
        <4>4. \A i \in 1 .. m : p.path[i] = x.path[i] /\ x.path[i] = r.path[i]
          BY <3>3, <3>6, <4>2, <4>3 DEF OneBelow, Agrees
        <4> QED BY <4>1, <4>2, <4>3, <4>4 DEF Agrees
      <3>8. p = a
        BY <3>1, <3>7, PathNamesNode
      <3> QED BY <3>1, <3>4, <3>6, <3>8
    <2>5. Near(n) \subseteq table
      BY <2>1, <1>6
    <2> HIDE DEF Near
    <2> QED BY <2>2, <2>3, <2>4, <2>5
  <1>9. Near(N) = {a \in Of(kind) : Agrees(a, r)}
    <2>1. \A a \in Of(kind) : Len(a.path) \in Nat
      BY NodeShapes
    <2> QED BY <1>1, <1>2, <2>1
  <1> HIDE DEF N, Up, first, Near
  <1>10. \A n \in 1 .. N : \A rows \in X : G[n][rows] = Up(rows)
    OBVIOUS
  <1>11. StepsStayIn(G, N, X)
    <2> HIDE DEF G
    <2> QED BY <1>4, <1>10 DEF StepsStayIn
  <1> HIDE DEF G, X
  <1>12. PICK h : IsChain(h, first, G, N, X)
    BY <1>2, <1>5, <1>11, ChainExists
  <1>13. h \in [0 .. N -> X] /\ h[0] = first /\ \A n \in 1 .. N : h[n] = G[n][h[n - 1]]
    BY <1>12 DEF IsChain
  <1>14. \A n \in 1 .. N : h[n - 1] \in X
    BY <1>2, <1>13
  <1>15. \A n \in 1 .. N : h[n] = Up(h[n - 1])
    BY <1>10, <1>13, <1>14
  <1>16. \A n \in 0 .. N : h[n] = IF n = 0 THEN first ELSE Up(h[n - 1])
    BY <1>2, <1>13, <1>15
  <1>17. IsTable(h)
    BY <1>13, <1>16
  <1> DEFINE reach == CHOOSE f : IsTable(f)
  <1>18. IsTable(reach)
    <2> HIDE DEF IsTable
    <2> QED BY <1>17
  <1> HIDE DEF reach
  <1>19. reach[0] = first /\ \A n \in 1 .. N : reach[n] = Up(reach[n - 1])
    BY <1>2, <1>18
  <1> DEFINE P == {n \in 0 .. N : reach[n] = Near(n)}
  <1>20. 0 .. N \subseteq P
    <2>1. 0 \in P
      BY <1>2, <1>7, <1>19
    <2>2. \A n \in 1 .. N : n - 1 \in P => n \in P
      BY <1>2, <1>8, <1>19
    <2> HIDE DEF P
    <2> QED BY <1>2, <2>1, <2>2, IntervalInduction
  <1>21. reach[N] = Near(N)
    BY <1>2, <1>20
  <1> QED BY <1>3, <1>9, <1>21 DEF reach

\* One of them for each length.
LEMMA AncestorsAreCounted ==
  ASSUME NodesStand, CodesAreTaken, NEW kind \in TreeKind, NEW r \in Of(kind),
         NEW above, above = {a \in Of(kind) : Agrees(a, r)}
  PROVE  Cardinality(above) = Len(r.path)
  <1>1. PICK L \in Nat : L = Len(r.path)
    BY NodeShapes
  <1>2. \A a \in above : a \in Of(kind) /\ Agrees(a, r) /\ Len(a.path) \in 1 .. L
    BY <1>1, NodeShapes DEF Agrees
  <1> DEFINE f == [a \in above |-> Len(a.path)]
  <1>3. f \in [above -> 1 .. L]
    BY <1>2
  <1>4. ASSUME NEW a \in above, NEW b \in above, f[a] = f[b] PROVE a = b
    <2>1. Len(a.path) = Len(b.path) /\ Agrees(a, b)
      BY <1>2, <1>4 DEF Agrees
    <2> QED BY <1>2, <2>1, PathNamesNode
  <1>5. ASSUME NEW k \in 1 .. L PROVE \E a \in above : f[a] = k
    <2>1. PICK a \in Of(kind) : Len(a.path) = k /\ Agrees(a, r)
      BY <1>1, PrefixesAreNodes
    <2> QED BY <2>1
  <1> HIDE DEF f
  <1>6. f \in Injection(above, 1 .. L)
    BY <1>3, <1>4 DEF Injection, IsInjective
  <1>7. f \in Surjection(above, 1 .. L)
    BY <1>3, <1>5 DEF Surjection
  <1>8. IsFiniteSet(1 .. L) /\ Cardinality(1 .. L) = L
    BY FS_Interval
  <1>9. Cardinality(above) = Cardinality(1 .. L)
    BY <1>6, <1>7, <1>8, FS_Injection
  <1> QED BY <1>1, <1>8, <1>9

LEMMA TreesAgreeHolds == NodesStand /\ CodesAreTaken => TreesAgree
  <1> SUFFICES ASSUME NodesStand, CodesAreTaken, NEW kind \in TreeKind, NEW r \in Of(kind)
      PROVE  /\ Ancestors(r) = {a \in Of(r.kind) : IsPrefix(a.path, r.path)}
             /\ \A a \in Ancestors(r) : a.key = r.key
             /\ Cardinality(Ancestors(r)) = Len(r.path)
    BY DEF TreesAgree, TreeKind
  <1> DEFINE above == {a \in Of(kind) : Agrees(a, r)}
  <1>1. Ancestors(r) = above /\ r.kind = kind
    BY AncestorsAreThere, NodeShapes
  <1>2. \A a \in Of(kind) : IsPrefix(a.path, r.path) <=> Agrees(a, r)
    BY NodeShapes, PrefixIsAgreement DEF Agrees
  <1>3. ASSUME NEW a \in above PROVE a.key = r.key
    <2>1. Len(a.path) \in 1 .. Len(r.path) /\ Len(r.path) \in Nat
      BY NodeShapes DEF Agrees
    <2>2. PICK b \in Of(kind) : b.key = r.key /\ Len(b.path) = Len(a.path) /\ Agrees(b, r)
      BY <2>1, PrefixesAreNodes
    <2>3. Agrees(a, b)
      BY <2>1, <2>2 DEF Agrees
    <2>4. a = b
      BY <2>2, <2>3, PathNamesNode
    <2> QED BY <2>2, <2>4
  <1>4. Cardinality(above) = Len(r.path)
    BY AncestorsAreCounted
  <1> QED BY <1>1, <1>2, <1>3, <1>4

(* Imports. *)

SheetStands(sheet, valid, outcome) ==
  /\ sheet \in Sheets /\ valid \subseteq DOMAIN sheet
  /\ \A i, j \in valid : sheet[i].sku = sheet[j].sku => i = j
  /\ outcome \in {"DRY_RUN", "REJECTED", "PARTIAL", "IMPORTED"}
  /\ outcome = "IMPORTED" => valid = DOMAIN sheet
  /\ outcome = "PARTIAL" => valid # DOMAIN sheet

\* What a caller holds: a row that stands, of no import; or a sheet, and no
\* answer yet.
FilingStands(f) ==
  /\ filing[f].op = "create" =>
       /\ filing[f].row.by = None
       /\ filing[f].row.kind \in TreeKind => NodeStands(filing[f].row)
  /\ filing[f].op = "import" =>
       /\ SheetStands(filing[f].sheet, filing[f].valid, filing[f].outcome)
       /\ \A r \in outcomes : r.by # f

FilingsStand ==
  /\ filing = [f \in Filer |-> filing[f]]
  /\ \A f \in Filer : FilingStands(f)

\* Items that came with an import have its answer.
ItemsAnswered ==
  /\ \A i \in Of("item") : i.by # None => \E r \in outcomes : r.by = i.by
  /\ \A r \in outcomes : r.by # None

CatalogueInv == FilingsStand /\ NodesStand /\ CodesAreTaken /\ ItemsAnswered /\ ImportsAreWhole

LEMMA CatalogueInvHolds == CatalogueInv => CatalogueHoldsTogether
  BY TreesAgreeHolds DEF CatalogueInv, CatalogueHoldsTogether

LEMMA CatalogueStarts == CatalogueInit => CatalogueInv
  <1> SUFFICES ASSUME CatalogueInit PROVE CatalogueInv
    OBVIOUS
  <1>1. \A f \in Filer : filing[f].op = "none"
    BY DEF CatalogueInit, NoFiling
  <1>2. FilingsStand
    BY <1>1 DEF CatalogueInit, FilingsStand, FilingStands
  <1>3. NodesStand /\ CodesAreTaken /\ ItemsAnswered /\ ImportsAreWhole
    BY DEF CatalogueInit, NodesStand, CodesAreTaken, ItemsAnswered, ImportsAreWhole, Of
  <1> QED BY <1>2, <1>3 DEF CatalogueInv

\* A row to insert for each valid row of the sheet.
SheetItems(f, sheet, valid) ==
  {ItemRow(x.sku, x.uom, x.category, f) : x \in {sheet[i] : i \in valid}}
LEMMA RowsOfSheet ==
  ASSUME NEW f, NEW sheet, NEW valid, NEW outcome, SheetStands(sheet, valid, outcome),
         NEW rows, rows = SheetItems(f, sheet, valid)
  PROVE  /\ \A r \in rows : r.kind = "item" /\ r.by = f
         /\ \A r, s \in rows : r.code = s.code => r = s
         /\ Len(sheet) \in Nat /\ IsFiniteSet(valid) /\ Cardinality(rows) = Cardinality(valid)
         /\ valid = DOMAIN sheet => Cardinality(valid) = Len(sheet)
         /\ valid # DOMAIN sheet => Cardinality(valid) < Len(sheet)
  <1> DEFINE ItemOf(i) == ItemRow(sheet[i].sku, sheet[i].uom, sheet[i].category, f)
             g == [i \in valid |-> ItemOf(i)]
  <1>1. \A i \in valid : ItemOf(i).kind = "item" /\ ItemOf(i).by = f
        /\ ItemOf(i).code = sheet[i].sku
    BY DEF ItemRow, Fields
  <1>2. \A r \in rows : \E i \in valid : r = ItemOf(i)
    BY DEF SheetItems
  <1>3. \A i \in valid : ItemOf(i) \in rows
    BY DEF SheetItems
  <1> HIDE DEF ItemOf
  <1>4. \A r, s \in rows : r.code = s.code => r = s
    BY <1>1, <1>2 DEF SheetStands
  <1>5. g \in [valid -> rows] /\ \A i \in valid : g[i] = ItemOf(i)
    BY <1>3
  <1>6. \A i, j \in valid : g[i] = g[j] => i = j
    BY <1>1, <1>5 DEF SheetStands
  <1>7. \A r \in rows : \E i \in valid : g[i] = r
    BY <1>2, <1>5
  <1> HIDE DEF g
  <1>8. ExistsBijection(valid, rows)
    <2>1. g \in [valid -> rows] /\ DOMAIN g = valid
      BY <1>5
    <2>2. IsInjective(g)
      BY ONLY <1>6, <2>1 DEF IsInjective
    <2>3. g \in Injection(valid, rows)
      BY ONLY <2>1, <2>2 DEF Injection
    <2>4. g \in Surjection(valid, rows)
      BY ONLY <1>7, <2>1 DEF Surjection
    <2> QED BY <2>3, <2>4 DEF ExistsBijection, Bijection
  <1>9. PICK n \in Nat : n = Len(sheet) /\ DOMAIN sheet = 1 .. n
    <2>1. PICK T : sheet \in Seq(T)
      BY SheetsAssumption DEF SheetStands
    <2>2. Len(sheet) \in Nat /\ DOMAIN sheet = 1 .. Len(sheet)
      BY <2>1
    <2> QED BY <2>2
  <1>10. IsFiniteSet(1 .. n) /\ Cardinality(1 .. n) = n /\ valid \in SUBSET (1 .. n)
    <2>1. IsFiniteSet(1 .. n) /\ Cardinality(1 .. n) = IF 1 > n THEN 0 ELSE n - 1 + 1
      BY FS_Interval
    <2>2. Cardinality(1 .. n) = n
      BY <2>1
    <2> QED BY <1>9, <2>1, <2>2 DEF SheetStands
  <1>11. /\ IsFiniteSet(valid) /\ Cardinality(valid) \in Nat /\ Cardinality(valid) <= n
         /\ valid # 1 .. n => Cardinality(valid) # n
    BY <1>10, FS_Subset, FS_CardinalityType
  <1>12. Cardinality(rows) = Cardinality(valid)
    BY <1>8, <1>11, FS_Bijection
  <1> QED BY <1>1, <1>2, <1>4, <1>9, <1>10, <1>11, <1>12

(* The steps. *)

LEMMA FilingSet ==
  ASSUME CatalogueInv, NEW f \in Filer, NEW new, filing' = [filing EXCEPT ![f] = new]
  PROVE  /\ filing' = [o \in Filer |-> filing'[o]] /\ filing'[f] = new
         /\ \A o \in Filer : o # f => filing'[o] = filing[o]
  BY DEF CatalogueInv, FilingsStand

LEMMA FilingStays ==
  ASSUME table \subseteq table', NEW f \in Filer, FilingStands(f), filing'[f] = filing[f],
         \A r \in outcomes' : r \in outcomes \/ r.by # f
  PROVE  FilingStands(f)'
  <1>1. \A r : NodeStands(r) => NodeStands(r)'
    BY NodeStays
  <1> QED BY <1>1 DEF FilingStands

\* A call starts.
LEMMA FilingStarts ==
  ASSUME CatalogueInv, NEW f \in Filer, NEW new, filing' = [filing EXCEPT ![f] = new],
         FilingStands(f)',
         UNCHANGED <<table, outcomes>>
  PROVE  CatalogueInv'
  <1>1. FilingsStand'
    <2>1. \A o \in Filer : o # f => FilingStands(o)'
      BY FilingSet, FilingStays DEF CatalogueInv, FilingsStand
    <2> QED BY <2>1, FilingSet DEF FilingsStand
  <1>2. NodesStand'
    BY NodeStays DEF CatalogueInv, NodesStand
  <1> QED BY <1>1, <1>2 DEF CatalogueInv, CodesAreTaken, ItemsAnswered, ImportsAreWhole, Of

LEMMA FilesKeeps ==
  ASSUME CatalogueInv, NEW f \in Filer, NEW new, Files(f, new), new.by = None,
         new.kind \in TreeKind => NodeStands(new)
  PROVE  CatalogueInv'
  <1> DEFINE call == [op |-> "create", row |-> new]
  <1>1. filing' = [filing EXCEPT ![f] = call] /\ UNCHANGED <<table, outcomes>>
    BY DEF Files
  <1>2. call.op = "create" /\ call.row = new
    OBVIOUS
  <1> HIDE DEF call
  <1>3. filing'[f] = call
    BY <1>1, FilingSet
  <1>4. new.kind \in TreeKind => NodeStands(new)'
    BY <1>1, NodeStays
  <1>5. FilingStands(f)'
    BY <1>2, <1>3, <1>4 DEF FilingStands
  <1> QED BY <1>1, <1>5, FilingStarts

LEMMA CategoryKeeps ==
  ASSUME CatalogueInv, NEW f \in Filer, NEW code \in Name, NEW parent \in Name \cup {None},
         StartCategory(f, code, parent)
  PROVE  CatalogueInv'
  <1>1. PICK path : path = PathBelow("category", code, parent)
    OBVIOUS
  <1>2. PICK new : new = CategoryRow(code, parent, path)
    OBVIOUS
  <1>3. /\ parent = None \/ parent \in Codes("category")
        /\ Depth(path) <= MAX_DEPTH /\ Files(f, new)
    BY <1>1, <1>2 DEF StartCategory
  <1>4. new = Fields("category", code, parent, None, path, None) /\ "category" \in TreeKind
    BY <1>2 DEF CategoryRow, TreeKind
  <1>5. parent # None => RowOf("category", parent).key = None
    <2> SUFFICES ASSUME parent # None PROVE RowOf("category", parent).key = None
      OBVIOUS
    <2>1. RowOf("category", parent) \in Of("category")
      BY <1>3, RowOfIs
    <2>2. NodeStands(RowOf("category", parent)) /\ RowOf("category", parent).kind = "category"
      BY <2>1, <1>4 DEF CatalogueInv, NodesStand, Of
    <2> QED BY <2>2 DEF NodeStands
  <1>6. NodeStands(new)
    BY <1>1, <1>3, <1>4, <1>5, NodeBelowStands DEF CatalogueInv
  <1>7. new.by = None
    BY <1>4 DEF Fields
  <1> QED BY <1>3, <1>6, <1>7, FilesKeeps

LEMMA AccountKeeps ==
  ASSUME CatalogueInv, NEW f \in Filer, NEW code \in Name, NEW type,
         NEW parent \in Name \cup {None},
         StartAccount(f, code, type, parent)
  PROVE  CatalogueInv'
  <1>1. PICK path : path = PathBelow("account", code, parent)
    OBVIOUS
  <1>2. PICK new : new = AccountRow(code, type, parent, path)
    OBVIOUS
  <1>3. /\ parent = None \/ (parent \in Codes("account") /\ RowOf("account", parent).key = type)
        /\ Depth(path) <= MAX_DEPTH /\ Files(f, new)
    BY <1>1, <1>2 DEF StartAccount
  <1>4. new = Fields("account", code, parent, type, path, None) /\ "account" \in TreeKind
    BY <1>2 DEF AccountRow, TreeKind
  <1>5. NodeStands(new)
    BY <1>1, <1>3, <1>4, NodeBelowStands DEF CatalogueInv
  <1>6. new.by = None
    BY <1>4 DEF Fields
  <1> QED BY <1>3, <1>5, <1>6, FilesKeeps

\* The rows of no tree.
LEMMA OrgKeeps ==
  ASSUME CatalogueInv, OrgNext
  PROVE  CatalogueInv'
  <1>1. PICK f \in Filer, n \in Name :
          \/ StartCompany(f, n) \/ StartCustomer(f, n) \/ StartVendor(f, n)
          \/ \E m \in Name \cup {None} : StartUom(f, n, m)
          \/ \E m \in Name, number \in BranchNumber : StartBranch(f, n, m, number)
          \/ \E m \in Name, b \in BOOLEAN : StartWarehouse(f, n, m, b)
    BY DEF OrgNext
  <1>2. PICK kind, m, key :
          /\ Files(f, Fields(kind, n, m, key, <<>>, None))
          /\ kind \in {"company", "customer", "vendor", "uom", "branch", "warehouse"}
    BY <1>1 DEF StartCompany, StartCustomer, StartVendor, StartUom, StartBranch, StartWarehouse,
                CompanyRow, CustomerRow, VendorRow, UomRow, BranchRow, WarehouseRow
  <1>3. PICK new : new = Fields(kind, n, m, key, <<>>, None)
    OBVIOUS
  <1>4. new.by = None /\ new.kind \notin TreeKind
    BY <1>2, <1>3 DEF Fields, TreeKind
  <1> QED BY <1>2, <1>3, <1>4, FilesKeeps

LEMMA ItemKeeps ==
  ASSUME CatalogueInv, NEW f \in Filer, NEW code, NEW uom, NEW category,
         StartItem(f, code, uom, category)
  PROVE  CatalogueInv'
  <1>1. PICK new : new = ItemRow(code, uom, category, None)
    OBVIOUS
  <1>2. new.by = None /\ new.kind \notin TreeKind
    BY <1>1 DEF ItemRow, Fields, TreeKind
  <1> QED BY <1>1, <1>2, FilesKeeps DEF StartItem

LEMMA StartImportKeeps ==
  ASSUME CatalogueInv, NEW f \in Filer, NEW sheet \in Sheets, NEW dryRun, NEW partial,
         StartImport(f, sheet, dryRun, partial)
  PROVE  CatalogueInv'
  <1>1. PICK valid, outcome : valid = ValidRows(sheet)
             /\ outcome = Outcome(sheet, valid, dryRun, partial)
    OBVIOUS
  <1> DEFINE call == [op |-> "import", sheet |-> sheet, valid |-> valid, outcome |-> outcome]
  <1>2. /\ filing' = [filing EXCEPT ![f] = call] /\ UNCHANGED <<table, outcomes>>
        /\ \A r \in outcomes : r.by # f
    BY <1>1 DEF StartImport
  <1>3. SheetStands(sheet, valid, outcome)
    <2>1. valid \subseteq DOMAIN sheet
      BY <1>1 DEF ValidRows
    <2>2. PICK n \in Nat : DOMAIN sheet = 1 .. n
      BY SheetsAssumption
    <2>3. ASSUME NEW i \in valid, NEW j \in valid, sheet[i].sku = sheet[j].sku PROVE i = j
      <3>1. i \in Nat /\ j \in Nat /\ i >= 1 /\ j >= 1
        BY <2>1, <2>2
      <3>2. /\ \A k \in 1 .. i - 1 : sheet[k].sku # sheet[i].sku
            /\ \A k \in 1 .. j - 1 : sheet[k].sku # sheet[j].sku
        BY <1>1 DEF ValidRows
      <3> QED BY <2>3, <3>1, <3>2
    <2>4. /\ outcome \in {"DRY_RUN", "REJECTED", "PARTIAL", "IMPORTED"}
          /\ outcome = "IMPORTED" => valid = DOMAIN sheet
          /\ outcome = "PARTIAL" => valid # DOMAIN sheet
      BY <1>1 DEF Outcome
    <2> QED BY <2>1, <2>3, <2>4 DEF SheetStands
  <1>4. call.op = "import" /\ call.sheet = sheet /\ call.valid = valid /\ call.outcome = outcome
    OBVIOUS
  <1> HIDE DEF call
  <1>5. filing'[f] = call
    BY <1>2, FilingSet
  <1>6. FilingStands(f)'
    BY <1>2, <1>3, <1>4, <1>5 DEF FilingStands
  <1> QED BY <1>2, <1>6, FilingStarts

\* The items of an import.
Loaded(f) == {i \in Of("item") : i.by = f}

\* The answer counts them.
Counts(r, loaded) ==
  CASE r.outcome = "IMPORTED" -> loaded = r.rows
    [] r.outcome = "PARTIAL" -> loaded = r.inserted /\ loaded < r.rows
    [] OTHER -> loaded = 0

AnswersCount == \A r \in outcomes : Counts(r, Cardinality(Loaded(r.by)))

LEMMA WholeIsCounted == ImportsAreWhole <=> AnswersCount
  BY DEF ImportsAreWhole, AnswersCount, Counts, Loaded
LEMMA WholeStaysCounted == ImportsAreWhole' <=> AnswersCount'
  BY WholeIsCounted, PTL

\* Rows that are not refused, of an import or of none.
LEMMA RowsAreAdded ==
  ASSUME CatalogueInv, NEW rows, NEW by, table' = table \cup rows, outcomes \subseteq outcomes',
         \A r \in rows : r.by = by /\ ~ Refused(r),
         \A r \in rows : r.kind \in TreeKind => NodeStands(r),
         \A r, s \in rows : r.kind = s.kind /\ r.code = s.code => r = s,
         \A r \in outcomes : r.by # by
  PROVE  /\ NodesStand' /\ CodesAreTaken'
         /\ \A r \in outcomes : Counts(r, Cardinality(Loaded(r.by)'))
         /\ \A i \in Of("item")' : i.by # None /\ i.by # by => \E r \in outcomes : r.by = i.by
  <1>1. NodesStand'
    BY NodeStays DEF CatalogueInv, NodesStand
  <1>2. CodesAreTaken'
    <2>1. \A r \in rows, s \in table : ~ (r.kind = s.kind /\ r.code = s.code)
      BY DEF Refused, Clashes
    <2> QED BY <2>1 DEF CatalogueInv, CodesAreTaken
  <1>3. \A o : o # by => Loaded(o)' = Loaded(o)
    BY DEF Loaded, Of
  <1>4. \A r \in outcomes : Counts(r, Cardinality(Loaded(r.by)))
    BY WholeIsCounted DEF CatalogueInv, AnswersCount
  <1>5. \A i \in Of("item")' : i.by # by => i \in Of("item")
    BY DEF Of
  <1> QED BY <1>1, <1>2, <1>3, <1>4, <1>5 DEF CatalogueInv, ItemsAnswered

LEMMA InsertKeeps ==
  ASSUME CatalogueInv, NEW f \in Filer, Insert(f)
  PROVE  CatalogueInv'
  <1>1. PICK new : new = filing[f].row
    OBVIOUS
  <1>2. /\ filing[f].op = "create" /\ filing' = [filing EXCEPT ![f] = NoFiling]
            /\ outcomes' = outcomes
        /\ table' = IF Refused(new) THEN table ELSE table \cup {new}
    BY <1>1 DEF Insert
  <1>3. new.by = None /\ (new.kind \in TreeKind => NodeStands(new))
    BY <1>1, <1>2 DEF CatalogueInv, FilingsStand, FilingStands
  <1> DEFINE rows == IF Refused(new) THEN {} ELSE {new}
  <1>4. table' = table \cup rows /\ \A r \in rows : r = new /\ ~ Refused(r)
    BY <1>2
  <1> HIDE DEF rows
  <1>5. \A r \in outcomes : r.by # None
    BY DEF CatalogueInv, ItemsAnswered
  <1>6. /\ NodesStand' /\ CodesAreTaken'
        /\ \A r \in outcomes : Counts(r, Cardinality(Loaded(r.by)'))
        /\ \A i \in Of("item")' : i.by # None /\ i.by # None => \E r \in outcomes : r.by = i.by
    <2>1. outcomes \subseteq outcomes' /\ \A r, s \in rows : r.kind = s.kind
          /\ r.code = s.code => r = s
      BY <1>2, <1>4
    <2>2. \A r \in rows : r.by = None /\ ~ Refused(r)
      BY <1>3, <1>4
    <2>3. \A r \in rows : r.kind \in TreeKind => NodeStands(r)
      BY <1>3, <1>4
    <2> QED BY ONLY CatalogueInv, <1>4, <1>5, <2>1, <2>2, <2>3, RowsAreAdded
  <1>7. ImportsAreWhole'
    BY <1>2, <1>6, WholeStaysCounted DEF AnswersCount
  <1>8. ItemsAnswered'
    BY <1>2, <1>5, <1>6 DEF ItemsAnswered
  <1>9. FilingsStand'
    <2>1. NoFiling.op = "none"
      BY DEF NoFiling
    <2>2. filing'[f] = NoFiling /\ \A o \in Filer : o # f => filing'[o] = filing[o]
      BY <1>2, FilingSet
    <2>3. FilingStands(f)'
      BY <2>1, <2>2 DEF FilingStands
    <2>4. \A o \in Filer : o # f => FilingStands(o)'
      BY <1>2, <1>4, <2>2, FilingStays DEF CatalogueInv, FilingsStand
    <2> QED BY <1>2, <2>3, <2>4, FilingSet DEF FilingsStand
  <1> QED BY <1>6, <1>7, <1>8, <1>9 DEF CatalogueInv

LEMMA ImportKeeps ==
  ASSUME CatalogueInv, NEW f \in Filer, Import(f)
  PROVE  CatalogueInv'
  <1>1. PICK sheet, valid, outcome :
          sheet = filing[f].sheet /\ valid = filing[f].valid /\ outcome = filing[f].outcome
    OBVIOUS
  <1>2. PICK all : all = SheetItems(f, sheet, valid)
    OBVIOUS
  <1>3. PICK writes \in BOOLEAN : writes <=> outcome \in {"IMPORTED", "PARTIAL"}
    OBVIOUS
  <1>4. PICK rows, inserted : /\ rows = IF writes THEN all ELSE {}
                              /\ inserted = IF writes THEN Cardinality(valid) ELSE 0
    OBVIOUS
  <1>5. PICK failed \in BOOLEAN : failed <=> \E r \in rows : Refused(r)
    OBVIOUS
  <1>6. PICK answer : answer = [by |-> f, rows |-> Len(sheet), inserted |-> inserted,
                                outcome |-> IF failed THEN "FAILED" ELSE outcome]
    OBVIOUS
  <1>7. ItemRows(f) = all
    BY <1>1, <1>2 DEF ItemRows, SheetItems
  <1>8. /\ filing[f].op = "import" /\ filing' = [filing EXCEPT ![f] = NoFiling]
        /\ table' = IF failed THEN table ELSE table \cup rows
        /\ outcomes' = outcomes \cup {answer}
    BY <1>1, <1>3, <1>4, <1>5, <1>6, <1>7 DEF Import, CreateMany, Failed
  <1>9. SheetStands(sheet, valid, outcome) /\ \A r \in outcomes : r.by # f
    BY <1>1, <1>8 DEF CatalogueInv, FilingsStand, FilingStands
  <1>10. /\ \A r \in all : r.kind = "item" /\ r.by = f
         /\ \A r, s \in all : r.code = s.code => r = s
         /\ Len(sheet) \in Nat /\ IsFiniteSet(valid) /\ Cardinality(all) = Cardinality(valid)
         /\ valid = DOMAIN sheet => Cardinality(valid) = Len(sheet)
         /\ valid # DOMAIN sheet => Cardinality(valid) < Len(sheet)
    BY <1>2, <1>9, RowsOfSheet
  <1> DEFINE added == IF failed THEN {} ELSE rows
  <1>11. table' = table \cup added /\ \A r \in added : r \in all /\ ~ Refused(r)
    BY <1>4, <1>5, <1>8
  <1>12. \A r \in added : r.kind = "item" /\ r.kind \notin TreeKind /\ r.by = f
    BY <1>10, <1>11 DEF TreeKind
  <1>13. f # None /\ answer.by = f
    BY <1>6, NamesAssumption DEF None
  <1>14. Loaded(f)' = added
    <2>1. Loaded(f) = {}
      BY <1>9, <1>13 DEF CatalogueInv, ItemsAnswered, Loaded
    <2> HIDE DEF added
    <2>2. Loaded(f)' = Loaded(f) \cup added
      BY <1>11, <1>12 DEF Loaded, Of
    <2> QED BY <2>1, <2>2
  <1>15. Counts(answer, Cardinality(added))
    <2>1. Cardinality({}) = 0
      BY FS_EmptySet
    <2>2. /\ answer.rows = Len(sheet) /\ answer.inserted = inserted
          /\ answer.outcome = IF failed THEN "FAILED" ELSE outcome
      BY <1>6
    <2>3. CASE failed
      BY <2>1, <2>2, <2>3 DEF Counts
    <2>4. CASE ~ failed /\ ~ writes
      BY <2>1, <2>2, <2>4, <1>3, <1>4 DEF Counts
    <2>5. CASE ~ failed /\ writes
      <3>1. added = all /\ inserted = Cardinality(all) /\ answer.outcome = outcome
        BY <2>2, <2>5, <1>4, <1>10
      <3>2. CASE outcome = "IMPORTED"
        <4>1. Cardinality(all) = Len(sheet)
          BY <1>9, <1>10, <3>2 DEF SheetStands
        <4> QED BY <2>2, <3>1, <3>2, <4>1 DEF Counts
      <3>3. CASE outcome = "PARTIAL"
        <4>1. Cardinality(all) < Len(sheet)
          BY <1>9, <1>10, <3>3 DEF SheetStands
        <4> QED BY <2>2, <3>1, <3>3, <4>1 DEF Counts
      <3> QED BY <1>3, <2>5, <3>2, <3>3
    <2> QED BY <2>3, <2>4, <2>5
  <1> HIDE DEF added
  <1>16. /\ NodesStand' /\ CodesAreTaken'
         /\ \A r \in outcomes : Counts(r, Cardinality(Loaded(r.by)'))
         /\ \A i \in Of("item")' : i.by # None /\ i.by # f => \E r \in outcomes : r.by = i.by
    <2>1. outcomes \subseteq outcomes' /\ \A r, s \in added : r.kind = s.kind
          /\ r.code = s.code => r = s
      BY <1>8, <1>10, <1>11
    <2>2. \A r \in added : r.by = f /\ ~ Refused(r)
      BY <1>11, <1>12
    <2>3. \A r \in added : r.kind \in TreeKind => NodeStands(r)
      BY <1>12
    <2> QED BY ONLY CatalogueInv, <1>9, <1>11, <2>1, <2>2, <2>3, RowsAreAdded
  <1>17. ImportsAreWhole'
    BY <1>8, <1>13, <1>14, <1>15, <1>16, WholeStaysCounted DEF AnswersCount
  <1>18. ItemsAnswered'
    BY <1>8, <1>13, <1>16 DEF CatalogueInv, ItemsAnswered
  <1>19. FilingsStand'
    <2>1. NoFiling.op = "none"
      BY DEF NoFiling
    <2>2. filing'[f] = NoFiling /\ \A o \in Filer : o # f => filing'[o] = filing[o]
      BY <1>8, FilingSet
    <2>3. FilingStands(f)'
      BY <2>1, <2>2 DEF FilingStands
    <2>4. \A o \in Filer : o # f => FilingStands(o)'
      BY <1>8, <1>11, <1>13, <2>2, FilingStays DEF CatalogueInv, FilingsStand
    <2> QED BY <1>8, <2>3, <2>4, FilingSet DEF FilingsStand
  <1> QED BY <1>16, <1>17, <1>18, <1>19 DEF CatalogueInv

LEMMA CatalogueStep == CatalogueInv /\ [CatalogueNext]_catalogueVars => CatalogueInv'
  <1> SUFFICES ASSUME CatalogueInv, [CatalogueNext]_catalogueVars PROVE CatalogueInv'
    OBVIOUS
  <1>1. CASE UNCHANGED catalogueVars
    <2>1. \A f \in Filer : FilingStands(f)'
      BY <1>1, FilingStays DEF catalogueVars, CatalogueInv, FilingsStand
    <2>2. NodesStand'
      BY <1>1, NodeStays DEF catalogueVars, CatalogueInv, NodesStand
    <2> QED BY <1>1, <2>1, <2>2 DEF catalogueVars, CatalogueInv, FilingsStand, CodesAreTaken,
               ItemsAnswered,
                                    ImportsAreWhole, Of
  <1>2. CASE OrgNext
    BY <1>2, OrgKeeps
  <1>3. CASE TreeNext
    BY <1>3, CategoryKeeps, AccountKeeps DEF TreeNext
  <1>4. CASE ItemNext
    BY <1>4, ItemKeeps, StartImportKeeps, ImportKeeps DEF ItemNext
  <1>5. CASE \E f \in Filer : Insert(f)
    BY <1>5, InsertKeeps
  <1> QED BY <1>1, <1>2, <1>3, <1>4, <1>5 DEF CatalogueNext

-----------------------------------------------------------------------------
(* The parts together. *)

MasterInv == PartnerInv /\ BomInv /\ PriceInv /\ RatesInv /\ CatalogueInv

\* A step of one part is a stutter of the others.
LEMMA EachPartSteps ==
  [MasterNext]_masterVars =>
    /\ [PartnerNext]_partnerVars /\ [BomNext]_bomVars /\ [PriceNext]_priceVars
    /\ [RatesNext]_ratesVars /\ [CatalogueNext]_catalogueVars
  BY DEF MasterNext, masterVars, OnlyPartners, OnlyRecipes, OnlyLists, OnlyFigures, OnlyFiles

LEMMA MasterInvariance == MasterSpec => []MasterInv
  <1>1. MasterInit => MasterInv
    BY PartnerStarts, BomStarts, PriceStarts, RatesStarts, CatalogueStarts DEF MasterInit,
       MasterInv
  <1>2. MasterInv /\ [MasterNext]_masterVars => MasterInv'
    BY EachPartSteps, PartnerStep, BomStep, PriceStep, RatesStep, CatalogueStep DEF MasterInv
  <1> QED BY <1>1, <1>2, PTL DEF MasterSpec

\* However calls for a partner overlap, its primary rows, consents and the
\* answers to requests hold together (partner/application).
THEOREM PartnersSafe == MasterSpec => []PartnersHoldTogether
  <1>1. MasterInv => PartnersHoldTogether
    BY PartnerInvHolds DEF MasterInv
  <1> QED BY <1>1, MasterInvariance, PTL

\* A product made once from an active version has exactly one, however
\* activations overlap, and no version was checked into a loop
\* (bom/application).
THEOREM RecipesSafe == MasterSpec => []RecipesHoldTogether
  <1>1. MasterInv => RecipesHoldTogether
    BY BomInvHolds DEF MasterInv
  <1> QED BY <1>1, MasterInvariance, PTL

\* One line prices a query; a rate entered by hand stands; a conversion returns
\* and the split of a gross amount agrees with the tax on its base, for any
\* scale, rate and amount (price-list, finance).
THEOREM TermsSafe == MasterSpec => []TermsHoldTogether
  <1>1. MasterInv => TermsHoldTogether
    BY PriceInvHolds, RatesInvHolds DEF MasterInv, TermsHoldTogether
  <1> QED BY <1>1, MasterInvariance, PTL

\* Paths say what parents say, in trees of any depth, and a sheet of any length
\* goes in as its answer says (item-category, chart-of-accounts, item).
THEOREM CatalogueSafe == MasterSpec => []CatalogueHoldsTogether
  <1>1. MasterInv => CatalogueHoldsTogether
    BY CatalogueInvHolds DEF MasterInv
  <1> QED BY <1>1, MasterInvariance, PTL

\* The answer to a price query, or the value of an amount, changes only where
\* the line or the rate that is written is for it.
THEOREM FiguresMoveSafe == MasterSpec => FiguresMoveForTheirReaders
  <1>1. MasterInv /\ [MasterNext]_masterVars =>
          [PriceMoves /\ RateMoves]_<<lists, prices, currencies, rates>>
    BY EachPartSteps, PricesMove, RatesMove DEF MasterInv
  <1> QED BY <1>1, MasterInvariance, PTL DEF MasterSpec, FiguresMoveForTheirReaders
=============================================================================
