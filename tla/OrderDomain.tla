---------------------------- MODULE OrderDomain ----------------------------
(***************************************************************************)
(* The production order aggregate                                          *)
(* (src/src/modules/production-order/domain): the table of transitions,    *)
(* the guards of each command and the order it leaves behind.  Nothing     *)
(* here has state; OrderLifecycle and ProductionOrder give it two.         *)
(***************************************************************************)
EXTENDS Integers, Sequences

CONSTANTS Users,
          NoUser,       \* null in firstApprover and secondApprover
          Amounts,      \* values totalAmount may take
          Threshold,    \* dualApprovalThresholdSatang of the tenant
          Ordered,      \* orderedQuantity
          OverBp,       \* overToleranceBasisPoints of the tenant
          UnderBp,      \* underToleranceBasisPoints of the tenant
          ReportSizes,  \* quantities a progress report may carry
          Orders,       \* ids of production orders
          NoOrder       \* the value of an id whose order does not exist

ASSUME NoUserAssumption == NoUser \notin Users
ASSUME AmountsAssumption == Amounts \subseteq Nat /\ Threshold \in Nat
ASSUME QuantityAssumption ==
  Ordered \in Nat /\ OverBp \in Nat /\ UnderBp \in Nat /\ ReportSizes \subseteq Nat

Status == {"DRAFT", "SUBMITTED", "APPROVED", "RELEASED", "IN_PROGRESS",
           "COMPLETED", "CANCELLED"}

\* R9: the most that may be produced and the least that completes the order.
OverCeiling == (Ordered * (10000 + OverBp)) \div 10000
CompletionFloor ==
  IF UnderBp >= 10000 THEN 0 ELSE (Ordered * (10000 - UnderBp)) \div 10000

Order == [status         : Status,
          createdBy      : Users,
          totalAmount    : Amounts,
          firstApprover  : Users \union {NoUser},
          secondApprover : Users \union {NoUser},
          produced       : 0..OverCeiling]

ASSUME NoOrderAssumption == NoOrder \notin Order

\* An event as the audit trail needs it: its type and the status it announces.
Event == [type : {"submitted", "approved", "released", "progress_reported",
                  "completed", "cancelled"},
          toStatus : Status]

-----------------------------------------------------------------------------

\* R1, the only table of legal transitions.
AllowedTransitions ==
  {<<"DRAFT", "SUBMITTED">>, <<"DRAFT", "CANCELLED">>,
   <<"SUBMITTED", "DRAFT">>, <<"SUBMITTED", "APPROVED">>,
   <<"SUBMITTED", "CANCELLED">>, <<"APPROVED", "RELEASED">>,
   <<"APPROVED", "CANCELLED">>, <<"RELEASED", "IN_PROGRESS">>,
   <<"RELEASED", "CANCELLED">>, <<"IN_PROGRESS", "COMPLETED">>}

CanTransition(from, to) == <<from, to>> \in AllowedTransitions

\* R2: more than the threshold needs two approvers.
DualRequired(o) == o.totalAmount > Threshold

Draft(creator, amount) ==
  [status |-> "DRAFT", createdBy |-> creator, totalAmount |-> amount,
   firstApprover |-> NoUser, secondApprover |-> NoUser, produced |-> 0]

\* The first approval of an order that needs two.
IsFirstOfTwo(o) == DualRequired(o) /\ o.firstApprover = NoUser

\* Mutant: the creator check is dropped.
MayApproveOwn(o, actor) ==
  /\ o.status = "SUBMITTED"
  /\ DualRequired(o) => actor # o.firstApprover

\* The guards of approve: R3 against the creator, then two distinct approvers.
MayApprove(o, actor) ==
  /\ o.status = "SUBMITTED"
  /\ actor # o.createdBy
  /\ DualRequired(o) => actor # o.firstApprover

AfterApprove(o, actor) ==
  IF IsFirstOfTwo(o) THEN [o EXCEPT !.firstApprover = actor]
  ELSE IF DualRequired(o)
  THEN [o EXCEPT !.secondApprover = actor, !.status = "APPROVED"]
  ELSE [o EXCEPT !.firstApprover = actor, !.status = "APPROVED"]

\* The first of two approvals announces nothing.
ApproveEvents(o) ==
  IF IsFirstOfTwo(o) THEN <<>> ELSE <<[type |-> "approved", toStatus |-> "APPROVED"]>>

\* Mutant: the ceiling is compared with the report instead of the running total.
MayReportAlone(o, quantity) ==
  /\ o.status \in {"RELEASED", "IN_PROGRESS"}
  /\ quantity <= OverCeiling

MayReport(o, quantity) ==
  /\ o.status \in {"RELEASED", "IN_PROGRESS"}
  /\ o.produced + quantity <= OverCeiling

Completes(o, quantity) == o.produced + quantity >= CompletionFloor

\* A report may start and complete the order in one step.
AfterReport(o, quantity) ==
  [o EXCEPT !.produced = @ + quantity,
            !.status = IF Completes(o, quantity) THEN "COMPLETED" ELSE "IN_PROGRESS"]

ReportEvents(o, quantity) ==
  LET progress == [type |-> "progress_reported", toStatus |-> "IN_PROGRESS"]
      completed == [type |-> "completed", toStatus |-> "COMPLETED"]
  IN  IF Completes(o, quantity) THEN <<progress, completed>> ELSE <<progress>>

\* submit, release and cancel change the status and announce it.
Moved(o, status) == [o EXCEPT !.status = status]
MoveEvents(type, status) == <<[type |-> type, toStatus |-> status]>>
=============================================================================
