-------------------------- MODULE ApprovalRequest --------------------------
(***************************************************************************)
(* Multi-step approval (src/src/modules/approval).                         *)
(*                                                                         *)
(* A document opens a request with the steps its policy applies to the     *)
(* amount; eligible users approve or reject the current step, and the      *)
(* requester may cancel.  Each HTTP call is as many steps here as it has   *)
(* accesses to shared state in the code: buildDecider reads roles and      *)
(* delegations before the transaction; findById reads the header, the      *)
(* steps and the decisions in a query each, without a lock that lasts      *)
(* (READ COMMITTED), so that a copy may be torn by a save in between; and  *)
(* save writes header and steps back BY ID, with no version.  What save    *)
(* writes is computed from the loaded copy.                                *)
(*                                                                         *)
(* Two constraints of the database stop some stale writes: the filtered    *)
(* unique index (one PENDING request per document) and the unique          *)
(* idempotency key of outbox_message.  A commit that meets either rolls    *)
(* back as a whole.                                                        *)
(***************************************************************************)
EXTENDS Naturals, Sequences, FiniteSets

CONSTANTS Requests,        \* ids a submission may draw
          Documents,       \* documents that need approval
          Users,
          RolesOf,         \* RolesOf[u]: the roles user u holds
          Chains,          \* step lists applicableSteps may return
          DelegationPairs, \* <<from, to>> pairs that may be delegated
          Calls,           \* concurrent decide and cancel calls
          NoOne            \* "not on behalf of anybody"

Roles == UNION {RolesOf[u] : u \in Users}
Step == [role : Roles, required : Nat \ {0}]

ASSUME NoOneAssumption == NoOne \notin Users
ASSUME SomebodyAssumption == Requests # {} /\ Documents # {} /\ Users # {}
ASSUME ChainsAssumption == \A chain \in Chains : chain \in Seq(Step)
ASSUME DelegationAssumption == DelegationPairs \subseteq Users \X Users

VARIABLES
  requests,     \* apv_request with its steps and decisions
  outboxKeys,   \* idempotency keys of the module's outbox_message rows
  delegations,  \* <<from, to>>: delegations active today
  calls,        \* the memory of each call
  torn,         \* history: requests saved from a torn copy
  overlapped    \* history: <<user, id>> whose decide calls overlapped

vars == <<requests, outboxKeys, delegations, calls, torn, overlapped>>

Status == {"ABSENT", "PENDING", "APPROVED", "REJECTED", "CANCELLED"}
Op == {"APPROVE", "REJECT", "CANCEL"}

Decision == [call : Calls, stepNo : Nat, by : Users,
             onBehalfOf : Users \union {NoOne}, decision : {"APPROVE", "REJECT"}]

\* currentStepNo is 0 for null; stepStatus[i] is the status of step i.
Request == [documentId    : Documents,
            requestedBy   : Users,
            status        : Status,
            currentStepNo : Nat,
            steps         : Chains \union {<<>>},
            stepStatus    : Seq({"PENDING", "APPROVED", "REJECTED"}),
            decisions     : SUBSET Decision]

Call == [phase : {"idle", "called", "header", "steps", "loaded", "done"},
         user  : Users,
         op    : Op,
         id    : Requests,
         delegators : SUBSET Users,  \* who lends this user their roles
         loaded     : Request,       \* what findById has read of the request
         whole      : BOOLEAN]       \* header and steps read are of one state

NoRequest ==
  [documentId    |-> CHOOSE doc \in Documents : TRUE,
   requestedBy   |-> CHOOSE u \in Users : TRUE,
   status        |-> "ABSENT",
   currentStepNo |-> 0,
   steps         |-> <<>>,
   stepStatus    |-> <<>>,
   decisions     |-> {}]

IdleCall ==
  [phase      |-> "idle",
   user       |-> CHOOSE u \in Users : TRUE,
   op         |-> "CANCEL",
   id         |-> CHOOSE id \in Requests : TRUE,
   delegators |-> {},
   loaded     |-> NoRequest,
   whole      |-> TRUE]

\* An ended call has forgotten everything.
DoneCall == [IdleCall EXCEPT !.phase = "done"]

-----------------------------------------------------------------------------

\* The step the request waits for.
CurrentStep(req) == req.steps[req.currentStepNo]

\* eligibilityOf: on whose behalf the user may act; own roles come first, and
\* the order of several delegators is the database's.
ActsFor(req, user, delegators) ==
  IF CurrentStep(req).role \in RolesOf[user]
  THEN {NoOne}
  ELSE {from \in delegators : CurrentStep(req).role \in RolesOf[from]}

\* The decisions of the step the request waits for.
StepDecisions(req) == {d \in req.decisions : d.stepNo = req.currentStepNo}

\* Mutant: nobody asks whether the user has decided the step already.
MayDecideAgain(req, user, from) ==
  /\ user # req.requestedBy
  /\ from # req.requestedBy

\* The guards of decide that follow the eligibility check.
MayDecide(req, user, from) ==
  /\ user # req.requestedBy
  /\ from # req.requestedBy
  /\ \A d \in StepDecisions(req) : d.by # user /\ d.onBehalfOf # user

\* Mutant: a rejection updates the header and not its step.
AfterRejectHeaderOnly(req, d) ==
  [req EXCEPT !.decisions = @ \union {d}, !.status = "REJECTED", !.currentStepNo = 0]

\* decide with REJECT: the step and the request are rejected.
AfterReject(req, d) ==
  [req EXCEPT !.decisions = @ \union {d},
              !.stepStatus[d.stepNo] = "REJECTED",
              !.status = "REJECTED", !.currentStepNo = 0]

Approvals(decisions) == {d \in decisions : d.decision = "APPROVE"}

\* Mutant: the last step hands over to a step that does not exist.
AfterApprovePastTheEnd(req, d) ==
  LET kept == [req EXCEPT !.decisions = @ \union {d}]
      complete == Cardinality(Approvals(StepDecisions(kept)))
                    >= CurrentStep(req).required
  IN  IF ~complete THEN kept
      ELSE [kept EXCEPT !.stepStatus[d.stepNo] = "APPROVED",
                        !.currentStepNo = @ + 1]

\* decide with APPROVE: the step waits for more, or hands over to the next one,
\* or is the last and approves the request.
AfterApprove(req, d) ==
  LET kept == [req EXCEPT !.decisions = @ \union {d}]
      complete == Cardinality(Approvals(StepDecisions(kept)))
                    >= CurrentStep(req).required
      approved == [kept EXCEPT !.stepStatus[d.stepNo] = "APPROVED"]
  IN  IF ~complete THEN kept
      ELSE IF req.currentStepNo < Len(req.steps)
      THEN [approved EXCEPT !.currentStepNo = @ + 1]
      ELSE [approved EXCEPT !.status = "APPROVED", !.currentStepNo = 0]

AfterDecide(req, d) ==
  IF d.decision = "REJECT" THEN AfterReject(req, d) ELSE AfterApprove(req, d)

\* Mutant: approval and rejection have keys of their own.
DecideKeysPerOutcome(id, req, next) ==
  IF next.status = "APPROVED" THEN {<<id, "resolved", 1, 0>>}
  ELSE IF next.status = "REJECTED" THEN {<<id, "resolved", 0, 0>>}
  ELSE {}

\* The outbox key of the event a decision emits, if it emits one: "resolved" is
\* shared by approval and rejection.
DecideKeys(id, req, next) ==
  IF next.status \in {"APPROVED", "REJECTED"}
  THEN {<<id, "resolved", 0, 0>>}
  ELSE IF next.currentStepNo # req.currentStepNo
  THEN {<<id, "step", next.currentStepNo, Cardinality(next.decisions)>>}
  ELSE {}

-----------------------------------------------------------------------------

\* save: header and the status of every step from the copy, decisions added to
\* those already stored.
Saved(id, next) ==
  [next EXCEPT !.decisions = @ \union requests[id].decisions]

\* The database accepts the commit: no key is taken, and the document has no other
\* PENDING request.
CommitAllowed(id, next, keys) ==
  /\ keys \cap outboxKeys = {}
  /\ next.status = "PENDING" =>
       \A other \in Requests \ {id} :
         requests[other].documentId = next.documentId
           => requests[other].status # "PENDING"

\* Commit of a call's transaction, or its rollback.
Finish(c, next, keys) ==
  /\ calls' = [calls EXCEPT ![c] = DoneCall]
  /\ IF CommitAllowed(calls[c].id, next, keys)
     THEN /\ requests' = [requests EXCEPT ![calls[c].id] = Saved(calls[c].id, next)]
          /\ outboxKeys' = outboxKeys \union keys
          /\ torn' = IF calls[c].whole THEN torn ELSE torn \union {calls[c].id}
     ELSE UNCHANGED <<requests, outboxKeys, torn>>

-----------------------------------------------------------------------------

Init ==
  /\ requests = [id \in Requests |-> NoRequest]
  /\ outboxKeys = {}
  /\ delegations = {}
  /\ calls = [c \in Calls |-> IdleCall]
  /\ torn = {}
  /\ overlapped = {}

\* SubmitForApprovalUseCase, inside the document's transaction.  The read of
\* findPendingForDocument and the insert are one step: the unique index makes a
\* submission that raced it fail as the read would have.
Submit(id, doc, user, chain) ==
  /\ requests[id].status = "ABSENT"
  /\ \A other \in Requests :
       requests[other].documentId = doc => requests[other].status # "PENDING"
  /\ requests' = [requests EXCEPT ![id] =
       [documentId    |-> doc,
        requestedBy   |-> user,
        status        |-> IF chain = <<>> THEN "APPROVED" ELSE "PENDING",
        currentStepNo |-> IF chain = <<>> THEN 0 ELSE 1,
        steps         |-> chain,
        stepStatus    |-> [i \in 1..Len(chain) |-> "PENDING"],
        decisions     |-> {}]]
  /\ outboxKeys' = IF chain = <<>> THEN outboxKeys
                   ELSE outboxKeys \union {<<id, "requested", 0, 0>>}
  /\ UNCHANGED <<delegations, calls, torn, overlapped>>

\* A call that decides for this user on this request is under way.
Deciding(c, user, id) ==
  /\ calls[c].phase \notin {"idle", "done"} /\ calls[c].op # "CANCEL"
  /\ calls[c].user = user /\ calls[c].id = id

\* A call arrives; buildDecider reads the delegations before the transaction.
StartCall(c, user, op, id) ==
  /\ calls[c].phase = "idle"
  /\ requests[id].status # "ABSENT"
  /\ calls' = [calls EXCEPT ![c] =
       [@ EXCEPT !.phase = "called", !.user = user, !.op = op, !.id = id,
                 !.delegators = IF op = "CANCEL" THEN {}
                                ELSE {u \in Users : <<u, user>> \in delegations}]]
  /\ overlapped' = IF op # "CANCEL" /\ \E b \in Calls : Deciding(b, user, id)
                   THEN overlapped \union {<<user, id>>} ELSE overlapped
  /\ UNCHANGED <<requests, outboxKeys, delegations, torn>>

\* The checks decide and cancel make on the loaded copy.
Accepts(req, call) ==
  /\ req.status = "PENDING"
  /\ IF call.op = "CANCEL"
     THEN call.user = req.requestedBy
     ELSE \E from \in ActsFor(req, call.user, call.delegators) :
            MayDecide(req, call.user, from)

\* What findById has read of a request when it has read so much of the row.
HeaderOf(row) == [row EXCEPT !.stepStatus = <<>>, !.decisions = {}]
WithSteps(copy, row) == [copy EXCEPT !.stepStatus = row.stepStatus]
WithDecisions(copy, row) == [copy EXCEPT !.decisions = row.decisions]

\* findById: the header, then the steps, then their decisions, each as it is
\* by then.
ReadHeader(c) ==
  LET row == requests[calls[c].id] IN
  /\ calls[c].phase = "called"
  /\ calls' = [calls EXCEPT ![c] = [@ EXCEPT !.loaded = HeaderOf(row), !.phase = "header"]]
  /\ UNCHANGED <<requests, outboxKeys, delegations, torn, overlapped>>

ReadSteps(c) ==
  LET copy == calls[c].loaded
      row  == requests[calls[c].id]
  IN
  /\ calls[c].phase = "header"
  /\ calls' = [calls EXCEPT ![c] =
       [@ EXCEPT !.loaded = WithSteps(copy, row), !.phase = "steps",
                 !.whole = copy = HeaderOf(row)]]
  /\ UNCHANGED <<requests, outboxKeys, delegations, torn, overlapped>>

\* With the decisions the copy is complete and the checks of decide or cancel
\* run: a call they refuse ends with an error and changes nothing.
ReadDecisions(c) ==
  LET copy == WithDecisions(calls[c].loaded, requests[calls[c].id]) IN
  /\ calls[c].phase = "steps"
  /\ calls' = [calls EXCEPT ![c] =
       IF Accepts(copy, @) THEN [@ EXCEPT !.loaded = copy, !.phase = "loaded"]
       ELSE DoneCall]
  /\ UNCHANGED <<requests, outboxKeys, delegations, torn, overlapped>>

\* DecideApprovalUseCase after the load: decide on the copy, save, enqueue.
Decide(c) ==
  LET call == calls[c]
      req == call.loaded
  IN
  /\ call.phase = "loaded"
  /\ call.op # "CANCEL"
  /\ \E from \in ActsFor(req, call.user, call.delegators) :
       /\ MayDecide(req, call.user, from)
       /\ LET d == [call |-> c, stepNo |-> req.currentStepNo, by |-> call.user,
                    onBehalfOf |-> from, decision |-> call.op]
              next == AfterDecide(req, d)
          IN  Finish(c, next, DecideKeys(call.id, req, next))
  /\ UNCHANGED <<delegations, overlapped>>

\* CancelApprovalUseCase after the load: save, enqueue.
Cancel(c) ==
  LET call == calls[c]
      next == [call.loaded EXCEPT !.status = "CANCELLED", !.currentStepNo = 0]
  IN
  /\ call.phase = "loaded"
  /\ call.op = "CANCEL"
  /\ Finish(c, next, {<<call.id, "cancelled", 0, 0>>})
  /\ UNCHANGED <<delegations, overlapped>>

\* CreateDelegationUseCase and RevokeDelegationUseCase (or the dates of a
\* delegation beginning or ending).
Delegate(pair) ==
  /\ pair \notin delegations
  /\ delegations' = delegations \union {pair}
  /\ UNCHANGED <<requests, outboxKeys, calls, torn, overlapped>>

Revoke(pair) ==
  /\ pair \in delegations
  /\ delegations' = delegations \ {pair}
  /\ UNCHANGED <<requests, outboxKeys, calls, torn, overlapped>>

Next ==
  \/ \E id \in Requests, doc \in Documents, user \in Users, chain \in Chains \union {<<>>} :
       Submit(id, doc, user, chain)
  \/ \E c \in Calls, user \in Users, op \in Op, id \in Requests :
       StartCall(c, user, op, id)
  \/ \E c \in Calls : ReadHeader(c) \/ ReadSteps(c) \/ ReadDecisions(c)
  \/ \E c \in Calls : Decide(c) \/ Cancel(c)
  \/ \E pair \in DelegationPairs : Delegate(pair) \/ Revoke(pair)

Spec == Init /\ [][Next]_vars

-----------------------------------------------------------------------------

TypeOK ==
  /\ requests \in [Requests -> Request]
  /\ \A id \in Requests : requests[id].currentStepNo \in 0..Len(requests[id].steps)
  /\ outboxKeys \subseteq Requests \X {"requested", "resolved", "cancelled", "step"}
                            \X Nat \X Nat
  /\ delegations \subseteq DelegationPairs
  /\ calls \in [Calls -> Call]
  /\ torn \subseteq Requests
  /\ overlapped \subseteq Users \X Requests

\* Whose role a decision rests on.
Principal(d) == IF d.onBehalfOf = NoOne THEN d.by ELSE d.onBehalfOf

\* The approvals of step i that count: of holders of its role, by nobody for
\* the requester.
ApprovalsFor(req, i) ==
  {d \in Approvals(req.decisions) :
     /\ d.stepNo = i /\ req.steps[i].role \in RolesOf[Principal(d)]
     /\ req.requestedBy \notin {d.by, d.onBehalfOf}}

\* "each step needs requiredApprovals distinct APPROVEs from holders of its
\* role" (comment of class ApprovalRequest): an APPROVED request has them on
\* every step, whatever torn or stale copies were saved over it; two of them
\* are of one decider only where that user's calls on the request overlapped
\* (decide, save).
ApprovedIsBacked ==
  \A id \in Requests :
    requests[id].status = "APPROVED" =>
      \A i \in DOMAIN requests[id].steps :
        LET approvals == ApprovalsFor(requests[id], i)
        IN  /\ Cardinality(approvals) >= requests[id].steps[i].required
            /\ \A d, e \in approvals :
                 d # e /\ d.by = e.by => <<d.by, id>> \in overlapped

\* A request on which a rejection is stored is never APPROVED, although a stale
\* approval may have made it PENDING again: the key "resolved" is taken
\* (DecideApprovalUseCase, unique idempotencyKey).
RejectedNeverApproved ==
  \A id \in Requests :
    requests[id].status = "APPROVED" =>
      \A d \in requests[id].decisions : d.decision = "APPROVE"

\* Header and steps of a request tell one story after any overlap of saves,
\* unless one saved a torn copy: the steps before the current one are APPROVED
\* and the others PENDING, and a REJECTED request has a REJECTED step (save
\* writes the status of every step).
HeaderMatchesSteps ==
  \A id \in Requests \ torn :
    LET req == requests[id] IN
    /\ req.status = "PENDING" =>
         \A i \in DOMAIN req.stepStatus :
           req.stepStatus[i] = IF i < req.currentStepNo THEN "APPROVED" ELSE "PENDING"
    /\ req.status = "APPROVED" =>
         \A i \in DOMAIN req.stepStatus : req.stepStatus[i] = "APPROVED"
    /\ req.status = "REJECTED" =>
         \E i \in DOMAIN req.stepStatus : req.stepStatus[i] = "REJECTED"

\* A document never has two PENDING requests, although a stale save can make a
\* resolved request PENDING again after the document was resubmitted
\* (filtered unique index on apv_request).
OnePendingPerDocument ==
  \A id, other \in Requests :
    /\ requests[id].status = "PENDING"
    /\ requests[other].status = "PENDING"
    /\ requests[id].documentId = requests[other].documentId
    => id = other

\* A request tells one story, and a document has one open request.
RequestsHoldTogether == HeaderMatchesSteps /\ OnePendingPerDocument

\* "any REJECT ends the request" (comment of class ApprovalRequest): a request
\* that is REJECTED stays REJECTED.
RejectEndsTheRequest ==
  [][\A id \in Requests :
       requests[id].status = "REJECTED" => requests'[id].status = "REJECTED"]_vars

\* "a user decides a step at most once, delegated or not" (comment of class
\* ApprovalRequest): no user is behind two decisions of one step, as the decider
\* or as the one decided for.
OneVoicePerStep ==
  \A id \in Requests : \A d, e \in requests[id].decisions :
    d # e /\ d.stepNo = e.stepNo
      => {d.by, d.onBehalfOf} \cap {e.by, e.onBehalfOf} \subseteq {NoOne}

=============================================================================
