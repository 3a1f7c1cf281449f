----------------------- MODULE ApprovalRequest_proofs -----------------------
(***************************************************************************)
(* Proof of what saves by id, without a version, cannot break about an     *)
(* approval request, for any users, chains, delegations and calls.         *)
(*                                                                         *)
(* A save writes header and steps of a copy that may be older than the     *)
(* row, and torn: its header of one state and its steps of a later one.    *)
(* So header and steps of the row may go back, and apart.  What is never   *)
(* undone is a decision: they are only added.  Hence what carries the      *)
(* proof is said of a header and the decisions stored by now (Passed: the  *)
(* steps before the current one have their approvals), in the table and    *)
(* in a call's hand alike.  A rejection that is stored has taken the key   *)
(* "resolved" (RejectHasKey), which an approval that would end the request *)
(* needs, too.  And two calls of one user on one request can only miss     *)
(* each other's decision where they overlapped (Twins).                    *)
(***************************************************************************)
EXTENDS ApprovalRequest, FiniteSetTheorems, TLAPS

\* Step i has the approvals it requires among some decisions.
OfStep(decisions, i) == {d \in Approvals(decisions) : d.stepNo = i}
Enough(decisions, req, i) == Cardinality(OfStep(decisions, i)) >= req.steps[i].required

\* The steps that the header says are passed have them.
Passed(req, decisions) ==
  /\ req.status = "PENDING" =>
       \A i \in 1..Len(req.steps) : i < req.currentStepNo => Enough(decisions, req, i)
  /\ req.status = "APPROVED" => \A i \in 1..Len(req.steps) : Enough(decisions, req, i)

\* Header and steps tell one story.
Story(req) ==
  /\ req.status = "PENDING" =>
       \A i \in 1..Len(req.steps) :
         req.stepStatus[i] = IF i < req.currentStepNo THEN "APPROVED" ELSE "PENDING"
  /\ req.status = "APPROVED" =>
       \A i \in 1..Len(req.steps) : req.stepStatus[i] = "APPROVED"
  /\ req.status = "REJECTED" =>
       \E i \in 1..Len(req.steps) : req.stepStatus[i] = "REJECTED"

\* The decision is of a step of the request, rests on its role, and is neither
\* by nor for the requester.
Counts(d, req) ==
  /\ d.by # req.requestedBy /\ d.onBehalfOf # req.requestedBy
  /\ d.stepNo \in 1..Len(req.steps)
  /\ req.steps[d.stepNo].role \in RolesOf[Principal(d)]

Headed(req) ==
  /\ req \in Request /\ IsFiniteSet(req.decisions)
  /\ req.currentStepNo \in 0..Len(req.steps)
  /\ req.status = "PENDING" => req.currentStepNo \in 1..Len(req.steps)
Shaped(req) == Headed(req) /\ Len(req.stepStatus) = Len(req.steps)

\* Of the two: what no save changes.
Same(copy, row) ==
  /\ copy.documentId = row.documentId /\ copy.requestedBy = row.requestedBy
  /\ copy.steps = row.steps

\* A row with its id; t are the requests saved torn, o the overlapped pairs.
RowOk(row, id, t, o) ==
  /\ Shaped(row) /\ Passed(row, row.decisions)
  /\ \A d \in row.decisions : Counts(d, row)
  /\ id \notin t => Story(row)
  /\ \A d, e \in row.decisions :
       d # e /\ d.stepNo = e.stepNo /\ d.by = e.by => <<d.by, id>> \in o

\* What a call has read of a row.
HasHeader(copy, row) ==
  /\ Headed(copy) /\ Same(copy, row) /\ Passed(copy, row.decisions)
  /\ copy.decisions \subseteq row.decisions

\* A call, and the row it is about.
CallOk(call, row, t, o) ==
  /\ call.phase \notin {"idle", "done"} => row.status # "ABSENT"
  /\ call.phase \in {"header", "steps", "loaded"} => HasHeader(call.loaded, row)
  /\ call.phase \in {"steps", "loaded"} =>
       /\ Len(call.loaded.stepStatus) = Len(call.loaded.steps)
       /\ call.whole => call.id \in t \/ Story(call.loaded)
  /\ call.phase = "loaded" =>
       /\ call.loaded.status = "PENDING"
       /\ call.op # "CANCEL" =>
            \A d \in row.decisions :
              d.by = call.user => d \in call.loaded.decisions \/ <<call.user, call.id>> \in o

Resolved(id) == <<id, "resolved", 0, 0>>
Key == Requests \X {"requested", "resolved", "cancelled", "step"} \X Nat \X Nat

RejectHasKey ==
  \A id \in Requests : \A d \in requests[id].decisions :
    d.decision = "REJECT" => Resolved(id) \in outboxKeys

\* Two calls that decide for one user on one request overlap.
Twins ==
  \A b, c \in Calls : \A user, id :
    b # c /\ Deciding(b, user, id) /\ Deciding(c, user, id) => <<user, id>> \in overlapped

Types ==
  /\ requests = [id \in Requests |-> requests[id]]
  /\ outboxKeys \subseteq Key
  /\ delegations \subseteq DelegationPairs
  /\ calls \in [Calls -> Call]
  /\ torn \subseteq Requests /\ overlapped \subseteq Users \X Requests

Inv ==
  /\ Types
  /\ \A id \in Requests : RowOk(requests[id], id, torn, overlapped)
  /\ \A c \in Calls : CallOk(calls[c], requests[calls[c].id], torn, overlapped)
  /\ Twins /\ RejectHasKey /\ RejectedNeverApproved /\ OnePendingPerDocument

(***************************************************************************)
(* A request by itself                                                     *)
(***************************************************************************)
\* The rows of a table nobody wrote to.
LEMMA NothingYet ==
  /\ \A id, t, o : RowOk(NoRequest, id, t, o)
  /\ IdleCall \in Call /\ DoneCall \in Call /\ DoneCall.phase = "done"
<1>1. NoRequest \in Request
  BY SomebodyAssumption DEF NoRequest, Request, Status
<1>2. \A id, t, o : RowOk(NoRequest, id, t, o)
  BY <1>1, FS_EmptySet DEF NoRequest, RowOk, Shaped, Headed, Story, Passed
<1>3. IdleCall \in Call
  BY <1>1, SomebodyAssumption DEF IdleCall, Call, Op
<1>4. DoneCall \in Call /\ DoneCall.phase = "done"
  BY <1>3 DEF DoneCall, Call
<1>. QED  BY <1>2, <1>3, <1>4

\* A submission's steps are those of a chain, or there are none.
LEMMA ChainIsASequence ==
  ASSUME NEW chain \in Chains \union {<<>>}
  PROVE  chain \in Seq(Step) /\ Len(chain) \in Nat /\ (chain # <<>> => Len(chain) >= 1)
<1>1. chain \in Seq(Step)
  <2>1. CASE chain \in Chains
    BY <2>1, ChainsAssumption
  <2>2. CASE chain = <<>>
    BY <2>2
  <2>. QED  BY <2>1, <2>2
<1>2. Len(chain) \in Nat /\ (chain # <<>> => Len(chain) # 0)
  BY <1>1
<1>. QED  BY <1>1, <1>2

\* The steps of a request are those of a chain, or there are none.
LEMMA StepsOf ==
  ASSUME NEW req \in Request
  PROVE  /\ req.steps \in Seq(Step) /\ Len(req.steps) \in Nat
         /\ \A i \in 1..Len(req.steps) : req.steps[i].required \in Nat
<1>1. req.steps \in Chains \union {<<>>}
  BY DEF Request
<1>2. req.steps \in Seq(Step)
  BY <1>1, ChainIsASequence
<1>3. \A i \in 1..Len(req.steps) : req.steps[i] \in Step
  BY <1>2
<1>. QED  BY <1>2, <1>3 DEF Step

\* One status of a list replaced by another.
LEMMA StatusReplaced ==
  ASSUME NEW S, NEW list \in Seq(S), NEW n \in 1..Len(list), NEW x \in S
  PROVE  /\ [list EXCEPT ![n] = x] \in Seq(S)
         /\ Len([list EXCEPT ![n] = x]) = Len(list)
         /\ \A i \in 1..Len(list) :
              [list EXCEPT ![n] = x][i] = IF i = n THEN x ELSE list[i]
  OBVIOUS

StepStatus == {"PENDING", "APPROVED", "REJECTED"}

\* Decisions that are added take no approval away.
LEMMA EnoughStays ==
  ASSUME NEW req \in Request, NEW i \in 1..Len(req.steps), NEW decisions, NEW more,
         decisions \subseteq more, IsFiniteSet(more), Enough(decisions, req, i)
  PROVE  Enough(more, req, i)
<1>1. OfStep(decisions, i) \subseteq OfStep(more, i) /\ OfStep(more, i) \subseteq more
  BY DEF OfStep, Approvals
<1>2. IsFiniteSet(OfStep(more, i))
  BY <1>1, FS_Subset
<1>3. /\ Cardinality(OfStep(decisions, i)) <= Cardinality(OfStep(more, i))
      /\ Cardinality(OfStep(more, i)) \in Nat /\ Cardinality(OfStep(decisions, i)) \in Nat
  BY <1>1, <1>2, FS_Subset, FS_CardinalityType
<1>4. req.steps[i].required \in Nat
  BY StepsOf
<1>. QED  BY <1>3, <1>4 DEF Enough

\* So a step that is passed stays passed.
LEMMA PassedStays ==
  ASSUME NEW req \in Request, NEW decisions, NEW more, decisions \subseteq more,
         IsFiniteSet(more), Passed(req, decisions)
  PROVE  Passed(req, more)
  BY EnoughStays DEF Passed

\* A decision on the current step of a pending copy.
Decided(req, d) ==
  /\ Shaped(req) /\ req.status = "PENDING"
  /\ d \in Decision /\ d.stepNo = req.currentStepNo

\* A rejection: what it writes.
LEMMA RejectWrites ==
  ASSUME NEW req, NEW d, Decided(req, d)
  PROVE  /\ Shaped(AfterReject(req, d))
         /\ AfterReject(req, d).status = "REJECTED"
         /\ AfterReject(req, d).decisions = req.decisions \union {d}
         /\ Same(AfterReject(req, d), req)
         /\ Story(AfterReject(req, d))
<1> DEFINE next == AfterReject(req, d)
           n == req.currentStepNo
           list == [req.stepStatus EXCEPT ![n] = "REJECTED"]
<1>1. /\ n \in 1..Len(req.stepStatus) /\ n \in 1..Len(req.steps) /\ d.stepNo = n
      /\ req \in Request /\ req.stepStatus \in Seq(StepStatus) /\ d \in Decision
      /\ Len(req.steps) \in Nat
  BY StepsOf DEF Decided, Shaped, Headed, Request, StepStatus
<1>2. list \in Seq(StepStatus) /\ Len(list) = Len(req.stepStatus) /\ list[n] = "REJECTED"
  BY <1>1, StatusReplaced DEF StepStatus
<1>3. next = [req EXCEPT !.decisions = req.decisions \union {d}, !.stepStatus = list,
                         !.status = "REJECTED", !.currentStepNo = 0]
  BY <1>1 DEF AfterReject, Request
<1> HIDE DEF list, next
<1>4. /\ next \in Request /\ next.decisions = req.decisions \union {d}
      /\ Same(next, req) /\ next.status = "REJECTED" /\ next.currentStepNo = 0
      /\ next.stepStatus = list
  BY <1>1, <1>2, <1>3 DEF Request, Status, StepStatus, Same
<1>5. IsFiniteSet(next.decisions)
  <2>1. IsFiniteSet(req.decisions \union {d})
    BY FS_Singleton, FS_Union DEF Decided, Shaped, Headed
  <2>. QED  BY <1>4, <2>1
<1>6. Shaped(next)
  BY <1>1, <1>2, <1>4, <1>5 DEF Shaped, Headed, Same, Decided
<1>7. Story(next)
  BY <1>1, <1>2, <1>4 DEF Story, Same
<1>. QED  BY <1>4, <1>6, <1>7 DEF next

\* An approval: what it writes.  It closes the step only if it was the last
\* approval needed.
LEMMA ApproveWrites ==
  ASSUME NEW req, NEW d, Decided(req, d)
  PROVE  LET next == AfterApprove(req, d)
             n == req.currentStepNo
             decisions == req.decisions \union {d}
         IN  /\ Shaped(next) /\ Same(next, req)
             /\ next.decisions = decisions
             /\ Story(req) => Story(next)
             /\ \/ next.status = "PENDING" /\ next.currentStepNo = n
                \/ Enough(decisions, req, n) /\ next.status = "PENDING"
                      /\ next.currentStepNo = n + 1
                \/ Enough(decisions, req, n) /\ next.status = "APPROVED" /\ n = Len(req.steps)
<1> DEFINE n == req.currentStepNo
           decisions == req.decisions \union {d}
           kept == [req EXCEPT !.decisions = @ \union {d}]
           list == [req.stepStatus EXCEPT ![n] = "APPROVED"]
           complete == Cardinality(Approvals(StepDecisions(kept))) >= CurrentStep(req).required
           passed == [kept EXCEPT !.stepStatus = list, !.currentStepNo = n + 1]
           ended == [kept EXCEPT !.stepStatus = list, !.status = "APPROVED", !.currentStepNo = 0]
           next == AfterApprove(req, d)
<1>1. /\ n \in 1..Len(req.stepStatus) /\ n \in 1..Len(req.steps) /\ d.stepNo = n
      /\ req \in Request /\ req.stepStatus \in Seq(StepStatus) /\ d \in Decision
      /\ Len(req.steps) \in Nat /\ req.status = "PENDING" /\ IsFiniteSet(decisions)
      /\ Len(req.stepStatus) = Len(req.steps)
  BY StepsOf, FS_Singleton, FS_Union DEF Decided, Shaped, Headed, Request, StepStatus
<1>2. /\ list \in Seq(StepStatus) /\ Len(list) = Len(req.steps)
      /\ \A i \in 1..Len(req.steps) :
           list[i] = IF i = n THEN "APPROVED" ELSE req.stepStatus[i]
  BY <1>1, StatusReplaced DEF StepStatus
<1>3. /\ kept \in Request /\ kept.decisions = decisions /\ Same(kept, req)
      /\ kept.stepStatus = req.stepStatus /\ kept.status = "PENDING"
      /\ kept.currentStepNo = n
  BY <1>1 DEF Request, Same
<1>4. next = IF ~complete THEN kept ELSE IF n < Len(req.steps) THEN passed ELSE ended
  <2>1. [kept EXCEPT !.stepStatus[n] = "APPROVED"] = [kept EXCEPT !.stepStatus = list]
    <3> HIDE DEF kept
    <3>. QED  BY <1>3 DEF Request
  <2>2. [kept EXCEPT !.stepStatus = list].currentStepNo = n
    <3> HIDE DEF kept
    <3>. QED  BY <1>3 DEF Request
  <2>3. /\ [[kept EXCEPT !.stepStatus = list] EXCEPT !.currentStepNo = n + 1] = passed
        /\ [[kept EXCEPT !.stepStatus = list] EXCEPT !.status = "APPROVED", !.currentStepNo = 0] = ended
    <3> HIDE DEF kept, list
    <3>. QED  BY <1>3 DEF Request
  <2>. QED  BY <1>1, <2>1, <2>2, <2>3 DEF AfterApprove
<1>5. OfStep(decisions, n) = Approvals(StepDecisions(kept))
  <2> HIDE DEF kept, decisions
  <2>. QED  BY <1>3 DEF OfStep, Approvals, StepDecisions
<1>6. complete => Enough(decisions, req, n)
  BY <1>5 DEF Enough, CurrentStep
<1>7. /\ passed \in Request /\ passed.decisions = decisions /\ Same(passed, req)
      /\ passed.stepStatus = list /\ passed.status = "PENDING"
      /\ passed.currentStepNo = n + 1
  <2>1. n + 1 \in Nat
    BY <1>1
  <2> HIDE DEF kept, list, n
  <2>. QED  BY <1>2, <1>3, <2>1 DEF Request, StepStatus, Same
<1>8. /\ ended \in Request /\ ended.decisions = decisions /\ Same(ended, req)
      /\ ended.stepStatus = list /\ ended.status = "APPROVED"
      /\ ended.currentStepNo = 0
  <2> HIDE DEF kept, list
  <2>. QED  BY <1>2, <1>3 DEF Request, StepStatus, Same, Status
<1> HIDE DEF kept, passed, ended, next, list, complete, decisions
<1>9. CASE ~complete
  <2>1. next = kept
    BY <1>4, <1>9
  <2>2. Shaped(kept) /\ (Story(req) => Story(kept))
    BY <1>1, <1>3 DEF Shaped, Headed, Same, Story
  <2>. QED  BY <1>3, <2>1, <2>2 DEF next, decisions
<1>10. CASE complete /\ n < Len(req.steps)
  <2>1. next = passed
    BY <1>4, <1>10
  <2>2. Shaped(passed) /\ (Story(req) => Story(passed))
    BY <1>1, <1>2, <1>7, <1>10 DEF Shaped, Headed, Same, Story
  <2>. QED  BY <1>6, <1>7, <1>10, <2>1, <2>2 DEF next, decisions
<1>11. CASE complete /\ ~(n < Len(req.steps))
  <2>1. next = ended /\ n = Len(req.steps)
    BY <1>1, <1>4, <1>11
  <2>2. Shaped(ended) /\ (Story(req) => Story(ended))
    BY <1>1, <1>2, <1>8, <2>1 DEF Shaped, Headed, Same, Story
  <2>. QED  BY <1>6, <1>8, <1>11, <2>1, <2>2 DEF next, decisions
<1>. QED  BY <1>9, <1>10, <1>11

(***************************************************************************)
(* The calls                                                               *)
(***************************************************************************)
\* A call stands by what it read when the row gains decisions, unless one of
\* them is by its own user.
LEMMA CallStays ==
  ASSUME NEW call, NEW row, NEW later, NEW t, NEW u, NEW o, NEW p,
         CallOk(call, row, t, o), t \subseteq u, o \subseteq p,
         Same(later, row), later.status # "ABSENT",
         row.decisions \subseteq later.decisions, IsFiniteSet(later.decisions),
         \A d \in later.decisions :
           call.phase = "loaded" /\ call.op # "CANCEL" /\ d.by = call.user
             => d \in row.decisions \/ <<call.user, call.id>> \in p
  PROVE  CallOk(call, later, u, p)
<1>1. ASSUME call.phase \in {"header", "steps", "loaded"}
      PROVE  HasHeader(call.loaded, later)
  <2>1. /\ Headed(call.loaded) /\ Same(call.loaded, row) /\ Passed(call.loaded, row.decisions)
        /\ call.loaded.decisions \subseteq row.decisions
    BY <1>1 DEF CallOk, HasHeader
  <2>2. Passed(call.loaded, later.decisions)
    BY <2>1, PassedStays DEF Headed
  <2>. QED  BY <2>1, <2>2 DEF HasHeader, Same
<1>. QED  BY <1>1 DEF CallOk

\* A step of one call that writes nothing.
LEMMA OneCallMoves ==
  ASSUME Inv, NEW c \in Calls, NEW call \in Call,
         UNCHANGED <<requests, outboxKeys, delegations, torn>>,
         calls' = [calls EXCEPT ![c] = call],
         overlapped \subseteq overlapped', overlapped' \subseteq Users \X Requests,
         CallOk(call, requests[call.id], torn, overlapped'), Twins'
  PROVE  Inv'
<1>1. Types' /\ calls'[c] = call /\ \A b \in Calls \ {c} : calls'[b] = calls[b]
  BY DEF Inv, Types
<1>2. ASSUME NEW id \in Requests
      PROVE  RowOk(requests[id], id, torn, overlapped')
  BY DEF Inv, RowOk
<1>3. ASSUME NEW b \in Calls \ {c}
      PROVE  CallOk(calls[b], requests[calls[b].id], torn, overlapped')
  BY DEF Inv, CallOk
<1>. QED  BY <1>1, <1>2, <1>3
          DEF Inv, RejectHasKey, RejectedNeverApproved, OnePendingPerDocument

\* Whoever ends makes no pair of overlapping calls.
LEMMA FewerTwins ==
  ASSUME Inv, NEW c \in Calls, NEW call \in Call, calls' = [calls EXCEPT ![c] = call],
         overlapped \subseteq overlapped',
         \/ call.phase = "done"
         \/ /\ calls[c].phase \notin {"idle", "done"} /\ call.op = calls[c].op
            /\ call.user = calls[c].user /\ call.id = calls[c].id
  PROVE  Twins'
<1>1. ASSUME NEW b \in Calls, NEW user, NEW id, Deciding(b, user, id)'
      PROVE  Deciding(b, user, id)
  BY <1>1 DEF Inv, Types, Deciding
<1>. QED  BY <1>1 DEF Inv, Twins

\* What a call may save: its copy with at most one decision of its user's, on a
\* step that user has not decided in the copy.
MayWrite(c, next, keys, new) ==
  LET call == calls[c]
      copy == call.loaded
  IN  /\ Shaped(next) /\ Same(next, copy) /\ next.status # "ABSENT"
      /\ next.decisions = copy.decisions \union new /\ IsFiniteSet(new)
      /\ Passed(next, requests[call.id].decisions \union new)
      /\ Story(copy) => Story(next)
      /\ \A d \in new :
           /\ call.op # "CANCEL" /\ d.by = call.user /\ Counts(d, next)
           /\ \A e \in copy.decisions : e.stepNo = d.stepNo => e.by # d.by
           /\ d.decision = "REJECT" => Resolved(call.id) \in keys
      /\ \A d, e \in new : d = e
      /\ keys \subseteq Key
      /\ next.status = "APPROVED" =>
           Resolved(call.id) \in keys /\ \A d \in new : d.decision = "APPROVE"

\* The row that such a save makes.
LEMMA SavedRow ==
  ASSUME Inv, NEW c \in Calls, calls[c].phase = "loaded",
         NEW next, NEW keys, NEW new, MayWrite(c, next, keys, new)
  PROVE  LET id == calls[c].id
             row == Saved(id, next)
         IN  /\ id \in Requests
             /\ row.decisions = requests[id].decisions \union new
             /\ Same(row, requests[id]) /\ row.status = next.status
             /\ row.documentId = next.documentId
             /\ RowOk(row, id, IF calls[c].whole THEN torn ELSE torn \union {id}, overlapped)
<1> DEFINE call == calls[c]
           copy == calls[c].loaded
           id == calls[c].id
           old == requests[id]
           row == Saved(id, next)
           t == IF call.whole THEN torn ELSE torn \union {id}
<1>1. /\ id \in Requests /\ call \in Call /\ RowOk(old, id, torn, overlapped)
      /\ CallOk(call, old, torn, overlapped)
  BY DEF Inv, Types, Call
<1>2. /\ Shaped(next) /\ Same(next, copy) /\ next.decisions = copy.decisions \union new
      /\ IsFiniteSet(new) /\ Passed(next, old.decisions \union new)
      /\ Story(copy) => Story(next)
      /\ copy.decisions \subseteq old.decisions /\ Same(copy, old)
      /\ next \in Request /\ old \in Request /\ IsFiniteSet(old.decisions)
      /\ call.whole => id \in torn \/ Story(copy)
  BY <1>1 DEF MayWrite, CallOk, HasHeader, RowOk, Shaped, Headed
<1>3. /\ row.decisions = old.decisions \union new
      /\ row.status = next.status /\ row.documentId = next.documentId
      /\ row.requestedBy = next.requestedBy /\ row.steps = next.steps
      /\ row.stepStatus = next.stepStatus /\ row.currentStepNo = next.currentStepNo
      /\ row \in Request
  BY <1>2 DEF Saved, Request
<1> HIDE DEF row
<1>4. Same(row, old)
  BY <1>2, <1>3 DEF Same
<1>5. Shaped(row)
  <2>1. IsFiniteSet(old.decisions \union new)
    BY <1>2, FS_Union
  <2>. QED  BY <1>2, <1>3, <2>1 DEF Shaped, Headed
<1>6. Passed(row, row.decisions)
  BY <1>2, <1>3 DEF Passed, Enough
<1>7. ASSUME NEW d \in row.decisions
      PROVE  Counts(d, row)
  <2>1. CASE d \in new
    BY <1>3, <2>1 DEF MayWrite, Counts
  <2>2. CASE d \in old.decisions
    BY <1>1, <1>4, <2>2 DEF RowOk, Counts, Same
  <2>. QED  BY <1>3, <2>1, <2>2
<1>8. id \notin t => Story(row)
  BY <1>2, <1>3 DEF Story
<1>9. ASSUME NEW d \in row.decisions, NEW e \in row.decisions,
             d # e, d.stepNo = e.stepNo, d.by = e.by
      PROVE  <<d.by, id>> \in overlapped
  <2>1. ASSUME NEW x \in new, NEW y \in old.decisions, x.stepNo = y.stepNo, x.by = y.by
        PROVE  <<x.by, id>> \in overlapped
    <3>1. call.op # "CANCEL" /\ x.by = call.user /\ y \notin copy.decisions
      BY <2>1 DEF MayWrite
    <3>. QED  BY <1>1, <2>1, <3>1 DEF CallOk
  <2>2. CASE d \in old.decisions /\ e \in old.decisions
    BY <1>1, <1>9, <2>2 DEF RowOk
  <2>3. CASE d \in new /\ e \in new
    BY <1>9, <2>3 DEF MayWrite
  <2>. QED  BY <1>3, <1>9, <2>1, <2>2, <2>3
<1>10. RowOk(row, id, t, overlapped)
  BY <1>5, <1>6, <1>7, <1>8, <1>9 DEF RowOk
<1>. QED  BY <1>1, <1>3, <1>4, <1>10 DEF row

\* A commit of what a call may write, or its rollback.
LEMMA FinishKeeps ==
  ASSUME Inv, NEW c \in Calls, calls[c].phase = "loaded",
         NEW next, NEW keys, NEW new, MayWrite(c, next, keys, new),
         Finish(c, next, keys), UNCHANGED <<delegations, overlapped>>
  PROVE  Inv'
<1> DEFINE id == calls[c].id
           row == Saved(id, next)
<1>1. calls' = [calls EXCEPT ![c] = DoneCall] /\ DoneCall \in Call /\ DoneCall.phase = "done"
  BY NothingYet DEF Finish
<1>2. Twins' /\ (overlapped \subseteq overlapped' /\ overlapped' \subseteq Users \X Requests)
  BY <1>1, FewerTwins DEF Inv, Types
<1>3. CASE ~CommitAllowed(id, next, keys)
  <2>1. CallOk(DoneCall, requests[DoneCall.id], torn, overlapped')
    BY <1>1 DEF CallOk
  <2>2. UNCHANGED <<requests, outboxKeys, delegations, torn>>
    BY <1>3 DEF Finish
  <2>. QED  BY <1>1, <1>2, <2>1, <2>2, OneCallMoves
<1>4. CASE CommitAllowed(id, next, keys)
  <2>1. /\ requests' = [requests EXCEPT ![id] = row] /\ outboxKeys' = outboxKeys \union keys
        /\ torn' = IF calls[c].whole THEN torn ELSE torn \union {id}
    BY <1>4 DEF Finish
  <2>2. /\ id \in Requests /\ row.decisions = requests[id].decisions \union new
        /\ Same(row, requests[id]) /\ row.status = next.status /\ next.status # "ABSENT"
        /\ row.documentId = next.documentId
        /\ RowOk(row, id, torn', overlapped)
    BY <2>1, SavedRow DEF MayWrite
  <2> HIDE DEF row
  <2>3. /\ requests' = [r \in Requests |-> requests'[r]] /\ requests'[id] = row
        /\ \A r \in Requests \ {id} : requests'[r] = requests[r]
    BY <2>1, <2>2 DEF Inv, Types
  <2>4. Types' /\ calls'[c] = DoneCall /\ \A b \in Calls \ {c} : calls'[b] = calls[b]
    BY <1>1, <2>1, <2>2, <2>3 DEF Inv, Types, MayWrite
  <2>5. ASSUME NEW r \in Requests
        PROVE  RowOk(requests'[r], r, torn', overlapped)
    BY <2>1, <2>2, <2>3 DEF Inv, RowOk
  <2>6. ASSUME NEW b \in Calls
        PROVE  CallOk(calls'[b], requests'[calls'[b].id], torn', overlapped)
    <3>1. CASE b = c
      BY <1>1, <2>4, <3>1 DEF CallOk
    <3>2. CASE b # c /\ calls[b].id # id
      <4>1. calls'[b] = calls[b] /\ calls[b].id \in Requests \ {id}
        BY <2>4, <3>2 DEF Inv, Types, Call
      <4>. QED  BY <2>1, <2>3, <4>1 DEF Inv, CallOk
    <3>3. CASE b # c /\ calls[b].id = id
      <4>1. calls'[b] = calls[b] /\ CallOk(calls[b], requests[id], torn, overlapped)
        BY <2>4, <3>3 DEF Inv
      <4>2. IsFiniteSet(row.decisions)
        BY <2>2 DEF RowOk, Shaped, Headed
      <4>3. ASSUME NEW d \in row.decisions, calls[b].phase = "loaded", calls[b].op # "CANCEL",
                   d.by = calls[b].user
            PROVE  d \in requests[id].decisions \/ <<calls[b].user, calls[b].id>> \in overlapped
        <5>1. ASSUME d \in new
              PROVE  <<calls[b].user, id>> \in overlapped
          <6>1. calls[c].op # "CANCEL" /\ d.by = calls[c].user
            BY <5>1 DEF MayWrite
          <6>2. Deciding(b, d.by, id) /\ Deciding(c, d.by, id)
            BY <3>3, <4>3, <6>1 DEF Deciding
          <6>. QED  BY <3>3, <4>3, <6>2 DEF Inv, Twins
        <5>. QED  BY <2>2, <3>3, <5>1
      <4>4. torn \subseteq torn' /\ overlapped \subseteq overlapped
        BY <2>1
      <4>5. CallOk(calls[b], row, torn', overlapped)
        BY <2>2, <4>1, <4>2, <4>3, <4>4, CallStays
      <4>. QED  BY <2>3, <3>3, <4>1, <4>5
    <3>. QED  BY <3>1, <3>2, <3>3
  <2>7. RejectHasKey'
    <3>1. ASSUME NEW d \in row.decisions, d.decision = "REJECT"
          PROVE  Resolved(id) \in outboxKeys'
      BY <2>1, <2>2, <3>1 DEF Inv, RejectHasKey, MayWrite
    <3>. QED  BY <2>1, <2>3, <3>1 DEF Inv, RejectHasKey
  <2>8. RejectedNeverApproved'
    <3>1. ASSUME row.status = "APPROVED", NEW d \in row.decisions
          PROVE  d.decision = "APPROVE"
      <4>1. Resolved(id) \notin outboxKeys
        BY <1>4, <2>2, <3>1 DEF MayWrite, CommitAllowed
      <4>2. \A e \in requests[id].decisions : e.decision # "REJECT"
        BY <2>2, <4>1 DEF Inv, RejectHasKey
      <4>3. d.decision # "REJECT"
        BY <2>2, <3>1, <4>2 DEF MayWrite
      <4>. QED  BY <2>2, <4>3 DEF RowOk, Shaped, Headed, Request, Decision
    <3>. QED  BY <2>3, <3>1 DEF Inv, RejectedNeverApproved
  <2>9. OnePendingPerDocument'
    BY <1>4, <2>2, <2>3 DEF Inv, OnePendingPerDocument, CommitAllowed
  <2>. QED  BY <1>2, <2>4, <2>5, <2>6, <2>7, <2>8, <2>9 DEF Inv
<1>. QED  BY <1>3, <1>4

\* A decision on a copy: the new decision is of the step the copy waits for.
LEMMA DecideKeeps ==
  ASSUME Inv, NEW c \in Calls, Decide(c)
  PROVE  Inv'
<1> DEFINE call == calls[c]
           req == calls[c].loaded
           n == req.currentStepNo
           old == requests[calls[c].id]
<1>1. /\ call.phase = "loaded" /\ call.op \in {"APPROVE", "REJECT"} /\ call.op # "CANCEL"
      /\ delegations' = delegations /\ overlapped' = overlapped
      /\ call \in Call /\ CallOk(call, old, torn, overlapped)
  BY DEF Decide, Inv, Types, Call, Op
<1>2. /\ Shaped(req) /\ req.status = "PENDING" /\ Same(req, old) /\ req \in Request
      /\ Passed(req, old.decisions) /\ req.decisions \subseteq old.decisions
      /\ n \in 1..Len(req.steps) /\ Len(req.steps) \in Nat
  BY <1>1, StepsOf DEF CallOk, HasHeader, Shaped, Headed
<1>3. PICK from \in ActsFor(req, call.user, call.delegators) :
        /\ MayDecide(req, call.user, from)
        /\ LET d == [call |-> c, stepNo |-> req.currentStepNo, by |-> call.user,
                     onBehalfOf |-> from, decision |-> call.op]
               next == AfterDecide(req, d)
           IN  Finish(c, next, DecideKeys(call.id, req, next))
  BY DEF Decide
<1> DEFINE d == [call |-> c, stepNo |-> req.currentStepNo, by |-> call.user,
                 onBehalfOf |-> from, decision |-> call.op]
           next == AfterDecide(req, d)
           keys == DecideKeys(call.id, req, next)
<1>4. Finish(c, next, keys)
  BY <1>3
<1>5. /\ from \in Users \union {NoOne}
      /\ CurrentStep(req).role \in RolesOf[IF from = NoOne THEN call.user ELSE from]
  BY <1>1, <1>3, NoOneAssumption DEF ActsFor, Call
<1>6. /\ d \in Decision /\ d.stepNo = n /\ d.by = call.user /\ d.onBehalfOf = from
      /\ d.decision = call.op
  BY <1>1, <1>2, <1>5 DEF Call, Decision
<1> HIDE DEF d
<1>7. Decided(req, d) /\ Counts(d, req)
  BY <1>2, <1>3, <1>5, <1>6 DEF Decided, Counts, Principal, CurrentStep, MayDecide
<1>8. /\ Shaped(next) /\ Same(next, req) /\ next.decisions = req.decisions \union {d}
      /\ Story(req) => Story(next)
      /\ next.status \in {"PENDING", "APPROVED", "REJECTED"}
      /\ next.status = "APPROVED" => d.decision = "APPROVE"
      /\ d.decision = "REJECT" => next.status = "REJECTED"
  <2>1. CASE d.decision = "REJECT"
    <3>1. next = AfterReject(req, d)
      BY <2>1 DEF AfterDecide
    <3> HIDE DEF next, req
    <3>. QED  BY <1>7, <2>1, <3>1, RejectWrites
  <2>2. CASE d.decision # "REJECT"
    <3>1. next = AfterApprove(req, d) /\ d.decision = "APPROVE"
      BY <1>1, <1>6, <2>2 DEF AfterDecide
    <3> HIDE DEF next, req
    <3>2. /\ Shaped(AfterApprove(req, d)) /\ Same(AfterApprove(req, d), req)
          /\ AfterApprove(req, d).decisions = req.decisions \union {d}
          /\ Story(req) => Story(AfterApprove(req, d))
          /\ AfterApprove(req, d).status \in {"PENDING", "APPROVED"}
      BY <1>7, ApproveWrites
    <3>. QED  BY <2>2, <3>1, <3>2
  <2>. QED  BY <2>1, <2>2
<1>9. Passed(next, old.decisions \union {d})
  <2> DEFINE all == old.decisions \union {d}
  <2>1. IsFiniteSet(all) /\ req.decisions \union {d} \subseteq all /\ old.decisions \subseteq all
    <3>1. IsFiniteSet(old.decisions)
      BY <1>1 DEF Inv, Types, Call, RowOk, Shaped, Headed
    <3>. QED  BY <1>2, <3>1, FS_Singleton, FS_Union
  <2> HIDE DEF all
  <2>2. CASE d.decision = "REJECT"
    BY <1>8, <2>2 DEF Passed
  <2>3. CASE d.decision # "REJECT"
    <3>1. next = AfterApprove(req, d)
      BY <2>3 DEF AfterDecide
    <3>2. \/ next.status = "PENDING" /\ next.currentStepNo = n
          \/ Enough(req.decisions \union {d}, req, n) /\ next.status = "PENDING"
               /\ next.currentStepNo = n + 1
          \/ Enough(req.decisions \union {d}, req, n) /\ next.status = "APPROVED"
               /\ n = Len(req.steps)
      <4> HIDE DEF next, req
      <4>. QED  BY <1>7, <3>1, ApproveWrites DEF n
    <3>3. \A i \in 1..Len(req.steps) : i < n => Enough(all, req, i)
      BY <1>2, <2>1, EnoughStays DEF Passed
    <3>4. Enough(req.decisions \union {d}, req, n) => Enough(all, req, n)
      BY <1>2, <2>1, EnoughStays
    <3>5. \A i : Enough(all, next, i) <=> Enough(all, req, i)
      BY <1>8 DEF Enough, Same
    <3>6. next.steps = req.steps /\ next.currentStepNo \in Nat
      BY <1>8 DEF Same, Shaped, Headed, Request
    <3> HIDE DEF next, n, req
    <3>7. Passed(next, all)
      BY <1>2, <3>2, <3>3, <3>4, <3>5, <3>6 DEF Passed
    <3>. QED  BY <3>7 DEF all
  <2>. QED  BY <2>2, <2>3 DEF all
<1> HIDE DEF next
<1>10. keys \subseteq Key
  <2>1. Cardinality(next.decisions) \in Nat /\ next.currentStepNo \in Nat
    BY <1>8, FS_CardinalityType DEF Shaped, Headed, Request
  <2>. QED  BY <1>1, <2>1 DEF DecideKeys, Key, Call
<1>11. next.status \in {"APPROVED", "REJECTED"} => Resolved(call.id) \in keys
  BY DEF DecideKeys, Resolved
<1> HIDE DEF keys
<1>12. \A e \in req.decisions : e.stepNo = d.stepNo => e.by # d.by
  BY <1>3, <1>6 DEF MayDecide, StepDecisions
<1>13. MayWrite(c, next, keys, {d})
  <2>1. IsFiniteSet({d})
    BY FS_Singleton
  <2>2. Counts(d, next)
    BY <1>7, <1>8 DEF Counts, Same
  <2>. QED  BY <1>1, <1>6, <1>8, <1>9, <1>10, <1>11, <1>12, <2>1, <2>2 DEF MayWrite
<1>. QED  BY <1>1, <1>4, <1>13, FinishKeeps

\* A cancellation of a copy adds no decision.
LEMMA CancelKeeps ==
  ASSUME Inv, NEW c \in Calls, Cancel(c)
  PROVE  Inv'
<1> DEFINE req == calls[c].loaded
           next == [req EXCEPT !.status = "CANCELLED", !.currentStepNo = 0]
           keys == {<<calls[c].id, "cancelled", 0, 0>>}
<1>1. /\ calls[c].phase = "loaded" /\ calls[c] \in Call
      /\ delegations' = delegations /\ overlapped' = overlapped /\ Finish(c, next, keys)
      /\ Shaped(req) /\ req \in Request /\ Len(req.steps) \in Nat
  BY StepsOf DEF Cancel, Inv, Types, CallOk, HasHeader, Shaped, Headed
<1>2. /\ next \in Request /\ next.status = "CANCELLED" /\ next.currentStepNo = 0
      /\ next.decisions = req.decisions /\ Same(next, req) /\ next.stepStatus = req.stepStatus
  BY <1>1 DEF Request, Status, Same
<1>3. keys \subseteq Key
  BY <1>1 DEF Key, Call
<1> HIDE DEF next, keys
<1>4. Shaped(next) /\ Story(next)
  BY <1>1, <1>2 DEF Shaped, Headed, Same, Story
<1>5. MayWrite(c, next, keys, {})
  BY <1>2, <1>3, <1>4, FS_EmptySet DEF MayWrite, Passed
<1>. QED  BY <1>1, <1>5, FinishKeeps

\* A submission writes a row no call has seen.
LEMMA SubmitKeeps ==
  ASSUME Inv, NEW id \in Requests, NEW doc \in Documents, NEW user \in Users,
         NEW chain \in Chains \union {<<>>}, Submit(id, doc, user, chain)
  PROVE  Inv'
<1> DEFINE row == [documentId    |-> doc,
                   requestedBy   |-> user,
                   status        |-> IF chain = <<>> THEN "APPROVED" ELSE "PENDING",
                   currentStepNo |-> IF chain = <<>> THEN 0 ELSE 1,
                   steps         |-> chain,
                   stepStatus    |-> [i \in 1..Len(chain) |-> "PENDING"],
                   decisions     |-> {}]
<1>1. /\ requests' = [requests EXCEPT ![id] = row]
      /\ requests[id].status = "ABSENT"
      /\ \A other \in Requests :
           requests[other].documentId = doc => requests[other].status # "PENDING"
      /\ UNCHANGED <<delegations, calls, torn, overlapped>>
      /\ outboxKeys \subseteq outboxKeys' /\ outboxKeys' \subseteq Key
  <2>1. outboxKeys' \subseteq outboxKeys \union {<<id, "requested", 0, 0>>}
    BY DEF Submit
  <2>2. <<id, "requested", 0, 0>> \in Key /\ outboxKeys \subseteq Key
    BY DEF Inv, Types, Key
  <2>3. outboxKeys' \subseteq Key
    BY <2>1, <2>2
  <2>. QED  BY <2>3 DEF Submit
<1>2. chain \in Seq(Step) /\ Len(chain) \in Nat /\ (chain # <<>> => Len(chain) >= 1)
  BY ChainIsASequence
<1>3. row \in Request
  BY <1>2 DEF Request, Status
<1>4. /\ row.decisions = {} /\ row.steps = chain /\ row.documentId = doc
      /\ row.stepStatus = [i \in 1..Len(chain) |-> "PENDING"]
      /\ row.status = IF chain = <<>> THEN "APPROVED" ELSE "PENDING"
      /\ row.currentStepNo = IF chain = <<>> THEN 0 ELSE 1
  OBVIOUS
<1> HIDE DEF row
<1>5. Len(row.stepStatus) = Len(row.steps)
  BY <1>2, <1>4
<1>6. Shaped(row) /\ Story(row)
  BY <1>2, <1>3, <1>4, <1>5, FS_EmptySet DEF Shaped, Headed, Story
<1>7. RowOk(row, id, torn, overlapped)
  <2>1. Passed(row, row.decisions)
    BY <1>2, <1>4 DEF Passed
  <2>. QED  BY <1>4, <1>6, <2>1 DEF RowOk
<1>8. /\ requests' = [r \in Requests |-> requests'[r]] /\ requests'[id] = row
      /\ \A r \in Requests \ {id} : requests'[r] = requests[r]
  BY <1>1 DEF Inv, Types
<1>9. Types' /\ \A r \in Requests : RowOk(requests'[r], r, torn, overlapped)
  BY <1>1, <1>7, <1>8 DEF Inv, Types
<1>10. ASSUME NEW b \in Calls
       PROVE  CallOk(calls[b], requests'[calls[b].id], torn, overlapped)
  <2>1. CallOk(calls[b], requests[calls[b].id], torn, overlapped) /\ calls[b] \in Call
        /\ calls[b].id \in Requests
    BY DEF Inv, Types, Call
  <2>2. CASE calls[b].phase \in {"idle", "done"}
    BY <2>2 DEF CallOk
  <2>3. CASE calls[b].phase \notin {"idle", "done"}
    BY <1>1, <1>8, <2>1, <2>3 DEF CallOk
  <2>. QED  BY <2>2, <2>3
<1>11. RejectHasKey'
  BY <1>1, <1>4, <1>8 DEF Inv, RejectHasKey
<1>12. RejectedNeverApproved'
  BY <1>4, <1>8 DEF Inv, RejectedNeverApproved
<1>13. OnePendingPerDocument'
  BY <1>1, <1>4, <1>8 DEF Inv, OnePendingPerDocument
<1>14. Twins'
  BY <1>1 DEF Inv, Twins, Deciding
<1>. QED  BY <1>1, <1>9, <1>10, <1>11, <1>12, <1>13, <1>14 DEF Inv

\* A call begins; one that meets another of its user's is noted.
LEMMA StartKeeps ==
  ASSUME Inv, NEW c \in Calls, NEW user \in Users, NEW op \in Op, NEW id \in Requests,
         StartCall(c, user, op, id)
  PROVE  Inv'
<1> DEFINE lent == IF op = "CANCEL" THEN {} ELSE {u \in Users : <<u, user>> \in delegations}
           call == [calls[c] EXCEPT !.phase = "called", !.user = user, !.op = op, !.id = id,
                                    !.delegators = lent]
<1>1. /\ calls' = [calls EXCEPT ![c] = call] /\ calls[c].phase = "idle"
      /\ requests[id].status # "ABSENT"
      /\ UNCHANGED <<requests, outboxKeys, delegations, torn>>
      /\ overlapped' = IF op # "CANCEL" /\ \E b \in Calls : Deciding(b, user, id)
                       THEN overlapped \union {<<user, id>>} ELSE overlapped
  BY DEF StartCall
<1>2. lent \subseteq Users
  OBVIOUS
<1> HIDE DEF lent
<1>3. /\ call \in Call /\ call.phase = "called" /\ call.user = user /\ call.op = op
      /\ call.id = id
  BY <1>2 DEF Inv, Types, Call
<1> HIDE DEF call
<1>4. overlapped \subseteq overlapped' /\ overlapped' \subseteq Users \X Requests
  BY <1>1 DEF Inv, Types
<1>5. CallOk(call, requests[call.id], torn, overlapped')
  BY <1>1, <1>3 DEF CallOk
<1>6. Twins'
  <2>1. calls'[c] = call /\ \A b \in Calls \ {c} : calls'[b] = calls[b]
    BY <1>1 DEF Inv, Types
  <2>2. ASSUME NEW b \in Calls \ {c}, NEW who, NEW r, Deciding(b, who, r)'
        PROVE  Deciding(b, who, r)
    BY <2>1, <2>2 DEF Deciding
  <2>3. ASSUME NEW who, NEW r, Deciding(c, who, r)'
        PROVE  who = user /\ r = id /\ op # "CANCEL"
    BY <1>3, <2>1, <2>3 DEF Deciding
  <2>4. ASSUME NEW b \in Calls \ {c}, NEW who, NEW r,
               Deciding(b, who, r)', Deciding(c, who, r)'
        PROVE  <<who, r>> \in overlapped'
    BY <1>1, <2>2, <2>3, <2>4
  <2>5. ASSUME NEW a \in Calls, NEW b \in Calls, a # b, NEW who, NEW r,
               Deciding(a, who, r)', Deciding(b, who, r)'
        PROVE  <<who, r>> \in overlapped'
    <3>1. CASE a # c /\ b # c
      BY <1>4, <2>2, <2>5, <3>1 DEF Inv, Twins
    <3>. QED  BY <2>4, <2>5, <3>1
  <2>. QED  BY <2>5 DEF Twins
<1>. QED  BY <1>1, <1>3, <1>4, <1>5, <1>6, OneCallMoves

\* A query of findById: what the call holds is true of the row, and whole where
\* it says so.
LEMMA ReadKeeps ==
  ASSUME Inv, NEW c \in Calls, ReadHeader(c) \/ ReadSteps(c) \/ ReadDecisions(c)
  PROVE  Inv'
<1> DEFINE call == calls[c]
           copy == calls[c].loaded
           id == calls[c].id
           row == requests[calls[c].id]
<1>1. /\ call \in Call /\ id \in Requests /\ RowOk(row, id, torn, overlapped)
      /\ row \in Request /\ copy \in Request
      /\ call.phase \in {"called", "header", "steps"}
      /\ CallOk(call, row, torn, overlapped) /\ row.status # "ABSENT"
      /\ UNCHANGED <<requests, outboxKeys, delegations, torn, overlapped>>
  BY DEF Inv, Types, Call, CallOk, RowOk, Shaped, Headed, ReadHeader, ReadSteps, ReadDecisions
<1>2. Shaped(row) /\ Passed(row, row.decisions) /\ (id \notin torn => Story(row))
  BY <1>1 DEF RowOk
<1>3. ASSUME NEW read \in Call, read.phase # "done" => read.id = id,
             read.phase = "done" \/ (read.user = call.user /\ read.op = call.op),
             calls' = [calls EXCEPT ![c] = read], CallOk(read, requests[read.id], torn, overlapped)
      PROVE  Inv'
  <2>1. Twins'
    BY <1>1, <1>3, FewerTwins
  <2>. QED  BY <1>1, <1>3, <2>1, OneCallMoves DEF Inv, Types
<1>4. CASE ReadHeader(c)
  <2> DEFINE seen == HeaderOf(row)
             read == [call EXCEPT !.loaded = seen, !.phase = "header"]
  <2>1. calls' = [calls EXCEPT ![c] = read]
    BY <1>4 DEF ReadHeader
  <2>2. /\ seen \in Request /\ Same(seen, row) /\ seen.decisions = {}
        /\ seen.status = row.status /\ seen.currentStepNo = row.currentStepNo
    <3>1. <<>> \in Seq({"PENDING", "APPROVED", "REJECTED"})
      OBVIOUS
    <3> HIDE DEF row
    <3>2. seen \in Request
      BY <1>1, <3>1 DEF HeaderOf, Request
    <3>. QED  BY <1>1, <3>2 DEF HeaderOf, Request, Same
  <2> HIDE DEF seen
  <2>3. HasHeader(seen, row)
    <3>1. Headed(seen)
      BY <1>2, <2>2, FS_EmptySet DEF Headed, Shaped, Same
    <3>2. Passed(seen, row.decisions)
      BY <1>2, <2>2 DEF Passed, Same, Enough
    <3>. QED  BY <2>2, <3>1, <3>2 DEF HasHeader
  <2>4. /\ read \in Call /\ read.phase = "header" /\ read.id = id /\ read.loaded = seen
        /\ read.user = call.user /\ read.op = call.op
    BY <1>1, <2>2 DEF Call
  <2> HIDE DEF read
  <2>5. CallOk(read, requests[read.id], torn, overlapped)
    BY <1>1, <2>3, <2>4 DEF CallOk
  <2>. QED  BY <1>3, <2>1, <2>4, <2>5
<1>5. CASE ReadSteps(c)
  <2> DEFINE seen == WithSteps(copy, row)
             whole == copy = HeaderOf(row)
             read == [call EXCEPT !.loaded = seen, !.phase = "steps", !.whole = whole]
  <2>1. calls' = [calls EXCEPT ![c] = read] /\ HasHeader(copy, row) /\ whole \in BOOLEAN
    BY <1>1, <1>5 DEF ReadSteps, CallOk
  <2>2. /\ seen \in Request /\ Same(seen, copy) /\ seen.decisions = copy.decisions
        /\ seen.status = copy.status /\ seen.currentStepNo = copy.currentStepNo
        /\ seen.stepStatus = row.stepStatus
    <3> HIDE DEF row, copy
    <3>. QED  BY <1>1 DEF WithSteps, Request, Same
  <2>3. whole => copy.status = row.status /\ copy.currentStepNo = row.currentStepNo
    <3> HIDE DEF row, copy
    <3>. QED  BY <1>1 DEF HeaderOf, Request
  <2> HIDE DEF seen, whole
  <2>4. HasHeader(seen, row)
    BY <2>1, <2>2 DEF HasHeader, Headed, Passed, Enough, Same
  <2>5. whole => id \in torn \/ Story(seen)
    BY <1>2, <2>1, <2>2, <2>3 DEF Story, HasHeader, Same
  <2>6. Len(seen.stepStatus) = Len(seen.steps)
    BY <1>2, <2>2, <2>4 DEF Shaped, HasHeader, Same
  <2>7. /\ read \in Call /\ read.phase = "steps" /\ read.id = id /\ read.loaded = seen
        /\ read.user = call.user /\ read.op = call.op
    BY <1>1, <2>1, <2>2 DEF Call
  <2>8. read.whole => whole
    BY <1>1 DEF Call
  <2> HIDE DEF read
  <2>9. CallOk(read, requests[read.id], torn, overlapped)
    BY <1>1, <2>4, <2>5, <2>6, <2>7, <2>8 DEF CallOk
  <2>. QED  BY <1>3, <2>1, <2>7, <2>9
<1>6. CASE ReadDecisions(c)
  <2> DEFINE seen == WithDecisions(copy, row)
             read == [call EXCEPT !.loaded = seen, !.phase = "loaded"]
  <2>1. /\ calls' = [calls EXCEPT ![c] = IF Accepts(seen, call) THEN read ELSE DoneCall]
        /\ HasHeader(copy, row) /\ Len(copy.stepStatus) = Len(copy.steps)
        /\ call.whole => id \in torn \/ Story(copy)
    BY <1>1, <1>6 DEF ReadDecisions, CallOk
  <2>2. CASE ~Accepts(seen, call)
    BY <1>3, <2>1, <2>2, NothingYet DEF CallOk
  <2>3. CASE Accepts(seen, call)
    <3>1. seen.status = "PENDING" /\ calls' = [calls EXCEPT ![c] = read]
      BY <2>1, <2>3 DEF Accepts
    <3>2. /\ seen \in Request /\ Same(seen, copy) /\ seen.decisions = row.decisions
          /\ seen.status = copy.status /\ seen.currentStepNo = copy.currentStepNo
          /\ seen.stepStatus = copy.stepStatus
      <4> HIDE DEF row, copy
      <4>. QED  BY <1>1 DEF WithDecisions, Request, Same
    <3> HIDE DEF seen
    <3>3. HasHeader(seen, row)
      BY <1>2, <2>1, <3>2 DEF HasHeader, Shaped, Headed, Passed, Enough, Same
    <3>4. (Story(copy) => Story(seen)) /\ Len(seen.stepStatus) = Len(seen.steps)
      BY <2>1, <3>2 DEF Story, Same
    <3>5. /\ read \in Call /\ read.phase = "loaded" /\ read.id = id /\ read.loaded = seen
          /\ read.user = call.user /\ read.op = call.op
      BY <1>1, <3>2 DEF Call
    <3>6. read.whole => call.whole
      BY <1>1 DEF Call
    <3> HIDE DEF read
    <3>7. CallOk(read, requests[read.id], torn, overlapped)
      BY <1>1, <2>1, <3>1, <3>2, <3>3, <3>4, <3>5, <3>6 DEF CallOk
    <3>. QED  BY <1>3, <3>1, <3>5, <3>7
  <2>. QED  BY <2>2, <2>3
<1>. QED  BY <1>4, <1>5, <1>6

\* Delegations come and go beside everything else.
LEMMA DelegationsKeep ==
  ASSUME Inv, UNCHANGED <<requests, outboxKeys, calls, torn, overlapped>>,
         delegations' \subseteq DelegationPairs
  PROVE  Inv'
<1>1. Types' /\ Twins'
  BY DEF Inv, Types, Twins, Deciding
<1>. QED  BY <1>1 DEF Inv, RejectHasKey, RejectedNeverApproved, OnePendingPerDocument

(***************************************************************************)
(* The specification                                                       *)
(***************************************************************************)
\* At first there is no request and no call.
LEMMA InitInv == Init => Inv
<1> SUFFICES ASSUME Init PROVE Inv
  OBVIOUS
<1>1. Types
  BY NothingYet DEF Init, Types
<1>2. /\ \A id \in Requests : requests[id] = NoRequest
      /\ \A c \in Calls : calls[c].phase = "idle"
  BY DEF Init, IdleCall
<1>3. NoRequest.decisions = {} /\ NoRequest.status = "ABSENT"
  BY DEF NoRequest
<1>4. Twins /\ \A c \in Calls : CallOk(calls[c], requests[calls[c].id], torn, overlapped)
  BY <1>2 DEF Twins, Deciding, CallOk
<1>. QED  BY <1>1, <1>2, <1>3, <1>4, NothingYet
          DEF Inv, RejectHasKey, RejectedNeverApproved, OnePendingPerDocument

\* Every step keeps the invariant.
LEMMA NextInv == Inv /\ [Next]_vars => Inv'
<1> SUFFICES ASSUME Inv, [Next]_vars PROVE Inv'
  OBVIOUS
<1>1. CASE \E id \in Requests, doc \in Documents, user \in Users, chain \in Chains \union {<<>>} :
             Submit(id, doc, user, chain)
  BY <1>1, SubmitKeeps
<1>2. CASE \E c \in Calls, user \in Users, op \in Op, id \in Requests :
             StartCall(c, user, op, id)
  BY <1>2, StartKeeps
<1>3. CASE \E c \in Calls : ReadHeader(c) \/ ReadSteps(c) \/ ReadDecisions(c)
  BY <1>3, ReadKeeps
<1>4. CASE \E c \in Calls : Decide(c) \/ Cancel(c)
  BY <1>4, DecideKeeps, CancelKeeps
<1>5. CASE \E pair \in DelegationPairs : Delegate(pair) \/ Revoke(pair)
  BY <1>5, DelegationsKeep DEF Delegate, Revoke, Inv, Types
<1>6. CASE UNCHANGED vars
  BY <1>6, DelegationsKeep DEF vars, Inv, Types
<1>. QED  BY <1>1, <1>2, <1>3, <1>4, <1>5, <1>6 DEF Next

\* The invariant holds in every reachable state.
LEMMA Always == Spec => []Inv
<1>. QED  BY InitInv, NextInv, PTL DEF Spec

\* Requests, outbox keys, delegations and calls have their types, whatever calls
\* overlap (approval-request.ts, request.use-cases.ts).
THEOREM TypeCorrect == Spec => []TypeOK
<1>1. Inv => TypeOK
  BY DEF Inv, Types, TypeOK, RowOk, Shaped, Headed, Key
<1>. QED  BY <1>1, Always, PTL

\* An APPROVED request has on every step the approvals it requires, of holders
\* of the step's role, none by or for the requester, however stale or torn the
\* copy that was saved last; two are of one decider only where that user's calls
\* overlapped (decide, save).
THEOREM ApprovedSafe == Spec => []ApprovedIsBacked
<1>1. Inv => ApprovedIsBacked
  <2> SUFFICES ASSUME Inv, NEW id \in Requests, requests[id].status = "APPROVED",
                      NEW i \in DOMAIN requests[id].steps
               PROVE  LET approvals == ApprovalsFor(requests[id], i)
                      IN  /\ Cardinality(approvals) >= requests[id].steps[i].required
                          /\ \A d, e \in approvals :
                               d # e /\ d.by = e.by => <<d.by, id>> \in overlapped
    BY DEF ApprovedIsBacked
  <2> DEFINE req == requests[id]
  <2>1. RowOk(req, id, torn, overlapped) /\ req \in Request
    BY DEF Inv, RowOk, Shaped, Headed
  <2>2. i \in 1..Len(req.steps)
    BY <2>1, StepsOf
  <2>3. Enough(req.decisions, req, i)
    BY <2>1, <2>2 DEF RowOk, Passed
  <2>4. ApprovalsFor(req, i) = OfStep(req.decisions, i)
    BY <2>1 DEF RowOk, Counts, ApprovalsFor, OfStep, Approvals
  <2>5. \A d \in OfStep(req.decisions, i) : d \in req.decisions /\ d.stepNo = i
    BY DEF OfStep, Approvals
  <2>. QED  BY <2>1, <2>3, <2>4, <2>5 DEF RowOk, Enough
<1>. QED  BY <1>1, Always, PTL

\* Whatever goes back by a stale save, a request with a rejection never becomes
\* APPROVED (request.use-cases.ts, the idempotency key of the resolution).
THEOREM RejectedSafe == Spec => []RejectedNeverApproved
<1>1. Inv => RejectedNeverApproved
  BY DEF Inv
<1>. QED  BY <1>1, Always, PTL

\* Header and steps of a request agree after any overlap of saves until a torn
\* copy of it is saved, and a document has one PENDING request
\* (prisma-approval-request.repository.ts, findById and save; the unique index).
THEOREM RequestsSafe == Spec => []RequestsHoldTogether
<1>1. Inv => RequestsHoldTogether
  <2> SUFFICES ASSUME Inv PROVE HeaderMatchesSteps
    BY DEF Inv, RequestsHoldTogether
  <2>1. ASSUME NEW id \in Requests \ torn
        PROVE  Story(requests[id]) /\ DOMAIN requests[id].stepStatus = 1..Len(requests[id].steps)
    BY DEF Inv, RowOk, Shaped, Headed, Request
  <2>. QED  BY <2>1 DEF HeaderMatchesSteps, Story
<1>. QED  BY <1>1, Always, PTL

=============================================================================
