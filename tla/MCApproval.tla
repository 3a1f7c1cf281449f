----------------------------- MODULE MCApproval -----------------------------
(* Two requests for one document, three overlapping calls.  The requester    *)
(* may hold the approver's role too, and a manager may delegate it.          *)
EXTENDS ApprovalRequest, TLC

CONSTANTS q1, q2, doc, requester, manager, deputy, c1, c2, c3

MCRequests == {q1, q2}
MCDocuments == {doc}
MCUsers == {requester, manager, deputy}
MCRolesOf == [u \in MCUsers |-> IF u = deputy THEN {"dir"} ELSE {"mgr"}]
MCChains == {<<[role |-> "mgr", required |-> 2]>>,
             <<[role |-> "mgr", required |-> 1], [role |-> "dir", required |-> 1]>>}
MCDelegationPairs == {<<manager, deputy>>}
MCCalls == {c1, c2, c3}
CallSymmetry == Permutations(MCCalls)

\* What a run lets happen: "saves", any overlap of calls on two requests, their
\* queries not torn and no delegation; "reads", on one request anything;
\* "stale", on one request any overlap of calls whose queries are not torn;
\* "turns", on one request one call after another.
VARIABLE scope

Reading == {c \in Calls : calls[c].phase \in {"header", "steps"}}
UnderWay == {c \in Calls : calls[c].phase \notin {"idle", "done"}}
OneRequest == requests'[q2] = requests[q2]
Moving(some) == \A c \in some : calls'[c] # calls[c]

Scoped(kind) ==
  CASE kind = "saves" -> delegations' = {} /\ Moving(Reading)
    [] kind = "reads" -> OneRequest
    [] kind = "stale" -> OneRequest /\ Moving(Reading)
    [] kind = "turns" -> OneRequest /\ Moving(UnderWay)

ScopedInit(scopes) == Init /\ scope \in scopes
MCNext == Next /\ Scoped(scope) /\ UNCHANGED scope

MCInit == ScopedInit({"saves", "reads"})
StaleInit == ScopedInit({"stale"})
TurnsInit == ScopedInit({"turns"})

MCSpec == MCInit /\ [][MCNext]_<<vars, scope>>
StaleSpec == StaleInit /\ [][MCNext]_<<vars, scope>>
TurnsSpec == TurnsInit /\ [][MCNext]_<<vars, scope>>
=============================================================================
