------------------------------ MODULE MCOutbox ------------------------------
(* Two replicas, one routable row and one whose tenant has no recipient.    *)
EXTENDS Outbox

CONSTANTS r1, r2, p1, p2

MCRows == {r1, r2}
MCRoutable == {r1}
MCReplicas == {p1, p2}
MCDuplicateAnswers == {"sent", "permanent"}
=============================================================================
