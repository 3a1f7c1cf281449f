-------------------------- MODULE MCProductionOrder --------------------------
(* Two overlapping calls, each of which may be followed by others, on one    *)
(* order that may need one or two approvals; three pieces with a third over  *)
(* and under allowed, which integer division makes a ceiling of three and a  *)
(* floor of two, reported none, one or three at a time.                      *)
EXTENDS ProductionOrder

CONSTANTS o1, u1, u2, u3, c1, c2

MCOrders == {o1}
MCUsers == {u1, u2, u3}
MCAmounts == {1, 2}
MCReportSizes == {0, 1, 3}
MCCalls == {c1, c2}
=============================================================================
