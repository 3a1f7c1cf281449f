---------------------------- MODULE MCReceivable ----------------------------
(* The receivable and the ledger on two documents, one receipt, two calls. *)
EXTENDS Receivable, TLC

Symmetry == Permutations(Caller) \cup Permutations(Invoice)
              \cup Permutations(Receipt)
============================================================================
