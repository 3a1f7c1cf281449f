---------------------------- MODULE MCProduction ----------------------------
(***************************************************************************)
(* Production orders as MCProductionOrder bounds them, and the master data *)
(* beside them; they share no state, so a scope lets one of them move.     *)
(***************************************************************************)
EXTENDS MCProductionOrder, MCMasterData

MCInit == Init /\ MasterInit /\ scope \in {"order"} \cup MasterScopes
MCNext ==
  /\ \/ scope = "order" /\ Next /\ UNCHANGED masterVars
     \/ ScopedNext /\ UNCHANGED vars
  /\ UNCHANGED scope
MCSpec == MCInit /\ [][MCNext]_<<vars, masterVars, scope>>
=============================================================================
