------------------------------ MODULE MCHandler ------------------------------
(* Instances of Handler for TLC.                                           *)
EXTENDS Handler, TLC

Clients == Permutations(Client)
=============================================================================
