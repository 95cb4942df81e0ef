------------------------------ MODULE MCCgCache ------------------------------
(* Instances of CgCache for TLC.                                           *)
EXTENDS CgCache, TLC

Groups == Permutations(Cg)
=============================================================================
