------------------------------- MODULE MCLocks -------------------------------
(* Instances of Locks for TLC.                                             *)
EXTENDS Locks, TLC

ToFile1  == [k \in Link |-> 1]

Structs == Permutations(Lock)
=============================================================================
