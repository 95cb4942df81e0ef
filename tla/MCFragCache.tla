----------------------------- MODULE MCFragCache -----------------------------
(* Instances of FragCache for TLC.                                         *)
EXTENDS FragCache, TLC

MoreOrLess == {1, -1}

Buffers == Permutations(Node)
=============================================================================
