---------------------------- MODULE MCAllocCalls ----------------------------
(* An instance of AllocCalls for TLC.                                      *)
EXTENDS AllocCalls

(* The first block of either group is reserved; behind it there are three  *)
(* blocks in group 0, and in group 1 one block.                            *)
Sizes == [g \in 0..1 |-> IF g = 0 THEN 16 ELSE 8]
=============================================================================
