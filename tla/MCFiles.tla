------------------------------- MODULE MCFiles -------------------------------
(* Instances of Files for TLC.                                             *)
EXTENDS Files

(* One group: a reserved block and ten blocks.                             *)
OneGroup == [g \in 0..0 |-> 44]

AtStart == [i \in Inum |-> 0]

(* All inodes are in the same block, and the handles are alike.            *)
Alike == Permutations(File) \cup Permutations(Handle)

(* A volume that has gone astray is not followed further.                  *)
Followed == ~astray
=============================================================================
