---------------------------- MODULE MCCacheChains ----------------------------
(* Instances of CacheChains for TLC: four frags in two buckets, 0 in the   *)
(* first, as cache_hash(0) = 0.                                            *)
EXTENDS CacheChains, TLC

TwoBuckets == [f \in Frag \cup {0} |-> f % 2]

Buffers == Permutations(Node)
=============================================================================
