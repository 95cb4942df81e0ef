----------------------------- MODULE CacheChains -----------------------------
(***************************************************************************)
(* The hash chains of the fragment cache (fs/cache.c), pointer by pointer: *)
(* hashtable[], and hash_up and hash_down in every node.  FragCache takes  *)
(* the chains for lists; this module is why it may.                        *)
(*                                                                         *)
(*   hashtable, hash_up, hash_down   as in the code, NULL included         *)
(*   blk     node->blk, 0 in a node that caches nothing                    *)
(*   stack   the LRU list, least recently used first                       *)
(*   order   history variable: the nodes of each bucket, last added first  *)
(*                                                                         *)
(* Contents and dirty flags are left to FragCache: a miss takes the head   *)
(* of the list, whatever cycling brought it there (Refresh).               *)
(***************************************************************************)
EXTENDS Naturals, Sequences, FiniteSets, Lists

CONSTANTS
    Node,       \* the cache_set_t nodes
    NULL,       \* the null pointer
    Frag,       \* disk addresses of frags
    Bucket,     \* indices of hashtable[]
    Hash        \* cache_hash() as a function

ASSUME NodeAssumption == NULL \notin Node /\ IsFiniteSet(Node)
ASSUME FragAssumption == Frag \subseteq Nat \ {0}
ASSUME HashAssumption == Hash \in [Frag \cup {0} -> Bucket]

VARIABLES hashtable, hash_up, hash_down, blk, stack, order

vars == <<hashtable, hash_up, hash_down, blk, stack, order>>

Listed == Elems(stack)

(* The three kinds of pointers as one value, to compose the routines.      *)
Chains == [top |-> hashtable, up |-> hash_up, down |-> hash_down]

(* Mutant: the node below the removed one keeps its hash_up.               *)
cache_remove_up_kept(c, n, a) ==
    IF c.up[n] = NULL
    THEN [c EXCEPT !.top[Hash[a]] = c.down[n]]
    ELSE [c EXCEPT !.down[c.up[n]] = c.down[n]]

(* The hash half of cache_remove(), for node n cached under address a; the *)
(* node's own pointers keep their values.                                  *)
cache_remove(c, n, a) ==
    LET above == c.up[n]
        below == c.down[n]
    IN  [top  |-> IF above = NULL THEN [c.top EXCEPT ![Hash[a]] = below]
                                  ELSE c.top,
         down |-> IF above = NULL THEN c.down
                                  ELSE [c.down EXCEPT ![above] = below],
         up   |-> IF below = NULL THEN c.up
                                  ELSE [c.up EXCEPT ![below] = above]]

(* The hash half of cache_add().                                           *)
cache_add(c, n, a) ==
    LET first == c.top[Hash[a]]
        up    == IF first = NULL THEN c.up ELSE [c.up EXCEPT ![first] = n]
    IN  [top  |-> [c.top EXCEPT ![Hash[a]] = n],
         up   |-> [up EXCEPT ![n] = NULL],
         down |-> [c.down EXCEPT ![n] = first]]

(* The walk of cache_node() down a chain: the k-th node it meets.  No      *)
(* sound chain is longer than there are nodes.                             *)
Limit == Cardinality(Node)

Chain(b) ==
    LET step[k \in 0..Limit] ==
            IF k = 0 THEN hashtable[b]
            ELSE IF step[k - 1] = NULL THEN NULL ELSE hash_down[step[k - 1]]
    IN  step

Found(f) == {k \in 0..Limit : Chain(Hash[f])[k] # NULL
                               /\ blk[Chain(Hash[f])[k]] = f}

cache_node(f) ==
    IF Found(f) = {} THEN NULL
    ELSE Chain(Hash[f])[CHOOSE k \in Found(f) : \A j \in Found(f) : k <= j]

(* What is to become of the bucket of address a.                           *)
Removed(lists, n, a) == [lists EXCEPT ![Hash[a]] = Without(@, n)]
Added(lists, n, a)   == [lists EXCEPT ![Hash[a]] = <<n>> \o @]

SetChains(c) ==
    /\ hashtable' = c.top
    /\ hash_up' = c.up
    /\ hash_down' = c.down

-----------------------------------------------------------------------------
(* cache_refresh(): the chains do not change.                              *)
Refresh(n) ==
    /\ n \in Listed
    /\ stack' = Append(Without(stack, n), n)
    /\ UNCHANGED <<hashtable, hash_up, hash_down, blk, order>>

(* cache_alloc() and cache_add(), as in cache_adjust().                    *)
Grow(n) ==
    /\ n \in Node \ Listed
    /\ SetChains(cache_add(Chains, n, 0))
    /\ blk' = [blk EXCEPT ![n] = 0]
    /\ stack' = Append(stack, n)
    /\ order' = Added(order, n, 0)

(* cache_remove() of the head: cache_adjust() frees it, cache_getnode()    *)
(* loses it when the read fails.                                           *)
Lose ==
    LET n == Head(stack)
    IN  /\ stack # <<>>
        /\ SetChains(cache_remove(Chains, n, blk[n]))
        /\ stack' = Tail(stack)
        /\ order' = Removed(order, n, blk[n])
        /\ UNCHANGED blk

(* Node n is removed under its old address and added under a new one.      *)
Relink(n, a) ==
    /\ SetChains(cache_add(cache_remove(Chains, n, blk[n]), n, a))
    /\ blk' = [blk EXCEPT ![n] = a]
    /\ stack' = Append(Without(stack, n), n)
    /\ order' = Added(Removed(order, n, blk[n]), n, a)

(* A miss of cache_frag(), cache_frag_write() or cache_frag_move().        *)
Miss(f) ==
    /\ stack # <<>>
    /\ cache_node(f) = NULL
    /\ \E to \in {f} \cup {t \in Frag : cache_node(t) = NULL} :
          Relink(Head(stack), to)

cache_invalidate(f) ==
    /\ cache_node(f) # NULL
    /\ Relink(cache_node(f), 0)

cache_frag_move(to, from) ==
    /\ cache_node(from) # NULL /\ cache_node(to) = NULL
    /\ Relink(cache_node(from), to)

(* open_cache(), before cache_adjust() adds buffers.                       *)
Init ==
    /\ hashtable = [b \in Bucket |-> NULL]
    /\ hash_up = [n \in Node |-> NULL]
    /\ hash_down = [n \in Node |-> NULL]
    /\ blk = [n \in Node |-> 0]
    /\ stack = <<>>
    /\ order = [b \in Bucket |-> <<>>]

Next ==
    \/ \E n \in Node : Refresh(n) \/ Grow(n)
    \/ Lose
    \/ \E f \in Frag : Miss(f) \/ cache_invalidate(f)
    \/ \E to, from \in Frag : cache_frag_move(to, from)

Spec == Init /\ [][Next]_vars

-----------------------------------------------------------------------------
(* The chain of a bucket is exactly its nodes, the last added first, and   *)
(* hash_up is the way back.  So every walk of cache_node() comes to an end *)
(* (cache.c:889-902), finds a cached frag and misses the others, and       *)
(* cache_remove() may unlink a node anywhere in its chain                  *)
(* (cache.c:829-838).  This is what FragCache takes a chain to be.         *)
ChainIsBucket ==
    \A b \in Bucket :
        LET mine == order[b]
        IN  /\ Elems(mine) = {n \in Listed : Hash[blk[n]] = b}
            /\ \A k \in 0..Limit :
                  Chain(b)[k] = IF k < Len(mine) THEN mine[k + 1] ELSE NULL
            /\ Chain(b)[Limit] = NULL
            /\ \A k \in 1..Len(mine) :
                  hash_up[mine[k]] = IF k = 1 THEN NULL ELSE mine[k - 1]
=============================================================================
