-------------------------- MODULE CacheChainsProofs --------------------------
(***************************************************************************)
(* Proofs about CacheChains, for any number of nodes and buckets and any   *)
(* hash function.                                                          *)
(***************************************************************************)
EXTENDS CacheChains, ListProofs, FiniteSetTheorems

Pointer == Node \cup {NULL}

ChainsOK(c) == c \in [top  : [Bucket -> Pointer],
                      up   : [Node -> Pointer],
                      down : [Node -> Pointer]]

(* Entry k of a list, NULL before its first and behind its last.           *)
At(s, k) == IF k \in 1..Len(s) THEN s[k] ELSE NULL

(* The pointers of bucket b are those of the list s.                       *)
Linked(c, b, s) ==
    /\ c.top[b] = At(s, 1)
    /\ \A k \in 1..Len(s) : /\ c.down[s[k]] = At(s, k + 1)
                            /\ c.up[s[k]] = At(s, k - 1)

InBucket(L, f, b) == {n \in L : Hash[f[n]] = b}

(* The nodes of L, cached under the addresses f, are linked as lists says. *)
Sound(c, lists, L, f) ==
    /\ ChainsOK(c)
    /\ lists \in [Bucket -> Seq(Node)]
    /\ L \subseteq Node
    /\ f \in [Node -> Frag \cup {0}]
    /\ \A b \in Bucket : /\ Listing(lists[b], InBucket(L, f, b), Node)
                         /\ Linked(c, b, lists[b])

Inv ==
    /\ Sound(Chains, order, Listed, blk)
    /\ Listing(stack, Listed, Node)

-----------------------------------------------------------------------------
LEMMA NullIsNoNode == NULL \notin Node
  BY NodeAssumption

(* Where the entries of a list are after one is unlinked.                  *)
LEMMA WithoutAt ==
    ASSUME NEW s, NEW S, Listing(s, S, Node), NEW n \in S
    PROVE  \E p \in 1..Len(s) :
              /\ s[p] = n
              /\ Len(s) \in Nat /\ Len(Without(s, n)) = Len(s) - 1
              /\ \A i \in 1..(Len(s) - 1) :
                    Without(s, n)[i] = IF i < p THEN s[i] ELSE s[i + 1]
<1> DEFINE p == Position(s, n)
<1>1. p \in 1..Len(s) /\ s[p] = n
  BY DEF Listing, Elems, Position
<1>2. Len(s) \in Nat /\ Len(Without(s, n)) = Len(s) - 1
  BY ListingWithout DEF Listing
<1>3. \A i \in 1..(Len(s) - 1) :
         Without(s, n)[i] = IF i < p THEN s[i] ELSE s[i + 1]
  BY DEF Without
<1> QED  BY <1>1, <1>2, <1>3

LEMMA ListFacts ==
    ASSUME NEW s, NEW S, Listing(s, S, Node)
    PROVE  /\ Len(s) \in Nat /\ S \subseteq Node
           /\ \A k \in 1..Len(s) : s[k] \in S /\ s[k] \in Node /\ s[k] # NULL
           /\ \A j, k \in 1..Len(s) : s[j] = s[k] => j = k
  BY NullIsNoNode DEF Listing, Elems, NoRepeats

-----------------------------------------------------------------------------
(* cache_remove() at the top, in the middle and at the bottom of a chain.  *)
LEMMA RemoveLinked ==
    ASSUME NEW c, ChainsOK(c), NEW a \in Frag \cup {0}, NEW s, NEW S,
           Listing(s, S, Node), Linked(c, Hash[a], s), NEW n \in S
    PROVE  /\ ChainsOK(cache_remove(c, n, a))
           /\ Linked(cache_remove(c, n, a), Hash[a], Without(s, n))
<1> DEFINE b == Hash[a]
           w == Without(s, n)
           d == cache_remove(c, n, a)
<1>1. PICK p \in 1..Len(s) :
         /\ s[p] = n
         /\ Len(s) \in Nat /\ Len(w) = Len(s) - 1
         /\ \A i \in 1..(Len(s) - 1) : w[i] = IF i < p THEN s[i] ELSE s[i + 1]
  BY WithoutAt
<1>2. /\ \A k \in 1..Len(s) : s[k] \in Node /\ s[k] # NULL
      /\ \A j, k \in 1..Len(s) : s[j] = s[k] => j = k
  BY ListFacts
<1>3. b \in Bucket
  BY HashAssumption
<1>4. PICK above \in Pointer : above = At(s, p - 1)
  BY <1>1, <1>2 DEF At, Pointer
<1>5. PICK below \in Pointer : below = At(s, p + 1)
  BY <1>1, <1>2 DEF At, Pointer
<1>6. c.up[n] = above /\ c.down[n] = below
  BY <1>1, <1>4, <1>5 DEF Linked
<1>7. /\ c.top \in [Bucket -> Pointer] /\ c.up \in [Node -> Pointer]
      /\ c.down \in [Node -> Pointer]
  BY DEF ChainsOK
<1>8. /\ d.top = IF above = NULL THEN [c.top EXCEPT ![b] = below] ELSE c.top
      /\ d.down = IF above = NULL THEN c.down
                                  ELSE [c.down EXCEPT ![above] = below]
      /\ d.up = IF below = NULL THEN c.up ELSE [c.up EXCEPT ![below] = above]
      /\ d = [top |-> d.top, down |-> d.down, up |-> d.up]
  BY <1>6 DEF cache_remove
<1> HIDE DEF b, w, d
<1>9. ChainsOK(d)
  BY <1>3, <1>7, <1>8 DEF ChainsOK, Pointer
<1>10. c.top[b] = At(s, 1)
  BY DEF Linked, b
<1>11. d.top[b] = At(w, 1)
  <2>1. CASE p = 1
    <3>1. above = NULL /\ d.top[b] = below
      BY <1>3, <1>4, <1>7, <1>8, <2>1 DEF At
    <3> QED  BY <1>1, <1>5, <2>1, <3>1 DEF At
  <2>2. CASE p # 1
    <3>1. above # NULL /\ d.top[b] = s[1]
      BY <1>1, <1>2, <1>4, <1>8, <1>10, <2>2 DEF At
    <3> QED  BY <1>1, <2>2, <3>1 DEF At
  <2> QED  BY <2>1, <2>2
<1>12. ASSUME NEW k \in 1..Len(w)
       PROVE  d.down[w[k]] = At(w, k + 1) /\ d.up[w[k]] = At(w, k - 1)
  <2>1. PICK i \in 1..Len(s) : i = (IF k < p THEN k ELSE k + 1)
    BY <1>1
  <2>2. w[k] = s[i] /\ i # p /\ s[i] \in Node
    BY <1>1, <1>2, <2>1
  <2>3. c.down[s[i]] = At(s, i + 1) /\ c.up[s[i]] = At(s, i - 1)
    BY DEF Linked
  <2>4. d.down[s[i]] = IF i = p - 1 THEN below ELSE c.down[s[i]]
    <3>1. CASE i = p - 1
      BY <1>2, <1>4, <1>7, <1>8, <2>2, <3>1 DEF At
    <3>2. CASE i # p - 1
      <4>1. above # s[i]
        BY <1>1, <1>2, <1>4, <3>2 DEF At
      <4>2. above = NULL \/ above \in Node
        BY DEF Pointer
      <4> QED  BY <1>7, <1>8, <2>2, <3>2, <4>1, <4>2
    <3> QED  BY <3>1, <3>2
  <2>5. d.up[s[i]] = IF i = p + 1 THEN above ELSE c.up[s[i]]
    <3>1. CASE i = p + 1
      BY <1>2, <1>5, <1>7, <1>8, <2>2, <3>1 DEF At
    <3>2. CASE i # p + 1
      <4>1. below # s[i]
        BY <1>1, <1>2, <1>5, <3>2 DEF At
      <4>2. below = NULL \/ below \in Node
        BY DEF Pointer
      <4> QED  BY <1>7, <1>8, <2>2, <3>2, <4>1, <4>2
    <3> QED  BY <3>1, <3>2
  <2>6. d.down[w[k]] = At(w, k + 1)
    <3>1. CASE k < p - 1
      BY <1>1, <2>1, <2>2, <2>3, <2>4, <3>1 DEF At
    <3>2. CASE k = p - 1
      BY <1>1, <1>5, <2>1, <2>2, <2>3, <2>4, <3>2 DEF At
    <3>3. CASE k >= p
      BY <1>1, <2>1, <2>2, <2>3, <2>4, <3>3 DEF At
    <3> QED  BY <1>1, <3>1, <3>2, <3>3
  <2>7. d.up[w[k]] = At(w, k - 1)
    <3>1. CASE k < p
      BY <1>1, <2>1, <2>2, <2>3, <2>5, <3>1 DEF At
    <3>2. CASE k = p
      BY <1>1, <1>4, <2>1, <2>2, <2>3, <2>5, <3>2 DEF At
    <3>3. CASE k > p
      BY <1>1, <2>1, <2>2, <2>3, <2>5, <3>3 DEF At
    <3> QED  BY <1>1, <3>1, <3>2, <3>3
  <2> QED  BY <2>6, <2>7
<1>13. Linked(d, b, w)
  BY <1>11, <1>12 DEF Linked
<1> QED  BY <1>9, <1>13 DEF d, b, w

(* The other chains are left alone.                                        *)
LEMMA RemoveElsewhere ==
    ASSUME NEW c, ChainsOK(c), NEW a \in Frag \cup {0}, NEW s, NEW S,
           Listing(s, S, Node), Linked(c, Hash[a], s), NEW n \in S,
           NEW b \in Bucket, b # Hash[a], NEW t, NEW T, Listing(t, T, Node),
           S \cap T = {}, Linked(c, b, t)
    PROVE  Linked(cache_remove(c, n, a), b, t)
<1> DEFINE d == cache_remove(c, n, a)
<1>1. PICK p \in 1..Len(s) : s[p] = n /\ Len(s) \in Nat
  BY WithoutAt
<1>2. c.up[n] = At(s, p - 1) /\ c.down[n] = At(s, p + 1)
  BY <1>1 DEF Linked
<1>3. \A k \in 1..Len(s) : s[k] \in S
  BY ListFacts
<1>4. /\ c.up[n] = NULL \/ c.up[n] \in S
      /\ c.down[n] = NULL \/ c.down[n] \in S
  BY <1>2, <1>3 DEF At
<1>5. /\ d.top = IF c.up[n] = NULL THEN [c.top EXCEPT ![Hash[a]] = c.down[n]]
                                   ELSE c.top
      /\ d.down = IF c.up[n] = NULL THEN c.down
                  ELSE [c.down EXCEPT ![c.up[n]] = c.down[n]]
      /\ d.up = IF c.down[n] = NULL THEN c.up
                ELSE [c.up EXCEPT ![c.down[n]] = c.up[n]]
  BY DEF cache_remove
<1>6. /\ c.top \in [Bucket -> Pointer] /\ c.up \in [Node -> Pointer]
      /\ c.down \in [Node -> Pointer]
  BY DEF ChainsOK
<1> HIDE DEF d
<1>7. d.top[b] = c.top[b]
  BY <1>5, <1>6
<1>8. \A k \in 1..Len(t) : t[k] \in Node /\ t[k] \notin S /\ t[k] # NULL
  BY ListFacts
<1>9. \A k \in 1..Len(t) : d.down[t[k]] = c.down[t[k]] /\ d.up[t[k]] = c.up[t[k]]
  BY <1>4, <1>5, <1>6, <1>8
<1>10. Linked(d, b, t)
  BY <1>7, <1>9 DEF Linked
<1> QED  BY <1>10 DEF d

-----------------------------------------------------------------------------
(* Where the entries of a list are after one is put before them.           *)
LEMMA PrependAt ==
    ASSUME NEW s, NEW S, Listing(s, S, Node), NEW n \in Node, n \notin S
    PROVE  /\ Len(s) \in Nat /\ Len(<<n>> \o s) = Len(s) + 1
           /\ \A i \in 1..(Len(s) + 1) :
                 (<<n>> \o s)[i] = IF i = 1 THEN n ELSE s[i - 1]
<1>1. s \in Seq(Node) /\ Len(s) \in Nat /\ <<n>> \in Seq(Node)
      /\ Len(<<n>>) = 1
  BY DEF Listing
<1> QED  BY <1>1, ConcatProperties

(* cache_add() before an empty chain and before a first node.              *)
LEMMA AddLinked ==
    ASSUME NEW c, ChainsOK(c), NEW a \in Frag \cup {0}, NEW s, NEW S,
           Listing(s, S, Node), Linked(c, Hash[a], s),
           NEW n \in Node, n \notin S
    PROVE  /\ ChainsOK(cache_add(c, n, a))
           /\ Linked(cache_add(c, n, a), Hash[a], <<n>> \o s)
<1> DEFINE b == Hash[a]
           w == <<n>> \o s
           d == cache_add(c, n, a)
<1>1. /\ Len(s) \in Nat /\ Len(w) = Len(s) + 1
      /\ \A i \in 1..(Len(s) + 1) : w[i] = IF i = 1 THEN n ELSE s[i - 1]
  BY PrependAt
<1>2. /\ \A k \in 1..Len(s) : s[k] \in S /\ s[k] \in Node /\ s[k] # NULL
      /\ \A j, k \in 1..Len(s) : s[j] = s[k] => j = k
  BY ListFacts
<1>3. b \in Bucket
  BY HashAssumption
<1>4. PICK first \in Pointer : first = At(s, 1)
  BY <1>1, <1>2 DEF At, Pointer
<1>5. c.top[b] = first
  BY <1>4 DEF Linked
<1>6. /\ c.top \in [Bucket -> Pointer] /\ c.up \in [Node -> Pointer]
      /\ c.down \in [Node -> Pointer]
  BY DEF ChainsOK
<1>7. PICK u : u = (IF first = NULL THEN c.up ELSE [c.up EXCEPT ![first] = n])
  OBVIOUS
<1>8. /\ d.top = [c.top EXCEPT ![b] = n]
      /\ d.up = [u EXCEPT ![n] = NULL]
      /\ d.down = [c.down EXCEPT ![n] = first]
      /\ d = [top |-> d.top, up |-> d.up, down |-> d.down]
  BY <1>5, <1>7 DEF cache_add
<1> HIDE DEF b, w, d
<1>9. u \in [Node -> Pointer]
  BY <1>6, <1>7 DEF Pointer
<1>10. ChainsOK(d)
  BY <1>3, <1>6, <1>8, <1>9 DEF ChainsOK, Pointer
<1>11. d.top[b] = At(w, 1)
  BY <1>1, <1>3, <1>6, <1>8 DEF At
<1>12. ASSUME NEW k \in 1..Len(w)
       PROVE  d.down[w[k]] = At(w, k + 1) /\ d.up[w[k]] = At(w, k - 1)
  <2>1. CASE k = 1
    <3>1. w[k] = n /\ d.down[n] = first /\ d.up[n] = NULL
      BY <1>1, <1>6, <1>8, <1>9, <2>1
    <3> QED  BY <1>1, <1>4, <2>1, <3>1 DEF At
  <2>2. CASE k # 1
    <3>1. PICK i \in 1..Len(s) : i = k - 1
      BY <1>1, <2>2
    <3>2. w[k] = s[i] /\ s[i] \in Node /\ s[i] # n
      BY <1>1, <1>2, <2>2, <3>1
    <3>3. c.down[s[i]] = At(s, i + 1) /\ c.up[s[i]] = At(s, i - 1)
      BY DEF Linked
    <3>4. d.down[s[i]] = At(s, i + 1)
      BY <1>6, <1>8, <3>2, <3>3
    <3>5. d.up[s[i]] = u[s[i]]
      BY <1>8, <1>9, <3>2
    <3>6. u[s[i]] = IF i = 1 THEN n ELSE At(s, i - 1)
      BY <1>1, <1>2, <1>4, <1>6, <1>7, <3>2, <3>3 DEF At
    <3>7. At(w, k + 1) = At(s, i + 1)
      BY <1>1, <3>1 DEF At
    <3>8. At(w, k - 1) = IF i = 1 THEN n ELSE At(s, i - 1)
      BY <1>1, <3>1 DEF At
    <3> QED  BY <3>2, <3>4, <3>5, <3>6, <3>7, <3>8
  <2> QED  BY <2>1, <2>2
<1>13. Linked(d, b, w)
  BY <1>11, <1>12 DEF Linked
<1> QED  BY <1>10, <1>13 DEF d, b, w

LEMMA AddElsewhere ==
    ASSUME NEW c, ChainsOK(c), NEW a \in Frag \cup {0}, NEW s, NEW S,
           Listing(s, S, Node), Linked(c, Hash[a], s), NEW n \in Node,
           NEW b \in Bucket, b # Hash[a], NEW t, NEW T, Listing(t, T, Node),
           S \cap T = {}, n \notin T, Linked(c, b, t)
    PROVE  Linked(cache_add(c, n, a), b, t)
<1> DEFINE d == cache_add(c, n, a)
<1>1. PICK first : first = c.top[Hash[a]]
  OBVIOUS
<1>2. first = NULL \/ first \in S
  BY <1>1, ListFacts DEF Linked, At
<1>3. PICK u : u = (IF first = NULL THEN c.up ELSE [c.up EXCEPT ![first] = n])
  OBVIOUS
<1>4. /\ d.top = [c.top EXCEPT ![Hash[a]] = n]
      /\ d.up = [u EXCEPT ![n] = NULL]
      /\ d.down = [c.down EXCEPT ![n] = first]
  BY <1>1, <1>3 DEF cache_add
<1>5. /\ c.top \in [Bucket -> Pointer] /\ c.up \in [Node -> Pointer]
      /\ c.down \in [Node -> Pointer]
  BY DEF ChainsOK
<1> HIDE DEF d
<1>6. d.top[b] = c.top[b]
  BY <1>4, <1>5
<1>7. \A k \in 1..Len(t) : t[k] \in Node /\ t[k] \notin S /\ t[k] # NULL
                           /\ t[k] # n
  BY ListFacts
<1>8. DOMAIN u = Node
  BY <1>3, <1>5
<1>9. \A k \in 1..Len(t) : d.down[t[k]] = c.down[t[k]] /\ d.up[t[k]] = c.up[t[k]]
  BY <1>2, <1>3, <1>4, <1>5, <1>7, <1>8
<1>10. Linked(d, b, t)
  BY <1>6, <1>9 DEF Linked
<1> QED  BY <1>10 DEF d

-----------------------------------------------------------------------------
(* What cache_remove() and cache_add() do to all the chains.               *)
LEMMA SoundRemove ==
    ASSUME NEW c, NEW lists, NEW L, NEW f, Sound(c, lists, L, f), NEW n \in L
    PROVE  Sound(cache_remove(c, n, f[n]), Removed(lists, n, f[n]), L \ {n}, f)
<1> DEFINE B(b) == InBucket(L, f, b)
           A(b) == InBucket(L \ {n}, f, b)
<1>1. PICK a \in Frag \cup {0} : a = f[n]
  BY DEF Sound
<1>2. PICK h \in Bucket : h = Hash[a]
  BY HashAssumption
<1> DEFINE d == cache_remove(c, n, a)
           w == Removed(lists, n, a)
<1>3. /\ ChainsOK(c) /\ lists \in [Bucket -> Seq(Node)]
      /\ L \subseteq Node /\ f \in [Node -> Frag \cup {0}]
      /\ \A b \in Bucket : Listing(lists[b], B(b), Node)
                           /\ Linked(c, b, lists[b])
  BY DEF Sound
<1>4. n \in B(h)
  BY <1>1, <1>2 DEF InBucket
<1>5. A(h) = B(h) \ {n} /\ \A b \in Bucket : b # h => A(b) = B(b)
  BY <1>1, <1>2 DEF InBucket
<1>6. \A b \in Bucket : b # h => B(h) \cap B(b) = {}
  BY DEF InBucket
<1> HIDE DEF A, B
<1>7. Listing(Without(lists[h], n), A(h), Node)
  BY <1>3, <1>4, <1>5, ListingWithout
<1>8. Without(lists[h], n) \in Seq(Node)
  BY <1>7 DEF Listing
<1>9. w = [lists EXCEPT ![h] = Without(lists[h], n)]
  BY <1>2 DEF Removed
<1>10. ChainsOK(d) /\ Linked(d, h, Without(lists[h], n))
  BY <1>2, <1>3, <1>4, RemoveLinked
<1>11. ASSUME NEW b \in Bucket, b # h
       PROVE  Linked(d, b, lists[b])
  <2>1. Listing(lists[h], B(h), Node) /\ Linked(c, Hash[a], lists[h])
    BY <1>2, <1>3
  <2>2. Listing(lists[b], B(b), Node) /\ Linked(c, b, lists[b])
    BY <1>3
  <2> QED  BY <1>2, <1>3, <1>4, <1>6, <1>11, <2>1, <2>2, RemoveElsewhere
<1> HIDE DEF w, d
<1>12. \A b \in Bucket : Listing(w[b], A(b), Node) /\ Linked(d, b, w[b])
  BY <1>3, <1>5, <1>7, <1>9, <1>10, <1>11
<1>13. w \in [Bucket -> Seq(Node)]
  BY <1>3, <1>8, <1>9
<1>14. Sound(d, w, L \ {n}, f)
  BY <1>3, <1>10, <1>12, <1>13 DEF Sound, A
<1> QED  BY <1>1, <1>14 DEF d, w

LEMMA SoundAdd ==
    ASSUME NEW c, NEW lists, NEW L, NEW f, Sound(c, lists, L, f),
           NEW n \in Node \ L, NEW a \in Frag \cup {0}
    PROVE  Sound(cache_add(c, n, a), Added(lists, n, a), L \cup {n},
                 [f EXCEPT ![n] = a])
<1>1. PICK g : g = [f EXCEPT ![n] = a]
  OBVIOUS
<1> DEFINE B(b) == InBucket(L, f, b)
           A(b) == InBucket(L \cup {n}, g, b)
<1>2. PICK h \in Bucket : h = Hash[a]
  BY HashAssumption
<1> DEFINE d == cache_add(c, n, a)
           w == Added(lists, n, a)
<1>3. /\ ChainsOK(c) /\ lists \in [Bucket -> Seq(Node)]
      /\ L \subseteq Node /\ f \in [Node -> Frag \cup {0}]
      /\ \A b \in Bucket : Listing(lists[b], B(b), Node)
                           /\ Linked(c, b, lists[b])
  BY DEF Sound
<1>4. \A b \in Bucket : n \notin B(b)
  BY DEF InBucket
<1>5. A(h) = B(h) \cup {n} /\ \A b \in Bucket : b # h => A(b) = B(b)
  BY <1>1, <1>2, <1>3 DEF InBucket
<1>6. \A b \in Bucket : b # h => B(h) \cap B(b) = {}
  BY DEF InBucket
<1> HIDE DEF A, B
<1>7. Listing(<<n>> \o lists[h], A(h), Node)
  BY <1>3, <1>4, <1>5, ListingPrepend
<1>8. <<n>> \o lists[h] \in Seq(Node)
  BY <1>7 DEF Listing
<1>9. w = [lists EXCEPT ![h] = <<n>> \o lists[h]]
  BY <1>2 DEF Added
<1>10. ChainsOK(d) /\ Linked(d, h, <<n>> \o lists[h])
  BY <1>2, <1>3, <1>4, AddLinked
<1>11. ASSUME NEW b \in Bucket, b # h
       PROVE  Linked(d, b, lists[b])
  <2>1. Listing(lists[h], B(h), Node) /\ Linked(c, Hash[a], lists[h])
    BY <1>2, <1>3
  <2>2. Listing(lists[b], B(b), Node) /\ Linked(c, b, lists[b])
    BY <1>3
  <2> QED  BY <1>2, <1>3, <1>4, <1>6, <1>11, <2>1, <2>2, AddElsewhere
<1> HIDE DEF w, d
<1>12. \A b \in Bucket : Listing(w[b], A(b), Node) /\ Linked(d, b, w[b])
  BY <1>3, <1>5, <1>7, <1>9, <1>10, <1>11
<1>13. w \in [Bucket -> Seq(Node)]
  BY <1>3, <1>8, <1>9
<1>14. g \in [Node -> Frag \cup {0}]
  BY <1>1, <1>3
<1>15. Sound(d, w, L \cup {n}, g)
  BY <1>3, <1>10, <1>12, <1>13, <1>14 DEF Sound, A
<1> QED  BY <1>1, <1>15 DEF d, w

-----------------------------------------------------------------------------
(* A list of distinct nodes is no longer than there are nodes.             *)
LEMMA ListFits ==
    ASSUME NEW s, NEW S, Listing(s, S, Node)
    PROVE  Len(s) \in Nat /\ Limit \in Nat /\ Len(s) <= Limit
<1>1. /\ Len(s) \in Nat /\ \A k \in 1..Len(s) : s[k] \in Node
      /\ \A j, k \in 1..Len(s) : s[j] = s[k] => j = k
  BY ListFacts
<1>2. IsFiniteSet(Node) /\ Limit \in Nat
  BY NodeAssumption, FS_CardinalityType DEF Limit
<1> DEFINE g == [k \in 1..Len(s) |-> s[k]]
<1>3. g \in Injection(1..Len(s), Node)
  BY <1>1 DEF Injection, IsInjective
<1>4. Cardinality(1..Len(s)) <= Cardinality(Node)
  BY <1>2, <1>3, FS_Injection
<1>5. Cardinality(1..Len(s)) = Len(s)
  <2>1. 1 \in Int /\ Len(s) \in Int
    BY <1>1
  <2>2. Cardinality(1..Len(s)) = IF 1 > Len(s) THEN 0 ELSE Len(s) - 1 + 1
    BY <2>1, FS_Interval, Zenon
  <2> QED  BY <1>1, <2>2
<1> QED  BY <1>1, <1>2, <1>4, <1>5 DEF Limit

(* One step of the walk of cache_node(): s is the walk so far.             *)
Walked(s, b) ==
    [k \in 0..Limit |->
        IF k = 0 THEN hashtable[b]
        ELSE IF s[k - 1] = NULL THEN NULL ELSE hash_down[s[k - 1]]]

(* The walk down a chain meets the nodes of its bucket and then NULL.      *)
LEMMA ChainIs ==
    ASSUME Inv, NEW b \in Bucket
    PROVE  Chain(b) = [k \in 0..Limit |-> At(order[b], k + 1)]
<1> DEFINE w == [k \in 0..Limit |-> At(order[b], k + 1)]
<1>1. Listing(order[b], InBucket(Listed, blk, b), Node)
      /\ Linked(Chains, b, order[b])
  BY DEF Inv, Sound
<1>2. PICK s : s = order[b]
  OBVIOUS
<1>3. /\ Len(s) \in Nat /\ Limit \in Nat
      /\ \A k \in 1..Len(s) : s[k] # NULL
  BY <1>1, <1>2, ListFits, ListFacts
<1>4. hashtable[b] = At(s, 1)
      /\ \A k \in 1..Len(s) : hash_down[s[k]] = At(s, k + 1)
  BY <1>1, <1>2 DEF Linked, Chains
<1>5. ASSUME NEW k \in 0..Limit
      PROVE  At(s, k + 1) = IF k = 0 THEN hashtable[b]
                            ELSE IF At(s, k) = NULL THEN NULL
                            ELSE hash_down[At(s, k)]
  BY <1>3, <1>4 DEF At
<1>6. w = Walked(w, b)
  <2>1. \A k \in 0..Limit : k # 0 => w[k - 1] = At(s, k)
    BY <1>2, <1>3
  <2>2. \A k \in 0..Limit : w[k] = At(s, k + 1)
    BY <1>2
  <2>3. \A k \in 0..Limit : w[k] = Walked(w, b)[k]
    BY <1>5, <2>1, <2>2 DEF Walked
  <2> QED  BY <2>3 DEF Walked
<1>7. Chain(b) = CHOOSE c : c = Walked(c, b)
  BY DEF Chain, Walked
<1> HIDE DEF w
<1>8. Chain(b) = Walked(Chain(b), b)
  BY <1>6, <1>7
<1>9. ASSUME NEW c, c = Walked(c, b)
      PROVE  c = w
  <2> DEFINE T == {k \in 0..Limit : c[k] # w[k]}
  <2>1. /\ DOMAIN c = 0..Limit /\ DOMAIN w = 0..Limit
        /\ c = [k \in 0..Limit |-> c[k]] /\ w = [k \in 0..Limit |-> w[k]]
    BY <1>6, <1>9 DEF Walked
  <2>2. T = {}
    <3>1. SUFFICES ASSUME T # {} PROVE FALSE
      OBVIOUS
    <3>2. PICK k \in T : \A j \in T : k <= j
      <4>1. T \subseteq Nat
        BY <1>3
      <4> HIDE DEF T
      <4> QED  BY <3>1, <4>1, LeastNatural
    <3>3. k = 0 \/ c[k - 1] = w[k - 1]
      BY <1>3, <3>2
    <3>4. c[k] = Walked(c, b)[k] /\ w[k] = Walked(w, b)[k]
      BY <1>6, <1>9
    <3>5. Walked(c, b)[k] = Walked(w, b)[k]
      BY <3>3 DEF Walked
    <3> QED  BY <3>2, <3>4, <3>5
  <2> QED  BY <2>1, <2>2
<1>10. Chain(b) = w
  BY <1>8, <1>9
<1> QED  BY <1>10 DEF w

(* A node that cache_node() finds is a node of the list.                   *)
LEMMA NodeFound ==
    ASSUME Inv, NEW f \in Frag, cache_node(f) # NULL
    PROVE  cache_node(f) \in Listed
<1>1. PICK b \in Bucket : b = Hash[f]
  BY HashAssumption
<1>2. Chain(b) = [k \in 0..Limit |-> At(order[b], k + 1)]
  BY ChainIs
<1>3. \A k \in 1..Len(order[b]) : order[b][k] \in Listed
  <2>1. Listing(order[b], InBucket(Listed, blk, b), Node)
    BY DEF Inv, Sound
  <2> QED  BY <2>1, ListFacts DEF InBucket
<1>4. Found(f) # {} /\ Found(f) \subseteq 0..Limit
  BY DEF cache_node, Found
<1>5. Limit \in Nat
  BY NodeAssumption, FS_CardinalityType DEF Limit
<1>6. PICK k \in Found(f) : cache_node(f) = Chain(b)[k]
  <2>1. Found(f) \subseteq Nat
    BY <1>4, <1>5
  <2>2. \E k \in Found(f) : \A j \in Found(f) : k <= j
    BY <1>4, <2>1, LeastNatural
  <2> QED  BY <1>1, <1>4, <2>2 DEF cache_node
<1>7. cache_node(f) = At(order[b], k + 1)
  BY <1>2, <1>4, <1>6
<1> QED  BY <1>3, <1>7 DEF At

-----------------------------------------------------------------------------
LEMMA InitInv == Init => Inv
<1> SUFFICES ASSUME Init PROVE Inv
  OBVIOUS
<1>1. Listed = {} /\ stack = <<>>
  BY DEF Init, Listed, Elems
<1>2. Listing(<<>>, {}, Node)
  BY DEF Listing, Elems, NoRepeats
<1>3. \A b \in Bucket : order[b] = <<>> /\ InBucket(Listed, blk, b) = {}
  BY <1>1 DEF Init, InBucket
<1>4. \A b \in Bucket : Linked(Chains, b, <<>>)
  BY DEF Init, Chains, Linked, At
<1>5. ChainsOK(Chains)
  BY DEF Init, Chains, ChainsOK, Pointer
<1>6. /\ order \in [Bucket -> Seq(Node)]
      /\ blk \in [Node -> Frag \cup {0}]
  BY DEF Init
<1>7. Sound(Chains, order, Listed, blk)
  BY <1>1, <1>2, <1>3, <1>4, <1>5, <1>6 DEF Sound
<1> QED  BY <1>1, <1>2, <1>7 DEF Inv

LEMMA ChainsSet ==
    ASSUME NEW c, ChainsOK(c), SetChains(c)
    PROVE  Chains' = c
  BY DEF ChainsOK, SetChains, Chains

LEMMA RefreshInv ==
    ASSUME Inv, NEW n \in Node, Refresh(n)
    PROVE  Inv'
<1>1. Listing(stack, Listed, Node) /\ Sound(Chains, order, Listed, blk)
  BY DEF Inv
<1>2. PICK L : L = Listed
  OBVIOUS
<1>3. Listing(Without(stack, n), L \ {n}, Node)
  BY <1>1, <1>2, ListingWithout DEF Refresh
<1>4. Listing(stack', L, Node)
  <2>1. Listing(Append(Without(stack, n), n), (L \ {n}) \cup {n}, Node)
    BY <1>3, ListingAppend
  <2>2. (L \ {n}) \cup {n} = L
    BY <1>2 DEF Refresh
  <2> QED  BY <2>1, <2>2 DEF Refresh
<1>5. Listed' = L
  BY <1>4 DEF Listing, Listed
<1>6. Chains' = Chains /\ order' = order /\ blk' = blk
  BY DEF Refresh, Chains
<1>7. Sound(Chains', order', Listed', blk')
  BY <1>1, <1>2, <1>5, <1>6
<1> QED  BY <1>4, <1>5, <1>7 DEF Inv

LEMMA GrowInv ==
    ASSUME Inv, NEW n \in Node, Grow(n)
    PROVE  Inv'
<1>1. Listing(stack, Listed, Node) /\ Sound(Chains, order, Listed, blk)
  BY DEF Inv
<1>2. PICK L : L = Listed
  OBVIOUS
<1>3. n \in Node \ L
  BY <1>2 DEF Grow
<1>4. Listing(stack', L \cup {n}, Node)
  BY <1>1, <1>2, <1>3, ListingAppend DEF Grow
<1>5. Listed' = L \cup {n}
  BY <1>4 DEF Listing, Listed
<1>6. Sound(cache_add(Chains, n, 0), Added(order, n, 0), L \cup {n},
            [blk EXCEPT ![n] = 0])
  BY <1>1, <1>2, <1>3, SoundAdd
<1>7. Chains' = cache_add(Chains, n, 0)
  BY <1>6, ChainsSet DEF Grow, Sound
<1>8. Sound(Chains', order', Listed', blk')
  BY <1>5, <1>6, <1>7 DEF Grow
<1> QED  BY <1>4, <1>5, <1>8 DEF Inv

LEMMA LoseInv ==
    ASSUME Inv, Lose
    PROVE  Inv'
<1>1. Listing(stack, Listed, Node) /\ Sound(Chains, order, Listed, blk)
  BY DEF Inv
<1>2. PICK L : L = Listed
  OBVIOUS
<1>3. PICK n : n = Head(stack)
  OBVIOUS
<1>4. /\ stack # <<>> /\ SetChains(cache_remove(Chains, n, blk[n]))
      /\ stack' = Tail(stack) /\ order' = Removed(order, n, blk[n])
      /\ blk' = blk
  BY <1>3 DEF Lose
<1>5. n \in L /\ Listing(stack', L \ {n}, Node)
  BY <1>1, <1>2, <1>3, <1>4, ListingTail
<1>6. Listed' = L \ {n}
  BY <1>5 DEF Listing, Listed
<1>7. Sound(cache_remove(Chains, n, blk[n]), Removed(order, n, blk[n]),
            L \ {n}, blk)
  BY <1>1, <1>2, <1>5, SoundRemove
<1>8. Chains' = cache_remove(Chains, n, blk[n])
  BY <1>4, <1>7, ChainsSet DEF Sound
<1>9. Sound(Chains', order', Listed', blk')
  BY <1>4, <1>6, <1>7, <1>8
<1> QED  BY <1>5, <1>6, <1>9 DEF Inv

LEMMA RelinkInv ==
    ASSUME Inv, NEW n \in Listed, NEW a \in Frag \cup {0}, Relink(n, a)
    PROVE  Inv'
<1>1. Listing(stack, Listed, Node) /\ Sound(Chains, order, Listed, blk)
  BY DEF Inv
<1>2. PICK L : L = Listed
  OBVIOUS
<1>3. PICK m : m = n /\ m \in L /\ m \in Node
  BY <1>1, <1>2, ListFacts
<1>4. /\ SetChains(cache_add(cache_remove(Chains, m, blk[m]), m, a))
      /\ blk' = [blk EXCEPT ![m] = a]
      /\ stack' = Append(Without(stack, m), m)
      /\ order' = Added(Removed(order, m, blk[m]), m, a)
  BY <1>3 DEF Relink
<1>5. Listing(stack', L, Node)
  <2>1. Listing(Without(stack, m), L \ {m}, Node)
    BY <1>1, <1>2, <1>3, ListingWithout
  <2>2. Listing(Append(Without(stack, m), m), (L \ {m}) \cup {m}, Node)
    BY <1>3, <2>1, ListingAppend
  <2>3. (L \ {m}) \cup {m} = L
    BY <1>3
  <2> QED  BY <1>4, <2>2, <2>3
<1>6. Listed' = L
  BY <1>5 DEF Listing, Listed
<1>7. Sound(cache_remove(Chains, m, blk[m]), Removed(order, m, blk[m]),
            L \ {m}, blk)
  BY <1>1, <1>2, <1>3, SoundRemove
<1>8. Sound(cache_add(cache_remove(Chains, m, blk[m]), m, a),
            Added(Removed(order, m, blk[m]), m, a), (L \ {m}) \cup {m},
            [blk EXCEPT ![m] = a])
  BY <1>3, <1>7, SoundAdd
<1>9. (L \ {m}) \cup {m} = L
  BY <1>3
<1>10. Chains' = cache_add(cache_remove(Chains, m, blk[m]), m, a)
  BY <1>4, <1>8, ChainsSet DEF Sound
<1>11. Sound(Chains', order', Listed', blk')
  BY <1>4, <1>6, <1>8, <1>9, <1>10
<1> QED  BY <1>5, <1>6, <1>11 DEF Inv

LEMMA NextInv == Inv /\ [Next]_vars => Inv'
<1> SUFFICES ASSUME Inv, [Next]_vars PROVE Inv'
  OBVIOUS
<1>1. ASSUME NEW n \in Node, Refresh(n) \/ Grow(n) PROVE Inv'
  BY <1>1, RefreshInv, GrowInv
<1>2. CASE Lose
  BY <1>2, LoseInv
<1>3. ASSUME NEW f \in Frag, Miss(f) PROVE Inv'
  <2>1. PICK to \in Frag : Relink(Head(stack), to)
    BY <1>3 DEF Miss
  <2>2. Head(stack) \in Listed
    BY <1>3, ListingTail DEF Inv, Miss
  <2> QED  BY <2>1, <2>2, RelinkInv
<1>4. ASSUME NEW f \in Frag, cache_invalidate(f) PROVE Inv'
  BY <1>4, NodeFound, RelinkInv DEF cache_invalidate
<1>5. ASSUME NEW to \in Frag, NEW from \in Frag, cache_frag_move(to, from)
      PROVE  Inv'
  BY <1>5, NodeFound, RelinkInv DEF cache_frag_move
<1>6. CASE UNCHANGED vars
  <2>1. /\ Chains' = Chains /\ order' = order /\ Listed' = Listed
        /\ blk' = blk /\ stack' = stack
    BY <1>6 DEF vars, Chains, Listed
  <2>2. Sound(Chains', order', Listed', blk') /\ Listing(stack', Listed', Node)
    BY <2>1 DEF Inv
  <2> QED  BY <2>2 DEF Inv
<1> QED  BY <1>1, <1>2, <1>3, <1>4, <1>5, <1>6 DEF Next

(* The chains, the list and the history agree in every reachable state of  *)
(* cache.c's hash table.                                                   *)
THEOREM Invariance == Spec => []Inv
  BY InitInv, NextInv, PTL DEF Spec

LEMMA InvChains == Inv => ChainIsBucket
<1> SUFFICES ASSUME Inv, NEW b \in Bucket
             PROVE  /\ Elems(order[b]) = {n \in Listed : Hash[blk[n]] = b}
                    /\ \A k \in 0..Limit :
                          Chain(b)[k] = IF k < Len(order[b])
                                        THEN order[b][k + 1] ELSE NULL
                    /\ Chain(b)[Limit] = NULL
                    /\ \A k \in 1..Len(order[b]) :
                          hash_up[order[b][k]] = IF k = 1 THEN NULL
                                                 ELSE order[b][k - 1]
  BY Zenon DEF ChainIsBucket
<1>1. PICK s : s = order[b]
  OBVIOUS
<1>2. Listing(s, InBucket(Listed, blk, b), Node) /\ Linked(Chains, b, s)
  BY <1>1 DEF Inv, Sound
<1>3. Len(s) \in Nat /\ Limit \in Nat /\ Len(s) <= Limit
  BY <1>2, ListFits
<1>4. Elems(s) = {n \in Listed : Hash[blk[n]] = b}
  BY <1>2 DEF Listing, InBucket
<1>5. Chain(b) = [k \in 0..Limit |-> At(s, k + 1)]
  BY <1>1, ChainIs
<1>6. \A k \in 0..Limit :
         Chain(b)[k] = IF k < Len(s) THEN s[k + 1] ELSE NULL
  BY <1>3, <1>5 DEF At
<1>7. Chain(b)[Limit] = NULL
  BY <1>3, <1>6
<1>8. \A k \in 1..Len(s) : hash_up[s[k]] = IF k = 1 THEN NULL ELSE s[k - 1]
  BY <1>2, <1>3 DEF Linked, Chains, At
<1> QED  BY <1>1, <1>4, <1>6, <1>7, <1>8

(* The chain of a bucket, walked by cache_node() along hash_down, is       *)
(* exactly the nodes that hash to it, last added first, and hash_up is the *)
(* way back: for any number of nodes and buckets, any hash function, and   *)
(* any sequence of misses, moves, invalidations and resizes.               *)
THEOREM ChainsAlwaysBuckets == Spec => []ChainIsBucket
  BY Invariance, InvChains, PTL
=============================================================================
