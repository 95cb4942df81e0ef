--------------------------- MODULE FragCacheProofs ---------------------------
(***************************************************************************)
(* Proofs about FragCache, for any number of frags and buffers.            *)
(***************************************************************************)
EXTENDS FragCache, ListProofs, FiniteSetTheorems

-----------------------------------------------------------------------------
(* cache_adjust() is called by packets and when the volume is opened, and  *)
(* leaves a cache with buffers, or a handler that takes no more packets.   *)
Backed ==
    /\ pc = "adjust" => receiving_packets
    /\ cache_size >= CacheSizeMin
    /\ pc = "idle" => cache_alloced # 0 \/ ~receiving_packets

(* The inductive invariant.  TypeOK alone is not inductive: which node     *)
(* cache_node() finds needs ListsAgree, and the consistency checks of      *)
(* cache_flush() need DirtyCounted.                                        *)
Inv ==
    /\ TypeOK
    /\ ListsAgree
    /\ DirtyCounted
    /\ BuffersAccounted
    /\ StopsOnlyWithoutMemory
    /\ NullOnlyAfterFaults
    /\ Backed

(* The shape of the two lists, and their sizes.                            *)
LEMMA Listed ==
    ASSUME Inv
    PROVE  /\ Listing(stack, InStack, Node) /\ Listing(hash, InStack, Node)
           /\ InStack \subseteq Node
           /\ Len(stack) \in Nat
           /\ stack = <<>> <=> InStack = {}
<1>1. Listing(stack, InStack, Node) /\ Listing(hash, InStack, Node)
  BY DEF Inv, TypeOK, ListsAgree, Listing, InStack
<1>2. stack \in Seq(Node)
  BY DEF Inv, TypeOK
<1>3. InStack \subseteq Node /\ Len(stack) \in Nat
  BY <1>2 DEF InStack, Elems
<1>4. stack = <<>> => InStack = {}
  BY DEF InStack, Elems
<1>5. stack # <<>> => InStack # {}
  BY <1>2 DEF InStack, Elems
<1> QED  BY <1>1, <1>3, <1>4, <1>5

(* cache_node() finds a buffer of a cached frag: the first in the chain.   *)
LEMMA NodeFound ==
    ASSUME Inv, NEW f \in Frag, Cached(f)
    PROVE  cache_node(f) \in InStack /\ blk[cache_node(f)] = f
<1> DEFINE T == {i \in 1..Len(hash) : blk[hash[i]] = f}
<1>1. PICK n \in InStack : blk[n] = f
  BY DEF Cached
<1>2. PICK k \in 1..Len(hash) : hash[k] = n
  BY <1>1 DEF Inv, ListsAgree, Elems
<1>3. \A j \in 1..Len(hash) : hash[j] \in InStack
  BY DEF Inv, ListsAgree, Elems
<1>4. Len(hash) \in Nat
  BY DEF Inv, TypeOK
<1>5. T # {} /\ T \subseteq Nat
  BY <1>1, <1>2
<1>6. PICK i \in T : \A j \in T : i <= j
  <2> HIDE DEF T
  <2> QED  BY <1>5, LeastNatural
<1>7. \A j \in 1..(i - 1) : blk[hash[j]] # f
  <2> SUFFICES ASSUME NEW j \in 1..(i - 1), blk[hash[j]] = f PROVE FALSE
    OBVIOUS
  <2>1. j \in T /\ ~(i <= j)
    BY <1>4, <1>6
  <2> QED  BY <1>6, <2>1
<1>8. \E h \in 1..Len(hash) : /\ blk[hash[h]] = f
                             /\ \A j \in 1..(h - 1) : blk[hash[j]] # f
  BY <1>6, <1>7
<1>9. PICK h \in 1..Len(hash) : cache_node(f) = hash[h] /\ blk[hash[h]] = f
  BY <1>8 DEF cache_node
<1> QED  BY <1>3, <1>9

(* What was linked last is found first.                                    *)
Heads ==
    \A f \in Frag, n \in InStack :
        hash # <<>> /\ hash[1] = n /\ blk[n] = f => Cached(f) /\ cache_node(f) = n

LEMMA HeadsFound == Inv => Heads
<1> SUFFICES ASSUME Inv, NEW f \in Frag, NEW n \in InStack,
                    hash # <<>>, hash[1] = n, blk[n] = f
             PROVE  Cached(f) /\ cache_node(f) = n
  BY DEF Heads
<1>1. Cached(f)
  BY DEF Cached
<1>2. Len(hash) \in Nat /\ 1 \in 1..Len(hash)
  BY DEF Inv, TypeOK
<1> DEFINE First(i) == /\ blk[hash[i]] = f
                       /\ \A j \in 1..(i - 1) : blk[hash[j]] # f
<1>3. First(1)
  OBVIOUS
<1>4. \A i \in 1..Len(hash) : First(i) => i = 1
  <2> SUFFICES ASSUME NEW i \in 1..Len(hash), First(i), i # 1 PROVE FALSE
    OBVIOUS
  <2>1. 1 \in 1..(i - 1)
    BY <1>2
  <2> QED  BY <2>1
<1>5. (CHOOSE i \in 1..Len(hash) : First(i)) = 1
  <2> HIDE DEF First
  <2> QED  BY <1>2, <1>3, <1>4
<1> QED  BY <1>1, <1>5 DEF cache_node

LEMMA HeadsAfter == Inv' => Heads'
  BY HeadsFound, PTL

(* A frag that is not doubled has one buffer.                              *)
LEMMA OneNode ==
    ASSUME NEW f \in Frag \ Doubled, NEW m \in InStack, NEW n \in InStack,
           blk[m] = f, blk[n] = f
    PROVE  m = n
  BY DEF Doubled

(* Whatever is cycled, a clean node comes to the head if there is one.     *)
LEMMA CleanFirstListed ==
    ASSUME Inv, stack # <<>>
    PROVE  /\ Listing(CleanFirst, InStack, Node)
           /\ Len(CleanFirst) = Len(stack)
           /\ CleanFirst # <<>>
           /\ ~AllDirty => Head(CleanFirst) \notin dirty
<1>1. CASE AllDirty
  BY <1>1, Listed DEF CleanFirst
<1>2. CASE ~AllDirty
  <2> DEFINE T == {i \in 1..Len(stack) : stack[i] \notin dirty}
  <2>1. T # {} /\ T \subseteq Nat
    BY <1>2 DEF AllDirty, InStack, Elems
  <2>2. PICK i \in T : \A j \in T : i <= j
    BY <2>1, LeastNatural
  <2>3. Len(stack) \in Nat
    BY Listed
  <2>4. i \in 1..Len(stack) /\ stack[i] \notin dirty
        /\ \A j \in 1..(i - 1) : stack[j] \in dirty
    BY <2>2, <2>3
  <2>5. FirstClean \in 1..Len(stack) /\ stack[FirstClean] \notin dirty
    BY <2>4 DEF FirstClean
  <2>6. FirstClean - 1 \in 0..(Len(stack) - 1) /\ (FirstClean - 1) + 1 = FirstClean
    BY <2>3, <2>5
  <2>7. CleanFirst = Rotated(stack, FirstClean - 1)
    BY <1>2 DEF CleanFirst
  <2>8. /\ Listing(CleanFirst, InStack, Node) /\ Len(CleanFirst) = Len(stack)
        /\ CleanFirst[1] = stack[FirstClean] /\ CleanFirst # <<>>
    BY <2>6, <2>7, Listed, ListingRotated
  <2>9. Head(CleanFirst) = CleanFirst[1]
    BY <2>8, ListingTail
  <2> QED  BY <2>5, <2>8, <2>9
<1> QED  BY <1>1, <1>2

LEMMA CycledListed ==
    ASSUME Inv, stack # <<>>
    PROVE  /\ Listing(Cycled, InStack, Node)
           /\ Len(Cycled) = Len(stack)
           /\ Cycled # <<>>
           /\ Head(Cycled) \in InStack
           /\ ~Crowded => Head(Cycled) \notin dirty
<1>1. Listing(Cycled, InStack, Node) /\ Len(Cycled) = Len(stack) /\ Cycled # <<>>
  BY CleanFirstListed, Listed DEF Cycled
<1>2. Head(Cycled) \in InStack
  BY <1>1, ListingTail
<1>3. ASSUME ~Crowded PROVE Head(Cycled) \notin dirty
  <2>1. CASE ~AllDirty
    BY <1>3, <2>1, CleanFirstListed DEF Cycled
  <2>2. CASE AllDirty
    <3>1. Head(stack) \notin dirty
      BY <1>3, <2>2 DEF Crowded
    <3>2. Head(stack) \in InStack
      BY Listed, ListingTail
    <3> QED  BY <2>2, <3>1, <3>2 DEF AllDirty
  <2> QED  BY <2>1, <2>2
<1> QED  BY <1>1, <1>2, <1>3

LEMMA RefreshedListed ==
    ASSUME Inv, NEW n \in InStack
    PROVE  /\ Listing(cache_refresh(n), InStack, Node)
           /\ Len(cache_refresh(n)) = Len(stack)
           /\ Listing(<<n>> \o Without(hash, n), InStack, Node)
<1>1. n \in Node /\ n \notin InStack \ {n} /\ (InStack \ {n}) \cup {n} = InStack
  BY Listed
<1>2. Listing(Without(stack, n), InStack \ {n}, Node) /\ Len(Without(stack, n)) = Len(stack) - 1
  BY Listed, ListingWithout
<1>3. Listing(Without(hash, n), InStack \ {n}, Node)
  BY Listed, ListingWithout
<1>4. /\ Listing(cache_refresh(n), (InStack \ {n}) \cup {n}, Node)
      /\ Len(cache_refresh(n)) = Len(stack) - 1 + 1
  BY <1>1, <1>2, ListingAppend DEF cache_refresh
<1>5. Listing(<<n>> \o Without(hash, n), (InStack \ {n}) \cup {n}, Node)
  BY <1>1, <1>3, ListingPrepend
<1>6. Len(stack) - 1 + 1 = Len(stack)
  BY Listed
<1> QED  BY <1>1, <1>4, <1>5, <1>6

LEMMA TakenListed ==
    ASSUME Inv, stack # <<>>
    PROVE  LET n == Head(Cycled)
           IN  /\ Listing(Tail(Cycled), InStack \ {n}, Node)
               /\ Len(Tail(Cycled)) = Len(stack) - 1
               /\ Listing(Append(Tail(Cycled), n), InStack, Node)
               /\ Len(Append(Tail(Cycled), n)) = Len(stack)
               /\ Listing(Without(hash, n), InStack \ {n}, Node)
<1> DEFINE n == Head(Cycled)
<1>1. n \in InStack
  BY CycledListed
<1>2. n \in Node /\ n \notin InStack \ {n} /\ (InStack \ {n}) \cup {n} = InStack
  BY <1>1, Listed
<1>3. Listing(Tail(Cycled), InStack \ {n}, Node) /\ Len(Tail(Cycled)) = Len(stack) - 1
  BY CycledListed, ListingTail
<1>4. /\ Listing(Append(Tail(Cycled), n), (InStack \ {n}) \cup {n}, Node)
      /\ Len(Append(Tail(Cycled), n)) = Len(stack) - 1 + 1
  <2> HIDE DEF n
  <2> QED  BY <1>2, <1>3, ListingAppend
<1>5. Listing(Without(hash, n), InStack \ {n}, Node)
  BY <1>1, Listed, ListingWithout
<1>6. Len(stack) - 1 + 1 = Len(stack)
  BY Listed
<1> QED  BY <1>2, <1>3, <1>4, <1>5, <1>6

(* What cache_flush() may rely on.                                         *)
LEMMA DirtyFacts ==
    ASSUME Inv
    PROVE  /\ IsFiniteSet(dirty) /\ IsFiniteSet(leaked)
           /\ cache_item_dirty \in Nat
           /\ cache_item_dirty = 0 => dirty = {}
           /\ DirtyListed = dirty
           /\ FlushSane
           /\ \A n \in dirty : blk[n] \in Frag
<1>1. IsFiniteSet(dirty) /\ IsFiniteSet(leaked)
  BY NodeAssumption, FS_Subset DEF Inv, TypeOK
<1>2. cache_item_dirty \in Nat /\ (cache_item_dirty = 0 => dirty = {})
  BY <1>1, FS_EmptySet, FS_CardinalityType DEF Inv, DirtyCounted
<1>3. DirtyListed = dirty
  BY DEF Inv, DirtyCounted, DirtyListed
<1>4. FlushSane
  BY <1>3 DEF Inv, DirtyCounted, FlushSane
<1>5. \A n \in dirty : blk[n] \in Frag
  BY DEF Inv, TypeOK, DirtyCounted
<1> QED  BY <1>1, <1>2, <1>3, <1>4, <1>5

LEMMA FlushedDiskType ==
    ASSUME Inv, NEW ok
    PROVE  FlushedDisk(ok) \in [Frag -> Data]
<1> DEFINE last(f) == {i \in 1..Len(stack) : /\ stack[i] \in ok
                                             /\ blk[stack[i]] = f}
<1>1. ASSUME NEW f \in Frag, last(f) # {}
      PROVE  buf[stack[CHOOSE i \in last(f) : \A j \in last(f) : i <= j]] \in Data
  <2>1. last(f) \subseteq Nat
    OBVIOUS
  <2>2. PICK i \in last(f) : \A j \in last(f) : i <= j
    BY <1>1, <2>1, LeastNatural
  <2>3. (CHOOSE h \in last(f) : \A j \in last(f) : h <= j) \in last(f)
    BY <2>2
  <2>4. \A h \in last(f) : buf[stack[h]] \in Data
    BY DEF Inv, TypeOK
  <2> QED  BY <2>3, <2>4
<1>2. \A f \in Frag : disk[f] \in Data
  BY DEF Inv, TypeOK
<1> QED  BY <1>1, <1>2 DEF FlushedDisk

LEMMA FlushStep ==
    ASSUME Inv, NEW ok, cache_flush(ok)
    PROVE  /\ dirty' = {} /\ cache_item_dirty' = 0
           /\ disk' \in [Frag -> Data]
           /\ receiving_packets' = receiving_packets
           /\ failed' \subseteq Frag
<1>1. CASE cache_item_dirty = 0
  BY <1>1, DirtyFacts DEF cache_flush, Inv, TypeOK
<1>2. CASE cache_item_dirty # 0
  <2>1. receiving_packets \in BOOLEAN
    BY DEF Inv, TypeOK
  <2>2. /\ disk' = FlushedDisk(ok)
        /\ failed' = {blk[n] : n \in DirtyListed \ ok}
        /\ dirty' = dirty \ DirtyListed
        /\ cache_item_dirty' = 0
        /\ receiving_packets' = (receiving_packets /\ FlushSane)
    BY <1>2 DEF cache_flush
  <2>3. receiving_packets' = receiving_packets
    BY <2>1, <2>2, DirtyFacts, Zenon
  <2> QED  BY <2>2, <2>3, DirtyFacts, FlushedDiskType
<1> QED  BY <1>1, <1>2

LEMMA CycleStep ==
    ASSUME Inv, stack # <<>>, NEW ok, cache_cycle_dirty(ok)
    PROVE  /\ dirty' \subseteq dirty /\ Head(Cycled) \notin dirty'
           /\ cache_item_dirty' = Cardinality(dirty')
           /\ disk' \in [Frag -> Data]
           /\ receiving_packets' = receiving_packets
           /\ failed' \subseteq Frag
<1>1. CASE Crowded
  BY <1>1, FlushStep, FS_EmptySet DEF cache_cycle_dirty
<1>2. CASE ~Crowded
  BY <1>2, CycledListed DEF cache_cycle_dirty, Inv, TypeOK, DirtyCounted
<1> QED  BY <1>1, <1>2

LEMMA MarkTakenStep ==
    ASSUME Inv, stack # <<>>, NEW ok, MarkTakenDirty(Head(Cycled), ok)
    PROVE  /\ dirty' \subseteq dirty \cup {Head(Cycled)}
           /\ cache_item_dirty' = Cardinality(dirty')
           /\ disk' \in [Frag -> Data]
           /\ receiving_packets' = receiving_packets
           /\ failed' \subseteq Frag
<1>1. receiving_packets \in BOOLEAN
  BY DEF Inv, TypeOK
<1>2. CASE Crowded
  <2>1. /\ disk' = FlushedDisk(ok)
        /\ failed' = {blk[m] : m \in DirtyListed \ ok}
        /\ dirty' = (dirty \ DirtyListed) \cup {Head(Cycled)}
        /\ cache_item_dirty' = 1
        /\ receiving_packets' = (receiving_packets /\ FlushSane)
    BY <1>2 DEF MarkTakenDirty
  <2>2. receiving_packets' = receiving_packets
    BY <1>1, <2>1, DirtyFacts, Zenon
  <2>3. dirty' = {Head(Cycled)}
    BY <2>1, DirtyFacts
  <2>4. Cardinality(dirty') = 1
    BY <2>3, FS_Singleton
  <2> QED  BY <2>1, <2>2, <2>3, <2>4, DirtyFacts, FlushedDiskType
<1>3. CASE ~Crowded
  <2>1. /\ dirty' = dirty \cup {Head(Cycled)}
        /\ cache_item_dirty' = cache_item_dirty + 1
        /\ disk' = disk /\ receiving_packets' = receiving_packets
        /\ failed' = {}
    BY <1>3 DEF MarkTakenDirty
  <2>2. Cardinality(dirty') = cache_item_dirty + 1
    BY <1>3, <2>1, CycledListed, DirtyFacts, FS_AddElement DEF Inv, DirtyCounted
  <2> QED  BY <2>1, <2>2 DEF Inv, TypeOK
<1> QED  BY <1>2, <1>3

LEMMA MarkStep ==
    ASSUME Inv, NEW n \in InStack, MarkDirty(n)
    PROVE  dirty' = dirty \cup {n} /\ cache_item_dirty' = Cardinality(dirty')
<1>1. Cardinality(dirty \cup {n}) =
      IF n \in dirty THEN Cardinality(dirty) ELSE Cardinality(dirty) + 1
  BY DirtyFacts, FS_AddElement
<1> QED  BY <1>1, DirtyFacts DEF MarkDirty, Inv, DirtyCounted

-----------------------------------------------------------------------------
(* One lemma per action: Inv is preserved.                                 *)

(* cache_frag() that finds the frag.                                       *)
LEMMA HitInv ==
    ASSUME Inv, NEW f \in Frag, Hit(f)
    PROVE  Inv'
<1> DEFINE n == cache_node(f)
<1>1. n \in InStack
  BY NodeFound DEF Hit
<1>2. stack' = cache_refresh(n) /\ hash' = hash
  BY DEF Hit
<1>3. Listing(stack', InStack, Node) /\ Len(stack') = Len(stack) /\ Listing(hash', InStack, Node)
  BY <1>1, <1>2, RefreshedListed, Listed
<1>4. InStack' = InStack /\ stack' \in Seq(Node)
  BY <1>3 DEF Listing, InStack
<1>5. ListsAgree'
  BY <1>3, <1>4 DEF Hit, Inv, ListsAgree, Listing
<1>6. TypeOK'
  BY <1>4 DEF Hit, Inv, TypeOK
<1> QED
  BY <1>3, <1>4, <1>5, <1>6
  DEF Hit, Inv, DirtyCounted, BuffersAccounted,
      StopsOnlyWithoutMemory, NullOnlyAfterFaults, Backed

(* A miss: the node taken is added again under the address f, clean after  *)
(* a read, dirty after a write or a move.                                  *)
LEMMA TakenInv ==
    ASSUME Inv, stack # <<>>, NEW f \in Frag, pc = "idle",
           AddTaken(Head(Cycled), f),
           buf' \in [Node -> Data],
           dirty' \subseteq dirty \cup {Head(Cycled)},
           cache_item_dirty' = Cardinality(dirty'),
           disk' \in [Frag -> Data],
           failed' \subseteq Frag,
           UNCHANGED <<leaked, cache_alloced, cache_size, fs_ronly,
                       receiving_packets, pc>>
    PROVE  Inv'
<1> DEFINE n == Head(Cycled)
<1>1. n \in InStack /\ n \in Node
  BY CycledListed, Listed
<1>2. /\ stack' = Append(Tail(Cycled), n)
      /\ hash' = <<n>> \o Without(hash, n)
      /\ blk' = [blk EXCEPT ![n] = f]
  BY DEF AddTaken
<1>3. /\ Listing(stack', InStack, Node) /\ Len(stack') = Len(stack)
      /\ Listing(hash', InStack, Node)
  BY <1>1, <1>2, TakenListed, RefreshedListed
<1> HIDE DEF n
<1>4. InStack' = InStack /\ stack' \in Seq(Node) /\ hash' \in Seq(Node)
  BY <1>3 DEF Listing, InStack
<1>5. f # 0
  BY FragAssumption
<1>6. blk \in [Node -> Frag \cup {0}] /\ blk' \in [Node -> Frag \cup {0}]
  BY <1>1, <1>2 DEF Inv, TypeOK
<1>7. \A m \in Node : blk'[m] = IF m = n THEN f ELSE blk[m]
  BY <1>2, <1>6
<1>8. TypeOK'
  <2>1. dirty' \subseteq Node
    BY <1>1 DEF Inv, TypeOK, n
  <2>2. cache_item_dirty' \in Int
    BY <2>1, NodeAssumption, FS_Subset, FS_CardinalityType
  <2> QED  BY <1>4, <1>6, <2>1, <2>2 DEF Inv, TypeOK
<1>9. ListsAgree'
  BY <1>1, <1>3, <1>4, <1>7 DEF Inv, ListsAgree, Listing
<1>11. DirtyCounted'
  <2>1. dirty' \subseteq InStack
    BY <1>1 DEF Inv, DirtyCounted, n
  <2>2. \A m \in dirty' : blk'[m] # 0
    BY <1>5, <1>7, <2>1, Listed DEF Inv, DirtyCounted, n
  <2> QED  BY <1>4, <2>1, <2>2 DEF DirtyCounted
<1> QED
  BY <1>3, <1>8, <1>9, <1>11
  DEF Inv, BuffersAccounted, StopsOnlyWithoutMemory, NullOnlyAfterFaults,
      Backed

LEMMA MissReadInv ==
    ASSUME Inv, NEW f \in Frag, NEW ok, MissRead(f, ok)
    PROVE  Inv'
<1>1. Head(Cycled) \in Node
  BY CycledListed, Listed DEF MissRead
<1>2. buf' \in [Node -> Data]
  BY <1>1 DEF MissRead, Inv, TypeOK
<1> QED  BY <1>2, CycleStep, TakenInv DEF MissRead

LEMMA MissWriteInv ==
    ASSUME Inv, NEW f \in Frag, NEW d \in Data, NEW ok, MissWrite(f, d, ok)
    PROVE  Inv'
<1>1. Head(Cycled) \in Node
  BY CycledListed, Listed DEF MissWrite
<1>2. buf' \in [Node -> Data]
  BY <1>1 DEF MissWrite, Inv, TypeOK
<1> QED  BY <1>2, MarkTakenStep, TakenInv DEF MissWrite

LEMMA MoveMissInv ==
    ASSUME Inv, NEW to \in Frag, NEW from \in Frag,
           NEW d \in Data, NEW ok, MoveMiss(to, from, d, ok)
    PROVE  Inv'
<1>1. Head(Cycled) \in Node
  BY CycledListed, Listed DEF MoveMiss
<1>2. buf' \in [Node -> Data]
  BY <1>1 DEF MoveMiss, Inv, TypeOK
<1> QED  BY <1>2, MarkTakenStep, TakenInv DEF MoveMiss

(* A miss whose read fails: the node is lost.                              *)
LEMMA MissFaultInv ==
    ASSUME Inv, NEW f \in Frag, NEW ok, MissFault(f, ok)
    PROVE  Inv'
<1> DEFINE n == Head(Cycled)
<1>0. stack # <<>> /\ pc = "idle"
  BY DEF MissFault
<1>1. n \in InStack /\ n \in Node /\ n \notin leaked
  BY <1>0, CycledListed, Listed DEF Inv, ListsAgree
<1>2. /\ stack' = Tail(Cycled) /\ hash' = Without(hash, n)
      /\ blk' = [blk EXCEPT ![n] = 0]
      /\ buf' = [buf EXCEPT ![n] = Uninit]
      /\ leaked' = leaked \cup {n}
      /\ UNCHANGED <<cache_alloced, cache_size, fs_ronly, pc>>
  BY DEF MissFault
<1>3. /\ Listing(stack', InStack \ {n}, Node) /\ Len(stack') = Len(stack) - 1
      /\ Listing(hash', InStack \ {n}, Node)
  BY <1>0, <1>2, TakenListed
<1>4. /\ dirty' \subseteq dirty /\ n \notin dirty'
      /\ cache_item_dirty' = Cardinality(dirty')
      /\ disk' \in [Frag -> Data] /\ receiving_packets' = receiving_packets
      /\ failed' \subseteq Frag
  BY <1>0, CycleStep DEF MissFault
<1> HIDE DEF n
<1>5. InStack' = InStack \ {n} /\ stack' \in Seq(Node) /\ hash' \in Seq(Node)
  BY <1>3 DEF Listing, InStack
<1>6. blk' \in [Node -> Frag \cup {0}] /\ buf' \in [Node -> Data]
  BY <1>1, <1>2, DataAssumption DEF Inv, TypeOK
<1>7. \A m \in Node : blk'[m] = IF m = n THEN 0 ELSE blk[m]
  BY <1>2 DEF Inv, TypeOK
<1>8. TypeOK'
  <2>1. dirty' \subseteq Node /\ leaked' \subseteq Node
    BY <1>1, <1>2, <1>4 DEF Inv, TypeOK
  <2>2. cache_item_dirty' \in Int
    BY <1>4, <2>1, NodeAssumption, FS_Subset, FS_CardinalityType
  <2> QED  BY <1>2, <1>4, <1>5, <1>6, <2>1, <2>2 DEF Inv, TypeOK
<1>9. ListsAgree'
  BY <1>1, <1>2, <1>3, <1>5, <1>7 DEF Inv, ListsAgree, Listing
<1>11. DirtyCounted'
  BY <1>4, <1>5, <1>7, Listed DEF Inv, DirtyCounted
<1>12. BuffersAccounted'
  <2>1. Cardinality(leaked') = Cardinality(leaked) + 1
    BY <1>1, <1>2, DirtyFacts, FS_AddElement
  <2>2. Cardinality(leaked) \in Nat
    BY DirtyFacts, FS_CardinalityType
  <2>3. cache_alloced' = Len(stack) + Cardinality(leaked)
    BY <1>2 DEF Inv, BuffersAccounted
  <2>4. cache_alloced' = Len(stack') + Cardinality(leaked')
    BY <1>3, <2>1, <2>2, <2>3, Listed
  <2> QED  BY <2>4 DEF BuffersAccounted
<1> QED
  BY <1>0, <1>2, <1>4, <1>8, <1>9, <1>11, <1>12
  DEF Inv, StopsOnlyWithoutMemory, NullOnlyAfterFaults, Backed

(* A node that stays in the cache and takes a new address, or none.        *)
LEMMA RelinkInv ==
    ASSUME Inv, pc = "idle", NEW n \in InStack, NEW a \in Frag \cup {0},
           stack' = cache_refresh(n),
           hash' = <<n>> \o Without(hash, n) \/ hash' = hash,
           blk' = [blk EXCEPT ![n] = a],
           dirty' = IF a = 0 THEN dirty \ {n} ELSE dirty \cup {n},
           cache_item_dirty' = Cardinality(dirty'),
           buf' \in [Node -> Data],
           disk' \in [Frag -> Data],
           failed' \subseteq Frag,
           UNCHANGED <<leaked, cache_alloced, cache_size, fs_ronly,
                       receiving_packets, pc>>
    PROVE  Inv'
<1>1. n \in Node
  BY Listed
<1>2. /\ Listing(stack', InStack, Node) /\ Len(stack') = Len(stack)
      /\ Listing(hash', InStack, Node)
  BY RefreshedListed, Listed
<1>3. InStack' = InStack /\ stack' \in Seq(Node) /\ hash' \in Seq(Node)
  BY <1>2 DEF Listing, InStack
<1>4. blk' \in [Node -> Frag \cup {0}]
  BY <1>1 DEF Inv, TypeOK
<1>5. \A m \in Node : blk'[m] = IF m = n THEN a ELSE blk[m]
  BY DEF Inv, TypeOK
<1>6. dirty' \subseteq dirty \cup {n} /\ (a = 0 => n \notin dirty')
  OBVIOUS
<1>7. TypeOK'
  <2>1. dirty' \subseteq Node
    BY <1>1, <1>6 DEF Inv, TypeOK
  <2>2. cache_item_dirty' \in Int
    BY <2>1, NodeAssumption, FS_Subset, FS_CardinalityType
  <2> QED  BY <1>3, <1>4, <2>1, <2>2 DEF Inv, TypeOK
<1>8. ListsAgree'
  BY <1>1, <1>2, <1>3, <1>5 DEF Inv, ListsAgree, Listing
<1>10. DirtyCounted'
  BY <1>3, <1>5, <1>6, Listed DEF Inv, DirtyCounted
<1> QED
  BY <1>2, <1>7, <1>8, <1>10
  DEF Inv, BuffersAccounted, StopsOnlyWithoutMemory, NullOnlyAfterFaults,
      Backed

LEMMA HitWriteInv ==
    ASSUME Inv, NEW f \in Frag, NEW d \in Data, HitWrite(f, d)
    PROVE  Inv'
<1> DEFINE n == cache_node(f)
<1>1. n \in InStack /\ blk[n] = f /\ n \in Node /\ f # 0
  BY NodeFound, Listed, FragAssumption DEF HitWrite
<1>2. dirty' = dirty \cup {n} /\ cache_item_dirty' = Cardinality(dirty')
  BY <1>1, MarkStep DEF HitWrite
<1>3. blk' = [blk EXCEPT ![n] = f] /\ buf' \in [Node -> Data]
  BY <1>1 DEF HitWrite, Inv, TypeOK
<1>5. /\ pc = "idle" /\ stack' = cache_refresh(n) /\ hash' = hash
      /\ disk' \in [Frag -> Data] /\ failed' \subseteq Frag
      /\ UNCHANGED <<leaked, cache_alloced, cache_size, fs_ronly,
                     receiving_packets, pc>>
  BY DEF HitWrite, Inv, TypeOK
<1> HIDE DEF n
<1> QED  BY <1>1, <1>2, <1>3, <1>5, RelinkInv

LEMMA MoveHitInv ==
    ASSUME Inv, NEW to \in Frag, NEW from \in Frag, MoveHit(to, from)
    PROVE  Inv'
<1> DEFINE n == cache_node(from)
<1>1. n \in InStack /\ to # 0
  BY NodeFound, FragAssumption DEF MoveHit
<1>2. dirty' = dirty \cup {n} /\ cache_item_dirty' = Cardinality(dirty')
  BY <1>1, MarkStep DEF MoveHit
<1>4. /\ pc = "idle" /\ stack' = cache_refresh(n)
      /\ hash' = <<n>> \o Without(hash, n)
      /\ blk' = [blk EXCEPT ![n] = to] /\ buf' \in [Node -> Data]
      /\ disk' \in [Frag -> Data] /\ failed' \subseteq Frag
      /\ UNCHANGED <<leaked, cache_alloced, cache_size, fs_ronly,
                     receiving_packets, pc>>
  BY DEF MoveHit, Inv, TypeOK
<1> HIDE DEF n
<1> QED  BY <1>1, <1>2, <1>4, RelinkInv

(* The node of an invalidated frag.                                        *)
LEMMA DroppedCount ==
    ASSUME Inv, NEW n
    PROVE  cache_item_dirty - (IF n \in dirty THEN 1 ELSE 0)
              = Cardinality(dirty \ {n})
<1>1. Cardinality(dirty \ {n}) =
      IF n \in dirty THEN Cardinality(dirty) - 1 ELSE Cardinality(dirty)
  BY DirtyFacts, FS_RemoveElement
<1> QED  BY <1>1, DirtyFacts DEF Inv, DirtyCounted

LEMMA InvalidateInv ==
    ASSUME Inv, NEW f \in Frag, cache_invalidate(f)
    PROVE  Inv'
<1> DEFINE n == cache_node(f)
<1>1. n \in InStack
  BY NodeFound DEF cache_invalidate
<1>2. dirty' = dirty \ {n} /\ cache_item_dirty' = Cardinality(dirty')
  BY DroppedCount DEF cache_invalidate
<1>3. /\ pc = "idle" /\ stack' = cache_refresh(n)
      /\ hash' = <<n>> \o Without(hash, n)
      /\ blk' = [blk EXCEPT ![n] = 0] /\ buf' \in [Node -> Data]
      /\ disk' \in [Frag -> Data] /\ failed' \subseteq Frag
      /\ UNCHANGED <<leaked, cache_alloced, cache_size, fs_ronly,
                     receiving_packets, pc>>
  BY DEF cache_invalidate, Inv, TypeOK
<1> HIDE DEF n
<1> QED  BY <1>1, <1>2, <1>3, RelinkInv

LEMMA DirectWriteInv ==
    ASSUME Inv, NEW f \in Frag, NEW d \in Data, NEW good \in BOOLEAN,
           DirectWrite(f, d, good)
    PROVE  Inv'
<1> DEFINE n == cache_node(f)
<1>1. /\ pc = "idle" /\ buf' \in [Node -> Data]
      /\ disk' \in [Frag -> Data] /\ failed' \subseteq Frag
      /\ UNCHANGED <<buf, leaked, cache_alloced, cache_size, fs_ronly,
                     receiving_packets, pc>>
  BY DEF DirectWrite, Inv, TypeOK
<1>2. CASE Cached(f)
  <2>1. n \in InStack
    BY <1>2, NodeFound
  <2>2. /\ stack' = cache_refresh(n)
        /\ hash' = <<n>> \o Without(hash, n)
        /\ blk' = [blk EXCEPT ![n] = 0]
        /\ dirty' = dirty \ {n}
        /\ cache_item_dirty' = cache_item_dirty - (IF n \in dirty THEN 1 ELSE 0)
    BY <1>2 DEF DirectWrite
  <2>3. cache_item_dirty' = Cardinality(dirty')
    BY <2>2, DroppedCount
  <2> HIDE DEF n
  <2> QED  BY <1>1, <2>1, <2>2, <2>3, RelinkInv
<1>3. CASE ~Cached(f)
  <2>1. UNCHANGED <<stack, hash, blk, dirty, cache_item_dirty>>
    BY <1>3 DEF DirectWrite
  <2>2. InStack' = InStack
    BY <2>1 DEF InStack
  <2>3. TypeOK'
    BY <1>1, <2>1 DEF Inv, TypeOK
  <2> QED
    BY <1>1, <2>1, <2>2, <2>3
    DEF Inv, ListsAgree, DirtyCounted, BuffersAccounted,
        StopsOnlyWithoutMemory, NullOnlyAfterFaults, Backed
<1> QED  BY <1>2, <1>3

(* Steps that leave the lists and the addresses alone.                     *)
LEMMA KeepsListsInv ==
    ASSUME Inv, TypeOK', UNCHANGED <<stack, hash, blk, leaked, cache_alloced>>,
           dirty' \subseteq dirty, cache_item_dirty' = Cardinality(dirty'),
           StopsOnlyWithoutMemory', NullOnlyAfterFaults', Backed'
    PROVE  Inv'
<1>1. InStack' = InStack
  BY DEF InStack
<1> QED
  BY <1>1
  DEF Inv, ListsAgree, DirtyCounted, BuffersAccounted

LEMMA FlushInv ==
    ASSUME Inv, NEW ok, Flush(ok)
    PROVE  Inv'
<1>1. /\ dirty' = {} /\ cache_item_dirty' = 0 /\ disk' \in [Frag -> Data]
      /\ receiving_packets' = receiving_packets /\ failed' \subseteq Frag
  BY FlushStep DEF Flush
<1>2. UNCHANGED <<stack, hash, blk, buf, leaked, cache_alloced, cache_size,
                  fs_ronly, pc>>
  BY DEF Flush
<1>3. TypeOK'
  BY <1>1, <1>2 DEF Inv, TypeOK
<1>4. StopsOnlyWithoutMemory' /\ NullOnlyAfterFaults' /\ Backed'
  BY <1>1, <1>2
  DEF Inv, StopsOnlyWithoutMemory, NullOnlyAfterFaults, Backed
<1>5. dirty' \subseteq dirty /\ cache_item_dirty' = Cardinality(dirty')
  BY <1>1, FS_EmptySet
<1> QED  BY <1>2, <1>3, <1>4, <1>5, KeepsListsInv

(* Packets that only set a flag or a size, and cache_adjust() giving up.   *)
LEMMA FlagsInv ==
    ASSUME Inv,
           \/ \E f \in Frag : MissNoBuffer(f) \/ MoveNoBuffer(f)
           \/ \E ro \in BOOLEAN : PWriteProtect(ro)
           \/ \E amount \in Amounts : PMoreCache(amount)
           \/ AdjustNoMemory
           \/ AdjustDone
    PROVE  Inv'
<1>1. UNCHANGED <<stack, hash, blk, dirty, buf, leaked, cache_item_dirty,
                  cache_alloced, disk>> /\ failed' = {}
  BY DEF MissNoBuffer, MoveNoBuffer, PWriteProtect, PMoreCache, AdjustNoMemory,
         AdjustDone
<1>2. \A a \in Int : /\ AtLeast(a, CacheSizeMin) \in Nat
                      /\ AtLeast(a, CacheSizeMin) >= CacheSizeMin
  BY SizeAssumption DEF AtLeast
<1>3. cache_size' \in Nat /\ cache_size' >= CacheSizeMin
  <2>1. \A amount \in Amounts : cache_size + amount \in Int
    BY SizeAssumption DEF Inv, TypeOK
  <2> QED
    BY <1>2, <2>1
    DEF Inv, TypeOK, Backed, MissNoBuffer, MoveNoBuffer, PWriteProtect,
        PMoreCache, AdjustNoMemory, AdjustDone
<1>4. /\ fs_ronly' \in BOOLEAN /\ receiving_packets' \in BOOLEAN
      /\ pc' \in {"idle", "adjust", "wild"}
  BY DEF Inv, TypeOK, MissNoBuffer, MoveNoBuffer, PWriteProtect, PMoreCache,
         AdjustNoMemory, AdjustDone
<1>5. TypeOK'
  BY <1>1, <1>3, <1>4 DEF Inv, TypeOK
<1>6. StopsOnlyWithoutMemory'
  BY <1>1
  DEF Inv, StopsOnlyWithoutMemory, MissNoBuffer, MoveNoBuffer, PWriteProtect,
      PMoreCache, AdjustNoMemory, AdjustDone
<1>7. NullOnlyAfterFaults'
  <2>1. stack = <<>> /\ leaked = {} => cache_alloced = 0
    BY FS_EmptySet DEF Inv, BuffersAccounted
  <2> QED
    BY <1>1, <2>1
    DEF Inv, Backed, NullOnlyAfterFaults, MissNoBuffer, MoveNoBuffer,
        PWriteProtect, PMoreCache, AdjustNoMemory, AdjustDone
<1>8. Backed'
  <2>1. pc' = "adjust" => receiving_packets'
    BY DEF Inv, Backed, MissNoBuffer, MoveNoBuffer, PWriteProtect, PMoreCache,
           AdjustNoMemory, AdjustDone
  <2>2. pc' = "idle" => cache_alloced # 0 \/ ~receiving_packets'
    <3>1. CASE AdjustNoMemory
      <4>1. cache_alloced = 0 => cache_alloced <= CacheSizeMin
        BY SizeAssumption
      <4> QED  BY <3>1, <4>1, Zenon DEF AdjustNoMemory
    <3>2. CASE AdjustDone
      BY <3>2, SizeAssumption DEF Inv, TypeOK, Backed, AdjustDone
    <3> QED
      BY <3>1, <3>2
      DEF Inv, Backed, MissNoBuffer, MoveNoBuffer, PWriteProtect, PMoreCache
  <2> QED  BY <1>1, <1>3, <2>1, <2>2 DEF Backed
<1> QED
  BY <1>1, <1>5, <1>6, <1>7, <1>8, KeepsListsInv DEF Inv, DirtyCounted

(* cache_adjust() with a new buffer.                                       *)
LEMMA AdjustGrowInv ==
    ASSUME Inv, NEW n \in Node, AdjustGrow(n)
    PROVE  Inv'
<1>1. /\ n \notin InStack /\ n \notin leaked /\ pc = "adjust"
      /\ stack' = Append(stack, n) /\ hash' = <<n>> \o hash
      /\ cache_alloced' = cache_alloced + 1 /\ failed' = {}
      /\ UNCHANGED <<blk, dirty, buf, leaked, cache_item_dirty, cache_size,
                     disk, fs_ronly, receiving_packets, pc>>
  BY DEF AdjustGrow, Free
<1>2. /\ Listing(stack', InStack \cup {n}, Node) /\ Len(stack') = Len(stack) + 1
      /\ Listing(hash', InStack \cup {n}, Node)
  BY <1>1, Listed, ListingAppend, ListingPrepend
<1>3. /\ InStack' = InStack \cup {n}
      /\ stack' \in Seq(Node) /\ hash' \in Seq(Node)
  BY <1>2 DEF Listing, InStack
<1>4. TypeOK'
  BY <1>1, <1>3 DEF Inv, TypeOK
<1>5. ListsAgree'
  BY <1>1, <1>2, <1>3 DEF Inv, ListsAgree, Listing
<1>7. DirtyCounted'
  BY <1>1, <1>3 DEF Inv, DirtyCounted
<1>8. BuffersAccounted'
  <2>1. Cardinality(leaked) \in Nat
    BY DirtyFacts, FS_CardinalityType
  <2> QED  BY <1>1, <1>2, <2>1, Listed DEF Inv, BuffersAccounted
<1> QED
  BY <1>1, <1>4, <1>5, <1>7, <1>8
  DEF Inv, StopsOnlyWithoutMemory, NullOnlyAfterFaults, Backed

(* cache_adjust() that frees a buffer.                                     *)
LEMMA AdjustShrinkInv ==
    ASSUME Inv, NEW ok, AdjustShrink(ok)
    PROVE  Inv'
<1> DEFINE n == Head(CleanFirst)
<1>0. stack # <<>> /\ pc = "adjust"
  BY DEF AdjustShrink
<1>1. n \in InStack /\ n \in Node
  BY <1>0, CleanFirstListed, ListingTail, Listed
<1>2. /\ stack' = Tail(CleanFirst) /\ hash' = Without(hash, n)
      /\ blk' = [blk EXCEPT ![n] = 0]
      /\ buf' = [buf EXCEPT ![n] = Uninit]
      /\ cache_alloced' = cache_alloced - 1
      /\ UNCHANGED <<leaked, cache_size, fs_ronly, pc>>
  BY DEF AdjustShrink
<1>3. /\ Listing(stack', InStack \ {n}, Node) /\ Len(stack') = Len(stack) - 1
      /\ Listing(hash', InStack \ {n}, Node)
  BY <1>0, <1>1, <1>2, CleanFirstListed, ListingTail, ListingWithout, Listed
<1>4. /\ dirty' \subseteq dirty /\ n \notin dirty'
      /\ cache_item_dirty' = Cardinality(dirty')
      /\ disk' \in [Frag -> Data] /\ receiving_packets' = receiving_packets
      /\ failed' \subseteq Frag
  <2>1. CASE AllDirty
    BY <2>1, FlushStep, FS_EmptySet DEF AdjustShrink
  <2>2. CASE ~AllDirty
    BY <1>0, <2>2, CleanFirstListed DEF AdjustShrink, Inv, TypeOK, DirtyCounted
  <2> QED  BY <2>1, <2>2
<1> HIDE DEF n
<1>5. InStack' = InStack \ {n} /\ stack' \in Seq(Node) /\ hash' \in Seq(Node)
  BY <1>3 DEF Listing, InStack
<1>6. blk' \in [Node -> Frag \cup {0}] /\ buf' \in [Node -> Data]
  BY <1>1, <1>2, DataAssumption DEF Inv, TypeOK
<1>7. \A m \in Node : blk'[m] = IF m = n THEN 0 ELSE blk[m]
  BY <1>2 DEF Inv, TypeOK
<1>8. TypeOK'
  <2>1. dirty' \subseteq Node
    BY <1>4 DEF Inv, TypeOK
  <2>2. cache_item_dirty' \in Int
    BY <1>4, <2>1, NodeAssumption, FS_Subset, FS_CardinalityType
  <2> QED  BY <1>2, <1>4, <1>5, <1>6, <2>1, <2>2 DEF Inv, TypeOK
<1>9. ListsAgree'
  BY <1>1, <1>2, <1>3, <1>5, <1>7 DEF Inv, ListsAgree, Listing
<1>11. DirtyCounted'
  BY <1>4, <1>5, <1>7, Listed DEF Inv, DirtyCounted
<1>12. BuffersAccounted'
  <2>1. Cardinality(leaked) \in Nat
    BY DirtyFacts, FS_CardinalityType
  <2>2. cache_alloced = Len(stack) + Cardinality(leaked)
    BY DEF Inv, BuffersAccounted
  <2>3. cache_alloced' = cache_alloced - 1 /\ leaked' = leaked
    BY <1>2
  <2>4. Len(stack) \in Nat /\ Len(stack') = Len(stack) - 1
    BY <1>3, Listed
  <2>5. cache_alloced' = Len(stack') + Cardinality(leaked')
    BY <2>1, <2>2, <2>3, <2>4
  <2> QED  BY <2>5 DEF BuffersAccounted
<1> QED
  BY <1>0, <1>2, <1>4, <1>8, <1>9, <1>11, <1>12
  DEF Inv, StopsOnlyWithoutMemory, NullOnlyAfterFaults, Backed

(* close_cache() and open_cache().                                         *)
LEMMA ReopenInv ==
    ASSUME Inv, Reopen, receiving_packets, receiving_packets' = receiving_packets,
           dirty' = {}, cache_item_dirty' = 0, disk' \in [Frag -> Data],
           failed' \subseteq Frag
    PROVE  Inv'
<1>1. AtLeast(NumBuffers, CacheSizeMin) \in Nat
  BY SizeAssumption DEF AtLeast
<1>2. TypeOK'
  BY <1>1, DataAssumption DEF Reopen, Inv, TypeOK
<1>3. InStack' = {} /\ Elems(hash') = {} /\ Len(stack') = 0
  BY DEF Reopen, InStack, Elems
<1>4. ListsAgree'
  BY <1>3 DEF Reopen, ListsAgree, NoRepeats
<1>5. DirtyCounted' /\ BuffersAccounted'
  BY <1>3, FS_EmptySet DEF Reopen, DirtyCounted, BuffersAccounted
<1>6. StopsOnlyWithoutMemory' /\ NullOnlyAfterFaults' /\ Backed'
  BY SizeAssumption DEF Reopen, AtLeast, StopsOnlyWithoutMemory, NullOnlyAfterFaults, Backed
<1> QED  BY <1>2, <1>4, <1>5, <1>6 DEF Inv

LEMMA RemountInv ==
    ASSUME Inv, (\E ok : Remount(ok)) \/ PDiskChange
    PROVE  Inv'
<1>1. ASSUME NEW ok, Remount(ok) PROVE Inv'
  BY <1>1, FlushStep, ReopenInv DEF Remount
<1>2. ASSUME PDiskChange PROVE Inv'
  BY <1>2, ReopenInv DEF PDiskChange, cache_full_invalidate
<1> QED  BY <1>1, <1>2

-----------------------------------------------------------------------------
LEMMA InitInv == Init => Inv
<1> SUFFICES ASSUME Init PROVE Inv
  OBVIOUS
<1>1. AtLeast(NumBuffers, CacheSizeMin) \in Nat
  BY SizeAssumption DEF AtLeast
<1>2. TypeOK
  BY <1>1, DataAssumption DEF Init, TypeOK
<1>3. InStack = {} /\ Elems(hash) = {} /\ Len(stack) = 0
  BY DEF Init, InStack, Elems
<1>4. ListsAgree
  BY <1>3 DEF Init, ListsAgree, NoRepeats
<1>5. DirtyCounted /\ BuffersAccounted
  BY <1>3, FS_EmptySet DEF Init, DirtyCounted, BuffersAccounted
<1>6. StopsOnlyWithoutMemory /\ NullOnlyAfterFaults /\ Backed
  BY SizeAssumption DEF Init, AtLeast, StopsOnlyWithoutMemory, NullOnlyAfterFaults, Backed
<1> QED  BY <1>2, <1>4, <1>5, <1>6 DEF Inv

LEMMA StutterInv == Inv /\ UNCHANGED vars => Inv'
<1> SUFFICES ASSUME Inv, UNCHANGED vars PROVE Inv'
  OBVIOUS
<1>1. InStack' = InStack
  BY DEF vars, InStack
<1> QED
  BY <1>1
  DEF vars, Inv, TypeOK, ListsAgree, DirtyCounted,
      BuffersAccounted, StopsOnlyWithoutMemory, NullOnlyAfterFaults,
      Backed

LEMMA NextInv == Inv /\ Next => Inv'
<1> SUFFICES ASSUME Inv, Next PROVE Inv'
  OBVIOUS
<1>1. ASSUME NEW f \in Frag, cache_frag(f) PROVE Inv'
  <2>1. CASE Hit(f)
    BY <2>1, HitInv
  <2>2. ASSUME NEW ok \in SUBSET dirty, MissRead(f, ok) \/ MissFault(f, ok)
        PROVE  Inv'
    BY <2>2, MissReadInv, MissFaultInv
  <2>3. CASE MissNoBuffer(f)
    BY <2>3, FlagsInv
  <2> QED  BY <1>1, <2>1, <2>2, <2>3 DEF cache_frag
<1>2. ASSUME NEW f \in Frag, cache_invalidate(f) PROVE Inv'
  BY <1>2, InvalidateInv
<1>3. ASSUME NEW f \in Frag, NEW d \in Data, cache_frag_write(f, d) PROVE Inv'
  BY <1>3, HitWriteInv, MissWriteInv DEF cache_frag_write
<1>4. ASSUME NEW f \in Frag, NEW d \in Data, NEW good \in BOOLEAN,
             DirectWrite(f, d, good)
      PROVE  Inv'
  BY <1>4, DirectWriteInv
<1>5. ASSUME NEW ok \in SUBSET dirty, Flush(ok) \/ Remount(ok) PROVE Inv'
  BY <1>5, FlushInv, RemountInv
<1>6. CASE \E ro \in BOOLEAN : PWriteProtect(ro)
  BY <1>6, FlagsInv
<1>7. CASE \E amount \in Amounts : PMoreCache(amount)
  BY <1>7, FlagsInv
<1>8. CASE PDiskChange
  BY <1>8, RemountInv
<1>9. CASE cache_adjust
  <2>1. ASSUME NEW n \in Node, AdjustGrow(n) PROVE Inv'
    BY <2>1, AdjustGrowInv
  <2>2. ASSUME NEW ok \in SUBSET dirty, AdjustShrink(ok) PROVE Inv'
    BY <2>2, AdjustShrinkInv
  <2>3. CASE AdjustNoMemory \/ AdjustDone
    BY <2>3, FlagsInv
  <2> QED  BY <1>9, <2>1, <2>2, <2>3 DEF cache_adjust
<1>10. CASE Wild
  BY <1>10, StutterInv DEF Wild
<1>11. ASSUME NEW to \in Frag, NEW from \in Frag, cache_frag_move(to, from)
       PROVE  Inv'
  <2>1. CASE MoveHit(to, from)
    BY <1>11, <2>1, MoveHitInv
  <2>2. ASSUME NEW ok \in SUBSET dirty, MoveMiss(to, from, disk[from], ok)
        PROVE  Inv'
    <3>1. disk[from] \in Data
      BY DEF Inv, TypeOK
    <3> QED  BY <1>11, <2>2, <3>1, MoveMissInv
  <2>3. CASE MoveFault(to, from)
    BY <1>11, <2>3, MoveMissInv DEF MoveFault
  <2>4. CASE MoveNoBuffer(from)
    BY <2>4, FlagsInv
  <2> QED  BY <1>11, <2>1, <2>2, <2>3, <2>4 DEF cache_frag_move
<1>12. CASE Calls
  <2>1. CASE \E f \in Frag : cache_frag(f) \/ cache_invalidate(f)
    BY <1>1, <1>2, <2>1
  <2>2. CASE \E f \in Frag, d \in Data :
               cache_frag_write(f, d) \/ DirectWrite(f, d, TRUE)
    BY <1>3, <1>4, <2>2
  <2>3. CASE \E f \in Frag : DirectWrite(f, Uninit, FALSE)
    BY <1>4, <2>3, DataAssumption
  <2>4. CASE \E ok \in SUBSET dirty : Flush(ok) \/ Remount(ok)
    BY <1>5, <2>4
  <2> QED
    BY <1>6, <1>7, <1>8, <1>9, <1>10, <1>12, <2>1, <2>2, <2>3, <2>4 DEF Calls
<1> QED  BY <1>11, <1>12 DEF Next

(* The inductive invariant holds in every state of the cache, for any      *)
(* number of frags and buffers and any sequence of calls.                  *)
THEOREM Invariance == Spec => []Inv
<1>1. Inv /\ [Next]_vars => Inv'
  BY NextInv, StutterInv
<1> QED  BY <1>1, InitInv, PTL DEF Spec

(* Every variable of cache.c keeps its type.                               *)
THEOREM TypeCorrect == Spec => []TypeOK
<1>1. Inv => TypeOK
  BY DEF Inv
<1> QED  BY <1>1, Invariance, PTL

(* The LRU list and the hash chains always hold the same nodes.            *)
THEOREM ListsAlwaysAgree == Spec => []ListsAgree
<1>1. Inv => ListsAgree
  BY DEF Inv
<1> QED  BY <1>1, Invariance, PTL

(* cache_item_dirty is the number of dirty buffers, so that the            *)
(* consistency checks of cache_flush() never fail.                         *)
THEOREM DirtyCountExact == Spec => []DirtyCounted
<1>1. Inv => DirtyCounted
  BY DEF Inv
<1> QED  BY <1>1, Invariance, PTL

(* No buffer is counted twice or forgotten.                                *)
THEOREM BuffersCountExact == Spec => []BuffersAccounted
<1>1. Inv => BuffersAccounted
  BY DEF Inv
<1> QED  BY <1>1, Invariance, PTL

(* Both counters are exact after any sequence of calls, faults and         *)
(* remounts: what cache_flush() and cache_adjust() decide by.              *)
THEOREM CountersExact == Spec => []Accounted
<1>1. Inv => Accounted
  BY DEF Inv, Accounted
<1> QED  BY <1>1, Invariance, PTL

(* The handler stops itself only when it got no buffer at all, and         *)
(* cache_getnode() fails only once read faults lost every buffer.          *)
THEOREM StopsAndNulls ==
    Spec => [](StopsOnlyWithoutMemory /\ NullOnlyAfterFaults)
<1>1. Inv => StopsOnlyWithoutMemory /\ NullOnlyAfterFaults
  BY DEF Inv
<1> QED  BY <1>1, Invariance, PTL

-----------------------------------------------------------------------------
(* FragCache implements FragStore: whatever is cached, flushed, evicted or *)
(* lost, every frag reads as it was last written until one of its own      *)
(* writes to the medium fails, or a move gives it a second buffer.         *)

(* The refinement mapping of Store.                                        *)
Seen    == [f \in Frag |-> View(f)]
Pending == {blk[n] : n \in dirty}
Weak    == {f \in Frag : /\ Cached(f)
                         /\ cache_node(f) \notin dirty
                         /\ View(f) # disk[f]}

(* The mapping told by the buffer that holds a frag.                       *)
MappedBy(f, n) ==
    /\ Seen[f] = buf[n]
    /\ f \in Pending <=> n \in dirty
    /\ f \in Weak <=> n \notin dirty /\ buf[n] # disk[f]

Mapped ==
    \A f \in Frag :
        /\ ~Cached(f) => Seen[f] = disk[f] /\ f \notin Pending /\ f \notin Weak
        /\ f \notin Doubled => \A n \in InStack : blk[n] = f => MappedBy(f, n)

LEMMA MappedFromInv == Inv => Mapped
<1> SUFFICES ASSUME Inv, NEW f \in Frag
             PROVE  /\ ~Cached(f) => /\ Seen[f] = disk[f]
                                     /\ f \notin Pending /\ f \notin Weak
                    /\ f \notin Doubled =>
                          \A n \in InStack : blk[n] = f => MappedBy(f, n)
  BY DEF Mapped
<1>1. dirty \subseteq InStack
  BY DEF Inv, DirtyCounted
<1>2. ASSUME ~Cached(f)
      PROVE  Seen[f] = disk[f] /\ f \notin Pending /\ f \notin Weak
  BY <1>1, <1>2 DEF Seen, View, Pending, Weak, Cached
<1>3. ASSUME f \notin Doubled, NEW n \in InStack, blk[n] = f
      PROVE  MappedBy(f, n)
  <2>1. Cached(f)
    BY <1>3 DEF Cached
  <2>3. \A m \in InStack : blk[m] = f => m = n
    BY <1>3, OneNode
  <2>4. cache_node(f) = n
    BY <2>1, <2>3, NodeFound
  <2>5. Seen[f] = buf[n] /\ View(f) = buf[n]
    BY <2>1, <2>4 DEF Seen, View
  <2>6. f \in Pending <=> n \in dirty
    BY <1>1, <1>3, <2>3 DEF Pending
  <2>7. f \in Weak <=> n \notin dirty /\ buf[n] # disk[f]
    BY <2>1, <2>4, <2>5 DEF Weak
  <2> QED  BY <2>5, <2>6, <2>7 DEF MappedBy
<1> QED  BY <1>2, <1>3

LEMMA MappedAfter == Inv' => Mapped'
  BY MappedFromInv, PTL

(* The mapping of a frag, doubled or not, whose first buffer is dirty.     *)
Newest ==
    \A f \in Frag : Cached(f) =>
        /\ Seen[f] = buf[cache_node(f)]
        /\ cache_node(f) \in dirty => f \in Pending /\ f \notin Weak

LEMMA NewestFromInv == Inv => Newest
<1> SUFFICES ASSUME Inv, NEW f \in Frag, Cached(f)
             PROVE  /\ Seen[f] = buf[cache_node(f)]
                    /\ cache_node(f) \in dirty => f \in Pending /\ f \notin Weak
  BY DEF Newest
<1>1. blk[cache_node(f)] = f
  BY NodeFound
<1> QED  BY <1>1 DEF Seen, View, Pending, Weak

LEMMA NewestAfter == Inv' => Newest'
  BY NewestFromInv, PTL

(* Store with the names of the mapping.                                    *)
S == INSTANCE FragStore WITH
    store <- Seen, durable <- disk, pending <- Pending, weak <- Weak,
    torn <- Doubled

(* What may happen to a frag that the call does not name.                  *)
Harmless(f) ==
    f \notin Doubled =>
        /\ f \notin Doubled'
        /\ S!Kept(f) \/ S!WrittenBack(f) \/ S!WriteBackFailed(f) \/ S!FellBack(f)

LEMMA HarmlessBackground ==
    ASSUME NEW F, \A f \in F : Harmless(f)
    PROVE  S!Background(F)
  BY DEF S!Background, S!StaysWhole, Harmless

(* Whichever buffer holds f after the step held it before, unchanged.      *)
SameBuffer(f) ==
    \A n \in InStack' : blk'[n] = f => /\ n \in InStack /\ blk[n] = f
                                      /\ buf'[n] = buf[n]

LEMMA SameBufferWhole ==
    ASSUME NEW f \in Frag \ Doubled, SameBuffer(f)
    PROVE  f \notin Doubled'
  BY DEF SameBuffer, Doubled

(* What cache_flush() does to the medium: of the dirty buffers of a frag   *)
(* one is written, or none can be.                                         *)
Flushed ==
    /\ \A n \in dirty : \/ \E m \in dirty : blk[m] = blk[n] /\ disk'[blk[n]] = buf[m]
                        \/ /\ disk'[blk[n]] = disk[blk[n]]
                           /\ blk[n] \in failed'
    /\ \A f \in Frag : (\A n \in dirty : blk[n] # f) => disk'[f] = disk[f]

(* Of a frag that is not doubled that is the one buffer.                   *)
LEMMA FlushedOne ==
    ASSUME Inv, Flushed, NEW n \in dirty, blk[n] \notin Doubled
    PROVE  \/ disk'[blk[n]] = buf[n]
           \/ disk'[blk[n]] = disk[blk[n]] /\ blk[n] \in failed'
<1>1. dirty \subseteq InStack /\ blk[n] \in Frag
  BY DirtyFacts DEF Inv, DirtyCounted
<1>2. \A m \in dirty : blk[m] = blk[n] => m = n
  BY <1>1, OneNode
<1> QED  BY <1>2 DEF Flushed

(* A frag that is not cached, before and after the step.                   *)
LEMMA UncachedHarmless ==
    ASSUME Inv, Inv', NEW f \in Frag, ~Cached(f), ~Cached(f)',
           disk'[f] = disk[f]
    PROVE  Harmless(f)
<1>1. Seen[f] = disk[f] /\ f \notin Pending /\ f \notin Weak
  BY MappedFromInv DEF Mapped
<1>2. Seen'[f] = disk'[f] /\ f \notin Pending' /\ f \notin Weak'
  BY MappedAfter DEF Mapped
<1>3. f \notin Doubled'
  BY DEF Cached, Doubled
<1> QED  BY <1>1, <1>2, <1>3 DEF Harmless, S!Kept

(* A frag that no flush writes: it stays cached, or its clean buffer is    *)
(* taken for another frag.                                                 *)
LEMMA QuietHarmless ==
    ASSUME Inv, Inv', NEW f \in Frag, SameBuffer(f), disk'[f] = disk[f],
           \A n \in InStack : blk[n] = f =>
               (n \in dirty <=> n \in dirty' /\ blk'[n] = f)
    PROVE  Harmless(f)
<1> SUFFICES ASSUME f \notin Doubled PROVE Harmless(f)
  BY DEF Harmless
<1>0. f \notin Doubled'
  BY SameBufferWhole
<1>1. CASE ~Cached(f)
  <2>1. ~Cached(f)'
    BY <1>1 DEF Cached, SameBuffer
  <2> QED  BY <1>1, <2>1, UncachedHarmless
<1>2. ASSUME NEW n \in InStack, blk[n] = f PROVE Harmless(f)
  <2>1. MappedBy(f, n)
    BY <1>2, MappedFromInv DEF Mapped
  <2>2. CASE Cached(f)'
    <3>1. PICK m \in InStack' : blk'[m] = f
      BY <2>2 DEF Cached
    <3>2. m \in InStack /\ blk[m] = f /\ buf'[m] = buf[m]
      BY <3>1 DEF SameBuffer
    <3>3. m = n
      BY <1>2, <3>2, OneNode
    <3>4. MappedBy(f, n)'
      BY <1>0, <3>1, <3>3, MappedAfter DEF Mapped
    <3>5. n \in dirty <=> n \in dirty'
      BY <1>2, <3>1, <3>3
    <3> QED
      BY <1>0, <2>1, <3>2, <3>3, <3>4, <3>5 DEF MappedBy, Harmless, S!Kept
  <2>3. CASE ~Cached(f)'
    <3>1. Seen'[f] = disk'[f] /\ f \notin Pending' /\ f \notin Weak'
      BY <2>3, MappedAfter DEF Mapped
    <3>2. n \notin dirty
      <4>1. dirty' \subseteq InStack'
        BY DEF Inv, DirtyCounted
      <4> QED  BY <1>2, <2>3, <4>1 DEF Cached
    <3>3. CASE buf[n] = disk[f]
      BY <1>0, <2>1, <3>1, <3>2, <3>3 DEF MappedBy, Harmless, S!Kept
    <3>4. CASE buf[n] # disk[f]
      BY <1>0, <2>1, <3>1, <3>2, <3>4 DEF MappedBy, Harmless, S!FellBack
    <3> QED  BY <3>3, <3>4
  <2> QED  BY <2>2, <2>3
<1> QED  BY <1>1, <1>2 DEF Cached

(* A frag that cache_flush() writes back, or fails to; its buffer stays or *)
(* is taken.                                                               *)
LEMMA FlushedHarmless ==
    ASSUME Inv, Inv', NEW f \in Frag, SameBuffer(f), Flushed,
           \A n \in dirty' : blk'[n] # f
    PROVE  Harmless(f)
<1> SUFFICES ASSUME f \notin Doubled PROVE Harmless(f)
  BY DEF Harmless
<1>0. f \notin Doubled'
  BY SameBufferWhole
<1>1. CASE \A n \in dirty : blk[n] # f
  <2>1. disk'[f] = disk[f]
    BY <1>1 DEF Flushed
  <2> QED  BY <1>1, <2>1, QuietHarmless
<1>2. ASSUME NEW n \in dirty, blk[n] = f PROVE Harmless(f)
  <2>1. n \in InStack
    BY DEF Inv, DirtyCounted
  <2>2. MappedBy(f, n)
    BY <1>2, <2>1, MappedFromInv DEF Mapped
  <2>3. Seen[f] = buf[n] /\ f \in Pending
    BY <2>2 DEF MappedBy
  <2>4. disk'[f] = buf[n] \/ (disk'[f] = disk[f] /\ f \in failed')
    BY <1>2, FlushedOne
  <2>5. CASE Cached(f)'
    <3>1. PICK m \in InStack' : blk'[m] = f
      BY <2>5 DEF Cached
    <3>2. m \in InStack /\ blk[m] = f /\ buf'[m] = buf[m]
      BY <3>1 DEF SameBuffer
    <3>3. m = n
      BY <1>2, <2>1, <3>2, OneNode
    <3>4. MappedBy(f, n)'
      BY <1>0, <3>1, <3>3, MappedAfter DEF Mapped
    <3>5. n \notin dirty'
      BY <3>1, <3>3
    <3>6. /\ Seen'[f] = buf[n] /\ f \notin Pending'
          /\ f \in Weak' <=> buf[n] # disk'[f]
      BY <3>2, <3>3, <3>4, <3>5 DEF MappedBy
    <3> QED
      BY <1>0, <2>3, <2>4, <3>6 DEF Harmless, S!WrittenBack, S!WriteBackFailed
  <2>6. CASE ~Cached(f)'
    <3>1. Seen'[f] = disk'[f] /\ f \notin Pending' /\ f \notin Weak'
      BY <2>6, MappedAfter DEF Mapped
    <3> QED
      BY <1>0, <2>3, <2>4, <3>1 DEF Harmless, S!WrittenBack, S!FellBack
  <2> QED  BY <2>5, <2>6
<1> QED  BY <1>1, <1>2

-----------------------------------------------------------------------------
(* cache_flush() writes one of the dirty buffers of a frag, wherever those *)
(* are in the list.                                                        *)
LEMMA FlushedDiskIs ==
    ASSUME Inv, NEW ok \in SUBSET dirty
    PROVE  /\ \A n \in ok : \E m \in ok : /\ blk[m] = blk[n]
                                         /\ FlushedDisk(ok)[blk[n]] = buf[m]
           /\ \A f \in Frag : (\A n \in ok : blk[n] # f)
                                => FlushedDisk(ok)[f] = disk[f]
<1> DEFINE last(f) == {i \in 1..Len(stack) : /\ stack[i] \in ok
                                             /\ blk[stack[i]] = f}
           least(f) == CHOOSE i \in last(f) : \A j \in last(f) : i <= j
<1>1. \A f \in Frag : FlushedDisk(ok)[f] =
                         IF last(f) = {} THEN disk[f] ELSE buf[stack[least(f)]]
  BY DEF FlushedDisk
<1>2. ASSUME NEW n \in ok
      PROVE  \E m \in ok : blk[m] = blk[n] /\ FlushedDisk(ok)[blk[n]] = buf[m]
  <2> DEFINE f == blk[n]
  <2>1. n \in InStack /\ f \in Frag
    BY DirtyFacts DEF Inv, DirtyCounted
  <2>2. PICK i \in 1..Len(stack) : stack[i] = n
    BY <2>1 DEF InStack, Elems
  <2>3. last(f) # {} /\ last(f) \subseteq Nat
    BY <2>2
  <2>4. PICK x \in last(f) : \A y \in last(f) : x <= y
    <3> HIDE DEF last, f
    <3> QED  BY <2>3, LeastNatural
  <2>5. least(f) \in last(f)
    <3> HIDE DEF last, f
    <3> QED  BY <2>4
  <2>6. \A j \in last(f) : stack[j] \in ok /\ blk[stack[j]] = f
    OBVIOUS
  <2> HIDE DEF last, least, f
  <2>7. FlushedDisk(ok)[f] = buf[stack[least(f)]]
    BY <1>1, <2>1, <2>3
  <2> QED  BY <2>5, <2>6, <2>7 DEF f
<1>3. ASSUME NEW f \in Frag, \A n \in ok : blk[n] # f
      PROVE  FlushedDisk(ok)[f] = disk[f]
  <2>1. last(f) = {}
    BY <1>3
  <2> HIDE DEF last, least
  <2> QED  BY <1>1, <2>1
<1> QED  BY <1>2, <1>3

LEMMA FlushWrites ==
    ASSUME Inv, NEW ok \in SUBSET dirty, disk' = FlushedDisk(ok),
           failed' = {blk[n] : n \in DirtyListed \ ok}
    PROVE  Flushed
<1>1. DirtyListed = dirty
  BY DirtyFacts
<1>2. ASSUME NEW n \in dirty
      PROVE  \/ \E m \in dirty : blk[m] = blk[n] /\ disk'[blk[n]] = buf[m]
             \/ disk'[blk[n]] = disk[blk[n]] /\ blk[n] \in failed'
  <2>1. CASE \E m \in ok : blk[m] = blk[n]
    BY <2>1, FlushedDiskIs
  <2>2. CASE \A m \in ok : blk[m] # blk[n]
    <3>1. n \notin ok /\ blk[n] \in failed'
      BY <1>1, <2>2
    <3>2. blk[n] \in Frag
      BY DirtyFacts
    <3> QED  BY <2>2, <3>1, <3>2, FlushedDiskIs
  <2> QED  BY <2>1, <2>2
<1>3. \A f \in Frag : (\A n \in dirty : blk[n] # f) => disk'[f] = disk[f]
  BY FlushedDiskIs
<1> QED  BY <1>2, <1>3 DEF Flushed

LEMMA FlushEffect ==
    ASSUME Inv, NEW ok \in SUBSET dirty, cache_flush(ok)
    PROVE  Flushed /\ dirty' = {}
<1>1. dirty' = {}
  BY FlushStep
<1>2. CASE cache_item_dirty = 0
  <2>1. dirty = {} /\ disk' = disk
    BY <1>2, DirtyFacts DEF cache_flush
  <2> QED  BY <1>1, <2>1 DEF Flushed
<1>3. CASE cache_item_dirty # 0
  BY <1>1, <1>3, FlushWrites DEF cache_flush
<1> QED  BY <1>1, <1>2, <1>3

(* The step changes nothing that a reader could see, and writes nothing.   *)
LEMMA QuietSync ==
    ASSUME Inv, Inv', UNCHANGED <<blk, buf, dirty, disk>>,
           \A n \in InStack : n \in InStack',
           \A n \in InStack' : n \in InStack \/ blk[n] = 0
    PROVE  S!Sync
<1>1. ASSUME NEW f \in Frag PROVE Harmless(f)
  <2>1. SameBuffer(f)
    BY FragAssumption DEF SameBuffer
  <2> QED  BY <2>1, QuietHarmless
<1> QED  BY <1>1, HarmlessBackground DEF S!Sync

(* A buffer is taken, after a flush or because it is clean; a is its new   *)
(* address.  All frags but a fare as in the background of an operation.    *)
LEMMA TakenHarmless ==
    ASSUME Inv, Inv', NEW n \in InStack, NEW a, InStack' \subseteq InStack,
           \A m \in InStack \ {n} : blk'[m] = blk[m] /\ buf'[m] = buf[m],
           n \in InStack' => blk'[n] = a,
           \/ Flushed /\ dirty' \subseteq {n}
           \/ /\ disk' = disk /\ n \notin dirty
              /\ dirty \subseteq dirty' /\ dirty' \subseteq dirty \cup {n},
           NEW f \in Frag, f # a
    PROVE  Harmless(f)
<1>1. SameBuffer(f)
  BY DEF SameBuffer
<1>2. dirty \subseteq InStack /\ dirty' \subseteq InStack'
  BY DEF Inv, DirtyCounted
<1>3. CASE Flushed /\ dirty' \subseteq {n}
  <2>1. \A m \in dirty' : blk'[m] # f
    BY <1>2, <1>3
  <2> QED  BY <1>1, <1>3, <2>1, FlushedHarmless
<1>4. CASE /\ disk' = disk /\ n \notin dirty
           /\ dirty \subseteq dirty' /\ dirty' \subseteq dirty \cup {n}
  <2>1. ASSUME NEW m \in InStack, blk[m] = f
        PROVE  m \in dirty <=> m \in dirty' /\ blk'[m] = f
    <3>1. CASE m = n
      BY <1>2, <1>4, <2>1, <3>1
    <3>2. CASE m # n
      BY <1>4, <2>1, <3>2
    <3> QED  BY <3>1, <3>2
  <2> QED  BY <1>1, <1>4, <2>1, QuietHarmless
<1> QED  BY <1>3, <1>4

(* A buffer takes another address, or other contents; no other is touched. *)
LEMMA RelinkedHarmless ==
    ASSUME Inv, Inv', NEW n \in InStack, InStack' = InStack,
           \A m \in InStack \ {n} : blk'[m] = blk[m] /\ buf'[m] = buf[m],
           dirty \ {n} = dirty' \ {n},
           NEW f \in Frag, f # blk[n], f # blk'[n], disk'[f] = disk[f]
    PROVE  Harmless(f)
<1>1. SameBuffer(f)
  BY DEF SameBuffer
<1>2. \A m \in InStack : blk[m] = f =>
         (m \in dirty <=> m \in dirty' /\ blk'[m] = f)
  OBVIOUS
<1> QED  BY <1>1, <1>2, QuietHarmless

-----------------------------------------------------------------------------
(* One lemma per action: every step of the cache is a step of the store.   *)

(* The head of the list is taken for f, clean: the caller reads.           *)
LEMMA MissReadRefines ==
    ASSUME Inv, Inv', NEW f \in Frag, NEW ok \in SUBSET dirty, MissRead(f, ok)
    PROVE  S!Sync
<1>1. PICK n \in InStack : n = Head(Cycled) /\ n \in Node
  BY CycledListed, Listed DEF MissRead
<1>2. /\ stack' = Append(Tail(Cycled), n) /\ blk' = [blk EXCEPT ![n] = f]
      /\ buf' = [buf EXCEPT ![n] = disk[f]] /\ ~Cached(f) /\ stack # <<>>
      /\ cache_cycle_dirty(ok)
  BY <1>1 DEF MissRead, AddTaken
<1>3. InStack' = InStack
  BY <1>1, <1>2, TakenListed DEF Listing, InStack
<1>4. \/ Flushed /\ dirty' = {}
      \/ disk' = disk /\ dirty' = dirty /\ n \notin dirty
  BY <1>1, <1>2, FlushEffect, CycledListed DEF cache_cycle_dirty
<1>5. /\ \A m \in Node \ {n} : blk'[m] = blk[m] /\ buf'[m] = buf[m]
      /\ blk'[n] = f /\ buf'[n] = disk[f]
  BY <1>1, <1>2 DEF Inv, TypeOK
<1>6. ASSUME NEW g \in Frag, g # f PROVE Harmless(g)
  BY <1>1, <1>3, <1>4, <1>5, <1>6, Listed, TakenHarmless
<1>7. Harmless(f)
  <2>1. \A m \in dirty : blk[m] # f
    BY <1>2 DEF Cached, Inv, DirtyCounted
  <2>2. disk'[f] = disk[f]
    BY <1>4, <2>1 DEF Flushed
  <2>3. Seen[f] = disk[f] /\ f \notin Pending /\ f \notin Weak
    BY <1>2, MappedFromInv DEF Mapped
  <2>6. f \notin Doubled'
    BY <1>2, <1>3, <1>5, Listed DEF Doubled, Cached
  <2>4. MappedBy(f, n)'
    BY <1>1, <1>3, <1>5, <2>6, MappedAfter DEF Mapped
  <2>5. n \notin dirty'
    BY <1>4
  <2> QED
    BY <1>5, <2>2, <2>3, <2>4, <2>5, <2>6 DEF MappedBy, Harmless, S!Kept
<1> QED  BY <1>6, <1>7, HarmlessBackground DEF S!Sync

LEMMA HeadOfChain ==
    ASSUME NEW n, NEW q, q = <<n>> \o Without(hash, n), hash \in Seq(Node)
    PROVE  q # <<>> /\ q[1] = n
<1>1. Without(hash, n) \in Seq(Node)
  BY DEF Without
<1> QED  BY <1>1

(* The head of the list is taken for f, with the contents d: the caller    *)
(* writes.  Frags that are neither f nor cached are left alone.            *)
LEMMA TakenForWrite ==
    ASSUME Inv, Inv', NEW f \in Frag, NEW d, NEW ok \in SUBSET dirty,
           stack # <<>>, AddTaken(Head(Cycled), f),
           buf' = [buf EXCEPT ![Head(Cycled)] = d],
           MarkTakenDirty(Head(Cycled), ok)
    PROVE  /\ S!PutBefore(f, d)
           /\ ~Cached(f) => f \notin Doubled'
           /\ \A g \in Frag \ {f} : Harmless(g)
           /\ \A g \in Frag : ~Cached(g) => disk'[g] = disk[g]
           /\ \A g \in Frag \ {f} : ~Cached(g) => ~Cached(g)'
<1>1. PICK n \in InStack : n = Head(Cycled) /\ n \in Node
  BY CycledListed, Listed
<1>2. /\ stack' = Append(Tail(Cycled), n) /\ blk' = [blk EXCEPT ![n] = f]
      /\ hash' = <<n>> \o Without(hash, n)
      /\ buf' = [buf EXCEPT ![n] = d] /\ MarkTakenDirty(n, ok)
  BY <1>1 DEF AddTaken
<1>3. InStack' = InStack
  BY <1>1, <1>2, TakenListed DEF Listing, InStack
<1>4. \/ Flushed /\ dirty' = {n}
      \/ disk' = disk /\ dirty' = dirty \cup {n} /\ n \notin dirty
  <2>1. CASE Crowded
    <3>1. /\ disk' = FlushedDisk(ok)
          /\ failed' = {blk[m] : m \in DirtyListed \ ok}
          /\ dirty' = (dirty \ DirtyListed) \cup {n}
      BY <1>2, <2>1 DEF MarkTakenDirty
    <3>2. Flushed
      BY <3>1, FlushWrites
    <3> QED  BY <3>1, <3>2, DirtyFacts
  <2>2. CASE ~Crowded
    BY <1>1, <1>2, <2>2, CycledListed DEF MarkTakenDirty
  <2> QED  BY <2>1, <2>2
<1>5. /\ \A m \in Node \ {n} : blk'[m] = blk[m] /\ buf'[m] = buf[m]
      /\ blk'[n] = f /\ buf'[n] = d
  BY <1>1, <1>2 DEF Inv, TypeOK
<1>6. ASSUME NEW g \in Frag, g # f PROVE Harmless(g)
  BY <1>1, <1>3, <1>4, <1>5, <1>6, Listed, TakenHarmless
<1>7. ASSUME NEW g \in Frag, ~Cached(g) PROVE disk'[g] = disk[g]
  <2>1. \A m \in dirty : blk[m] # g
    BY <1>7 DEF Cached, Inv, DirtyCounted
  <2> QED  BY <1>4, <2>1 DEF Flushed
<1>8. ASSUME NEW g \in Frag \ {f}, ~Cached(g) PROVE ~Cached(g)'
  BY <1>3, <1>5, <1>8, Listed DEF Cached
<1>9. Cached(f)' /\ cache_node(f)' = n
  <2>1. hash' # <<>> /\ hash'[1] = n
    BY <1>2, HeadOfChain, Listed
  <2> QED  BY <1>1, <1>3, <1>5, <2>1, HeadsAfter DEF Heads
<1>10. n \in dirty'
  BY <1>4
<1>11. Seen'[f] = d /\ f \in Pending' /\ f \notin Weak'
  BY <1>5, <1>9, <1>10, NewestAfter DEF Newest
<1>12. f \notin Doubled =>
          disk'[f] = disk[f] \/ (f \in Pending /\ disk'[f] = Seen[f])
  <2> SUFFICES ASSUME f \notin Doubled, Flushed, disk'[f] # disk[f]
               PROVE  f \in Pending /\ disk'[f] = Seen[f]
    BY <1>4
  <2>1. PICK m \in dirty : blk[m] = f
    BY DEF Flushed
  <2>2. disk'[f] = buf[m]
    BY <2>1, FlushedOne
  <2>3. m \in InStack
    BY DEF Inv, DirtyCounted
  <2> QED  BY <2>1, <2>2, <2>3, MappedFromInv DEF Mapped, MappedBy
<1>13. ~Cached(f) => f \notin Doubled'
  BY <1>3, <1>5, Listed DEF Doubled, Cached
<1>14. S!PutBefore(f, d)
  BY <1>11, <1>12 DEF S!PutBefore
<1> QED  BY <1>6, <1>7, <1>8, <1>13, <1>14

LEMMA MissWriteRefines ==
    ASSUME Inv, Inv', NEW f \in Frag, NEW d \in Data, NEW ok \in SUBSET dirty,
           MissWrite(f, d, ok)
    PROVE  S!Write(f, d)
<1>1. /\ ~Cached(f) /\ stack # <<>> /\ AddTaken(Head(Cycled), f)
      /\ buf' = [buf EXCEPT ![Head(Cycled)] = d]
      /\ MarkTakenDirty(Head(Cycled), ok)
  BY DEF MissWrite
<1>2. /\ S!PutBefore(f, d) /\ disk'[f] = disk[f] /\ f \notin Doubled'
      /\ \A g \in Frag \ {f} : Harmless(g)
  BY <1>1, TakenForWrite
<1>3. S!Background(Frag \ {f})
  BY <1>2, HarmlessBackground
<1> QED  BY <1>2, <1>3 DEF S!Write, S!PutBefore, S!StaysWhole

(* A frag that the step leaves without a buffer.                           *)
LEMMA UncoveredAfter ==
    ASSUME Inv', NEW f \in Frag, ~Cached(f)'
    PROVE  S!Uncovered(f)
<1>1. Seen'[f] = disk'[f] /\ f \notin Pending' /\ f \notin Weak'
  BY MappedAfter DEF Mapped
<1>2. f \notin Doubled'
  BY DEF Doubled, Cached
<1> QED  BY <1>1, <1>2 DEF S!Uncovered

(* A move whose source had to be read: d is what was read.                 *)
LEMMA MoveMissRefines ==
    ASSUME Inv, Inv', NEW to \in Frag, NEW from \in Frag, to # from,
           NEW d \in Data, NEW ok \in SUBSET dirty, MoveMiss(to, from, d, ok)
    PROVE  S!MoveGarbage(to) /\ (d = disk[from] => S!Move(to, from))
<1>1. /\ ~Cached(from) /\ stack # <<>> /\ AddTaken(Head(Cycled), to)
      /\ buf' = [buf EXCEPT ![Head(Cycled)] = d]
      /\ MarkTakenDirty(Head(Cycled), ok)
  BY DEF MoveMiss
<1>2. /\ S!PutBefore(to, d)
      /\ \A g \in Frag \ {to} : Harmless(g)
      /\ disk'[from] = disk[from] /\ ~Cached(from)'
  BY <1>1, TakenForWrite
<1>3. S!Background(Frag \ {to}) /\ S!Background(Frag \ {to, from})
  BY <1>2, HarmlessBackground
<1>4. S!MoveGarbage(to)
  BY <1>2, <1>3 DEF S!MoveGarbage
<1>5. Seen[from] = disk[from]
  BY <1>1, MappedFromInv DEF Mapped
<1>6. S!Uncovered(from)
  BY <1>2, UncoveredAfter
<1>7. d = disk[from] => S!Move(to, from)
  BY <1>2, <1>3, <1>5, <1>6 DEF S!Move
<1> QED  BY <1>4, <1>7

(* A buffer goes: the read of a miss failed, or the cache shrinks.         *)
LEMMA BufferGoes ==
    ASSUME Inv, Inv', NEW n \in InStack, InStack' = InStack \ {n},
           blk' = [blk EXCEPT ![n] = 0], buf' = [buf EXCEPT ![n] = Uninit],
           \/ Flushed /\ dirty' = {}
           \/ disk' = disk /\ dirty' = dirty /\ n \notin dirty
    PROVE  S!Sync
<1>1. \A m \in InStack \ {n} : blk'[m] = blk[m] /\ buf'[m] = buf[m]
  BY Listed DEF Inv, TypeOK
<1>2. ASSUME NEW f \in Frag PROVE Harmless(f)
  <2>1. f # 0
    BY FragAssumption
  <2> QED  BY <1>1, <2>1, TakenHarmless
<1> QED  BY <1>2, HarmlessBackground DEF S!Sync

LEMMA MissFaultRefines ==
    ASSUME Inv, Inv', NEW f \in Frag, NEW ok \in SUBSET dirty,
           MissFault(f, ok)
    PROVE  S!Sync
<1>1. PICK n \in InStack : n = Head(Cycled)
  BY CycledListed DEF MissFault
<1>2. /\ stack # <<>> /\ stack' = Tail(Cycled)
      /\ blk' = [blk EXCEPT ![n] = 0] /\ buf' = [buf EXCEPT ![n] = Uninit]
      /\ cache_cycle_dirty(ok)
  BY <1>1 DEF MissFault
<1>3. InStack' = InStack \ {n}
  BY <1>1, <1>2, TakenListed DEF Listing, InStack
<1>4. \/ Flushed /\ dirty' = {}
      \/ disk' = disk /\ dirty' = dirty /\ n \notin dirty
  BY <1>1, <1>2, FlushEffect, CycledListed DEF cache_cycle_dirty
<1> QED  BY <1>2, <1>3, <1>4, BufferGoes

LEMMA AdjustShrinkRefines ==
    ASSUME Inv, Inv', NEW ok \in SUBSET dirty, AdjustShrink(ok)
    PROVE  S!Sync
<1>1. stack # <<>>
  BY DEF AdjustShrink
<1>2. PICK n \in InStack : n = Head(CleanFirst)
  BY <1>1, CleanFirstListed, ListingTail
<1>3. /\ stack' = Tail(CleanFirst)
      /\ blk' = [blk EXCEPT ![n] = 0] /\ buf' = [buf EXCEPT ![n] = Uninit]
  BY <1>2 DEF AdjustShrink
<1>4. InStack' = InStack \ {n}
  BY <1>1, <1>2, <1>3, CleanFirstListed, ListingTail DEF Listing, InStack
<1>5. \/ Flushed /\ dirty' = {}
      \/ disk' = disk /\ dirty' = dirty /\ n \notin dirty
  BY <1>1, <1>2, FlushEffect, CleanFirstListed DEF AdjustShrink
<1> QED  BY <1>3, <1>4, <1>5, BufferGoes

(* The calls that find the frag in the cache.                              *)
LEMMA RefreshKeeps ==
    ASSUME Inv, NEW n \in InStack, stack' = cache_refresh(n)
    PROVE  InStack' = InStack
  BY RefreshedListed DEF Listing, InStack

LEMMA HitWriteRefines ==
    ASSUME Inv, Inv', NEW f \in Frag, NEW d \in Data, HitWrite(f, d)
    PROVE  S!Write(f, d)
<1>1. PICK n \in InStack : n = cache_node(f) /\ blk[n] = f /\ n \in Node
  BY NodeFound, Listed DEF HitWrite
<1>2. /\ stack' = cache_refresh(n) /\ buf' = [buf EXCEPT ![n] = d]
      /\ dirty' = dirty \cup {n} /\ blk' = blk /\ disk' = disk
      /\ hash' = hash /\ Cached(f)
  BY <1>1 DEF HitWrite, MarkDirty
<1>3. InStack' = InStack
  BY <1>2, RefreshKeeps
<1>4. buf'[n] = d /\ \A m \in InStack \ {n} : buf'[m] = buf[m]
  BY <1>1, <1>2, Listed DEF Inv, TypeOK
<1>5. ASSUME NEW g \in Frag \ {f} PROVE Harmless(g)
  BY <1>1, <1>2, <1>3, <1>4, RelinkedHarmless
<1>6. Cached(f)' /\ cache_node(f)' = n
  BY <1>1, <1>2, <1>3 DEF Cached, cache_node
<1>7. Seen'[f] = d /\ f \in Pending' /\ f \notin Weak'
  BY <1>2, <1>4, <1>6, NewestAfter DEF Newest
<1>8. S!Background(Frag \ {f})
  BY <1>5, HarmlessBackground
<1>9. S!StaysWhole(f)
  BY <1>2, <1>3 DEF S!StaysWhole, Doubled
<1> QED  BY <1>2, <1>7, <1>8, <1>9 DEF S!Write

LEMMA MoveHitRefines ==
    ASSUME Inv, Inv', NEW to \in Frag, NEW from \in Frag, to # from,
           MoveHit(to, from)
    PROVE  S!Move(to, from)
<1>1. PICK n \in InStack : n = cache_node(from) /\ blk[n] = from /\ n \in Node
  BY NodeFound, Listed DEF MoveHit
<1>2. /\ stack' = cache_refresh(n) /\ blk' = [blk EXCEPT ![n] = to]
      /\ dirty' = dirty \cup {n} /\ buf' = buf /\ disk' = disk
      /\ hash' = <<n>> \o Without(hash, n) /\ Cached(from)
  BY <1>1 DEF MoveHit, MarkDirty
<1>3. InStack' = InStack
  BY <1>2, RefreshKeeps
<1>4. blk'[n] = to /\ \A m \in InStack \ {n} : blk'[m] = blk[m]
  BY <1>1, <1>2, Listed DEF Inv, TypeOK
<1>5. ASSUME NEW g \in Frag \ {to, from} PROVE Harmless(g)
  BY <1>1, <1>2, <1>3, <1>4, RelinkedHarmless
<1>6. Seen[from] = buf[n]
  BY <1>1, <1>2, NewestFromInv DEF Newest
<1>7. Cached(to)' /\ cache_node(to)' = n
  <2>1. hash' # <<>> /\ hash'[1] = n
    BY <1>2, HeadOfChain, Listed DEF Inv, TypeOK
  <2> QED  BY <1>1, <1>3, <1>4, <2>1, HeadsAfter DEF Heads
<1>8. Seen'[to] = buf[n] /\ to \in Pending' /\ to \notin Weak'
  BY <1>2, <1>7, NewestAfter DEF Newest
<1>9. from \notin Doubled => ~Cached(from)'
  <2> SUFFICES ASSUME from \notin Doubled PROVE ~Cached(from)'
    OBVIOUS
  <2>1. \A m \in InStack : blk[m] = from => m = n
    BY <1>1, OneNode
  <2> QED  BY <1>3, <1>4, <2>1 DEF Cached
<1>10. from \notin Doubled => S!Uncovered(from)
  BY <1>9, UncoveredAfter
<1>11. S!Background(Frag \ {to, from})
  BY <1>5, HarmlessBackground
<1>12. S!PutBefore(to, Seen[from])
  BY <1>2, <1>6, <1>8 DEF S!PutBefore
<1> QED  BY <1>2, <1>10, <1>11, <1>12 DEF S!Move

(* cache_invalidate(), also by a write that goes past the cache.           *)
LEMMA Invalidated ==
    ASSUME Inv, Inv', NEW f \in Frag, Cached(f), buf' = buf,
           stack' = cache_refresh(cache_node(f)),
           blk' = [blk EXCEPT ![cache_node(f)] = 0],
           dirty' = dirty \ {cache_node(f)},
           \A g \in Frag \ {f} : disk'[g] = disk[g]
    PROVE  /\ f \notin Doubled => S!Uncovered(f)
           /\ \A g \in Frag \ {f} : Harmless(g)
<1>1. PICK n \in InStack : n = cache_node(f) /\ blk[n] = f /\ n \in Node
  BY NodeFound, Listed
<1>2. /\ stack' = cache_refresh(n) /\ blk' = [blk EXCEPT ![n] = 0]
      /\ dirty' = dirty \ {n}
  BY <1>1
<1>3. InStack' = InStack
  BY <1>2, RefreshKeeps
<1>4. blk'[n] = 0 /\ \A m \in InStack \ {n} : blk'[m] = blk[m]
  BY <1>1, <1>2, Listed DEF Inv, TypeOK
<1>5. ASSUME NEW g \in Frag \ {f} PROVE Harmless(g)
  <2>1. g # 0
    BY FragAssumption
  <2> QED  BY <1>1, <1>2, <1>3, <1>4, <2>1, RelinkedHarmless
<1>6. ASSUME f \notin Doubled PROVE ~Cached(f)'
  <2>1. f # 0
    BY FragAssumption
  <2>2. \A m \in InStack : blk[m] = f => m = n
    BY <1>1, <1>6, OneNode
  <2> QED  BY <1>3, <1>4, <2>1, <2>2 DEF Cached
<1>7. f \notin Doubled => S!Uncovered(f)
  BY <1>6, UncoveredAfter
<1> QED  BY <1>5, <1>7

LEMMA InvalidateRefines ==
    ASSUME Inv, Inv', NEW f \in Frag, cache_invalidate(f)
    PROVE  S!Discard(f)
<1>1. /\ f \notin Doubled => S!Uncovered(f)
      /\ \A g \in Frag \ {f} : Harmless(g)
  BY Invalidated DEF cache_invalidate
<1>2. disk' = disk
  BY DEF cache_invalidate
<1>3. S!Background(Frag \ {f})
  BY <1>1, HarmlessBackground
<1> QED  BY <1>1, <1>2, <1>3 DEF S!Discard

LEMMA DirectWriteRefines ==
    ASSUME Inv, Inv', NEW f \in Frag, NEW d \in Data, NEW good \in BOOLEAN,
           DirectWrite(f, d, good)
    PROVE  S!WriteThrough(f, d)
<1>1. /\ disk'[f] = IF f \in failed' THEN disk[f] ELSE d
      /\ \A g \in Frag \ {f} : disk'[g] = disk[g]
  BY DEF DirectWrite, Inv, TypeOK
<1>2. /\ f \notin Doubled => S!Uncovered(f)
      /\ \A g \in Frag \ {f} : Harmless(g)
  <2>1. CASE Cached(f)
    BY <1>1, <2>1, Invalidated DEF DirectWrite
  <2>2. CASE ~Cached(f)
    <3>1. UNCHANGED <<stack, blk, dirty, buf>>
      BY <2>2 DEF DirectWrite
    <3>2. InStack' = InStack
      BY <3>1 DEF InStack
    <3>3. ~Cached(f)'
      BY <2>2, <3>1, <3>2 DEF Cached
    <3>4. S!Uncovered(f)
      BY <3>3, UncoveredAfter
    <3>5. ASSUME NEW g \in Frag \ {f} PROVE Harmless(g)
      BY <1>1, <3>1, <3>2, QuietHarmless DEF SameBuffer
    <3> QED  BY <3>4, <3>5
  <2> QED  BY <2>1, <2>2
<1>3. S!Background(Frag \ {f})
  BY <1>2, HarmlessBackground
<1> QED  BY <1>1, <1>2, <1>3 DEF S!WriteThrough

(* A flush, after which the buffers stay or are all freed.                 *)
LEMMA FlushRefines ==
    ASSUME Inv, Inv', NEW ok \in SUBSET dirty, Flush(ok) \/ Remount(ok)
    PROVE  S!Sync
<1>1. Flushed /\ dirty' = {}
  BY FlushEffect DEF Flush, Remount
<1>2. ASSUME NEW f \in Frag PROVE SameBuffer(f)
  <2>1. CASE Flush(ok)
    <3>1. UNCHANGED <<stack, blk, buf>>
      BY <2>1 DEF Flush
    <3> QED  BY <3>1 DEF SameBuffer, InStack
  <2>2. CASE Remount(ok)
    <3>1. InStack' = {}
      BY <2>2 DEF Remount, Reopen, InStack, Elems
    <3> QED  BY <3>1 DEF SameBuffer
  <2> QED  BY <2>1, <2>2
<1>3. ASSUME NEW f \in Frag PROVE Harmless(f)
  BY <1>1, <1>2, FlushedHarmless
<1> QED  BY <1>3, HarmlessBackground DEF S!Sync

LEMMA DiskChangeRefines ==
    ASSUME Inv, Inv', PDiskChange
    PROVE  S!Replace
<1>1. disk' \in [Frag -> Data] /\ failed' = {} /\ dirty' = {}
  BY DEF PDiskChange, cache_full_invalidate
<1>2. InStack' = {}
  BY DEF PDiskChange, Reopen, InStack, Elems
<1>3. \A f \in Frag : ~Cached(f)'
  BY <1>2 DEF Cached
<1>4. \A f \in Frag : Seen'[f] = disk'[f] /\ f \notin Weak'
  BY <1>3, MappedAfter DEF Mapped
<1>5. Seen' = disk'
  <2>1. Seen' = [f \in Frag |-> Seen'[f]]
    BY DEF Seen
  <2> QED  BY <1>1, <1>4, <2>1
<1>6. Pending' = {} /\ Weak' = {}
  <2>1. Weak' \subseteq Frag
    BY DEF Weak
  <2>2. Pending' = {}
    BY <1>1 DEF Pending
  <2> QED  BY <1>4, <2>1, <2>2
<1>7. Doubled' = {}
  BY <1>2 DEF Doubled
<1> QED  BY <1>1, <1>5, <1>6, <1>7 DEF S!Replace

(* The calls that touch no buffer.                                         *)
LEMMA QuietRefines ==
    ASSUME Inv, Inv', NEW f \in Frag,
           \/ Hit(f) \/ MissNoBuffer(f) \/ MoveNoBuffer(f)
           \/ AdjustNoMemory \/ AdjustDone
           \/ \E ro \in BOOLEAN : PWriteProtect(ro)
           \/ \E amount \in Amounts : PMoreCache(amount)
           \/ \E n \in Node : AdjustGrow(n)
    PROVE  S!Sync
<1>1. UNCHANGED <<blk, buf, dirty, disk>>
  BY DEF Hit, MissNoBuffer, MoveNoBuffer, AdjustNoMemory, AdjustDone,
         PWriteProtect, PMoreCache, AdjustGrow
<1>2. CASE Hit(f)
  <2>1. InStack' = InStack
    BY <1>2, NodeFound, RefreshKeeps DEF Hit
  <2> QED  BY <1>1, <2>1, QuietSync
<1>3. ASSUME NEW n \in Node, AdjustGrow(n) PROVE S!Sync
  <2>1. n \notin InStack /\ stack' = Append(stack, n)
    BY <1>3 DEF AdjustGrow, Free
  <2>2. Listing(stack', InStack \cup {n}, Node)
    BY <2>1, Listed, ListingAppend
  <2>3. InStack' = InStack \cup {n}
    BY <2>2 DEF Listing, InStack
  <2>4. blk[n] = 0
    BY <2>1 DEF Inv, ListsAgree
  <2> QED  BY <1>1, <2>3, <2>4, QuietSync
<1>4. CASE stack' = stack
  <2>1. InStack' = InStack
    BY <1>4 DEF InStack
  <2> QED  BY <1>1, <2>1, QuietSync
<1>5. Hit(f) \/ stack' = stack \/ \E n \in Node : AdjustGrow(n)
  BY DEF MissNoBuffer, MoveNoBuffer, AdjustNoMemory, AdjustDone,
         PWriteProtect, PMoreCache
<1> QED  BY <1>2, <1>3, <1>4, <1>5

-----------------------------------------------------------------------------
(* The calls of Next, one after the other.                                 *)
LEMMA NextRefines ==
    ASSUME Inv, Inv', Next
    PROVE  S!Next \/ UNCHANGED S!vars
<1>0. PICK f0 \in Frag : TRUE
  BY FragAssumption
<1>1. ASSUME NEW f \in Frag, cache_frag(f) PROVE S!Next
  <2>1. CASE Hit(f) \/ MissNoBuffer(f)
    BY <2>1, QuietRefines DEF S!Next
  <2>2. ASSUME NEW ok \in SUBSET dirty, MissRead(f, ok) \/ MissFault(f, ok)
        PROVE  S!Next
    BY <2>2, MissReadRefines, MissFaultRefines DEF S!Next
  <2> QED  BY <1>1, <2>1, <2>2 DEF cache_frag
<1>2. ASSUME NEW f \in Frag, cache_invalidate(f) PROVE S!Next
  BY <1>2, InvalidateRefines DEF S!Next
<1>3. ASSUME NEW f \in Frag, NEW d \in Data, cache_frag_write(f, d)
      PROVE  S!Next
  <2>1. S!Write(f, d)
    BY <1>3, HitWriteRefines, MissWriteRefines DEF cache_frag_write
  <2> QED  BY <2>1 DEF S!Next
<1>4. ASSUME NEW f \in Frag, NEW d \in Data, NEW good \in BOOLEAN,
             DirectWrite(f, d, good)
      PROVE  S!Next
  BY <1>4, DirectWriteRefines DEF S!Next
<1>5. ASSUME NEW ok \in SUBSET dirty, Flush(ok) \/ Remount(ok) PROVE S!Next
  BY <1>5, FlushRefines DEF S!Next
<1>6. CASE \/ \E ro \in BOOLEAN : PWriteProtect(ro)
           \/ \E amount \in Amounts : PMoreCache(amount)
  BY <1>0, <1>6, QuietRefines DEF S!Next
<1>7. CASE PDiskChange
  BY <1>7, DiskChangeRefines DEF S!Next
<1>8. CASE cache_adjust
  <2>1. CASE AdjustNoMemory \/ AdjustDone \/ \E n \in Node : AdjustGrow(n)
    BY <1>0, <2>1, QuietRefines DEF S!Next
  <2>2. ASSUME NEW ok \in SUBSET dirty, AdjustShrink(ok) PROVE S!Next
    BY <2>2, AdjustShrinkRefines DEF S!Next
  <2> QED  BY <1>8, <2>1, <2>2 DEF cache_adjust
<1>9. CASE UNCHANGED vars
  BY <1>9 DEF vars, S!vars, Seen, Pending, Weak, View, Cached, cache_node,
              InStack, Doubled
<1>10. ASSUME NEW to \in Frag, NEW from \in Frag, cache_frag_move(to, from)
       PROVE  S!Next
  <2>1. to # from
    BY <1>10 DEF cache_frag_move
  <2>2. CASE MoveHit(to, from)
    BY <2>1, <2>2, MoveHitRefines DEF S!Next
  <2>3. ASSUME NEW ok \in SUBSET dirty, MoveMiss(to, from, disk[from], ok)
        PROVE  S!Next
    <3>1. disk[from] \in Data
      BY DEF Inv, TypeOK
    <3>2. S!Move(to, from)
      BY <2>1, <2>3, <3>1, MoveMissRefines
    <3> QED  BY <3>2 DEF S!Next
  <2>4. ASSUME NEW d \in Data, NEW ok \in SUBSET dirty, MoveMiss(to, from, d, ok)
        PROVE  S!Next
    <3>1. S!MoveGarbage(to)
      BY <2>1, <2>4, MoveMissRefines
    <3> QED  BY <3>1 DEF S!Next
  <2>5. CASE MoveNoBuffer(from)
    BY <2>5, QuietRefines DEF S!Next
  <2> QED  BY <1>10, <2>2, <2>3, <2>4, <2>5 DEF cache_frag_move, MoveFault
<1>11. CASE Calls
  <2>1. CASE \E f \in Frag : cache_frag(f) \/ cache_invalidate(f)
    BY <1>1, <1>2, <2>1
  <2>2. CASE \E f \in Frag, d \in Data :
               cache_frag_write(f, d) \/ DirectWrite(f, d, TRUE)
    BY <1>3, <1>4, <2>2
  <2>3. CASE \E f \in Frag : DirectWrite(f, Uninit, FALSE)
    BY <1>4, <2>3, DataAssumption
  <2>4. CASE \E ok \in SUBSET dirty : Flush(ok) \/ Remount(ok)
    BY <1>5, <2>4
  <2> QED
    BY <1>6, <1>7, <1>8, <1>9, <1>11, <2>1, <2>2, <2>3, <2>4 DEF Calls, Wild
<1> QED  BY <1>10, <1>11 DEF Next

LEMMA StutterRefines == UNCHANGED vars => UNCHANGED S!vars
  BY DEF vars, S!vars, Seen, Pending, Weak, View, Cached, cache_node, InStack,
         Doubled

LEMMA InitRefines == Init => S!Init
<1> SUFFICES ASSUME Init PROVE S!Init
  OBVIOUS
<1>1. Mapped
  BY InitInv, MappedFromInv
<1>2. disk \in [Frag -> Data] /\ failed = {} /\ dirty = {}
  BY DEF Init
<1>3. \A f \in Frag : ~Cached(f)
  BY DEF Init, Cached, InStack, Elems
<1>4. \A f \in Frag : Seen[f] = disk[f] /\ f \notin Weak
  BY <1>1, <1>3 DEF Mapped
<1>5. Seen = disk
  <2>1. Seen = [f \in Frag |-> Seen[f]]
    BY DEF Seen
  <2> QED  BY <1>2, <1>4, <2>1
<1>6. Pending = {} /\ Weak = {}
  <2>1. Weak \subseteq Frag
    BY DEF Weak
  <2>2. Pending = {}
    BY <1>2 DEF Pending
  <2> QED  BY <1>4, <2>1, <2>2
<1>7. Doubled = {}
  BY <1>3 DEF Doubled, Cached
<1> QED  BY <1>2, <1>5, <1>6, <1>7 DEF S!Init

(* The fragment cache is a disk with delayed write-back, for any number of *)
(* frags and buffers and any sequence of calls, faults, resizes, remounts  *)
(* and changes of the medium, but for a frag that cache_frag_move() gave a *)
(* second buffer, as long as it has two (cache.c:64-841).                  *)
THEOREM CacheIsStore == Spec => ReadsAsWritten
<1>1. Init => Store!Init
  <2>1. S!Init => Store!Init
    BY DEF S!Init, Store!Init, Seen, Pending, Weak
  <2> QED  BY <2>1, InitRefines
<1>2. Inv /\ Inv' /\ [Next]_vars => [Store!Next]_(Store!vars)
  <2>1. Inv /\ Inv' /\ [Next]_vars => [S!Next]_(S!vars)
    BY NextRefines, StutterRefines
  <2>2. [S!Next]_(S!vars) => [Store!Next]_(Store!vars)
    BY DEF S!Next, S!vars, Store!Next, Store!vars, Seen, Pending, Weak,
       S!Write, S!WriteThrough, S!Move, S!MoveGarbage, S!Discard, S!Sync, S!Replace,
       S!PutBefore, S!Uncovered, S!StaysWhole, S!Background, S!Kept, S!WrittenBack, S!WriteBackFailed, S!FellBack,
       Store!Write, Store!WriteThrough, Store!Move, Store!MoveGarbage,
       Store!Discard, Store!Sync, Store!Replace, Store!PutBefore,
       Store!Uncovered, Store!StaysWhole,
       Store!Background, Store!Kept, Store!WrittenBack, Store!WriteBackFailed,
       Store!FellBack
  <2> QED  BY <2>1, <2>2
<1> QED
  BY <1>1, <1>2, Invariance, PTL DEF Spec, ReadsAsWritten, Store!Spec

(* A step that makes all buffers clean is a flush, unless it unlinks some. *)
LEMMA CleanedIsFlushed ==
    ASSUME Inv, Next, dirty # {}, dirty' = {}, UNCHANGED <<stack, blk>>
    PROVE  Flushed
<1>1. dirty \subseteq InStack /\ stack # <<>>
  BY Listed DEF Inv, DirtyCounted
<1>2. ASSUME NEW f \in Frag, cache_frag(f) PROVE Flushed
  <2>1. CASE Hit(f) \/ MissNoBuffer(f)
    BY <2>1 DEF Hit, MissNoBuffer
  <2>2. ASSUME NEW ok \in SUBSET dirty, cache_cycle_dirty(ok) PROVE Flushed
    BY <2>2, FlushEffect DEF cache_cycle_dirty
  <2> QED  BY <1>2, <2>1, <2>2 DEF cache_frag, MissRead, MissFault
<1>3. ASSUME NEW f \in Frag, Cached(f), blk' = [blk EXCEPT ![cache_node(f)] = 0]
      PROVE  FALSE
  <2>1. cache_node(f) \in Node /\ blk[cache_node(f)] = f /\ f # 0
    BY <1>3, NodeFound, Listed, FragAssumption
  <2>2. blk'[cache_node(f)] = 0
    BY <1>3, <2>1 DEF Inv, TypeOK
  <2> QED  BY <2>1, <2>2
<1>4. ASSUME NEW f \in Frag, cache_invalidate(f) PROVE Flushed
  BY <1>3, <1>4 DEF cache_invalidate
<1>5. ASSUME NEW f \in Frag, NEW d \in Data, cache_frag_write(f, d)
      PROVE  Flushed
  BY <1>5 DEF cache_frag_write, HitWrite, MissWrite, MarkDirty, MarkTakenDirty
<1>6. ASSUME NEW f \in Frag, NEW d \in Data, NEW good \in BOOLEAN,
             DirectWrite(f, d, good)
      PROVE  Flushed
  BY <1>3, <1>6 DEF DirectWrite
<1>7. ASSUME NEW ok \in SUBSET dirty, Flush(ok) \/ Remount(ok) PROVE Flushed
  BY <1>7, FlushEffect DEF Flush, Remount
<1>8. CASE \/ \E ro \in BOOLEAN : PWriteProtect(ro)
           \/ \E amount \in Amounts : PMoreCache(amount)
  BY <1>8 DEF PWriteProtect, PMoreCache
<1>9. CASE PDiskChange
  BY <1>1, <1>9 DEF PDiskChange, Reopen
<1>10. CASE cache_adjust
  <2>1. CASE AdjustNoMemory \/ AdjustDone \/ \E n \in Node : AdjustGrow(n)
    BY <2>1 DEF AdjustNoMemory, AdjustDone, AdjustGrow
  <2>2. ASSUME NEW ok \in SUBSET dirty, AdjustShrink(ok) PROVE Flushed
    BY <2>2, FlushEffect DEF AdjustShrink
  <2> QED  BY <1>10, <2>1, <2>2 DEF cache_adjust
<1>11. CASE Wild
  BY <1>11 DEF Wild, vars
<1>12. ASSUME NEW to \in Frag, NEW from \in Frag, cache_frag_move(to, from)
       PROVE  Flushed
  BY <1>12 DEF cache_frag_move, MoveHit, MoveMiss, MoveFault, MoveNoBuffer,
               MarkDirty, MarkTakenDirty
<1>13. CASE Calls
  <2>1. CASE \E f \in Frag : cache_frag(f) \/ cache_invalidate(f)
    BY <1>2, <1>4, <2>1
  <2>2. CASE \E f \in Frag, d \in Data :
               cache_frag_write(f, d) \/ DirectWrite(f, d, TRUE)
    BY <1>5, <1>6, <2>2
  <2>3. CASE \E f \in Frag : DirectWrite(f, Uninit, FALSE)
    BY <1>6, <2>3, DataAssumption
  <2>4. CASE \E ok \in SUBSET dirty : Flush(ok) \/ Remount(ok)
    BY <1>7, <2>4
  <2> QED
    BY <1>8, <1>9, <1>10, <1>11, <1>13, <2>1, <2>2, <2>3, <2>4 DEF Calls
<1> QED  BY <1>12, <1>13 DEF Next

(* A flush in which every data_write() succeeds leaves each dirty frag on  *)
(* the medium as one of its dirty buffers had it, and as readers saw it    *)
(* unless it had two buffers, in whatever order the buffers were used      *)
(* (cache.c:556-653).                                                      *)
THEOREM FlushAlwaysSynchronizes == Spec => FlushSynchronizes
<1> DEFINE Step ==
        (dirty # {} /\ dirty' = {} /\ failed' = {} /\ UNCHANGED <<stack, blk>>)
           => \A n \in dirty :
                 /\ \E m \in dirty : blk[m] = blk[n] /\ disk'[blk[n]] = buf[m]
                 /\ blk[n] \notin Doubled => disk'[blk[n]] = View(blk[n])
<1>1. Inv /\ [Next]_vars => [Step]_vars
  <2> SUFFICES ASSUME Inv, Next, dirty # {}, dirty' = {}, failed' = {},
                      UNCHANGED <<stack, blk>>, NEW n \in dirty
               PROVE  /\ \E m \in dirty : /\ blk[m] = blk[n]
                                          /\ disk'[blk[n]] = buf[m]
                      /\ blk[n] \notin Doubled => disk'[blk[n]] = View(blk[n])
    OBVIOUS
  <2>1. Flushed
    BY CleanedIsFlushed
  <2>2. n \in InStack /\ blk[n] \in Frag
    BY DirtyFacts DEF Inv, DirtyCounted
  <2>3. \E m \in dirty : blk[m] = blk[n] /\ disk'[blk[n]] = buf[m]
    BY <2>1 DEF Flushed
  <2>4. ASSUME blk[n] \notin Doubled PROVE disk'[blk[n]] = View(blk[n])
    <3>1. disk'[blk[n]] = buf[n]
      BY <2>1, <2>4, FlushedOne
    <3>2. Seen[blk[n]] = buf[n]
      BY <2>2, <2>4, MappedFromInv DEF Mapped, MappedBy
    <3> QED  BY <2>2, <3>1, <3>2 DEF Seen
  <2> QED  BY <2>3, <2>4
<1> QED  BY <1>1, Invariance, PTL DEF Spec, FlushSynchronizes
=============================================================================
