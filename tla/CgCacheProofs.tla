---------------------------- MODULE CgCacheProofs ----------------------------
(***************************************************************************)
(* Proofs about CgCache, for any number of groups and slots.               *)
(***************************************************************************)
EXTENDS CgCache, ListProofs

TypeOK ==
    /\ data \in [Slot -> Buffers \cup {NULL}]
    /\ state \in [Slot -> BOOLEAN]
    /\ cache_cg_size \in CgSizeMin..(CgMax - 1)
    /\ disk \in [Cg -> Val]
    /\ fs_ronly \in BOOLEAN /\ wild \in BOOLEAN
    /\ changed \in BOOLEAN /\ faulted \in BOOLEAN
    /\ failed \subseteq Cg

(* What is said of an array d of buffers, of which D are dirty.            *)

(* The first k slots are in use.                                           *)
Filled(d, k) ==
    /\ d \in [Slot -> Buffers \cup {NULL}]
    /\ \A i \in Slot : d[i] # NULL <=> i < k

Single(d) ==
    \A i, j \in Slot : /\ d[i] # NULL /\ d[j] # NULL
                       /\ d[i].cgx = d[j].cgx /\ d[i].cgx # Bad
                       => i = j

Strays(d, D) == \E i \in D : d[i] = NULL \/ d[i].cgx = Bad

(* A buffer without a dirty flag holds what the medium holds.              *)
Clean(d, D, medium) ==
    \A i \in Slot \ D :
        d[i] # NULL /\ d[i].cgx # Bad => d[i].val = medium[d[i].cgx]

Inv ==
    /\ TypeOK
    /\ \E k \in 0..cache_cg_size : Filled(data, k)
    /\ Single(data)
    /\ Strays(data, DirtySlots) => faulted
    /\ ~wild /\ ~changed => Clean(data, DirtySlots, disk)

LEMMA SlotBounds == CgMax \in Nat /\ CgSizeMin \in Nat /\ CgSizeMin > 0
                /\ CgMax > CgSizeMin
  BY SlotsAssumption

-----------------------------------------------------------------------------
(* Where the contents of slot i come from when slot pos is popped up.      *)
Source(i, pos, last) == IF i < pos \/ i > last THEN i
                        ELSE IF i = last THEN pos ELSE i + 1

LEMMA SourceMoves ==
    ASSUME NEW last \in Slot, NEW pos \in 0..last
    PROVE  /\ \A i \in Slot : /\ Source(i, pos, last) \in Slot
                              /\ Source(i, pos, last) <= last <=> i <= last
           /\ \A i, j \in Slot :
                 Source(i, pos, last) = Source(j, pos, last) => i = j
           /\ \A j \in Slot : \E i \in Slot : Source(i, pos, last) = j
<1>1. \A i \in Slot : /\ Source(i, pos, last) \in Slot
                      /\ Source(i, pos, last) <= last <=> i <= last
  BY SlotBounds DEF Source, Slot
<1>2. \A i, j \in Slot : Source(i, pos, last) = Source(j, pos, last) => i = j
  BY SlotBounds DEF Source, Slot
<1>3. ASSUME NEW j \in Slot PROVE \E i \in Slot : Source(i, pos, last) = j
  <2> DEFINE i == IF j < pos \/ j > last THEN j
                  ELSE IF j = pos THEN last ELSE j - 1
  <2>1. i \in Slot /\ Source(i, pos, last) = j
    BY SlotBounds DEF Source, Slot
  <2> QED  BY <2>1
<1> QED  BY <1>1, <1>2, <1>3

LEMMA PoppedFrom ==
    ASSUME NEW a, NEW last \in Slot, NEW pos \in 0..last
    PROVE  \A i \in Slot : Popped(a, pos, last)[i] = a[Source(i, pos, last)]
  BY SlotBounds DEF Popped, Source, Slot

(* Slot pos of array d, whose first k slots are in use, is popped up.      *)
Pop(d, D, k, pos, d1, D1) ==
    /\ k \in Nat /\ k > 0 /\ k <= CgMax /\ pos \in 0..(k - 1)
    /\ Filled(d, k) /\ D \subseteq Slot
    /\ d1 = Popped(d, pos, k - 1)
    /\ D1 = {i \in Slot : Source(i, pos, k - 1) \in D}

(* That is a permutation of the slots in use.                              *)
LEMMA PopKeeps ==
    ASSUME NEW d, NEW D, NEW k, NEW pos, NEW d1, NEW D1,
           Pop(d, D, k, pos, d1, D1)
    PROVE  /\ Filled(d1, k)
           /\ Single(d) => Single(d1)
           /\ Strays(d1, D1) => Strays(d, D)
           /\ \A medium : Clean(d, D, medium) => Clean(d1, D1, medium)
<1> USE DEF Pop
<1> DEFINE last == k - 1
<1>0. last \in Slot /\ pos \in 0..last
  BY SlotBounds DEF Slot
<1> DEFINE src(i) == Source(i, pos, last)
<1>1. /\ \A i \in Slot : src(i) \in Slot /\ (src(i) <= last <=> i <= last)
      /\ \A i, j \in Slot : src(i) = src(j) => i = j
  BY <1>0, SourceMoves
<1>2. \A i \in Slot : d1[i] = d[src(i)]
  BY <1>0, PoppedFrom
<1>3. d1 = [i \in Slot |-> d1[i]]
  BY DEF Popped
<1> HIDE DEF src
<1>4. d1 \in [Slot -> Buffers \cup {NULL}]
  <2>1. \A i \in Slot : d1[i] \in Buffers \cup {NULL}
    BY <1>1, <1>2 DEF Filled
  <2> QED  BY <1>3, <2>1
<1>5. \A i \in Slot : d1[i] # NULL <=> i < k
  <2>1. \A i \in Slot : i \in Int
    BY SlotBounds DEF Slot
  <2>2. ASSUME NEW i \in Slot PROVE d1[i] # NULL <=> i < k
    <3>1. d[src(i)] # NULL <=> src(i) < k
      BY <1>1 DEF Filled
    <3>2. src(i) < k <=> i < k
      BY <1>1, <2>1
    <3> QED  BY <1>2, <3>1, <3>2
  <2> QED  BY <2>2
<1>6. Single(d) => Single(d1)
  BY <1>1, <1>2 DEF Single
<1>7. \A i \in D1 : i \in Slot /\ src(i) \in D
  BY DEF src
<1>8. Strays(d1, D1) => Strays(d, D)
  BY <1>2, <1>7 DEF Strays
<1>9. ASSUME NEW medium, Clean(d, D, medium) PROVE Clean(d1, D1, medium)
  <2>1. \A i \in Slot \ D1 : src(i) \in Slot \ D
    BY <1>1 DEF src
  <2> QED  BY <1>2, <1>9, <2>1 DEF Clean
<1> QED  BY <1>4, <1>5, <1>6, <1>8, <1>9 DEF Filled

(* Slot p, the first unused one or one in use, takes buffer b.             *)
Put(d, D, k, p, b, d1, D1) ==
    /\ k \in Nat /\ p \in Slot /\ p <= k /\ b \in Buffers
    /\ Filled(d, k) /\ D \subseteq Slot
    /\ d1 = [d EXCEPT ![p] = b]
    /\ D1 \subseteq Slot /\ D1 \ {p} = D \ {p}

LEMMA PutKeeps ==
    ASSUME NEW d, NEW D, NEW k, NEW p, NEW b, NEW d1, NEW D1,
           Put(d, D, k, p, b, d1, D1)
    PROVE  /\ Filled(d1, IF p < k THEN k ELSE k + 1)
           /\ /\ Single(d)
              /\ \A i \in Slot \ {p} : d[i] # NULL => d[i].cgx # b.cgx
                                                     \/ b.cgx = Bad
              => Single(d1)
           /\ Strays(d1, D1) => Strays(d, D) \/ (p \in D1 /\ b.cgx = Bad)
           /\ \A medium :
                 /\ Clean(d, D, medium)
                 /\ p \notin D1 /\ b.cgx # Bad => b.val = medium[b.cgx]
                 => Clean(d1, D1, medium)
<1> USE DEF Put
<1>1. /\ d1 \in [Slot -> Buffers \cup {NULL}] /\ d1[p] = b
      /\ \A i \in Slot \ {p} : d1[i] = d[i]
  BY DEF Filled
<1>2. b # NULL
  BY NullAssumption
<1>3. \A i \in Slot : i \in Nat
  BY SlotBounds DEF Slot
<1>4. Filled(d1, IF p < k THEN k ELSE k + 1)
  <2>1. ASSUME NEW i \in Slot
        PROVE  d1[i] # NULL <=> i < IF p < k THEN k ELSE k + 1
    <3>1. CASE i = p
      BY <1>1, <1>2, <1>3, <3>1
    <3>2. CASE i # p
      <4>1. d1[i] # NULL <=> i < k
        BY <1>1, <3>2 DEF Filled
      <4> QED  BY <1>3, <3>2, <4>1
    <3> QED  BY <3>1, <3>2
  <2> QED  BY <1>1, <2>1 DEF Filled
<1>5. ASSUME Single(d),
             \A i \in Slot \ {p} : d[i] # NULL => d[i].cgx # b.cgx
                                                 \/ b.cgx = Bad
      PROVE  Single(d1)
  BY <1>1, <1>2, <1>5 DEF Single
<1>6. ASSUME Strays(d1, D1) PROVE Strays(d, D) \/ (p \in D1 /\ b.cgx = Bad)
  <2>1. PICK i \in D1 : d1[i] = NULL \/ d1[i].cgx = Bad
    BY <1>6 DEF Strays
  <2>2. CASE i = p
    BY <1>1, <1>2, <2>1, <2>2
  <2>3. CASE i # p
    <3>1. i \in D /\ d1[i] = d[i]
      BY <1>1, <2>1, <2>3
    <3> QED  BY <2>1, <3>1 DEF Strays
  <2> QED  BY <2>2, <2>3
<1>7. ASSUME NEW medium, Clean(d, D, medium),
             p \notin D1 /\ b.cgx # Bad => b.val = medium[b.cgx]
      PROVE  Clean(d1, D1, medium)
  <2> SUFFICES ASSUME NEW i \in Slot \ D1, d1[i] # NULL, d1[i].cgx # Bad
               PROVE  d1[i].val = medium[d1[i].cgx]
    BY DEF Clean
  <2>1. CASE i = p
    BY <1>1, <1>7, <2>1
  <2>2. CASE i # p
    <3>1. i \in Slot \ D /\ d1[i] = d[i]
      BY <1>1, <2>2
    <3> QED  BY <1>7, <3>1 DEF Clean
  <2> QED  BY <2>1, <2>2
<1> QED  BY <1>4, <1>5, <1>6, <1>7

-----------------------------------------------------------------------------
(* What the code's searches find.                                          *)
LEMMA Found ==
    ASSUME Inv
    PROVE  \E k \in 0..cache_cg_size :
              /\ Filled(data, k) /\ InUse = 0..(k - 1)
              /\ k \in Slot /\ FirstNull = k
              /\ k # 0 => Last(data) = k - 1
              /\ Room <=> k < cache_cg_size
<1>1. PICK k \in 0..cache_cg_size : Filled(data, k)
  BY DEF Inv
<1>2. /\ cache_cg_size \in 1..(CgMax - 1) /\ k \in Nat /\ k <= CgMax - 1
      /\ k \in Slot
  BY SlotBounds DEF Inv, TypeOK, Slot
<1>3. \A i \in Slot : i \in Nat /\ (data[i] # NULL <=> i < k)
  BY <1>1, SlotBounds DEF Filled, Slot
<1>4. InUse = 0..(k - 1)
  BY <1>2, <1>3, SlotBounds DEF InUse, Slot
<1>5. FirstNull = k
  <2>1. k \notin InUse /\ \A j \in 0..(k - 1) : j \in InUse
    BY <1>4
  <2>2. ASSUME NEW i \in Slot, i \notin InUse, \A j \in 0..(i - 1) : j \in InUse
        PROVE  i = k
    <3>1. i >= k
      BY <1>2, <1>3, <1>4, <2>2
    <3>2. ~(i > k)
      BY <1>2, <1>3, <2>1, <2>2
    <3> QED  BY <1>2, <1>3, <3>1, <3>2
  <2> QED  BY <1>2, <2>1, <2>2 DEF FirstNull
<1>6. ASSUME k # 0 PROVE Last(data) = k - 1
  <2>1. /\ k - 1 \in Slot /\ data[k - 1] # NULL
        /\ \A j \in Slot : j > k - 1 => data[j] = NULL
    BY <1>2, <1>3, <1>6, SlotBounds DEF Slot
  <2>2. ASSUME NEW i \in Slot, data[i] # NULL,
               \A j \in Slot : j > i => data[j] = NULL
        PROVE  i = k - 1
    BY <1>2, <1>3, <2>1, <2>2
  <2> QED  BY <2>1, <2>2 DEF Last
<1>7. Room <=> k < cache_cg_size
  BY <1>2, <1>4 DEF Room, Searched
<1> QED  BY <1>1, <1>2, <1>4, <1>5, <1>6, <1>7

LEMMA SlotFound ==
    ASSUME Inv, NEW c \in Cg
    PROVE  /\ Hit(c) => SlotOf(c) \in InUse /\ Holds(SlotOf(c), c)
           /\ \A i \in InUse : data[i].cgx = c => Hit(c) /\ SlotOf(c) = i
<1>1. PICK k \in 0..cache_cg_size : InUse = 0..(k - 1)
  BY Found
<1>2. cache_cg_size \in Nat /\ Searched \subseteq Slot /\ InUse \subseteq Searched
  BY <1>1, SlotBounds DEF Inv, TypeOK, Searched, Slot
<1>3. ASSUME Hit(c) PROVE SlotOf(c) \in InUse /\ Holds(SlotOf(c), c)
  <2>1. SlotOf(c) \in Searched /\ Holds(SlotOf(c), c)
    BY <1>3 DEF Hit, SlotOf
  <2> QED  BY <1>2, <2>1 DEF Holds, InUse
<1>4. ASSUME NEW i \in InUse, data[i].cgx = c PROVE Hit(c) /\ SlotOf(c) = i
  <2>1. i \in Searched /\ Holds(i, c)
    BY <1>2, <1>4 DEF Holds, InUse
  <2>2. Hit(c)
    BY <2>1 DEF Hit
  <2>3. data[SlotOf(c)] # NULL /\ data[SlotOf(c)].cgx = c /\ SlotOf(c) \in Slot
    BY <1>2, <1>3, <2>2 DEF Holds
  <2>4. c # Bad
    BY BadAssumption
  <2>5. data[i] # NULL /\ i \in Slot
    BY DEF InUse
  <2>6. SlotOf(c) = i
    BY <1>4, <2>3, <2>4, <2>5 DEF Inv, Single
  <2> QED  BY <2>2, <2>6
<1> QED  BY <1>3, <1>4

(* A miss: no slot holds the group.                                        *)
LEMMA NotHeld ==
    ASSUME Inv, NEW c \in Cg, ~Hit(c)
    PROVE  \A i \in Slot : data[i] # NULL => data[i].cgx # c
  BY SlotFound DEF InUse

-----------------------------------------------------------------------------
(* The medium keeps what a flush does not name, and gets the contents of   *)
(* the one dirty buffer of a group that it does.                           *)
LEMMA FlushedDiskIs ==
    ASSUME Inv, NEW ok, Flushable(ok)
    PROVE  /\ FlushedDisk(ok) \in [Cg -> Val]
           /\ \A c \in Cg \ ok : FlushedDisk(ok)[c] = disk[c]
           /\ \A i \in InUse : data[i].cgx \in ok =>
                 i \in DirtySlots /\ FlushedDisk(ok)[data[i].cgx] = data[i].val
<1>1. ok \subseteq Cg /\ ok \subseteq DirtyCgs
  BY DEF Flushable
<1>2. ASSUME NEW c \in ok
      PROVE  \E j \in DirtySlots \cap InUse :
                /\ data[j].cgx = c
                /\ FlushedDisk(ok)[c] = data[j].val
                /\ \A i \in InUse : data[i].cgx = c => i = j
  <2>1. PICK j \in DirtySlots \cap InUse : data[j].cgx = c
    BY <1>1 DEF DirtyCgs
  <2>2. c \in Cg /\ c # Bad
    BY <1>1, BadAssumption
  <2>3. \A i \in InUse : data[i].cgx = c => i = j
    BY <2>1, <2>2 DEF InUse, Inv, Single
  <2>4. j \in DirtySlots /\ Holds(j, c)
    BY <2>1 DEF Holds, InUse
  <2>5. \A i \in DirtySlots : Holds(i, c) => i = j
    BY <2>3 DEF Holds, InUse, DirtySlots
  <2>6. (CHOOSE i \in DirtySlots : Holds(i, c)) = j
    BY <2>4, <2>5
  <2>7. FlushedDisk(ok)[c] = data[j].val
    BY <2>2, <2>6 DEF FlushedDisk
  <2> QED  BY <2>1, <2>3, <2>7
<1>3. ASSUME NEW c \in Cg \ ok PROVE FlushedDisk(ok)[c] = disk[c]
  BY DEF FlushedDisk
<1>4. ASSUME NEW i \in InUse, data[i].cgx \in ok
      PROVE  i \in DirtySlots /\ FlushedDisk(ok)[data[i].cgx] = data[i].val
  BY <1>2, <1>4
<1>5. FlushedDisk(ok) \in [Cg -> Val]
  <2>1. \A c \in Cg : FlushedDisk(ok)[c] \in Val
    <3>1. \A j \in InUse : data[j].val \in Val
      BY NullAssumption DEF Inv, TypeOK, InUse, Buffers
    <3>2. \A c \in Cg : disk[c] \in Val
      BY DEF Inv, TypeOK
    <3> QED  BY <1>2, <1>3, <3>1, <3>2
  <2>2. FlushedDisk(ok) = [c \in Cg |-> FlushedDisk(ok)[c]]
    BY DEF FlushedDisk
  <2> QED  BY <2>1, <2>2
<1> QED  BY <1>3, <1>4, <1>5

(* The dirty flags that a flush leaves.                                    *)
StillDirty(ok) == {i \in DirtySlots : ~(i \in InUse /\ data[i].cgx \in ok)}

LEMMA FlushedStateIs ==
    ASSUME Inv, NEW ok
    PROVE  /\ FlushedState(ok) \in [Slot -> BOOLEAN]
           /\ StillDirty(ok) = {i \in Slot : FlushedState(ok)[i]}
           /\ StillDirty(ok) \subseteq DirtySlots
<1>1. FlushedState(ok) \in [Slot -> BOOLEAN]
  BY Zenon DEF FlushedState
<1>2. \A i \in Slot : FlushedState(ok)[i] <=>
                         state[i] /\ ~(i \in InUse /\ data[i].cgx \in ok)
  BY Zenon DEF FlushedState
<1>3. StillDirty(ok) = {i \in Slot : FlushedState(ok)[i]}
  BY <1>2, Zenon DEF StillDirty, DirtySlots
<1> QED  BY <1>1, <1>3 DEF StillDirty

(* After a flush every buffer without a dirty flag is on the medium, and a *)
(* flag that is left on a group of the volume is a failed write.           *)
LEMMA FlushCleans ==
    ASSUME Inv, ~wild, ~changed, NEW ok, Flushable(ok)
    PROVE  Clean(data, StillDirty(ok), FlushedDisk(ok))
<1> SUFFICES ASSUME NEW i \in Slot \ StillDirty(ok), data[i] # NULL,
                    data[i].cgx # Bad
             PROVE  data[i].val = FlushedDisk(ok)[data[i].cgx]
  BY DEF Clean
<1>1. i \in InUse /\ data[i].cgx \in Cg
  BY DEF InUse, Inv, TypeOK, Buffers
<1>2. CASE data[i].cgx \in ok
  BY <1>1, <1>2, FlushedDiskIs
<1>3. CASE data[i].cgx \notin ok
  <2>1. i \notin DirtySlots
    BY <1>3 DEF StillDirty
  <2>2. data[i].val = disk[data[i].cgx]
    BY <2>1 DEF Inv, Clean
  <2> QED  BY <1>1, <1>3, <2>2, FlushedDiskIs
<1> QED  BY <1>2, <1>3

LEMMA FlagLeft ==
    ASSUME Inv, NEW ok, NEW i \in StillDirty(ok)
    PROVE  faulted \/ (i \in InUse /\ data[i].cgx \in FailedCgs(ok))
<1>1. i \in DirtySlots /\ i \in Slot
  BY DEF StillDirty, DirtySlots
<1>2. CASE data[i] = NULL \/ data[i].cgx = Bad
  BY <1>1, <1>2 DEF Inv, Strays
<1>3. CASE data[i] # NULL /\ data[i].cgx # Bad
  <2>1. i \in InUse /\ data[i].cgx \in Cg
    BY <1>1, <1>3 DEF InUse, Inv, TypeOK, Buffers
  <2>2. data[i].cgx \in DirtyCgs /\ data[i].cgx \notin ok
    BY <1>1, <2>1 DEF DirtyCgs, StillDirty
  <2> QED  BY <2>1, <2>2 DEF FailedCgs
<1> QED  BY <1>2, <1>3

LEMMA FailsMeans ==
    ASSUME NEW groups, groups \subseteq Cg, Fails(groups), faulted \in BOOLEAN
    PROVE  /\ failed' \subseteq Cg /\ faulted' \in BOOLEAN
           /\ faulted => faulted'
           /\ groups # {} => faulted'
           /\ faulted' => faulted \/ groups # {}
  BY Zenon DEF Fails

-----------------------------------------------------------------------------
(* One lemma per action.                                                   *)

LEMMA PFlushInv ==
    ASSUME Inv, NEW ok, PFlush(ok)
    PROVE  Inv'
<1>1. /\ ~wild /\ ~changed /\ Flushable(ok)
      /\ disk' = FlushedDisk(ok) /\ state' = FlushedState(ok)
      /\ Fails(FailedCgs(ok)) /\ wild' = (Stray /\ ~fs_ronly)
      /\ data' = data /\ cache_cg_size' = cache_cg_size
      /\ fs_ronly' = fs_ronly /\ changed' = changed
  BY DEF PFlush
<1>2. DirtySlots' = StillDirty(ok)
  BY <1>1, FlushedStateIs, Zenon DEF DirtySlots
<1>3. failed' \subseteq Cg /\ faulted' \in BOOLEAN /\ (faulted => faulted')
  BY <1>1, FailsMeans DEF FailedCgs, Inv, TypeOK
<1>4. wild' \in BOOLEAN
  BY <1>1, Zenon
<1>5. TypeOK'
  BY <1>1, <1>3, <1>4, FlushedStateIs, FlushedDiskIs DEF Inv, TypeOK, Slot
<1>6. Strays(data', DirtySlots') => faulted'
  BY <1>1, <1>2, <1>3, FlushedStateIs DEF Inv, Strays
<1>7. Clean(data', DirtySlots', disk')
  BY <1>1, <1>2, FlushCleans
<1> QED  BY <1>1, <1>5, <1>6, <1>7 DEF Inv, Filled, Single, Slot

(* The calls that find the group in the cache.                             *)
LEMMA DirtyPopped ==
    ASSUME NEW t \in [Slot -> BOOLEAN], NEW last \in Slot, NEW pos \in 0..last,
           state' = Popped(t, pos, last)
    PROVE  /\ state' \in [Slot -> BOOLEAN]
           /\ DirtySlots' = {i \in Slot : Source(i, pos, last) \in
                                              {j \in Slot : t[j]}}
<1>1. \A i \in Slot : /\ state'[i] = t[Source(i, pos, last)]
                      /\ Source(i, pos, last) \in Slot
  BY PoppedFrom, SourceMoves
<1>2. \A i \in Slot : state'[i] \in BOOLEAN
  BY <1>1, Zenon
<1>3. state' = [i \in Slot |-> state'[i]]
  BY DEF Popped
<1>4. state' \in [Slot -> BOOLEAN]
  BY <1>2, <1>3, Zenon
<1>5. \A i \in Slot : state'[i] <=> Source(i, pos, last) \in {j \in Slot : t[j]}
  BY <1>1, Zenon
<1>6. DirtySlots' = {i \in Slot : state'[i]}
  BY DEF DirtySlots, Slot
<1> QED  BY <1>4, <1>5, <1>6, Zenon

LEMMA ReadHitInv ==
    ASSUME Inv, NEW c \in Cg, ReadHit(c)
    PROVE  Inv'
<1>1. PICK k \in 0..cache_cg_size : /\ Filled(data, k) /\ InUse = 0..(k - 1)
                                    /\ k \in Slot
                                    /\ k # 0 => Last(data) = k - 1
  BY Found
<1>2. Hit(c) /\ ~wild /\ ~changed /\ Fails({})
      /\ UNCHANGED <<cache_cg_size, disk, fs_ronly, wild, changed>>
  BY DEF ReadHit
<1>3. PICK pos \in 0..(k - 1) : pos = SlotOf(c)
  BY <1>1, <1>2, SlotFound
<1>4. /\ k \in Nat /\ k > 0 /\ k <= CgMax /\ k - 1 \in Slot
      /\ cache_cg_size \in Nat
  BY <1>1, <1>3, SlotBounds DEF Slot, Inv, TypeOK
<1>5. /\ data' = Popped(data, pos, k - 1)
      /\ state' = Popped(state, pos, k - 1)
  BY <1>1, <1>3, <1>4 DEF ReadHit
<1>6. /\ state' \in [Slot -> BOOLEAN]
      /\ DirtySlots' = {i \in Slot : Source(i, pos, k - 1) \in DirtySlots}
  BY <1>4, <1>5, DirtyPopped DEF DirtySlots, Inv, TypeOK
<1>7. DirtySlots \subseteq Slot
  BY DEF DirtySlots
<1>8. /\ Filled(data', k) /\ Single(data')
      /\ Strays(data', DirtySlots') => Strays(data, DirtySlots)
      /\ Clean(data', DirtySlots', disk)
  <2>1. Pop(data, DirtySlots, k, pos, data', DirtySlots')
    BY <1>1, <1>4, <1>5, <1>6, <1>7 DEF Pop
  <2>2. Single(data) /\ Clean(data, DirtySlots, disk)
    BY <1>2 DEF Inv
  <2> QED  BY <2>1, <2>2, PopKeeps
<1>9. /\ failed' \subseteq Cg /\ faulted' \in BOOLEAN /\ (faulted => faulted')
  BY <1>2, FailsMeans DEF Inv, TypeOK
<1>10. TypeOK'
  BY <1>2, <1>6, <1>8, <1>9 DEF Inv, TypeOK, Filled, Slot
<1>11. (\E n \in 0..cache_cg_size : Filled(data, n))'
  BY <1>2, <1>8 DEF Filled, Slot
<1> QED  BY <1>2, <1>8, <1>9, <1>10, <1>11 DEF Inv, Single, Clean, Slot

LEMMA WriteHitInv ==
    ASSUME Inv, NEW c \in Cg, NEW v \in Val, WriteHit(c, v)
    PROVE  Inv'
<1>1. PICK k \in 0..cache_cg_size : Filled(data, k) /\ InUse = 0..(k - 1)
                                    /\ k \in Slot
  BY Found
<1>2. Hit(c) /\ ~wild /\ ~changed /\ Fails({})
      /\ UNCHANGED <<cache_cg_size, disk, fs_ronly, wild, changed>>
  BY DEF WriteHit
<1>3. PICK p \in InUse : p = SlotOf(c) /\ data[p].cgx = c
  BY <1>2, SlotFound DEF Holds
<1>4. p \in Slot /\ p <= k /\ p < k /\ k \in Nat /\ data[p] \in Buffers
  BY <1>1, <1>3, SlotBounds DEF Slot, InUse, Inv, TypeOK
<1> DEFINE b == Buffer(c, v)
<1>5. b \in Buffers /\ b.cgx = c /\ b.val = v /\ c # Bad
  BY BadAssumption DEF Buffer, Buffers
<1>6. data' = [data EXCEPT ![p] = b]
  <2>1. data' = [data EXCEPT ![p].val = v]
    BY <1>3 DEF WriteHit
  <2>2. [data[p] EXCEPT !.val = v] = b
    BY <1>3, <1>4 DEF Buffer, Buffers
  <2> QED  BY <2>1, <2>2
<1>7. state' = [state EXCEPT ![p] = TRUE] /\ state \in [Slot -> BOOLEAN]
  BY <1>3 DEF WriteHit, Inv, TypeOK
<1>8. /\ state' \in [Slot -> BOOLEAN]
      /\ DirtySlots' = DirtySlots \cup {p}
  <2>1. state' \in [Slot -> BOOLEAN]
    BY <1>4, <1>7
  <2>2. DirtySlots' = {i \in Slot : state'[i]}
    BY DEF DirtySlots, Slot
  <2>3. \A i \in Slot : state'[i] <=> i = p \/ state[i]
    BY <1>4, <1>7
  <2> QED  BY <1>4, <2>1, <2>2, <2>3 DEF DirtySlots
<1>9. DirtySlots \subseteq Slot /\ DirtySlots' \subseteq Slot
  BY <1>4, <1>8 DEF DirtySlots
<1>10. \A i \in Slot \ {p} : data[i] # NULL => data[i].cgx # c
  BY <1>3, <1>4, <1>5 DEF Inv, Single, InUse
<1> HIDE DEF b
<1>11. /\ Filled(data', k) /\ Single(data')
       /\ Strays(data', DirtySlots') => Strays(data, DirtySlots)
       /\ Clean(data', DirtySlots', disk)
  <2>1. Put(data, DirtySlots, k, p, b, data', DirtySlots')
    BY <1>1, <1>4, <1>5, <1>6, <1>8, <1>9 DEF Put
  <2>2. Single(data) /\ Clean(data, DirtySlots, disk)
    BY <1>2 DEF Inv
  <2>3. p \in DirtySlots'
    BY <1>8
  <2> QED  BY <1>4, <1>5, <1>10, <2>1, <2>2, <2>3, PutKeeps
<1>12. /\ failed' \subseteq Cg /\ faulted' \in BOOLEAN /\ (faulted => faulted')
  BY <1>2, FailsMeans DEF Inv, TypeOK
<1>13. TypeOK'
  BY <1>2, <1>8, <1>11, <1>12 DEF Inv, TypeOK, Filled, Slot
<1>14. (\E n \in 0..cache_cg_size : Filled(data, n))'
  BY <1>2, <1>11 DEF Filled, Slot
<1> QED  BY <1>2, <1>11, <1>12, <1>13, <1>14 DEF Inv, Single, Clean, Slot

(* The first unused slot takes a buffer, dirty or not.                     *)
LEMMA FillInv ==
    ASSUME Inv, NEW c \in Cg, NEW v \in Val, NEW b \in Buffers,
           NEW dirtied \in BOOLEAN, ~wild, ~changed, ~Hit(c), Room,
           \/ b.cgx = Bad /\ ~dirtied
           \/ b.cgx = c /\ (dirtied \/ b.val = disk[c]),
           data' = [data EXCEPT ![FirstNull] = b],
           state' = [state EXCEPT ![FirstNull] = dirtied],
           Fails({}),
           UNCHANGED <<cache_cg_size, disk, fs_ronly, wild, changed>>
    PROVE  Inv'
<1>1. PICK k \in 0..cache_cg_size : /\ Filled(data, k) /\ InUse = 0..(k - 1)
                                    /\ k \in Slot /\ FirstNull = k
                                    /\ k < cache_cg_size
  BY Found
<1>2. k \in Nat /\ cache_cg_size \in Nat
  BY <1>1 DEF Inv, TypeOK
<1>3. state \in [Slot -> BOOLEAN] /\ DirtySlots \subseteq Slot
  BY DEF Inv, TypeOK, DirtySlots
<1>4. /\ state' \in [Slot -> BOOLEAN]
      /\ DirtySlots' \subseteq Slot
      /\ DirtySlots' \ {k} = DirtySlots \ {k}
      /\ k \in DirtySlots' <=> dirtied
  <2>1. state' \in [Slot -> BOOLEAN]
    BY <1>1, <1>3
  <2>2. DirtySlots' = {i \in Slot : state'[i]}
    BY DEF DirtySlots, Slot
  <2>3. /\ \A i \in Slot \ {k} : state'[i] = state[i]
        /\ state'[k] = dirtied
    BY <1>1, <1>3
  <2>4. DirtySlots' \ {k} = DirtySlots \ {k}
    BY <2>2, <2>3 DEF DirtySlots
  <2>5. k \in DirtySlots' <=> dirtied
    BY <1>1, <2>2, <2>3
  <2> QED  BY <2>1, <2>2, <2>4, <2>5
<1>5. \A i \in Slot \ {k} : data[i] # NULL => data[i].cgx # b.cgx
                                             \/ b.cgx = Bad
  BY NotHeld
<1>6. k \notin DirtySlots' /\ b.cgx # Bad => b.val = disk[b.cgx]
  BY <1>4
<1>7. /\ Filled(data', k + 1) /\ Single(data')
      /\ Strays(data', DirtySlots') => Strays(data, DirtySlots)
      /\ Clean(data', DirtySlots', disk)
  <2>1. ~(k \in DirtySlots' /\ b.cgx = Bad)
    BY <1>4, BadAssumption
  <2>2. ~(k < k) /\ k <= k
    BY <1>2
  <2>3. data' = [data EXCEPT ![k] = b]
    BY <1>1
  <2>4. Single(data) /\ Clean(data, DirtySlots, disk)
    BY DEF Inv
  <2>5. Put(data, DirtySlots, k, k, b, data', DirtySlots')
    BY <1>1, <1>2, <1>3, <1>4, <2>2, <2>3 DEF Put
  <2> QED
    BY <1>5, <1>6, <2>1, <2>2, <2>4, <2>5, PutKeeps
<1>8. /\ failed' \subseteq Cg /\ faulted' \in BOOLEAN /\ (faulted => faulted')
  BY FailsMeans DEF Inv, TypeOK
<1>9. TypeOK'
  BY <1>4, <1>7, <1>8 DEF Inv, TypeOK, Filled, Slot
<1>10. (\E n \in 0..cache_cg_size : Filled(data, n))'
  <2>1. k + 1 \in 0..cache_cg_size
    BY <1>1, <1>2
  <2> QED  BY <1>7, <2>1 DEF Filled, Slot
<1>11. Strays(data, DirtySlots) => faulted
  BY DEF Inv
<1> QED  BY <1>7, <1>8, <1>9, <1>10, <1>11 DEF Inv, Single, Clean, Slot

(* The flush that may go before slot 0 is reused.                          *)
LeftDirty(ok) == {i \in Slot : StateForSlot0(ok)[i]}

LEMMA Slot0Flushed ==
    ASSUME Inv, ~wild, ~changed, NEW ok, FlushForSlot0(ok)
    PROVE  /\ StateForSlot0(ok) \in [Slot -> BOOLEAN]
           /\ LeftDirty(ok) \subseteq DirtySlots /\ DirtySlots \subseteq Slot
           /\ disk' \in [Cg -> Val] /\ wild' \in BOOLEAN
           /\ failed' \subseteq Cg /\ faulted' \in BOOLEAN
           /\ faulted => faulted'
           /\ 0 \in LeftDirty(ok) => faulted'
           /\ Clean(data, LeftDirty(ok), disk')
           /\ \A c \in Cg : ~Hit(c) => disk'[c] = disk[c]
<1>0. 0 \in Slot /\ state \in [Slot -> BOOLEAN] /\ DirtySlots \subseteq Slot
  BY SlotBounds DEF Slot, Inv, TypeOK, DirtySlots
<1>1. CASE state[0]
  <2>1. /\ Flushable(ok) /\ disk' = FlushedDisk(ok) /\ Fails(FailedCgs(ok))
        /\ wild' = (Stray /\ ~fs_ronly) /\ StateForSlot0(ok) = FlushedState(ok)
    BY <1>1 DEF FlushForSlot0, StateForSlot0
  <2>2. LeftDirty(ok) = StillDirty(ok)
    BY <2>1, FlushedStateIs DEF LeftDirty
  <2>3. /\ failed' \subseteq Cg /\ faulted' \in BOOLEAN
        /\ (faulted => faulted') /\ (FailedCgs(ok) # {} => faulted')
    BY <2>1, FailsMeans DEF FailedCgs, Inv, TypeOK
  <2>4. wild' \in BOOLEAN
    BY <2>1, Zenon
  <2>5. ASSUME 0 \in LeftDirty(ok) PROVE faulted'
    <3>1. faulted \/ data[0].cgx \in FailedCgs(ok)
      BY <2>2, <2>5, FlagLeft
    <3> QED  BY <2>3, <3>1
  <2>6. Clean(data, LeftDirty(ok), disk')
    BY <2>1, <2>2, FlushCleans
  <2>7. ASSUME NEW c \in Cg, ~Hit(c) PROVE disk'[c] = disk[c]
    <3>1. c \notin ok
      BY <2>1, <2>7, NotHeld DEF Flushable, DirtyCgs, InUse
    <3> QED  BY <2>1, <3>1, FlushedDiskIs
  <2> QED
    BY <1>0, <2>1, <2>2, <2>3, <2>4, <2>5, <2>6, <2>7, FlushedStateIs,
       FlushedDiskIs
<1>2. CASE ~state[0]
  <2>1. /\ Fails({}) /\ disk' = disk /\ wild' = wild
        /\ StateForSlot0(ok) = state
    BY <1>2 DEF FlushForSlot0, StateForSlot0
  <2>2. LeftDirty(ok) = DirtySlots /\ 0 \notin LeftDirty(ok)
    BY <1>2, <2>1 DEF LeftDirty, DirtySlots
  <2>3. failed' \subseteq Cg /\ faulted' \in BOOLEAN /\ (faulted => faulted')
    BY <2>1, FailsMeans DEF Inv, TypeOK
  <2>4. disk \in [Cg -> Val] /\ wild \in BOOLEAN /\ Clean(data, DirtySlots, disk)
    BY DEF Inv, TypeOK
  <2> QED  BY <1>0, <2>1, <2>2, <2>3, <2>4
<1> QED  BY <1>1, <1>2

(* Slot 0 takes buffer b.                                                  *)
LEMMA Slot0Put ==
    ASSUME Inv, NEW c \in Cg, NEW ok, ~wild, ~changed, ~Hit(c), ~Room,
           FlushForSlot0(ok), NEW b \in Buffers, NEW D1, D1 \subseteq Slot,
           D1 \ {0} = LeftDirty(ok) \ {0},
           \/ b.cgx = Bad /\ (0 \in D1 => 0 \in LeftDirty(ok))
           \/ b.cgx = c /\ (0 \in D1 \/ b.val = disk[c]),
           NEW d1, d1 = [data EXCEPT ![0] = b]
    PROVE  /\ cache_cg_size \in Nat /\ cache_cg_size > 0
           /\ cache_cg_size <= CgMax - 1 /\ cache_cg_size - 1 \in Slot
           /\ Last(data) = cache_cg_size - 1
           /\ Filled(d1, cache_cg_size) /\ Single(d1)
           /\ Strays(d1, D1) => faulted'
           /\ Clean(d1, D1, disk')
<1>1. PICK k \in 0..cache_cg_size :
            /\ Filled(data, k) /\ k \in Slot
            /\ k # 0 => Last(data) = k - 1
            /\ ~(k < cache_cg_size)
  BY Found
<1>2. /\ k = cache_cg_size /\ k \in Nat /\ k > 0 /\ 0 \in Slot
      /\ k <= CgMax - 1 /\ k - 1 \in Slot
  BY <1>1, SlotBounds DEF Inv, TypeOK, Slot
<1>3. /\ LeftDirty(ok) \subseteq DirtySlots /\ DirtySlots \subseteq Slot
      /\ faulted => faulted'
      /\ 0 \in LeftDirty(ok) => faulted'
      /\ Clean(data, LeftDirty(ok), disk')
      /\ disk'[c] = disk[c]
  BY Slot0Flushed
<1>4. Put(data, LeftDirty(ok), k, 0, b, d1, D1)
  <2>1. LeftDirty(ok) \subseteq Slot /\ 0 <= k
    BY <1>2, <1>3
  <2> QED  BY <1>1, <1>2, <2>1, Zenon DEF Put
<1>5. \A i \in Slot \ {0} : data[i] # NULL => data[i].cgx # b.cgx
                                             \/ b.cgx = Bad
  BY NotHeld
<1>6. 0 \notin D1 /\ b.cgx # Bad => b.val = disk'[b.cgx]
  BY <1>3
<1>7. 0 \in D1 /\ b.cgx = Bad => faulted'
  BY <1>3, BadAssumption
<1>8. Strays(data, LeftDirty(ok)) => faulted'
  BY <1>3 DEF Inv, Strays
<1>9. Single(data)
  BY DEF Inv
<1>10. Filled(d1, k)
  BY <1>2, <1>4, PutKeeps
<1>11. Single(d1)
  BY <1>4, <1>5, <1>9, PutKeeps
<1>12. Strays(d1, D1) => faulted'
  BY <1>4, <1>7, <1>8, PutKeeps
<1>13. Clean(d1, D1, disk')
  BY <1>3, <1>4, <1>6, PutKeeps
<1> QED  BY <1>1, <1>2, <1>10, <1>11, <1>12, <1>13

LEMMA EvictFaultInv ==
    ASSUME Inv, NEW c \in Cg, NEW v \in Val, NEW ok, EvictFault(c, v, ok)
    PROVE  Inv'
<1> DEFINE b == Buffer(Bad, v)
<1>1. b \in Buffers /\ b.cgx = Bad
  BY DEF Buffer, Buffers
<1>2. /\ ~wild /\ ~changed /\ ~Hit(c) /\ ~Room /\ FlushForSlot0(ok)
      /\ data' = [data EXCEPT ![0] = b] /\ state' = StateForSlot0(ok)
      /\ cache_cg_size' = cache_cg_size /\ fs_ronly' = fs_ronly
      /\ changed' = changed
  BY DEF EvictFault
<1> HIDE DEF b
<1>3. DirtySlots' = LeftDirty(ok)
  BY <1>2 DEF DirtySlots, LeftDirty, Slot
<1>4. /\ state' \in [Slot -> BOOLEAN] /\ LeftDirty(ok) \subseteq Slot
      /\ disk' \in [Cg -> Val] /\ wild' \in BOOLEAN
      /\ failed' \subseteq Cg /\ faulted' \in BOOLEAN
  BY <1>2, Slot0Flushed
<1>5. /\ cache_cg_size \in Nat /\ Filled(data', cache_cg_size) /\ Single(data')
      /\ Strays(data', DirtySlots') => faulted'
      /\ Clean(data', DirtySlots', disk')
  BY <1>1, <1>2, <1>3, <1>4, Slot0Put
<1>6. TypeOK'
  BY <1>2, <1>4, <1>5 DEF Inv, TypeOK, Filled, Slot
<1>7. (\E n \in 0..cache_cg_size : Filled(data, n))'
  BY <1>2, <1>5 DEF Filled, Slot
<1> QED  BY <1>5, <1>6, <1>7 DEF Inv, Single, Clean, Slot

(* A miss with all slots in use: slot 0 takes the group, and is popped up.  *)
LEMMA EvictEffect ==
    ASSUME Inv, NEW c \in Cg, NEW v \in Val, NEW dirtied \in BOOLEAN, NEW ok,
           dirtied \/ v = disk[c], Evict(c, v, dirtied, ok)
    PROVE  \E a, E, k :
              /\ Pop(a, E, k, 0, data', DirtySlots') /\ k = cache_cg_size
              /\ a[0] = Buffer(c, v)
              /\ \A i \in Slot \ {0} : a[i] = data[i]
              /\ E \ {0} = LeftDirty(ok) \ {0} /\ (0 \in E <=> dirtied)
              /\ state' \in [Slot -> BOOLEAN]
              /\ Single(a) /\ (Strays(a, E) => faulted') /\ Clean(a, E, disk')
<1> DEFINE b  == Buffer(c, v)
           d1 == [data EXCEPT ![0] = b]
           t1 == [StateForSlot0(ok) EXCEPT ![0] = dirtied]
           D1 == {i \in Slot : t1[i]}
<1>1. b \in Buffers /\ b.cgx = c /\ b.val = v
  BY DEF Buffer, Buffers
<1>2. /\ ~wild /\ ~changed /\ ~Hit(c) /\ ~Room /\ FlushForSlot0(ok)
      /\ data' = Popped(d1, 0, Last(data)) /\ state' = Popped(t1, 0, Last(data))
      /\ cache_cg_size' = cache_cg_size /\ fs_ronly' = fs_ronly
      /\ changed' = changed
  BY DEF Evict
<1>3. /\ StateForSlot0(ok) \in [Slot -> BOOLEAN] /\ LeftDirty(ok) \subseteq Slot
      /\ disk' \in [Cg -> Val] /\ wild' \in BOOLEAN
      /\ failed' \subseteq Cg /\ faulted' \in BOOLEAN
  BY <1>2, Slot0Flushed
<1>4. /\ t1 \in [Slot -> BOOLEAN] /\ D1 \subseteq Slot
      /\ D1 \ {0} = LeftDirty(ok) \ {0} /\ (0 \in D1 <=> dirtied)
  <2>1. 0 \in Slot
    BY SlotBounds DEF Slot
  <2>2. t1 \in [Slot -> BOOLEAN]
    BY <1>3
  <2>3. t1[0] = dirtied /\ \A i \in Slot \ {0} : t1[i] = StateForSlot0(ok)[i]
    BY <1>3, <2>1
  <2>4. D1 \ {0} = LeftDirty(ok) \ {0}
    BY <2>3 DEF LeftDirty
  <2>5. 0 \in D1 <=> dirtied
    BY <2>1, <2>3
  <2> QED  BY <2>2, <2>4, <2>5
<1>5. PICK a : a = d1
  OBVIOUS
<1>6. PICK t : t = t1
  OBVIOUS
<1>7. PICK E : E = D1
  OBVIOUS
<1>8. PICK k \in Nat : k = cache_cg_size
  BY DEF Inv, TypeOK
<1> HIDE DEF b, d1, t1, D1
<1>9. /\ k > 0 /\ k <= CgMax - 1 /\ k - 1 \in Slot /\ Last(data) = k - 1
      /\ Filled(a, k) /\ Single(a)
      /\ Strays(a, E) => faulted'
      /\ Clean(a, E, disk')
  BY <1>1, <1>2, <1>4, <1>5, <1>7, <1>8, Slot0Put DEF d1
<1>10. 0 \in 0..(k - 1)
  BY <1>9
<1>11. /\ state' \in [Slot -> BOOLEAN]
       /\ DirtySlots' = {i \in Slot : Source(i, 0, k - 1) \in E}
  <2>1. t \in [Slot -> BOOLEAN] /\ state' = Popped(t, 0, k - 1)
    BY <1>2, <1>4, <1>6, <1>9
  <2>2. E = {j \in Slot : t[j]}
    BY <1>6, <1>7 DEF D1
  <2> QED  BY <1>9, <1>10, <2>1, <2>2, DirtyPopped
<1>12. Pop(a, E, k, 0, data', DirtySlots')
  <2>1. k <= CgMax /\ E \subseteq Slot /\ data' = Popped(a, 0, k - 1)
    BY <1>2, <1>4, <1>5, <1>7, <1>9, SlotBounds
  <2> QED  BY <1>9, <1>10, <1>11, <2>1 DEF Pop
<1>13. /\ a[0] = Buffer(c, v) /\ \A i \in Slot \ {0} : a[i] = data[i]
  BY <1>5, SlotBounds DEF d1, b, Slot, Inv, TypeOK
<1>14. E \ {0} = LeftDirty(ok) \ {0} /\ (0 \in E <=> dirtied)
  BY <1>4, <1>7
<1> QED  BY <1>8, <1>9, <1>11, <1>12, <1>13, <1>14

LEMMA EvictInv ==
    ASSUME Inv, NEW c \in Cg, NEW v \in Val, NEW dirtied \in BOOLEAN, NEW ok,
           dirtied \/ v = disk[c], Evict(c, v, dirtied, ok)
    PROVE  Inv'
<1>1. PICK a, E, k :
         /\ Pop(a, E, k, 0, data', DirtySlots') /\ k = cache_cg_size
         /\ state' \in [Slot -> BOOLEAN]
         /\ Single(a) /\ (Strays(a, E) => faulted') /\ Clean(a, E, disk')
  BY EvictEffect
<1>2. /\ ~wild /\ ~changed /\ FlushForSlot0(ok)
      /\ cache_cg_size' = cache_cg_size /\ fs_ronly' = fs_ronly
      /\ changed' = changed
  BY DEF Evict
<1>3. /\ disk' \in [Cg -> Val] /\ wild' \in BOOLEAN
      /\ failed' \subseteq Cg /\ faulted' \in BOOLEAN
  BY <1>2, Slot0Flushed
<1>4. /\ Filled(data', k) /\ Single(data') /\ k \in Nat
      /\ Strays(data', DirtySlots') => faulted'
      /\ Clean(data', DirtySlots', disk')
  <2>1. k \in Nat
    BY <1>1 DEF Pop
  <2> QED  BY <1>1, <2>1, PopKeeps
<1>5. TypeOK'
  BY <1>1, <1>2, <1>3, <1>4 DEF Inv, TypeOK, Filled, Slot
<1>6. (\E n \in 0..cache_cg_size : Filled(data, n))'
  BY <1>1, <1>2, <1>4 DEF Filled, Slot
<1> QED  BY <1>4, <1>5, <1>6 DEF Inv, Single, Clean, Slot

LEMMA ClampBounds ==
    ASSUME NEW n \in Sizes
    PROVE  Clamp(n) \in CgSizeMin..(CgMax - 1)
  BY SizesAssumption, SlotBounds DEF Clamp

LEMMA AdjustInv ==
    ASSUME Inv, NEW n \in Sizes, NEW ok, cache_cg_adjust(n, ok)
    PROVE  Inv'
<1>1. PICK size \in CgSizeMin..(CgMax - 1) : size = Clamp(n)
  BY ClampBounds
<1>2. PICK freed : freed = Freed(size)
  OBVIOUS
<1>3. /\ ~wild /\ ~changed /\ cache_cg_size' = size /\ Flushable(ok)
      /\ \A c \in ok : \E i \in freed \cap DirtySlots : Holds(i, c)
      /\ disk' = FlushedDisk(ok)
      /\ Fails({c \in Cg \ ok : \E i \in freed \cap DirtySlots : Holds(i, c)})
      /\ wild' = (~fs_ronly /\ \E i \in freed \cap DirtySlots : Holds(i, Bad))
      /\ data' = [i \in Slot |-> IF i \in freed THEN NULL ELSE data[i]]
      /\ state' = [i \in Slot |-> IF i \in freed THEN FALSE ELSE state[i]]
      /\ fs_ronly' = fs_ronly /\ changed' = changed
  BY <1>1, <1>2 DEF cache_cg_adjust
<1>4. /\ state \in [Slot -> BOOLEAN] /\ data \in [Slot -> Buffers \cup {NULL}]
      /\ size \in Nat /\ size <= CgMax - 1 /\ \A i \in Slot : i \in Nat
      /\ DirtySlots \subseteq Slot
  BY SlotBounds DEF Inv, TypeOK, Slot, DirtySlots
<1>5. /\ state' \in [Slot -> BOOLEAN] /\ DirtySlots' = DirtySlots \ freed
  <2>1. \A i \in Slot : state'[i] <=> state[i] /\ i \notin freed
    BY <1>3
  <2>2. state' \in [Slot -> BOOLEAN]
    BY <1>3, <1>4
  <2>3. DirtySlots' = {i \in Slot : state'[i]}
    BY DEF DirtySlots, Slot
  <2> QED  BY <2>1, <2>2, <2>3 DEF DirtySlots
<1>6. PICK k \in Nat : Filled(data, k)
  BY DEF Inv, TypeOK
<1>7. PICK m \in 0..size : /\ m <= k /\ m <= size
                           /\ \A i \in Nat : i < m <=> i < k /\ i < size
  <2> DEFINE m == IF k < size THEN k ELSE size
  <2>1. m \in 0..size
    BY <1>4
  <2> QED  BY <1>4, <2>1
<1>8. \A i \in Slot : i \in freed <=> i < k /\ ~(i < size)
  BY <1>2, <1>4, <1>6 DEF Freed, InUse, Filled
<1>9. Filled(data', m)
  <2>1. data' \in [Slot -> Buffers \cup {NULL}]
    BY <1>3, <1>4
  <2>2. ASSUME NEW i \in Slot PROVE data'[i] # NULL <=> i < m
    <3>1. data'[i] # NULL <=> i < k /\ i < size
      BY <1>3, <1>6, <1>8, <2>2 DEF Filled
    <3> QED  BY <1>4, <1>7, <3>1
  <2> QED  BY <2>1, <2>2 DEF Filled
<1>10. \A i \in Slot : data'[i] # NULL => data'[i] = data[i] /\ i \notin freed
  BY <1>3
<1>11. Single(data')
  BY <1>10 DEF Inv, Single
<1>12. /\ failed' \subseteq Cg /\ faulted' \in BOOLEAN /\ (faulted => faulted')
  <2> DEFINE groups == {c \in Cg \ ok :
                           \E i \in freed \cap DirtySlots : Holds(i, c)}
  <2>1. groups \subseteq Cg /\ Fails(groups)
    BY <1>3
  <2> HIDE DEF groups
  <2> QED  BY <2>1, FailsMeans DEF Inv, TypeOK
<1>13. Strays(data', DirtySlots') => faulted'
  <2>1. \A i \in DirtySlots' : i \in DirtySlots /\ data'[i] = data[i]
    BY <1>3, <1>4, <1>5
  <2> QED  BY <1>12, <2>1 DEF Inv, Strays
<1>14. Clean(data', DirtySlots', disk')
  <2> SUFFICES ASSUME NEW i \in Slot \ DirtySlots', data'[i] # NULL,
                      data'[i].cgx # Bad
               PROVE  data'[i].val = disk'[data'[i].cgx]
    BY DEF Clean
  <2>1. i \notin freed /\ data'[i] = data[i] /\ i \notin DirtySlots
    BY <1>5, <1>10
  <2>2. data[i].val = disk[data[i].cgx] /\ data[i].cgx \in Cg
    BY <1>3, <1>4, <2>1 DEF Inv, Clean, Buffers
  <2>3. data[i].cgx \notin ok
    BY <1>3, <1>4, <2>1 DEF Inv, Single, Holds
  <2> QED  BY <1>3, <2>1, <2>2, <2>3, FlushedDiskIs
<1>15. wild' \in BOOLEAN
  BY <1>3, Zenon
<1>16. TypeOK'
  BY <1>3, <1>4, <1>5, <1>9, <1>12, <1>15, FlushedDiskIs
  DEF Inv, TypeOK, Filled, Slot
<1>17. (\E j \in 0..cache_cg_size : Filled(data, j))'
  BY <1>3, <1>9 DEF Filled, Slot
<1> QED  BY <1>11, <1>13, <1>14, <1>16, <1>17 DEF Inv, Single, Clean, Slot

LEMMA ReopenInv ==
    ASSUME Inv, NEW ok, Reopen(ok), changed' \in BOOLEAN
    PROVE  Inv'
<1>1. /\ Flushable(ok) /\ disk' = FlushedDisk(ok) /\ state' = FlushedState(ok)
      /\ Fails(FailedCgs(ok)) /\ wild' = (Stray /\ ~fs_ronly)
      /\ data' = [i \in Slot |-> NULL] /\ fs_ronly' \in BOOLEAN
      /\ cache_cg_size' = cache_cg_size
  BY DEF Reopen
<1>2. DirtySlots' = StillDirty(ok)
  BY <1>1, FlushedStateIs, Zenon DEF DirtySlots
<1>3. /\ failed' \subseteq Cg /\ faulted' \in BOOLEAN
      /\ (faulted => faulted') /\ (FailedCgs(ok) # {} => faulted')
  BY <1>1, FailsMeans DEF FailedCgs, Inv, TypeOK
<1>4. wild' \in BOOLEAN
  BY <1>1, Zenon
<1>5. TypeOK'
  BY <1>1, <1>3, <1>4, FlushedStateIs, FlushedDiskIs DEF Inv, TypeOK, Slot
<1>6. ASSUME NEW i \in DirtySlots' PROVE faulted'
  <2>1. faulted \/ data[i].cgx \in FailedCgs(ok)
    BY <1>2, FlagLeft
  <2> QED  BY <1>3, <2>1
<1>7. Filled(data', 0)
  BY <1>1, SlotBounds DEF Filled, Slot
<1>8. (\E j \in 0..cache_cg_size : Filled(data, j))'
  <2>1. 0 \in 0..cache_cg_size'
    BY <1>1, SlotBounds DEF Inv, TypeOK
  <2> QED  BY <1>7, <2>1 DEF Filled, Slot
<1>9. Single(data') /\ Clean(data', DirtySlots', disk')
  BY <1>1 DEF Single, Clean
<1>10. Strays(data', DirtySlots') => faulted'
  BY <1>6 DEF Strays
<1> QED  BY <1>5, <1>8, <1>9, <1>10 DEF Inv, Single, Clean, Slot

(* The steps that leave the buffers alone.                                 *)
LEMMA QuietInv ==
    ASSUME Inv, UNCHANGED <<data, state, cache_cg_size, wild>>,
           \/ UNCHANGED vars
           \/ Fails({}) /\ fs_ronly' \in BOOLEAN /\ UNCHANGED <<disk, changed>>
           \/ /\ Fails({}) /\ changed' = TRUE /\ disk' \in [Cg -> Val]
              /\ UNCHANGED fs_ronly
    PROVE  Inv'
<1>1. /\ failed' \subseteq Cg /\ faulted' \in BOOLEAN /\ (faulted => faulted')
  BY FailsMeans DEF Inv, TypeOK, vars
<1>2. DirtySlots' = DirtySlots
  BY DEF DirtySlots, Slot
<1>3. TypeOK'
  BY <1>1 DEF Inv, TypeOK, vars, Slot
<1>4. Strays(data', DirtySlots') => faulted'
  BY <1>1, <1>2 DEF Inv
<1>5. ~wild' /\ ~changed' => Clean(data', DirtySlots', disk')
  BY <1>2 DEF Inv, vars
<1> QED  BY <1>3, <1>4, <1>5 DEF Inv, Filled, Single, Clean, Slot

LEMMA StepInv ==
    ASSUME Inv, [Next]_vars
    PROVE  Inv'
<1>1. ASSUME NEW c \in Cg, cache_cg(c) PROVE Inv'
  <2>1. disk[c] \in Val /\ Buffer(c, disk[c]) \in Buffers
    BY DEF Inv, TypeOK, Buffer, Buffers
  <2>2. CASE ReadHit(c)
    BY <2>2, ReadHitInv
  <2>3. CASE Fill(c, disk[c], FALSE)
    BY <2>1, <2>3, FillInv DEF Fill, Buffer
  <2>4. ASSUME NEW v \in Val, FillFault(c, v) PROVE Inv'
    BY <2>4, FillInv DEF FillFault, Buffer, Buffers
  <2>5. ASSUME NEW ok \in SUBSET Cg, Evict(c, disk[c], FALSE, ok) PROVE Inv'
    BY <2>1, <2>5, EvictInv
  <2>6. ASSUME NEW ok \in SUBSET Cg, NEW v \in Val, EvictFault(c, v, ok)
        PROVE  Inv'
    BY <2>6, EvictFaultInv
  <2> QED  BY <1>1, <2>2, <2>3, <2>4, <2>5, <2>6 DEF cache_cg
<1>2. ASSUME NEW c \in Cg, NEW v \in Val, cache_cg_write(c, v) PROVE Inv'
  <2>1. CASE WriteHit(c, v)
    BY <2>1, WriteHitInv
  <2>2. CASE Fill(c, v, TRUE)
    BY <2>2, FillInv DEF Fill, Buffer, Buffers
  <2>3. ASSUME NEW ok \in SUBSET Cg, Evict(c, v, TRUE, ok) PROVE Inv'
    BY <2>3, EvictInv
  <2> QED  BY <1>2, <2>1, <2>2, <2>3 DEF cache_cg_write
<1>3. ASSUME NEW n \in Sizes, NEW ok \in SUBSET Cg, cache_cg_adjust(n, ok)
      PROVE  Inv'
  BY <1>3, AdjustInv
<1>4. ASSUME NEW ok \in SUBSET Cg,
             PFlush(ok) \/ Remount(ok) \/ PDiskChange(ok)
      PROVE  Inv'
  <2>1. CASE PFlush(ok)
    BY <2>1, PFlushInv
  <2>2. CASE Remount(ok) \/ PDiskChange(ok)
    <3>1. Reopen(ok) /\ changed' \in BOOLEAN
      BY <2>2 DEF Remount, PDiskChange, Inv, TypeOK
    <3> QED  BY <3>1, ReopenInv
  <2> QED  BY <1>4, <2>1, <2>2
<1>5. ASSUME NEW ro \in BOOLEAN, PWriteProtect(ro) PROVE Inv'
  BY <1>5, QuietInv DEF PWriteProtect
<1>6. CASE ChangeMedium
  BY <1>6, QuietInv DEF ChangeMedium
<1>7. CASE Wild \/ UNCHANGED vars
  BY <1>7, QuietInv DEF Wild, vars
<1> QED  BY <1>1, <1>2, <1>3, <1>4, <1>5, <1>6, <1>7 DEF Next, Calls

LEMMA InitInv == Init => Inv
<1> SUFFICES ASSUME Init PROVE Inv
  OBVIOUS
<1>1. cache_cg_size \in CgSizeMin..(CgMax - 1)
  BY ClampBounds DEF Init
<1>2. TypeOK
  BY <1>1 DEF Init, TypeOK
<1>3. DirtySlots = {}
  BY DEF Init, DirtySlots
<1>4. Filled(data, 0) /\ 0 \in 0..cache_cg_size
  BY <1>1, SlotBounds DEF Init, Filled, Slot
<1> QED  BY <1>2, <1>3, <1>4 DEF Inv, Init, Single, Strays, Clean

(* The array of cylinder group buffers is well-formed in every state: Inv  *)
(* is inductive.                                                           *)
THEOREM Invariance == Spec => []Inv
  BY InitInv, StepInv, PTL DEF Spec

(* The searches, the eviction and the flush of cache.c always find the     *)
(* array packed from slot 0 within cache_cg_size, one slot per group, and  *)
(* no dirty flag without its buffer unless a data_write() failed.          *)
THEOREM SlotsAlwaysSound == Spec => []SlotsSound
<1>1. ASSUME Inv PROVE SlotsSound
  <2>1. PICK k \in 0..cache_cg_size : InUse = 0..(k - 1)
    BY <1>1, Found
  <2>2. SlotsPacked
    <3>1. cache_cg_size \in Nat
      BY <1>1 DEF Inv, TypeOK
    <3> QED  BY <2>1, <3>1 DEF SlotsPacked
  <2>3. OneBufferPerGroup
    BY <1>1 DEF Inv, Single, OneBufferPerGroup, InUse
  <2>4. StrayOnlyAfterFaults
    BY <1>1 DEF Inv, Strays, Stray, StrayOnlyAfterFaults
  <2> QED  BY <2>2, <2>3, <2>4 DEF SlotsSound
<1> QED  BY <1>1, Invariance, PTL

-----------------------------------------------------------------------------
(* The cache implements FragStore.  The refinement mapping of Store:       *)
Seen    == [c \in Cg |-> View(c)]
Pending == DirtyCgs \cap Cg

S == INSTANCE FragStore WITH
    Frag <- Cg, Data <- Val, store <- Seen, durable <- disk,
    pending <- Pending, weak <- {}, torn <- {}

(* The mapping told by the slot that holds a group.                        *)
Absent(c) == \A i \in Slot : ~Holds(i, c)

Mapped ==
    \A c \in Cg :
        /\ Absent(c) => Seen[c] = disk[c] /\ c \notin Pending
        /\ \A i \in Slot : Holds(i, c) =>
              /\ Seen[c] = data[i].val
              /\ c \in Pending <=> i \in DirtySlots

LEMMA MappedFromInv == Inv => Mapped
<1> SUFFICES ASSUME Inv, NEW c \in Cg
             PROVE  /\ Absent(c) => Seen[c] = disk[c] /\ c \notin Pending
                    /\ \A i \in Slot : Holds(i, c) =>
                          /\ Seen[c] = data[i].val
                          /\ c \in Pending <=> i \in DirtySlots
  BY DEF Mapped
<1>1. ASSUME Absent(c) PROVE Seen[c] = disk[c] /\ c \notin Pending
  <2>1. ~Hit(c)
    BY <1>1, SlotFound DEF Absent, InUse
  <2>2. c \notin Pending
    BY <1>1 DEF Absent, Holds, Pending, DirtyCgs, InUse
  <2> QED  BY <2>1, <2>2 DEF Seen, View
<1>2. ASSUME NEW i \in Slot, Holds(i, c)
      PROVE  Seen[c] = data[i].val /\ (c \in Pending <=> i \in DirtySlots)
  <2>1. i \in InUse /\ data[i].cgx = c /\ c # Bad
    BY <1>2, BadAssumption DEF InUse, Holds
  <2>2. Hit(c) /\ SlotOf(c) = i
    BY <2>1, SlotFound
  <2>3. Seen[c] = data[i].val
    BY <2>2 DEF Seen, View
  <2>4. \A j \in InUse : data[j].cgx = c => j = i
    BY <2>1 DEF Inv, Single, InUse
  <2>5. c \in Pending <=> i \in DirtySlots
    BY <2>1, <2>4 DEF Pending, DirtyCgs
  <2> QED  BY <2>3, <2>5
<1> QED  BY <1>1, <1>2

LEMMA MappedAfter == Inv' => Mapped'
  BY MappedFromInv, PTL

(* What may happen to a group that the call does not name.                 *)
Harmless(c) == S!Kept(c) \/ S!WrittenBack(c) \/ S!FellBack(c)

LEMMA HarmlessBackground ==
    ASSUME NEW G, \A c \in G : Harmless(c)
    PROVE  S!Background(G)
  BY DEF S!Background, S!StaysWhole, Harmless

(* The fates of a buffer.                                                  *)
LEMMA GroupStays ==
    ASSUME Inv, Inv', NEW c \in Cg, NEW i \in Slot, Holds(i, c),
           NEW j \in Slot, data'[j] = data[i],
           \/ disk'[c] = disk[c] /\ (j \in DirtySlots' <=> i \in DirtySlots)
           \/ /\ disk'[c] = data[i].val
              /\ i \in DirtySlots /\ j \notin DirtySlots'
    PROVE  Harmless(c)
<1>1. Seen[c] = data[i].val /\ (c \in Pending <=> i \in DirtySlots)
  BY MappedFromInv DEF Mapped
<1>2. Holds(j, c)' /\ j \in Slot'
  BY DEF Holds, Slot
<1>3. Seen'[c] = data[i].val /\ (c \in Pending' <=> j \in DirtySlots')
  BY <1>2, MappedAfter DEF Mapped
<1> QED  BY <1>1, <1>3 DEF Harmless, S!Kept, S!WrittenBack

LEMMA GroupGoes ==
    ASSUME Inv, Inv', ~wild, ~changed, NEW c \in Cg, NEW i \in Slot,
           Holds(i, c), Absent(c)',
           \/ disk'[c] = disk[c] /\ (i \in DirtySlots => c \in failed')
           \/ disk'[c] = data[i].val /\ i \in DirtySlots
    PROVE  Harmless(c)
<1>1. Seen[c] = data[i].val /\ (c \in Pending <=> i \in DirtySlots)
  BY MappedFromInv DEF Mapped
<1>2. Seen'[c] = disk'[c] /\ c \notin Pending'
  BY MappedAfter DEF Mapped
<1>3. i \notin DirtySlots => data[i].val = disk[c]
  BY BadAssumption DEF Inv, Clean, Holds
<1> QED
  BY <1>1, <1>2, <1>3 DEF Harmless, S!Kept, S!WrittenBack, S!FellBack

LEMMA GroupAbsent ==
    ASSUME Inv, Inv', NEW c \in Cg, Absent(c), disk'[c] = disk[c],
           \/ Absent(c)'
           \/ \E j \in Slot : /\ Holds(j, c)' /\ j \notin DirtySlots'
                              /\ data'[j].val = disk[c]
    PROVE  Harmless(c)
<1>1. Seen[c] = disk[c] /\ c \notin Pending
  BY MappedFromInv DEF Mapped
<1>2. Seen'[c] = disk'[c] /\ c \notin Pending'
  <2>1. CASE Absent(c)'
    BY <2>1, MappedAfter DEF Mapped
  <2>2. ASSUME NEW j \in Slot, Holds(j, c)', j \notin DirtySlots',
               data'[j].val = disk[c]
        PROVE  Seen'[c] = disk'[c] /\ c \notin Pending'
    <3>1. j \in Slot'
      BY DEF Slot
    <3> QED  BY <2>2, <3>1, MappedAfter DEF Mapped
  <2> QED  BY <2>1, <2>2
<1> QED  BY <1>1, <1>2 DEF Harmless, S!Kept

(* A group that the call modifies.                                         *)
LEMMA GroupWritten ==
    ASSUME Inv, Inv', NEW c \in Cg, NEW v, NEW j \in Slot, Holds(j, c)',
           j \in DirtySlots', data'[j].val = v, disk'[c] = disk[c],
           \A g \in Cg \ {c} : Harmless(g)
    PROVE  S!Write(c, v)
<1>1. j \in Slot'
  BY DEF Slot
<1>2. Seen'[c] = v /\ c \in Pending'
  BY <1>1, MappedAfter DEF Mapped
<1>3. S!Background(Cg \ {c})
  BY HarmlessBackground
<1> QED  BY <1>2, <1>3 DEF S!Write, S!StaysWhole

(* A pop moves every buffer, and its dirty flag with it.                   *)
LEMMA PopMoves ==
    ASSUME NEW d, NEW D, NEW k, NEW pos, NEW d1, NEW D1,
           Pop(d, D, k, pos, d1, D1)
    PROVE  /\ \A i \in Slot : \E j \in Slot : d1[j] = d[i] /\ (j \in D1 <=> i \in D)
           /\ \A j \in Slot : \E i \in Slot : d1[j] = d[i] /\ (j \in D1 <=> i \in D)
           /\ D1 \subseteq Slot
<1> USE DEF Pop
<1>0. k - 1 \in Slot /\ pos \in 0..(k - 1)
  BY SlotBounds DEF Slot
<1>1. /\ \A i \in Slot : Source(i, pos, k - 1) \in Slot
      /\ \A j \in Slot : \E i \in Slot : Source(i, pos, k - 1) = j
  BY <1>0, SourceMoves
<1>2. \A i \in Slot : d1[i] = d[Source(i, pos, k - 1)]
  BY <1>0, PoppedFrom
<1> QED  BY <1>1, <1>2

-----------------------------------------------------------------------------
(* What the flushes do to the group of a slot.                             *)
LEMMA FlushedGroup ==
    ASSUME Inv, NEW ok, Flushable(ok), NEW c \in Cg, NEW i \in Slot, Holds(i, c)
    PROVE  \/ /\ FlushedDisk(ok)[c] = data[i].val
              /\ i \in DirtySlots /\ i \notin StillDirty(ok) /\ c \in ok
           \/ /\ FlushedDisk(ok)[c] = disk[c] /\ c \notin ok
              /\ i \in StillDirty(ok) <=> i \in DirtySlots
              /\ i \in DirtySlots => c \in FailedCgs(ok)
<1>1. i \in InUse /\ data[i].cgx = c
  BY DEF Holds, InUse
<1>2. CASE c \in ok
  BY <1>1, <1>2, FlushedDiskIs DEF StillDirty
<1>3. CASE c \notin ok
  <2>1. i \in StillDirty(ok) <=> i \in DirtySlots
    BY <1>1, <1>3 DEF StillDirty
  <2>2. i \in DirtySlots => c \in FailedCgs(ok)
    BY <1>1, <1>3 DEF FailedCgs, DirtyCgs
  <2> QED  BY <1>3, <2>1, <2>2, FlushedDiskIs
<1> QED  BY <1>2, <1>3

LEMMA Slot0Group ==
    ASSUME Inv, NEW ok, FlushForSlot0(ok), NEW c \in Cg, NEW i \in Slot,
           Holds(i, c)
    PROVE  \/ /\ disk'[c] = data[i].val
              /\ i \in DirtySlots /\ i \notin LeftDirty(ok)
           \/ /\ disk'[c] = disk[c]
              /\ i \in LeftDirty(ok) <=> i \in DirtySlots
              /\ i = 0 /\ i \in DirtySlots => c \in failed'
<1>1. CASE state[0]
  <2>1. /\ Flushable(ok) /\ disk' = FlushedDisk(ok) /\ failed' = FailedCgs(ok)
        /\ StateForSlot0(ok) = FlushedState(ok)
    BY <1>1 DEF FlushForSlot0, StateForSlot0, Fails
  <2>2. LeftDirty(ok) = StillDirty(ok)
    BY <2>1, FlushedStateIs DEF LeftDirty
  <2> QED  BY <2>1, <2>2, FlushedGroup
<1>2. CASE ~state[0]
  <2>1. disk' = disk /\ StateForSlot0(ok) = state
    BY <1>2 DEF FlushForSlot0, StateForSlot0
  <2>2. LeftDirty(ok) = DirtySlots /\ 0 \notin DirtySlots
    BY <1>2, <2>1 DEF LeftDirty, DirtySlots
  <2> QED  BY <2>1, <2>2
<1> QED  BY <1>1, <1>2

LEMMA MissIsAbsent ==
    ASSUME Inv, NEW c \in Cg, ~Hit(c)
    PROVE  Absent(c)
  BY NotHeld DEF Absent, Holds

-----------------------------------------------------------------------------
(* One lemma per action: every step of the cache is a step of the store.   *)
LEMMA PFlushRefines ==
    ASSUME Inv, Inv', NEW ok, PFlush(ok)
    PROVE  S!Sync
<1>1. /\ Flushable(ok) /\ disk' = FlushedDisk(ok) /\ data' = data
      /\ state' = FlushedState(ok)
  BY DEF PFlush
<1>2. DirtySlots' = StillDirty(ok)
  BY <1>1, FlushedStateIs, Zenon DEF DirtySlots
<1>3. ASSUME NEW c \in Cg PROVE Harmless(c)
  <2>1. CASE Absent(c)
    <3>1. Absent(c)'
      BY <1>1, <2>1 DEF Absent, Holds, Slot
    <3>2. c \notin ok
      BY <1>1, <2>1 DEF Flushable, DirtyCgs, InUse, Absent, Holds
    <3> QED  BY <1>1, <2>1, <3>1, <3>2, FlushedDiskIs, GroupAbsent
  <2>2. ASSUME NEW i \in Slot, Holds(i, c) PROVE Harmless(c)
    BY <1>1, <1>2, <2>2, FlushedGroup, GroupStays
  <2> QED  BY <2>1, <2>2 DEF Absent
<1> QED  BY <1>3, HarmlessBackground DEF S!Sync

(* The cache is closed: every group goes.                                  *)
LEMMA RemountRefines ==
    ASSUME Inv, Inv', NEW ok, Remount(ok)
    PROVE  S!Sync
<1>1. /\ Flushable(ok) /\ disk' = FlushedDisk(ok)
      /\ data' = [i \in Slot |-> NULL] /\ failed' = FailedCgs(ok)
      /\ ~wild /\ ~changed
  BY DEF Remount, Reopen, Fails
<1>2. ASSUME NEW c \in Cg PROVE Harmless(c)
  <2>1. Absent(c)'
    BY <1>1 DEF Absent, Holds, Slot
  <2>2. CASE Absent(c)
    <3>1. c \notin ok
      BY <1>1, <2>2 DEF Flushable, DirtyCgs, InUse, Absent, Holds
    <3> QED  BY <1>1, <2>1, <2>2, <3>1, FlushedDiskIs, GroupAbsent
  <2>3. ASSUME NEW i \in Slot, Holds(i, c) PROVE Harmless(c)
    BY <1>1, <2>1, <2>3, FlushedGroup, GroupGoes
  <2> QED  BY <2>2, <2>3 DEF Absent
<1> QED  BY <1>2, HarmlessBackground DEF S!Sync

LEMMA ReadHitRefines ==
    ASSUME Inv, Inv', NEW c \in Cg, ReadHit(c)
    PROVE  S!Sync
<1>1. PICK k \in 0..cache_cg_size : /\ Filled(data, k) /\ InUse = 0..(k - 1)
                                    /\ k \in Slot
                                    /\ k # 0 => Last(data) = k - 1
  BY Found
<1>2. PICK pos \in 0..(k - 1) : pos = SlotOf(c)
  BY <1>1, SlotFound DEF ReadHit
<1>3. k \in Nat /\ k > 0 /\ k <= CgMax /\ k - 1 \in Slot
  BY <1>1, <1>2, SlotBounds DEF Slot, Inv, TypeOK
<1>4. /\ data' = Popped(data, pos, k - 1) /\ disk' = disk
      /\ state' = Popped(state, pos, k - 1)
  BY <1>1, <1>2, <1>3 DEF ReadHit
<1>5. DirtySlots' = {i \in Slot : Source(i, pos, k - 1) \in DirtySlots}
  <2>1. state \in [Slot -> BOOLEAN] /\ pos \in 0..(k - 1)
    BY DEF Inv, TypeOK
  <2>2. DirtySlots' = {i \in Slot : Source(i, pos, k - 1) \in
                                        {j \in Slot : state[j]}}
    BY <1>3, <1>4, <2>1, DirtyPopped
  <2> QED  BY <2>2 DEF DirtySlots
<1>6. Pop(data, DirtySlots, k, pos, data', DirtySlots')
  BY <1>1, <1>3, <1>4, <1>5 DEF Pop, DirtySlots
<1>7. /\ \A i \in Slot : \E j \in Slot :
            data'[j] = data[i] /\ (j \in DirtySlots' <=> i \in DirtySlots)
      /\ \A j \in Slot : \E i \in Slot : data'[j] = data[i]
  BY <1>6, PopMoves
<1>8. ASSUME NEW g \in Cg PROVE Harmless(g)
  <2>1. CASE Absent(g)
    <3>1. Absent(g)'
      BY <1>7, <2>1 DEF Absent, Holds, Slot
    <3> QED  BY <1>4, <2>1, <3>1, GroupAbsent
  <2>2. ASSUME NEW i \in Slot, Holds(i, g) PROVE Harmless(g)
    <3>1. PICK j \in Slot :
             data'[j] = data[i] /\ (j \in DirtySlots' <=> i \in DirtySlots)
      BY <1>7
    <3> QED  BY <1>4, <2>2, <3>1, GroupStays
  <2> QED  BY <2>1, <2>2 DEF Absent
<1> QED  BY <1>8, HarmlessBackground DEF S!Sync

(* A slot takes buffer b, and no other is touched.                         *)
LEMMA PutHarmless ==
    ASSUME Inv, Inv', NEW p \in Slot, NEW b \in Buffers,
           data' = [data EXCEPT ![p] = b], disk' = disk,
           DirtySlots' \ {p} = DirtySlots \ {p},
           NEW c \in Cg, c # b.cgx, ~Holds(p, c)
    PROVE  Harmless(c)
<1>1. data'[p] = b /\ \A i \in Slot \ {p} : data'[i] = data[i]
  BY DEF Inv, TypeOK
<1>2. CASE Absent(c)
  <2>1. Absent(c)'
    BY <1>1, <1>2 DEF Absent, Holds, Slot
  <2> QED  BY <1>2, <2>1, GroupAbsent
<1>3. ASSUME NEW i \in Slot, Holds(i, c) PROVE Harmless(c)
  <2>1. i # p
    BY <1>3
  <2>2. i \in DirtySlots' <=> i \in DirtySlots
    BY <2>1
  <2>3. data'[i] = data[i]
    BY <1>1, <2>1
  <2> QED  BY <1>3, <2>2, <2>3, GroupStays
<1> QED  BY <1>2, <1>3 DEF Absent

LEMMA WriteHitRefines ==
    ASSUME Inv, Inv', NEW c \in Cg, NEW v \in Val, WriteHit(c, v)
    PROVE  S!Write(c, v)
<1>1. Hit(c) /\ disk' = disk
  BY DEF WriteHit
<1>2. PICK p \in InUse : p = SlotOf(c) /\ data[p].cgx = c
  BY <1>1, SlotFound DEF Holds
<1>3. p \in Slot /\ data[p] \in Buffers /\ c # Bad /\ data[p] # NULL
  BY <1>2, BadAssumption DEF InUse, Inv, TypeOK
<1>4. Buffer(c, v) \in Buffers /\ Buffer(c, v).cgx = c /\ Buffer(c, v).val = v
  BY DEF Buffer, Buffers
<1>5. data' = [data EXCEPT ![p] = Buffer(c, v)]
  <2>1. data' = [data EXCEPT ![p].val = v]
    BY <1>2 DEF WriteHit
  <2>2. [data[p] EXCEPT !.val = v] = Buffer(c, v)
    BY <1>2, <1>3 DEF Buffer, Buffers
  <2> QED  BY <2>1, <2>2
<1>6. DirtySlots' = DirtySlots \cup {p}
  <2>1. state' = [state EXCEPT ![p] = TRUE] /\ state \in [Slot -> BOOLEAN]
    BY <1>2 DEF WriteHit, Inv, TypeOK
  <2>2. DirtySlots' = {i \in Slot : state'[i]}
    BY DEF DirtySlots, Slot
  <2>3. \A i \in Slot : state'[i] <=> i = p \/ state[i]
    BY <1>3, <2>1
  <2> QED  BY <1>3, <2>2, <2>3 DEF DirtySlots
<1>7. ASSUME NEW g \in Cg \ {c} PROVE Harmless(g)
  <2>1. ~Holds(p, g) /\ g # Buffer(c, v).cgx
    BY <1>2, <1>4 DEF Holds
  <2> QED  BY <1>1, <1>3, <1>4, <1>5, <1>6, <2>1, PutHarmless
<1>8. data'[p] = Buffer(c, v)
  BY <1>3, <1>5 DEF Inv, TypeOK
<1>9. Holds(p, c)' /\ data'[p].val = v
  <2>1. data'[p] # NULL
    BY <1>4, <1>8, NullAssumption
  <2> QED  BY <1>4, <1>8, <2>1 DEF Holds
<1> QED  BY <1>1, <1>3, <1>6, <1>7, <1>9, GroupWritten

(* The first unused slot takes buffer b.                                   *)
LEMMA FillRefines ==
    ASSUME Inv, Inv', NEW c \in Cg, NEW v \in Val, NEW b \in Buffers,
           NEW dirtied \in BOOLEAN, ~Hit(c), Room, disk' = disk,
           \/ b.cgx = Bad /\ ~dirtied
           \/ b.cgx = c /\ b.val = v /\ (dirtied \/ v = disk[c]),
           data' = [data EXCEPT ![FirstNull] = b],
           state' = [state EXCEPT ![FirstNull] = dirtied]
    PROVE  /\ dirtied => S!Write(c, v)
           /\ ~dirtied => S!Sync
<1>1. PICK k \in Slot : FirstNull = k /\ data[k] = NULL
  <2>1. PICK n \in 0..cache_cg_size : /\ InUse = 0..(n - 1) /\ n \in Slot
                                      /\ FirstNull = n
    BY Found
  <2>2. n \notin InUse
    BY <2>1
  <2> QED  BY <2>1, <2>2 DEF InUse
<1>2. /\ DirtySlots' \ {k} = DirtySlots \ {k}
      /\ k \in DirtySlots' <=> dirtied
  <2>1. state' = [state EXCEPT ![k] = dirtied] /\ state \in [Slot -> BOOLEAN]
    BY <1>1 DEF Inv, TypeOK
  <2>2. DirtySlots' = {i \in Slot : state'[i]}
    BY DEF DirtySlots, Slot
  <2>3. state'[k] = dirtied /\ \A i \in Slot \ {k} : state'[i] = state[i]
    BY <2>1
  <2>4. DirtySlots' \ {k} = DirtySlots \ {k}
    BY <2>2, <2>3 DEF DirtySlots
  <2>5. k \in DirtySlots' <=> dirtied
    BY <2>2, <2>3
  <2> QED  BY <2>4, <2>5
<1>3. /\ data'[k] = b /\ \A i \in Slot \ {k} : data'[i] = data[i]
      /\ data' = [data EXCEPT ![k] = b]
  BY <1>1 DEF Inv, TypeOK
<1>4. Absent(c) /\ c # Bad /\ b # NULL
  BY MissIsAbsent, BadAssumption, NullAssumption
<1>5. ASSUME NEW g \in Cg \ {c} PROVE Harmless(g)
  <2>1. ~Holds(k, g) /\ g # b.cgx
    BY <1>1, BadAssumption DEF Holds
  <2> QED  BY <1>2, <1>3, <2>1, PutHarmless
<1>6. CASE b.cgx = Bad /\ ~dirtied
  <2>1. Harmless(c)
    BY <1>1, <1>2, <1>3, <1>4, <1>6, PutHarmless DEF Absent
  <2> QED  BY <1>5, <1>6, <2>1, HarmlessBackground DEF S!Sync
<1>7. CASE b.cgx = c /\ b.val = v /\ (dirtied \/ v = disk[c])
  <2>1. Holds(k, c)' /\ data'[k].val = v
    BY <1>3, <1>4, <1>7 DEF Holds
  <2>2. CASE dirtied
    BY <1>2, <1>5, <2>1, <2>2, GroupWritten
  <2>3. CASE ~dirtied
    <3>1. Harmless(c)
      BY <1>2, <1>4, <1>7, <2>1, <2>3, GroupAbsent
    <3> QED  BY <1>5, <2>3, <3>1, HarmlessBackground DEF S!Sync
  <2> QED  BY <2>2, <2>3
<1> QED  BY <1>6, <1>7

(* Slot 0 is taken from the group it holds; any other group stays.         *)
LEMMA Slot0Harmless ==
    ASSUME Inv, Inv', ~wild, ~changed, NEW ok, FlushForSlot0(ok),
           NEW g \in Cg, NEW D1, D1 \ {0} = LeftDirty(ok) \ {0},
           \A i \in Slot \ {0} : Holds(i, g) =>
               \E j \in Slot : /\ data'[j] = data[i]
                               /\ j \in DirtySlots' <=> i \in D1,
           Absent(g) \/ Holds(0, g) => Absent(g)'
    PROVE  Harmless(g)
<1>0. 0 \in Slot
  BY SlotBounds DEF Slot
<1>1. CASE Absent(g)
  <2>1. disk'[g] = disk[g]
    <3>1. ~Hit(g)
      BY <1>1, SlotFound DEF Absent, InUse
    <3> QED  BY <3>1, Slot0Flushed
  <2> QED  BY <1>1, <2>1, GroupAbsent
<1>2. CASE Holds(0, g)
  BY <1>0, <1>2, Slot0Group, GroupGoes
<1>3. ASSUME NEW i \in Slot \ {0}, Holds(i, g) PROVE Harmless(g)
  <2>1. PICK j \in Slot : data'[j] = data[i] /\ (j \in DirtySlots' <=> i \in D1)
    BY <1>3
  <2>2. i \in D1 <=> i \in LeftDirty(ok)
    OBVIOUS
  <2> QED  BY <1>3, <2>1, <2>2, Slot0Group, GroupStays
<1> QED  BY <1>1, <1>2, <1>3 DEF Absent

LEMMA EvictFaultRefines ==
    ASSUME Inv, Inv', NEW c \in Cg, NEW v \in Val, NEW ok, EvictFault(c, v, ok)
    PROVE  S!Sync
<1>0. 0 \in Slot
  BY SlotBounds DEF Slot
<1>1. /\ ~wild /\ ~changed /\ FlushForSlot0(ok)
      /\ data' = [data EXCEPT ![0] = Buffer(Bad, v)]
      /\ state' = StateForSlot0(ok)
  BY DEF EvictFault
<1>2. DirtySlots' = LeftDirty(ok)
  BY <1>1 DEF DirtySlots, LeftDirty, Slot
<1>3. data'[0].cgx = Bad /\ \A i \in Slot \ {0} : data'[i] = data[i]
  BY <1>0, <1>1 DEF Buffer, Inv, TypeOK
<1>4. ASSUME NEW g \in Cg PROVE Harmless(g)
  <2>1. ASSUME Absent(g) \/ Holds(0, g) PROVE Absent(g)'
    <3>1. g # Bad
      BY BadAssumption
    <3>2. \A i \in Slot \ {0} : ~Holds(i, g)
      BY <1>0, <2>1, <3>1 DEF Absent, Holds, Inv, Single
    <3>3. \A i \in Slot : ~(data'[i] # NULL /\ data'[i].cgx = g)
      BY <1>3, <3>1, <3>2 DEF Holds
    <3> QED  BY <3>3 DEF Absent, Holds, Slot
  <2>2. \A i \in Slot \ {0} : Holds(i, g) =>
           \E j \in Slot : /\ data'[j] = data[i]
                           /\ j \in DirtySlots' <=> i \in LeftDirty(ok)
    BY <1>2, <1>3
  <2> QED  BY <1>1, <2>1, <2>2, Slot0Harmless
<1> QED  BY <1>4, HarmlessBackground DEF S!Sync

LEMMA EvictRefines ==
    ASSUME Inv, Inv', NEW c \in Cg, NEW v \in Val, NEW dirtied \in BOOLEAN,
           NEW ok, dirtied \/ v = disk[c], Evict(c, v, dirtied, ok)
    PROVE  /\ dirtied => S!Write(c, v)
           /\ ~dirtied => S!Sync
<1>0. 0 \in Slot /\ c # Bad
  BY SlotBounds, BadAssumption DEF Slot
<1>1. ~wild /\ ~changed /\ FlushForSlot0(ok) /\ ~Hit(c)
  BY DEF Evict
<1>2. PICK a, E, k :
         /\ Pop(a, E, k, 0, data', DirtySlots')
         /\ a[0] = Buffer(c, v)
         /\ \A i \in Slot \ {0} : a[i] = data[i]
         /\ E \ {0} = LeftDirty(ok) \ {0} /\ (0 \in E <=> dirtied)
  BY EvictEffect
<1>3. /\ \A i \in Slot : \E j \in Slot :
            data'[j] = a[i] /\ (j \in DirtySlots' <=> i \in E)
      /\ \A j \in Slot : \E i \in Slot :
            data'[j] = a[i] /\ (j \in DirtySlots' <=> i \in E)
  BY <1>2, PopMoves
<1>4. Buffer(c, v).cgx = c /\ Buffer(c, v).val = v /\ Buffer(c, v) # NULL
  <2>1. Buffer(c, v) \in Buffers
    BY DEF Buffer, Buffers
  <2> QED  BY <2>1, NullAssumption DEF Buffer
<1>5. ASSUME NEW g \in Cg \ {c} PROVE Harmless(g)
  <2>1. ASSUME Absent(g) \/ Holds(0, g) PROVE Absent(g)'
    <3>1. g # Bad
      BY BadAssumption
    <3>2. \A i \in Slot \ {0} : ~Holds(i, g)
      BY <1>0, <2>1, <3>1 DEF Absent, Holds, Inv, Single
    <3>3. \A i \in Slot : ~(a[i] # NULL /\ a[i].cgx = g)
      BY <1>2, <1>4, <3>2 DEF Holds
    <3>4. \A j \in Slot : ~(data'[j] # NULL /\ data'[j].cgx = g)
      BY <1>3, <3>3
    <3> QED  BY <3>4 DEF Absent, Holds, Slot
  <2>2. \A i \in Slot \ {0} : Holds(i, g) =>
           \E j \in Slot : data'[j] = data[i] /\ (j \in DirtySlots' <=> i \in E)
    BY <1>2, <1>3
  <2> QED  BY <1>1, <1>2, <2>1, <2>2, Slot0Harmless
<1>6. PICK j \in Slot : data'[j] = a[0] /\ (j \in DirtySlots' <=> dirtied)
  BY <1>0, <1>2, <1>3
<1>7. Holds(j, c)' /\ data'[j].val = v
  BY <1>2, <1>4, <1>6 DEF Holds
<1>8. disk'[c] = disk[c] /\ Absent(c)
  BY <1>1, Slot0Flushed, MissIsAbsent
<1>9. CASE dirtied
  BY <1>5, <1>6, <1>7, <1>8, <1>9, GroupWritten
<1>10. CASE ~dirtied
  <2>1. Harmless(c)
    BY <1>6, <1>7, <1>8, <1>10, GroupAbsent
  <2> QED  BY <1>5, <1>10, <2>1, HarmlessBackground DEF S!Sync
<1> QED  BY <1>9, <1>10

LEMMA AdjustRefines ==
    ASSUME Inv, Inv', NEW n \in Sizes, NEW ok, cache_cg_adjust(n, ok)
    PROVE  S!Sync
<1>1. PICK freed : freed = Freed(Clamp(n))
  OBVIOUS
<1>2. /\ ~wild /\ ~changed /\ Flushable(ok)
      /\ \A c \in ok : \E i \in freed \cap DirtySlots : Holds(i, c)
      /\ disk' = FlushedDisk(ok)
      /\ failed' = {c \in Cg \ ok : \E i \in freed \cap DirtySlots : Holds(i, c)}
      /\ data' = [i \in Slot |-> IF i \in freed THEN NULL ELSE data[i]]
      /\ state' = [i \in Slot |-> IF i \in freed THEN FALSE ELSE state[i]]
  BY <1>1 DEF cache_cg_adjust, Fails
<1>3. DirtySlots' = DirtySlots \ freed
  <2>1. \A i \in Slot : state'[i] <=> state[i] /\ i \notin freed
    BY <1>2
  <2>2. DirtySlots' = {i \in Slot : state'[i]}
    BY DEF DirtySlots, Slot
  <2> QED  BY <2>1, <2>2 DEF DirtySlots
<1>4. ASSUME NEW c \in Cg PROVE Harmless(c)
  <2>1. CASE Absent(c)
    <3>1. Absent(c)'
      BY <1>2, <2>1 DEF Absent, Holds, Slot
    <3>2. c \notin ok
      BY <1>2, <2>1 DEF Absent, DirtySlots
    <3> QED  BY <1>2, <2>1, <3>1, <3>2, FlushedDiskIs, GroupAbsent
  <2>2. ASSUME NEW i \in Slot, Holds(i, c) PROVE Harmless(c)
    <3>1. \A j \in Slot : Holds(j, c) => j = i
      BY <2>2, BadAssumption DEF Holds, Inv, Single
    <3>2. \/ /\ disk'[c] = data[i].val /\ c \in ok /\ i \in DirtySlots
          \/ /\ disk'[c] = disk[c] /\ c \notin ok
      BY <1>2, <2>2, FlushedGroup
    <3>3. CASE i \in freed
      <4>1. Absent(c)'
        BY <1>2, <3>1, <3>3 DEF Absent, Holds, Slot
      <4>2. i \in DirtySlots /\ c \notin ok => c \in failed'
        BY <1>2, <2>2, <3>3
      <4> QED  BY <1>2, <2>2, <3>2, <4>1, <4>2, GroupGoes
    <3>4. CASE i \notin freed
      <4>1. c \notin ok
        BY <1>2, <3>1, <3>4 DEF DirtySlots
      <4>2. data'[i] = data[i] /\ (i \in DirtySlots' <=> i \in DirtySlots)
        BY <1>2, <1>3, <3>4
      <4> QED  BY <2>2, <3>2, <4>1, <4>2, GroupStays
    <3> QED  BY <3>3, <3>4
  <2> QED  BY <2>1, <2>2 DEF Absent
<1> QED  BY <1>4, HarmlessBackground DEF S!Sync

LEMMA PWriteProtectRefines ==
    ASSUME Inv, Inv', NEW ro, PWriteProtect(ro)
    PROVE  S!Sync
<1>1. data' = data /\ state' = state /\ disk' = disk
  BY DEF PWriteProtect
<1>2. DirtySlots' = DirtySlots
  BY <1>1 DEF DirtySlots, Slot
<1>3. ASSUME NEW c \in Cg PROVE Harmless(c)
  <2>1. CASE Absent(c)
    <3>1. Absent(c)'
      BY <1>1, <2>1 DEF Absent, Holds, Slot
    <3> QED  BY <1>1, <2>1, <3>1, GroupAbsent
  <2>2. ASSUME NEW i \in Slot, Holds(i, c) PROVE Harmless(c)
    BY <1>1, <1>2, <2>2, GroupStays
  <2> QED  BY <2>1, <2>2 DEF Absent
<1> QED  BY <1>3, HarmlessBackground DEF S!Sync

-----------------------------------------------------------------------------
LEMMA NextRefines ==
    ASSUME Inv, Inv', Next
    PROVE  S!Next \/ UNCHANGED S!vars \/ wild' \/ changed \/ changed'
<1>1. ASSUME NEW c \in Cg, cache_cg(c) PROVE S!Next
  <2>1. disk[c] \in Val
    BY DEF Inv, TypeOK
  <2>2. CASE ReadHit(c)
    BY <2>2, ReadHitRefines DEF S!Next
  <2>3. CASE Fill(c, disk[c], FALSE)
    <3>1. S!Sync
      BY <2>1, <2>3, FillRefines DEF Fill, Buffer, Buffers
    <3> QED  BY <3>1 DEF S!Next
  <2>4. ASSUME NEW v \in Val, FillFault(c, v) PROVE S!Next
    <3>1. S!Sync
      BY <2>4, FillRefines DEF FillFault, Buffer, Buffers
    <3> QED  BY <3>1 DEF S!Next
  <2>5. ASSUME NEW ok \in SUBSET Cg, Evict(c, disk[c], FALSE, ok) PROVE S!Next
    <3>1. S!Sync
      BY <2>1, <2>5, EvictRefines
    <3> QED  BY <3>1 DEF S!Next
  <2>6. ASSUME NEW ok \in SUBSET Cg, NEW v \in Val, EvictFault(c, v, ok)
        PROVE  S!Next
    BY <2>6, EvictFaultRefines DEF S!Next
  <2> QED  BY <1>1, <2>2, <2>3, <2>4, <2>5, <2>6 DEF cache_cg
<1>2. ASSUME NEW c \in Cg, NEW v \in Val, cache_cg_write(c, v) PROVE S!Next
  <2>1. S!Write(c, v)
    <3>1. CASE WriteHit(c, v)
      BY <3>1, WriteHitRefines
    <3>2. CASE Fill(c, v, TRUE)
      BY <3>2, FillRefines DEF Fill, Buffer, Buffers
    <3>3. ASSUME NEW ok \in SUBSET Cg, Evict(c, v, TRUE, ok)
          PROVE  S!Write(c, v)
      BY <3>3, EvictRefines
    <3> QED  BY <1>2, <3>1, <3>2, <3>3 DEF cache_cg_write
  <2> QED  BY <2>1 DEF S!Next
<1>3. ASSUME NEW n \in Sizes, NEW ok \in SUBSET Cg, cache_cg_adjust(n, ok)
      PROVE  S!Next
  BY <1>3, AdjustRefines DEF S!Next
<1>4. ASSUME NEW ok \in SUBSET Cg, PFlush(ok) \/ Remount(ok) PROVE S!Next
  BY <1>4, PFlushRefines, RemountRefines DEF S!Next
<1>5. ASSUME NEW ro \in BOOLEAN, PWriteProtect(ro) PROVE S!Next
  BY <1>5, PWriteProtectRefines DEF S!Next
<1>6. CASE ChangeMedium
  BY <1>6 DEF ChangeMedium
<1>7. CASE \E ok \in SUBSET Cg : PDiskChange(ok)
  BY <1>7 DEF PDiskChange
<1>8. CASE Wild
  BY <1>8 DEF Wild, vars
<1> QED
  BY <1>1, <1>2, <1>3, <1>4, <1>5, <1>6, <1>7, <1>8 DEF Next, Calls

LEMMA StutterRefines == UNCHANGED vars => UNCHANGED S!vars
  BY DEF vars, S!vars, Seen, Pending, View, Hit, SlotOf, Holds, Searched,
         DirtyCgs, DirtySlots, InUse, Slot

LEMMA InitRefines == Init => S!Init
<1> SUFFICES ASSUME Init PROVE S!Init
  OBVIOUS
<1>1. Mapped
  BY InitInv, MappedFromInv
<1>2. disk \in [Cg -> Val] /\ failed = {} /\ data = [i \in Slot |-> NULL]
  BY DEF Init
<1>3. \A c \in Cg : Absent(c)
  BY <1>2 DEF Absent, Holds
<1>4. \A c \in Cg : Seen[c] = disk[c] /\ c \notin Pending
  BY <1>1, <1>3 DEF Mapped
<1>5. Seen = disk
  <2>1. Seen = [c \in Cg |-> Seen[c]]
    BY DEF Seen
  <2> QED  BY <1>2, <1>4, <2>1
<1>6. Pending = {}
  BY <1>4 DEF Pending
<1> QED  BY <1>2, <1>5, <1>6 DEF S!Init

(* The cylinder group cache is a store with delayed write-back: until the  *)
(* medium is changed or a stray flag is flushed, a group reads as it was   *)
(* last modified, whatever is popped up, evicted, flushed, shrunk or       *)
(* remounted, and falls back to the medium only when its own data_write()  *)
(* failed in that step (cache.c:530-600, 905-1030).                        *)
THEOREM GroupsReadAsModified == Spec => ReadsAsModified
<1>1. Init => Store!Init
  <2>1. S!Init => Store!Init
    BY DEF S!Init, Store!Init, Seen, Pending
  <2> QED  BY <2>1, InitRefines
<1>2. Inv /\ Inv' /\ [Next]_vars =>
         [Store!Next \/ wild' \/ changed \/ changed']_(Store!vars)
  <2>1. Inv /\ Inv' /\ [Next]_vars =>
           [S!Next \/ wild' \/ changed \/ changed']_(S!vars)
    BY NextRefines, StutterRefines
  <2>2. [S!Next \/ wild' \/ changed \/ changed']_(S!vars) =>
           [Store!Next \/ wild' \/ changed \/ changed']_(Store!vars)
    BY DEF S!Next, S!vars, Store!Next, Store!vars, Seen, Pending,
       S!Write, S!WriteThrough, S!Move, S!MoveGarbage, S!Discard, S!Sync,
       S!Replace, S!Background, S!Kept, S!WrittenBack, S!WriteBackFailed,
       S!FellBack, S!PutBefore, S!Uncovered, S!StaysWhole, Store!Write, Store!WriteThrough, Store!Move,
       Store!MoveGarbage, Store!Discard, Store!Sync, Store!Replace,
       Store!Background, Store!Kept, Store!WrittenBack, Store!WriteBackFailed,
       Store!FellBack, Store!PutBefore, Store!Uncovered, Store!StaysWhole
  <2> QED  BY <2>1, <2>2
<1> QED
  BY <1>1, <1>2, Invariance, PTL DEF Spec, ReadsAsModified
=============================================================================
