------------------------------ MODULE FragCache ------------------------------
(***************************************************************************)
(* The fragment cache of the file system handler (fs/cache.c): an LRU list *)
(* of buffers with delayed write-back, found through a hash table.         *)
(*                                                                         *)
(*   stack   cache_stack .. cache_stack_tail, least recently used first    *)
(*   hash    the nodes in the order in which cache_node() meets them: the  *)
(*           chain of a bucket is the subsequence of its nodes, because    *)
(*           cache_add() links at the head of a chain and cache_refresh()  *)
(*           does not touch it                                             *)
(*   blk     node->blk, 0 in a node that caches nothing                    *)
(*   dirty   the nodes with CACHE_DIRTY (CACHE_LOCKED is never set: its    *)
(*           two routines are compiled out)                                *)
(*   buf     node->buf; one value stands for the FSIZE bytes of a frag     *)
(*   leaked  nodes taken off the list by cache_getnode() and never put     *)
(*           back: no list and no chain leads to them any more             *)
(*   disk    the frags of the partition (external: the block device)       *)
(*   pc      "adjust" inside the loops of cache_adjust(), "wild" once a    *)
(*           NULL node has been dereferenced, "idle" between calls         *)
(*   failed  history variable: the frags of which the last step's          *)
(*           data_write() failed                                           *)
(*                                                                         *)
(* The handler is one process: a call runs to its end before the next one  *)
(* starts, so every call is one step, except that each pass of             *)
(* cache_adjust()'s loops is a step of its own, with nothing else enabled. *)
(***************************************************************************)
EXTENDS Integers, Sequences, FiniteSets, Lists

CONSTANTS
    Frag,           \* disk addresses of the frags
    Data,           \* contents of a frag
    Node,           \* the cache_set_t nodes that memory has room for
    Uninit,         \* contents of a fresh buffer, a member of Data
    CacheSizeMin,   \* CACHE_SIZE_MIN, 8 in the code
    NumBuffers,     \* de_NumBuffers of the mount list
    MaxSize,        \* bound on cache_size
    Amounts         \* the ARG1 values of MORE_CACHE packets

ASSUME FragAssumption == Frag \subseteq Nat \ {0} /\ Frag # {}
ASSUME DataAssumption == Uninit \in Data
ASSUME NodeAssumption == IsFiniteSet(Node)
ASSUME SizeAssumption ==
    /\ CacheSizeMin \in Nat \ {0}
    /\ NumBuffers \in Nat
    /\ MaxSize \in Nat
    /\ Amounts \subseteq Int

VARIABLES stack, hash, blk, dirty, buf, leaked, cache_item_dirty,
          cache_alloced, cache_size, disk, fs_ronly, receiving_packets, pc,
          failed

vars  == <<stack, hash, blk, dirty, buf, leaked, cache_item_dirty,
           cache_alloced, cache_size, disk, fs_ronly, receiving_packets, pc,
           failed>>

InStack == Elems(stack)

AtLeast(a, b) == IF a < b THEN b ELSE a

-----------------------------------------------------------------------------
cache_refresh(n) == Append(Without(stack, n), n)

(* cache_node(): the first node of the chain with this address.            *)
Cached(f) == \E n \in InStack : blk[n] = f

cache_node(f) ==
    hash[CHOOSE i \in 1..Len(hash) :
            /\ blk[hash[i]] = f
            /\ \A j \in 1..(i - 1) : blk[hash[j]] # f]

(* What a caller of cache_frag() gets to see of a frag.                    *)
View(f) == IF Cached(f) THEN buf[cache_node(f)] ELSE disk[f]

(* The frags with two buffers: cache_node() finds the one linked last.     *)
Doubled == {f \in Frag : \E m, n \in InStack : /\ m # n
                                              /\ blk[m] = f /\ blk[n] = f}

-----------------------------------------------------------------------------
(* cache_flush() writes the dirty nodes in the order of cache_insert():    *)
(* ascending address, and of two nodes with the same address the one less  *)
(* recently used last.  ok are the nodes whose data_write() succeeds;      *)
(* data_write() fails on every one when the volume is read-only.           *)

Flushable(ok) == ok \subseteq dirty /\ (fs_ronly => ok = {})

(* Mutant: the list is walked from its second node on.                     *)
FlushedDiskSecond(ok) ==
    [f \in Frag |->
        IF \E i \in 2..Len(stack) : stack[i] \in ok /\ blk[stack[i]] = f
        THEN buf[CHOOSE n \in ok : blk[n] = f]
        ELSE disk[f]]

FlushedDisk(ok) ==
    LET last(f) == {i \in 1..Len(stack) : /\ stack[i] \in ok
                                          /\ blk[stack[i]] = f}
    IN  [f \in Frag |->
            IF last(f) = {} THEN disk[f]
            ELSE buf[stack[CHOOSE i \in last(f) : \A j \in last(f) : i <= j]]]

(* The consistency checks of cache_flush() stop the handler.               *)
DirtyListed == {n \in InStack : n \in dirty /\ blk[n] # 0}
FlushSane   == /\ \A n \in InStack : n \in dirty => blk[n] # 0
               /\ cache_item_dirty = Cardinality(DirtyListed)

(* Mutant: cache_item_dirty is not reset.                                  *)
cache_flush_count_kept(ok) ==
    /\ Flushable(ok)
    /\ disk' = FlushedDisk(ok)
    /\ failed' = {blk[n] : n \in DirtyListed \ ok}
    /\ dirty' = dirty \ DirtyListed
    /\ receiving_packets' = (receiving_packets /\ FlushSane)
    /\ UNCHANGED cache_item_dirty

cache_flush(ok) ==
    /\ Flushable(ok)
    /\ IF cache_item_dirty = 0
       THEN /\ ok = {}
            /\ failed' = {}
            /\ UNCHANGED <<dirty, disk, cache_item_dirty, receiving_packets>>
       ELSE /\ disk' = FlushedDisk(ok)
            /\ failed' = {blk[n] : n \in DirtyListed \ ok}
            /\ dirty' = dirty \ DirtyListed
            /\ cache_item_dirty' = 0
            /\ receiving_packets' = (receiving_packets /\ FlushSane)

(* cache_cycle_dirty() and the loop of cache_adjust(): dirty nodes are     *)
(* moved to the most recently used end until a clean one is at the head;   *)
(* when there is none the list has gone round once.                        *)
FirstClean == CHOOSE i \in 1..Len(stack) :
                 /\ stack[i] \notin dirty
                 /\ \A j \in 1..(i - 1) : stack[j] \in dirty

AllDirty == \A n \in InStack : n \in dirty

(* Mutant: the dirty nodes at the head of the list are not cycled.         *)
NotCycled == stack

CleanFirst == IF AllDirty THEN stack ELSE Rotated(stack, FirstClean - 1)

TooManyDirty == cache_item_dirty > (cache_size * 3) \div 4

(* The flush that cache_getnode() may need before it takes a buffer, and   *)
(* the list from which it takes the head.                                  *)
Crowded == Head(stack) \in dirty /\ (TooManyDirty \/ AllDirty)

cache_cycle_dirty(ok) ==
    IF Crowded
    THEN cache_flush(ok)
    ELSE /\ ok = {}
         /\ failed' = {}
         /\ UNCHANGED <<dirty, disk, cache_item_dirty, receiving_packets>>

Cycled == IF Crowded THEN stack ELSE CleanFirst

(* cache_add() of node n holding frag f after cache_getnode() took it.     *)
(* Mutant: cache_remove() leaves the node in its hash chain.               *)
AddTakenStillHashed(n, f) ==
    /\ stack' = Append(Tail(Cycled), n)
    /\ hash' = <<n>> \o hash
    /\ blk' = [blk EXCEPT ![n] = f]

AddTaken(n, f) ==
    /\ stack' = Append(Tail(Cycled), n)
    /\ hash' = <<n>> \o Without(hash, n)
    /\ blk' = [blk EXCEPT ![n] = f]

(* CACHE_DIRTY for node n, which is in the cache already ...               *)
MarkDirty(n) ==
    /\ dirty' = dirty \cup {n}
    /\ cache_item_dirty' = cache_item_dirty + (IF n \in dirty THEN 0 ELSE 1)

(* ... and for a node that cache_getnode() just took, after its flush.     *)
MarkTakenDirty(n, ok) ==
    IF Crowded
    THEN /\ Flushable(ok)
         /\ disk' = FlushedDisk(ok)
         /\ failed' = {blk[m] : m \in DirtyListed \ ok}
         /\ dirty' = (dirty \ DirtyListed) \cup {n}
         /\ cache_item_dirty' = 1
         /\ receiving_packets' = (receiving_packets /\ FlushSane)
    ELSE /\ ok = {}
         /\ failed' = {}
         /\ dirty' = dirty \cup {n}
         /\ cache_item_dirty' = cache_item_dirty + 1
         /\ UNCHANGED <<disk, receiving_packets>>

-----------------------------------------------------------------------------
(* cache_frag(): a hit only refreshes, as in cache_available().  On a miss *)
(* the taken node is added back when data_read() succeeds, and is dropped  *)
(* when it does not.                                                       *)

Hit(f) ==
    /\ pc = "idle"
    /\ Cached(f)
    /\ stack' = cache_refresh(cache_node(f))
    /\ failed' = {}
    /\ UNCHANGED <<hash, blk, dirty, buf, leaked, cache_item_dirty,
                   cache_alloced, cache_size, disk, fs_ronly,
                   receiving_packets, pc>>

MissRead(f, ok) ==
    LET n == Head(Cycled)
    IN  /\ pc = "idle"
        /\ ~Cached(f) /\ stack # <<>>
        /\ cache_cycle_dirty(ok)
        /\ AddTaken(n, f)
        /\ buf' = [buf EXCEPT ![n] = disk[f]]
        /\ UNCHANGED <<leaked, cache_alloced, cache_size, fs_ronly, pc>>

(* The same for cache_frag_write() with readflag set.                      *)
MissFault(f, ok) ==
    LET n == Head(Cycled)
    IN  /\ pc = "idle"
        /\ ~Cached(f) /\ stack # <<>>
        /\ cache_cycle_dirty(ok)
        /\ stack' = Tail(Cycled)
        /\ hash' = Without(hash, n)
        /\ blk' = [blk EXCEPT ![n] = 0]
        /\ buf' = [buf EXCEPT ![n] = Uninit]
        /\ leaked' = leaked \cup {n}
        /\ UNCHANGED <<cache_alloced, cache_size, fs_ronly, pc>>

(* cache_getnode() found no buffer: the two callers use its NULL.          *)
MissNoBuffer(f) ==
    /\ pc = "idle"
    /\ ~Cached(f) /\ stack = <<>>
    /\ pc' = "wild"
    /\ failed' = {}
    /\ UNCHANGED <<stack, hash, blk, dirty, buf, leaked, cache_item_dirty,
                   cache_alloced, cache_size, disk, fs_ronly,
                   receiving_packets>>

cache_frag(f) ==
    \/ Hit(f)
    \/ \E ok \in SUBSET dirty : MissRead(f, ok) \/ MissFault(f, ok)
    \/ MissNoBuffer(f)

(* cache_frag_write() and the caller's stores into the buffer, which leave *)
(* d there.  A caller that passes readflag = 0 stores the whole frag; for  *)
(* one that passes 1, d is the frag read with some bytes replaced.         *)
HitWrite(f, d) ==
    LET n == cache_node(f)
    IN  /\ pc = "idle"
        /\ Cached(f)
        /\ stack' = cache_refresh(n)
        /\ buf' = [buf EXCEPT ![n] = d]
        /\ MarkDirty(n)
        /\ failed' = {}
        /\ UNCHANGED <<hash, blk, leaked, cache_alloced, cache_size, disk,
                       fs_ronly, receiving_packets, pc>>

MissWrite(f, d, ok) ==
    LET n == Head(Cycled)
    IN  /\ pc = "idle"
        /\ ~Cached(f) /\ stack # <<>>
        /\ AddTaken(n, f)
        /\ buf' = [buf EXCEPT ![n] = d]
        /\ MarkTakenDirty(n, ok)
        /\ UNCHANGED <<leaked, cache_alloced, cache_size, fs_ronly, pc>>

cache_frag_write(f, d) ==
    \/ HitWrite(f, d)
    \/ \E ok \in SUBSET dirty : MissWrite(f, d, ok)

(* cache_invalidate(): the node stays, as the most recently used one.      *)
cache_invalidate(f) ==
    LET n == cache_node(f)
    IN  /\ pc = "idle"
        /\ Cached(f)
        /\ stack' = cache_refresh(n)
        /\ hash' = <<n>> \o Without(hash, n)
        /\ blk' = [blk EXCEPT ![n] = 0]
        /\ dirty' = dirty \ {n}
        /\ cache_item_dirty' = cache_item_dirty - (IF n \in dirty THEN 1 ELSE 0)
        /\ failed' = {}
        /\ UNCHANGED <<buf, leaked, cache_alloced, cache_size, disk, fs_ronly,
                       receiving_packets, pc>>

(* cache_frag_move(): the node of the source changes its address.          *)
MoveHit(to, from) ==
    LET n == cache_node(from)
    IN  /\ pc = "idle"
        /\ Cached(from)
        /\ stack' = cache_refresh(n)
        /\ hash' = <<n>> \o Without(hash, n)
        /\ blk' = [blk EXCEPT ![n] = to]
        /\ MarkDirty(n)
        /\ failed' = {}
        /\ UNCHANGED <<buf, leaked, cache_alloced, cache_size, disk, fs_ronly,
                       receiving_packets, pc>>

(* On a miss the source is read first; a read fault is only printed, and   *)
(* leaves anything (d) in the buffer.                                      *)
MoveMiss(to, from, d, ok) ==
    LET n == Head(Cycled)
    IN  /\ pc = "idle"
        /\ ~Cached(from) /\ stack # <<>>
        /\ AddTaken(n, to)
        /\ buf' = [buf EXCEPT ![n] = d]
        /\ MarkTakenDirty(n, ok)
        /\ UNCHANGED <<leaked, cache_alloced, cache_size, fs_ronly, pc>>

MoveNoBuffer(from) ==
    /\ pc = "idle"
    /\ ~Cached(from) /\ stack = <<>>
    /\ fs_ronly' = TRUE
    /\ failed' = {}
    /\ UNCHANGED <<stack, hash, blk, dirty, buf, leaked, cache_item_dirty,
                   cache_alloced, cache_size, disk, receiving_packets, pc>>

MoveFault(to, from) ==
    \E d \in Data, ok \in SUBSET dirty : MoveMiss(to, from, d, ok)

cache_frag_move(to, from) ==
    /\ to # from
    /\ \/ MoveHit(to, from)
       \/ \E ok \in SUBSET dirty : MoveMiss(to, from, disk[from], ok)
       \/ MoveFault(to, from)
       \/ MoveNoBuffer(from)

-----------------------------------------------------------------------------
(* file_frags_write() writes whole frags past the cache: it invalidates    *)
(* the cached frag, then calls data_write(), whose failure is only         *)
(* printed.                                                                *)
DirectWrite(f, d, good) ==
    /\ pc = "idle"
    /\ good => ~fs_ronly
    /\ failed' = IF good THEN {} ELSE {f}
    /\ disk' = IF good THEN [disk EXCEPT ![f] = d] ELSE disk
    /\ IF Cached(f)
       THEN LET n == cache_node(f)
            IN  /\ stack' = cache_refresh(n)
                /\ hash' = <<n>> \o Without(hash, n)
                /\ blk' = [blk EXCEPT ![n] = 0]
                /\ dirty' = dirty \ {n}
                /\ cache_item_dirty' =
                       cache_item_dirty - (IF n \in dirty THEN 1 ELSE 0)
       ELSE UNCHANGED <<stack, hash, blk, dirty, cache_item_dirty>>
    /\ UNCHANGED <<buf, leaked, cache_alloced, cache_size, fs_ronly,
                   receiving_packets, pc>>

(* The cache's part of PFlush(), also called when the timer expires.       *)
Flush(ok) ==
    /\ pc = "idle"
    /\ cache_flush(ok)
    /\ UNCHANGED <<stack, hash, blk, buf, leaked, cache_alloced, cache_size,
                   fs_ronly, pc>>

(* PWriteProtect() touches nothing but the flag.                           *)
PWriteProtect(ro) ==
    /\ pc = "idle" /\ receiving_packets
    /\ fs_ronly' = ro
    /\ failed' = {}
    /\ UNCHANGED <<stack, hash, blk, dirty, buf, leaked, cache_item_dirty,
                   cache_alloced, cache_size, disk, receiving_packets, pc>>

-----------------------------------------------------------------------------
(* cache_adjust(): one step per buffer added or freed.                     *)

PMoreCache(amount) ==
    /\ pc = "idle" /\ receiving_packets
    /\ cache_size + amount <= MaxSize
    /\ cache_size' = AtLeast(cache_size + amount, CacheSizeMin)
    /\ pc' = "adjust"
    /\ failed' = {}
    /\ UNCHANGED <<stack, hash, blk, dirty, buf, leaked, cache_item_dirty,
                   cache_alloced, disk, fs_ronly, receiving_packets>>

Free == Node \ (InStack \cup leaked)

AdjustGrow(n) ==
    /\ pc = "adjust" /\ cache_alloced < cache_size
    /\ n \in Free
    /\ stack' = Append(stack, n)
    /\ hash' = <<n>> \o hash
    /\ cache_alloced' = cache_alloced + 1
    /\ failed' = {}
    /\ UNCHANGED <<blk, dirty, buf, leaked, cache_item_dirty, cache_size, disk,
                   fs_ronly, receiving_packets, pc>>

(* AllocMem() returns NULL, twice when the cache is still tiny.            *)
AdjustNoMemory ==
    /\ pc = "adjust" /\ cache_alloced < cache_size
    /\ pc' = "idle"
    /\ failed' = {}
    /\ IF cache_alloced <= CacheSizeMin
       THEN /\ fs_ronly' = TRUE
            /\ receiving_packets' = (receiving_packets /\ cache_alloced # 0)
       ELSE UNCHANGED <<fs_ronly, receiving_packets>>
    /\ UNCHANGED <<stack, hash, blk, dirty, buf, leaked, cache_item_dirty,
                   cache_alloced, cache_size, disk>>

(* The least recently used clean buffer goes; with none, all are flushed.  *)
AdjustShrink(ok) ==
    LET n == Head(CleanFirst)
    IN  /\ pc = "adjust" /\ cache_alloced > cache_size
        /\ stack # <<>>
        /\ IF AllDirty
           THEN cache_flush(ok)
           ELSE /\ ok = {}
                /\ failed' = {}
                /\ UNCHANGED <<dirty, disk, cache_item_dirty,
                               receiving_packets>>
        /\ stack' = Tail(CleanFirst)
        /\ hash' = Without(hash, n)
        /\ blk' = [blk EXCEPT ![n] = 0]
        /\ buf' = [buf EXCEPT ![n] = Uninit]
        /\ cache_alloced' = cache_alloced - 1
        /\ UNCHANGED <<leaked, cache_size, fs_ronly, pc>>

AdjustDone ==
    /\ pc = "adjust"
    /\ \/ cache_alloced = cache_size
       \/ cache_alloced > cache_size /\ stack = <<>>
    /\ pc' = "idle"
    /\ failed' = {}
    /\ UNCHANGED <<stack, hash, blk, dirty, buf, leaked, cache_item_dirty,
                   cache_alloced, cache_size, disk, fs_ronly,
                   receiving_packets>>

(* close_cache() frees what the list holds, open_cache() starts over; what *)
(* leaked stays allocated but is no longer counted, and new buffers have   *)
(* new names.                                                              *)
(* (Mutant: cache_alloced keeps its value.)                                *)
ReopenAllocedKept ==
    /\ stack' = <<>> /\ hash' = <<>>
    /\ blk' = [n \in Node |-> 0]
    /\ buf' = [n \in Node |-> Uninit]
    /\ leaked' = {}
    /\ cache_size' = AtLeast(NumBuffers, CacheSizeMin)
    /\ fs_ronly' \in BOOLEAN
    /\ pc' = "adjust"
    /\ UNCHANGED cache_alloced

Reopen ==
    /\ stack' = <<>>
    /\ hash' = <<>>
    /\ blk' = [n \in Node |-> 0]
    /\ buf' = [n \in Node |-> Uninit]
    /\ leaked' = {}
    /\ cache_alloced' = 0
    /\ cache_size' = AtLeast(NumBuffers, CacheSizeMin)
    /\ fs_ronly' \in BOOLEAN
    /\ pc' = "adjust"

(* close_filesystem() and open_filesystem() of the same medium.            *)
Remount(ok) ==
    /\ pc = "idle" /\ receiving_packets
    /\ cache_flush(ok)
    /\ Reopen

(* What is dirty is forgotten.  The addresses are set to 0 in nodes that   *)
(* stay chained, which Reopen puts right before anyone looks.              *)
cache_full_invalidate ==
    /\ dirty' = {}
    /\ cache_item_dirty' = 0
    /\ failed' = {}

(* PDiskChange() with no file open for writing: cache_full_invalidate()    *)
(* leaves close_filesystem() nothing to flush.  The medium put in holds    *)
(* anything.                                                               *)
PDiskChange ==
    /\ pc = "idle" /\ receiving_packets
    /\ disk' \in [Frag -> Data]
    /\ cache_full_invalidate
    /\ Reopen
    /\ UNCHANGED receiving_packets

(* After a NULL node was used nothing is known; the model stops.           *)
Wild == pc = "wild" /\ UNCHANGED vars

Init ==
    /\ stack = <<>>
    /\ hash = <<>>
    /\ blk = [n \in Node |-> 0]
    /\ dirty = {}
    /\ buf = [n \in Node |-> Uninit]
    /\ leaked = {}
    /\ cache_item_dirty = 0
    /\ cache_alloced = 0
    /\ cache_size = AtLeast(NumBuffers, CacheSizeMin)
    /\ disk \in [Frag -> Data]
    /\ fs_ronly \in BOOLEAN
    /\ receiving_packets = TRUE
    /\ pc = "adjust"
    /\ failed = {}

cache_adjust ==
    \/ \E n \in Node : AdjustGrow(n)
    \/ AdjustNoMemory
    \/ \E ok \in SUBSET dirty : AdjustShrink(ok)
    \/ AdjustDone

Calls ==
    \/ \E f \in Frag : cache_frag(f) \/ cache_invalidate(f)
    \/ \E f \in Frag, d \in Data :
          cache_frag_write(f, d) \/ DirectWrite(f, d, TRUE)
    \/ \E f \in Frag : DirectWrite(f, Uninit, FALSE)
    \/ \E ok \in SUBSET dirty : Flush(ok) \/ Remount(ok)
    \/ \E ro \in BOOLEAN : PWriteProtect(ro)
    \/ \E amount \in Amounts : PMoreCache(amount)
    \/ PDiskChange
    \/ cache_adjust
    \/ Wild

(* The callers of cache_frag_move() move to frags that were just           *)
(* allocated, of which an old copy may still be cached: nothing            *)
(* invalidates a frag that is freed (README, "Seen while modelling").      *)
Next ==
    \/ Calls
    \/ \E to, from \in Frag : cache_frag_move(to, from)

Spec == Init /\ [][Next]_vars

-----------------------------------------------------------------------------
(* Every variable keeps its type: the fields of cache.c and superblock.    *)
TypeOK ==
    /\ stack \in Seq(Node) /\ hash \in Seq(Node)
    /\ blk \in [Node -> Frag \cup {0}]
    /\ dirty \subseteq Node /\ leaked \subseteq Node
    /\ buf \in [Node -> Data]
    /\ cache_item_dirty \in Int /\ cache_alloced \in Int
    /\ cache_size \in Nat
    /\ disk \in [Frag -> Data]
    /\ fs_ronly \in BOOLEAN /\ receiving_packets \in BOOLEAN
    /\ pc \in {"idle", "adjust", "wild"}
    /\ failed \subseteq Frag

(* The list and the chains hold the same nodes, each once: cache_add() and *)
(* cache_remove() are always called in pairs (cache.c:310-332, 760-841).   *)
ListsAgree ==
    /\ NoRepeats(stack) /\ NoRepeats(hash)
    /\ Elems(hash) = InStack
    /\ InStack \cap leaked = {}
    /\ \A n \in Node \ InStack : blk[n] = 0

(* The dirty nodes are in the list, hold a frag, and are as many as        *)
(* cache_item_dirty says: what cache_flush() checks before it stops the    *)
(* handler with "BUG: ..." (cache.c:582-603).                              *)
DirtyCounted ==
    /\ dirty \subseteq InStack
    /\ \A n \in dirty : blk[n] # 0
    /\ cache_item_dirty = Cardinality(dirty)

(* cache_alloced counts the listed nodes and the ones that read faults     *)
(* lost, so it never sinks below what is in use (cache.c:438, 458, 722).   *)
BuffersAccounted == cache_alloced = Len(stack) + Cardinality(leaked)

(* Both counters, by which cache_flush(), cache_getnode() and              *)
(* cache_adjust() decide how many buffers there are to write, reuse and    *)
(* free, are right after any sequence of calls, faults and remounts        *)
(* (cache.c:426-470, 582-603, 715-735).                                    *)
Accounted == DirtyCounted /\ BuffersAccounted

(* The consistency checks of cache_flush() never stop the handler: only a  *)
(* cache that got no buffer at all does.                                   *)
StopsOnlyWithoutMemory == receiving_packets \/ cache_alloced = 0

(* The NULL of cache_getnode() is used (cache.c:120, 169) only after a     *)
(* read fault lost a buffer, or in a handler that stopped for want of      *)
(* memory: never because all buffers are dirty, and never because          *)
(* MORE_CACHE packets took the last buffer away.                           *)
NullOnlyAfterFaults ==
    pc = "wild" => leaked # {} \/ ~receiving_packets

(* A flush in which every data_write() succeeds leaves each dirty frag on  *)
(* the medium as one of its dirty buffers had it, and as readers saw it    *)
(* unless it was doubled: "called by external routines to synchronize the  *)
(* disk" (cache.c:556-561, 629-653).                                       *)
FlushSynchronizes ==
    [][(dirty # {} /\ dirty' = {} /\ failed' = {} /\ UNCHANGED <<stack, blk>>)
         => \A n \in dirty :
               /\ \E m \in dirty : blk[m] = blk[n] /\ disk'[blk[n]] = buf[m]
               /\ blk[n] \notin Doubled => disk'[blk[n]] = View(blk[n])]_vars

(* The cache is a disk with delayed write-back (module FragStore): every   *)
(* frag reads as last written, and only a failed data_write() loses it.    *)
(* Frags are doubled only by cache_frag_move() onto a cached target        *)
(* (cache.c:667-694), and what that spoils is that frag alone, and only    *)
(* as long as it is doubled.                                               *)
Store == INSTANCE FragStore WITH
    store   <- [f \in Frag |-> View(f)],
    durable <- disk,
    pending <- {blk[n] : n \in dirty},
    weak    <- {f \in Frag : /\ Cached(f)
                             /\ cache_node(f) \notin dirty
                             /\ View(f) # disk[f]},
    torn    <- Doubled

ReadsAsWritten == Store!Spec
=============================================================================
