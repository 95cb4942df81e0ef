------------------------------- MODULE CgCache -------------------------------
(***************************************************************************)
(* The cylinder group cache (fs/cache.c): a short array of buffers, each   *)
(* with a dirty flag of its own, ordered from least to most recently used. *)
(*                                                                         *)
(*   data    cache_cg_data[]: NULL, or the group number found in the       *)
(*           buffer (Bad is the -1 of a failed read) and its contents      *)
(*   state   cache_cg_state[]: TRUE is dirty.  No routine resets it when   *)
(*           the cache is closed or opened                                 *)
(*   disk    the cylinder group blocks of the medium (external)            *)
(*   wild    TRUE once cache_cg_flush() wrote from a NULL buffer, or to    *)
(*           the address that group -1 works out to; nothing is known of   *)
(*           what follows, and the model stops                             *)
(*   changed the medium was changed and PDiskChange() has not run yet      *)
(*   failed  history variable: the groups whose data_write() failed in the *)
(*           last step                                                     *)
(*   faulted history variable: some data_write() failed so far             *)
(***************************************************************************)
EXTENDS Integers, FiniteSets

CONSTANTS
    Cg,         \* cylinder groups
    Val,        \* contents of a cylinder group block
    NULL,       \* the null pointer
    Bad,        \* the group number -1
    CgMax,      \* CACHE_CG_MAX, 16 in the code
    CgSizeMin,  \* the smallest cache_cg_size, 3 in the code
    Sizes       \* values cache_cg_size is asked to take

ASSUME BadAssumption   == Bad \notin Cg
ASSUME SlotsAssumption == CgMax \in Nat /\ CgSizeMin \in 1..(CgMax - 1)
ASSUME SizesAssumption == Sizes \subseteq Int

(* A buffer with the group number found in it.                             *)
Buffers == [cgx : Cg \cup {Bad}, val : Val]

ASSUME NullAssumption  == NULL \notin Buffers

VARIABLES data, state, cache_cg_size, disk, fs_ronly, wild, changed, failed,
          faulted

vars == <<data, state, cache_cg_size, disk, fs_ronly, wild, changed, failed,
          faulted>>

Slot   == 0..(CgMax - 1)
InUse  == {i \in Slot : data[i] # NULL}
Buffer(c, v) == [cgx |-> c, val |-> v]

Holds(i, c) == data[i] # NULL /\ data[i].cgx = c
(* Mutant: the search starts at slot 1.                                    *)
SearchedFrom1 == 1..(cache_cg_size - 1)

Searched    == 0..(cache_cg_size - 1)
Hit(c)      == \E i \in Searched : Holds(i, c)
SlotOf(c)   == CHOOSE i \in Searched : Holds(i, c)

(* What a caller of cache_cg() gets to see of a group.                     *)
View(c) == IF Hit(c) THEN data[SlotOf(c)].val ELSE disk[c]

FirstNull == CHOOSE i \in Slot : i \notin InUse /\ \A j \in 0..(i - 1) : j \in InUse

(* cache_popup_cg(): slot pos moves behind the last one in use.            *)
Last(a)     == CHOOSE i \in Slot : a[i] # NULL /\ \A j \in Slot : j > i => a[j] = NULL
Popped(a, pos, last) ==
    [i \in Slot |-> IF i < pos \/ i > last THEN a[i]
                    ELSE IF i = last THEN a[pos] ELSE a[i + 1]]

-----------------------------------------------------------------------------
(* cache_cg_flush() runs over all slots; ok are the groups whose           *)
(* data_write() succeeds.                                                  *)
DirtySlots == {i \in Slot : state[i]}
DirtyCgs   == {data[i].cgx : i \in DirtySlots \cap InUse}
Stray      == \E i \in DirtySlots : data[i] = NULL \/ data[i].cgx = Bad

Flushable(ok) == ok \subseteq DirtyCgs \cap Cg /\ (fs_ronly => ok = {})

FlushedDisk(ok) ==
    [c \in Cg |-> IF c \in ok
                  THEN data[CHOOSE i \in DirtySlots : Holds(i, c)].val
                  ELSE disk[c]]

FlushedState(ok) ==
    [i \in Slot |-> state[i] /\ ~(i \in InUse /\ data[i].cgx \in ok)]

(* The history of failures, for the last step and for all of them.         *)
Fails(groups) ==
    /\ failed' = groups
    /\ faulted' = (faulted \/ groups # {})

FailedCgs(ok) == (DirtyCgs \cap Cg) \ ok

PFlush(ok) ==
    /\ ~wild /\ ~changed
    /\ Flushable(ok)
    /\ disk' = FlushedDisk(ok)
    /\ state' = FlushedState(ok)
    /\ Fails(FailedCgs(ok))
    /\ wild' = (Stray /\ ~fs_ronly)
    /\ UNCHANGED <<data, cache_cg_size, fs_ronly, changed>>

-----------------------------------------------------------------------------
(* cache_cg() and, with dirtied, cache_cg_write() followed by the caller's *)
(* stores, which leave v.                                                  *)

(* The group is cached.  cache_cg_write() marks it where it is.            *)
ReadHit(c) ==
    LET last == Last(data)
    IN  /\ ~wild /\ ~changed
        /\ Hit(c)
        /\ data' = Popped(data, SlotOf(c), last)
        /\ state' = Popped(state, SlotOf(c), last)
        /\ Fails({})
        /\ UNCHANGED <<cache_cg_size, disk, fs_ronly, wild, changed>>

WriteHit(c, v) ==
    /\ ~wild /\ ~changed
    /\ Hit(c)
    /\ data' = [data EXCEPT ![SlotOf(c)].val = v]
    /\ state' = [state EXCEPT ![SlotOf(c)] = TRUE]
    /\ Fails({})
    /\ UNCHANGED <<cache_cg_size, disk, fs_ronly, wild, changed>>

(* There is an unused slot: it takes a new buffer, unless AllocMem fails.  *)
Room == ~(Searched \subseteq InUse)

Fill(c, v, dirtied) ==
    /\ ~wild /\ ~changed
    /\ ~Hit(c) /\ Room
    /\ data' = [data EXCEPT ![FirstNull] = Buffer(c, v)]
    /\ state' = [state EXCEPT ![FirstNull] = dirtied]
    /\ Fails({})
    /\ UNCHANGED <<cache_cg_size, disk, fs_ronly, wild, changed>>

FillFault(c, v) ==
    /\ ~wild /\ ~changed
    /\ ~Hit(c) /\ Room
    /\ data' = [data EXCEPT ![FirstNull] = Buffer(Bad, v)]
    /\ state' = [state EXCEPT ![FirstNull] = FALSE]
    /\ Fails({})
    /\ UNCHANGED <<cache_cg_size, disk, fs_ronly, wild, changed>>

(* Mutant: slot 0 is reused without a flush.                               *)
NoFlushForSlot0(ok) ==
    ok = {} /\ Fails({}) /\ UNCHANGED <<disk, wild>>

(* All slots are in use: slot 0 is reused, after all slots are flushed if  *)
(* slot 0 is dirty, whether or not that succeeds.                          *)
FlushForSlot0(ok) ==
    IF state[0]
    THEN /\ Flushable(ok)
         /\ disk' = FlushedDisk(ok)
         /\ Fails(FailedCgs(ok))
         /\ wild' = (Stray /\ ~fs_ronly)
    ELSE ok = {} /\ Fails({}) /\ UNCHANGED <<disk, wild>>

StateForSlot0(ok) == IF state[0] THEN FlushedState(ok) ELSE state

Evict(c, v, dirtied, ok) ==
    LET last == Last(data)
    IN  /\ ~wild /\ ~changed
        /\ ~Hit(c) /\ ~Room
        /\ FlushForSlot0(ok)
        /\ data' = Popped([data EXCEPT ![0] = Buffer(c, v)], 0, last)
        /\ state' = Popped([StateForSlot0(ok) EXCEPT ![0] = dirtied], 0, last)
        /\ UNCHANGED <<cache_cg_size, fs_ronly, changed>>

(* The read fails: the buffer is marked Bad, its dirty flag is left as the *)
(* flush left it.                                                          *)
EvictFault(c, v, ok) ==
    /\ ~wild /\ ~changed
    /\ ~Hit(c) /\ ~Room
    /\ FlushForSlot0(ok)
    /\ data' = [data EXCEPT ![0] = Buffer(Bad, v)]
    /\ state' = StateForSlot0(ok)
    /\ UNCHANGED <<cache_cg_size, fs_ronly, changed>>

(* cache_cg_write() tries a failed cache_cg() again, twice: that is a      *)
(* FillFault or EvictFault step before the one that succeeds.              *)
cache_cg(c) ==
    \/ ReadHit(c)
    \/ Fill(c, disk[c], FALSE)
    \/ \E v \in Val : FillFault(c, v)
    \/ \E ok \in SUBSET Cg :
          \/ Evict(c, disk[c], FALSE, ok)
          \/ \E v \in Val : EvictFault(c, v, ok)

cache_cg_write(c, v) ==
    \/ WriteHit(c, v)
    \/ Fill(c, v, TRUE)
    \/ \E ok \in SUBSET Cg : Evict(c, v, TRUE, ok)

-----------------------------------------------------------------------------
(* PMoreCache() with an amount past 10000, and cache_cg_adjust(): the      *)
(* slots from the new size on are written if dirty, and freed in any case. *)
Clamp(n) == IF n < CgSizeMin THEN CgSizeMin
            ELSE IF n >= CgMax THEN CgMax - 1 ELSE n

Freed(size) == {i \in InUse : i >= size}

cache_cg_adjust(n, ok) ==
    LET size  == Clamp(n)
        freed == Freed(size)
    IN  /\ ~wild /\ ~changed
        /\ cache_cg_size' = size
        /\ Flushable(ok)
        /\ \A c \in ok : \E i \in freed \cap DirtySlots : Holds(i, c)
        /\ disk' = FlushedDisk(ok)
        /\ Fails({c \in Cg \ ok : \E i \in freed \cap DirtySlots : Holds(i, c)})
        /\ wild' = (~fs_ronly /\ \E i \in freed \cap DirtySlots : Holds(i, Bad))
        /\ data' = [i \in Slot |-> IF i \in freed THEN NULL ELSE data[i]]
        /\ state' = [i \in Slot |-> IF i \in freed THEN FALSE ELSE state[i]]
        /\ UNCHANGED <<fs_ronly, changed>>

PWriteProtect(ro) ==
    /\ ~wild /\ ~changed
    /\ fs_ronly' = ro
    /\ Fails({})
    /\ UNCHANGED <<data, state, cache_cg_size, disk, wild, changed>>

(* close_filesystem() and open_filesystem(): the buffers go, what is left  *)
(* of the dirty flags stays.                                               *)
Reopen(ok) ==
    /\ Flushable(ok)
    /\ disk' = FlushedDisk(ok)
    /\ state' = FlushedState(ok)
    /\ Fails(FailedCgs(ok))
    /\ wild' = (Stray /\ ~fs_ronly)
    /\ data' = [i \in Slot |-> NULL]
    /\ fs_ronly' \in BOOLEAN
    /\ UNCHANGED cache_cg_size

Remount(ok) ==
    /\ ~wild /\ ~changed
    /\ Reopen(ok)
    /\ UNCHANGED changed

(* Another medium is put in the drive, and PDiskChange() is told so.  The  *)
(* cache_full_invalidate() it calls is about the frag cache only.          *)
ChangeMedium ==
    /\ ~wild /\ ~changed
    /\ changed' = TRUE
    /\ disk' \in [Cg -> Val]
    /\ Fails({})
    /\ UNCHANGED <<data, state, cache_cg_size, fs_ronly, wild>>

PDiskChange(ok) ==
    /\ ~wild /\ changed
    /\ changed' = FALSE
    /\ Reopen(ok)

Wild == wild /\ UNCHANGED vars

Init ==
    /\ data = [i \in Slot |-> NULL]
    /\ state = [i \in Slot |-> FALSE]
    /\ cache_cg_size \in {Clamp(n) : n \in Sizes}
    /\ disk \in [Cg -> Val]
    /\ fs_ronly \in BOOLEAN
    /\ wild = FALSE
    /\ changed = FALSE
    /\ failed = {}
    /\ faulted = FALSE

Calls ==
    \/ \E c \in Cg : cache_cg(c)
    \/ \E c \in Cg, v \in Val : cache_cg_write(c, v)
    \/ \E n \in Sizes, ok \in SUBSET Cg : cache_cg_adjust(n, ok)
    \/ \E ro \in BOOLEAN : PWriteProtect(ro)
    \/ \E ok \in SUBSET Cg : PFlush(ok) \/ Remount(ok)
    \/ Wild

Next ==
    \/ Calls
    \/ ChangeMedium
    \/ \E ok \in SUBSET Cg : PDiskChange(ok)

Spec == Init /\ [][Next]_vars

-----------------------------------------------------------------------------
(* The slots in use come first and are as few as cache_cg_size allows: the *)
(* searches stop at the first unused slot, and cache_popup_cg() looks one  *)
(* slot past it (cache.c:927-940, 986-1002).                               *)
SlotsPacked ==
    \A i \in InUse : i < cache_cg_size /\ \A j \in 0..i : j \in InUse

(* A group has one buffer: two would let block allocations run against a   *)
(* bitmap that another buffer overwrites (cache.c:942-957).                *)
OneBufferPerGroup ==
    \A i, j \in InUse :
        data[i].cgx = data[j].cgx /\ data[i].cgx # Bad => i = j

(* The cache is a set of cylinder groups with delayed write-back (module   *)
(* FragStore): a group reads as it was last modified, and only a group     *)
(* whose data_write() failed may fall back to what the medium holds.  When *)
(* the medium is changed nothing is promised.                              *)
Store == INSTANCE FragStore WITH
    Frag    <- Cg,
    Data    <- Val,
    store   <- [c \in Cg |-> View(c)],
    durable <- disk,
    pending <- DirtyCgs \cap Cg,
    weak    <- {},
    torn    <- {}

ReadsAsModified == Store!Init /\ [][Store!Next \/ wild' \/ changed \/ changed']_Store!vars

(* A dirty flag is left on a slot whose buffer is gone or holds no group   *)
(* only after a data_write() failed: cache_cg_flush() would write from     *)
(* NULL, or to the address of group -1, which lies before the partition    *)
(* and passes data_write()'s range check (cache.c:544, 954, ufs.c:227).    *)
StrayOnlyAfterFaults == Stray => faulted

(* The array of buffers as the searches, the eviction and the flush take   *)
(* it: packed from slot 0, one slot per group, and no dirty flag without   *)
(* its buffer unless a write failed.                                       *)
SlotsSound == SlotsPacked /\ OneBufferPerGroup /\ StrayOnlyAfterFaults
=============================================================================
