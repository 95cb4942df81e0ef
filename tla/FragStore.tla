------------------------------ MODULE FragStore ------------------------------
(***************************************************************************)
(* What the fragment cache promises to the rest of BFFS: a disk whose      *)
(* frags read back as they were last written, with write-back delayed.     *)
(*                                                                         *)
(*   store    the contents a caller of cache_frag() sees                   *)
(*   durable  the contents of the medium                                   *)
(*   pending  frags whose contents still have to be written back           *)
(*   weak     frags whose write-back failed: the contents seen now are     *)
(*            gone as soon as the cache needs the buffer                   *)
(*   failed   frags whose write to the medium failed in the last step      *)
(*   torn     frags of which an older copy is kept beside the newest: only *)
(*            a move makes one, of its target, and until the older copy is *)
(*            gone it may come to be read, or be written back last         *)
(*                                                                         *)
(* Whatever operation is called, the cache may in the same step write back *)
(* other frags, fail to, or forget weak ones (Background).  Of a torn frag *)
(* it promises no more than that a write is read back at once.             *)
(***************************************************************************)
CONSTANTS Frag, Data

VARIABLES store, durable, pending, weak, failed, torn

vars == <<store, durable, pending, weak, failed, torn>>

Init ==
    /\ durable \in [Frag -> Data]
    /\ store = durable
    /\ pending = {}
    /\ weak = {}
    /\ failed = {}
    /\ torn = {}

-----------------------------------------------------------------------------
(* What may happen to a frag that the operation does not name.             *)

Kept(f) ==
    /\ store'[f] = store[f]
    /\ durable'[f] = durable[f]
    /\ f \in pending' <=> f \in pending
    /\ f \in weak' <=> f \in weak

WrittenBack(f) ==
    /\ f \in pending \ pending'
    /\ store'[f] = store[f]
    /\ durable'[f] = store[f]
    /\ f \notin weak'

WriteBackFailed(f) ==
    /\ f \in pending \ pending' /\ f \in failed'
    /\ durable'[f] = durable[f]
    /\ store'[f] = store[f]
    /\ f \in weak' <=> store[f] # durable[f]

(* The contents fall back to the medium's: only after a failed write-back. *)
FellBack(f) ==
    /\ f \in weak \/ (f \in pending /\ f \in failed')
    /\ f \notin pending' \cup weak'
    /\ durable'[f] = durable[f]
    /\ store'[f] = durable[f]

StaysWhole(f) == f \notin torn => f \notin torn'

Background(F) ==
    \A f \in F \ torn :
        /\ StaysWhole(f)
        /\ \/ Kept(f)
           \/ WrittenBack(f)
           \/ WriteBackFailed(f)
           \/ FellBack(f)

-----------------------------------------------------------------------------
(* cache_frag_write() and the caller's stores into the buffer.             *)
Write(f, d) ==
    /\ store'[f] = d
    /\ durable'[f] = durable[f]
    /\ f \in pending' /\ f \notin weak'
    /\ StaysWhole(f)
    /\ Background(Frag \ {f})

(* A second copy of the frag, with contents d, is put before the first;    *)
(* a write-back of the first may come in the same step.                    *)
PutBefore(to, d) ==
    /\ store'[to] = d
    /\ to \in pending' /\ to \notin weak'
    /\ to \notin torn =>
         \/ durable'[to] = durable[to]
         \/ to \in pending /\ durable'[to] = store[to]

(* What is left of a frag once its only copy in the cache is taken away.   *)
Uncovered(f) ==
    /\ store'[f] = durable'[f]
    /\ f \notin pending' \cup weak'
    /\ f \notin torn'

(* cache_frag_move(): the target takes the source's contents, the source   *)
(* is back to what the medium holds.                                       *)
Move(to, from) ==
    /\ to # from
    /\ PutBefore(to, store[from])
    /\ from \notin torn => Uncovered(from) /\ durable'[from] = durable[from]
    /\ Background(Frag \ {to, from})

(* cache_frag_move() whose read of the source failed.                      *)
MoveGarbage(to) ==
    /\ \E d \in Data : PutBefore(to, d)
    /\ Background(Frag \ {to})

(* cache_invalidate(): a write that was not written back is forgotten.     *)
Discard(f) ==
    /\ durable'[f] = durable[f]
    /\ f \notin torn => Uncovered(f)
    /\ Background(Frag \ {f})

(* An uncached write of the frag, which may fail.                          *)
WriteThrough(f, d) ==
    /\ durable'[f] = IF f \in failed' THEN durable[f] ELSE d
    /\ f \notin torn => Uncovered(f)
    /\ Background(Frag \ {f})

(* Reads, flushes, resizes.                                                *)
Sync == Background(Frag)

(* The cache is emptied without writing back: the medium was changed.      *)
Replace ==
    /\ durable' \in [Frag -> Data]
    /\ store' = durable'
    /\ pending' = {}
    /\ weak' = {}
    /\ failed' = {}
    /\ torn' = {}

Next ==
    \/ \E f \in Frag, d \in Data : Write(f, d) \/ WriteThrough(f, d)
    \/ \E to, from \in Frag : Move(to, from)
    \/ \E to \in Frag : MoveGarbage(to)
    \/ \E f \in Frag : Discard(f)
    \/ Sync
    \/ Replace

Spec == Init /\ [][Next]_vars
=============================================================================
