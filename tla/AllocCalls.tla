------------------------------ MODULE AllocCalls ------------------------------
(***************************************************************************)
(* The calls that fs/file.c and fs/inode.c make of the routines of alloc.c:*)
(* blocks and frags are given out as the searches find them, frags are     *)
(* given out right behind frags in use, and only what is in use is given   *)
(* back, from anywhere and in any order.                                   *)
(***************************************************************************)
EXTENDS Alloc

VARIABLE m      \* the maps of the volume

(* n frags from d on are in use.                                           *)
InUse(d, n) == \A e \in FragsOf(d, n) : e \in DataFrag /\ dtogd(e) \notin m.cg[dtog(e)].free

(* n frags from d on, but not a block, lie in one block.                   *)
InOneBlock(d, n) == n < FRAGS_PER_BLK /\ (d % FRAGS_PER_BLK) + n <= FRAGS_PER_BLK

AllocateBlock(near) ==
    /\ ~m.sb.fs_ronly
    /\ m' = block_allocate(m, near).m

(* file_block_retract() and file_frag_expand() look for frags in a group.  *)
AllocateFrags(g, preferred, n) ==
    LET at == block_fragblock_find(g, m.cg[g].free, preferred, n)
    IN  /\ ~m.sb.fs_ronly
        /\ n < FRAGS_PER_BLK
        /\ at # -1
        /\ m' = frags_allocate(m, cgbase(g) + at, n).m

(* file_block_extend() and file_frag_expand() look behind a file's frags.  *)
ExtendFrags(d, n) ==
    /\ ~m.sb.fs_ronly
    /\ d % FRAGS_PER_BLK # 0 /\ InOneBlock(d, n)
    /\ InUse(d - 1, 1)
    /\ FragsOf(dtogd(d), n) \subseteq m.cg[dtog(d)].free
    /\ m' = frags_allocate(m, d, n).m

FreeBlock(d) ==
    /\ d % FRAGS_PER_BLK = 0
    /\ InUse(d, FRAGS_PER_BLK)
    /\ m' = block_deallocate(m, d)

FreeFragRun(d, n) ==
    /\ InOneBlock(d, n)
    /\ InUse(d, n)
    /\ m' = frags_deallocate(m, d, n)

(* A volume with nothing on it.                                            *)
Init == m = Maps([g \in Group |-> DataOf(g)])

Next ==
    \/ \E g \in Group : \E b \in BlockStarts(g) : AllocateBlock(cgbase(g) + b)
    \/ \E g \in Group, n \in 1..(FRAGS_PER_BLK - 1) :
          \E p \in BlockStarts(g) : AllocateFrags(g, p, n)
    \/ \E d \in DataFrag, n \in 1..(FRAGS_PER_BLK - 1) : ExtendFrags(d, n)
    \/ \E d \in DataFrag : FreeBlock(d)
    \/ \E d \in DataFrag, n \in 1..(FRAGS_PER_BLK - 1) : FreeFragRun(d, n)

Spec == Init /\ [][Next]_m

-----------------------------------------------------------------------------
(* The counts that alloc.c adjusts call by call, of free blocks, of free   *)
(* frags and of runs of each length, in the group and in the superblock,   *)
(* are those of the bitmap, whatever was split and joined before.  fsck    *)
(* takes anything else for damage.  No reserved frag ever becomes free.    *)
SummariesExact ==
    LET true == Maps([g \in Group |-> m.cg[g].free])
    IN  /\ \A g \in Group : /\ m.cg[g].free \subseteq DataOf(g)
                            /\ m.cg[g].frsum = true.cg[g].frsum
                            /\ m.cg[g].nbfree = true.cg[g].nbfree
                            /\ m.cg[g].nffree = true.cg[g].nffree
        /\ m.sb.fs_cs = true.sb.fs_cs
        /\ m.sb.fs_cstotal = true.sb.fs_cstotal

(* ffs_clusteracct() keeps the map of free blocks, and the number of       *)
(* clusters of each length, by looking at the neighbours of the block that *)
(* changes, at most contigsumsize to either side.                          *)
ClustersExact ==
    \A g \in Group : LET true == Summary(g, m.cg[g].free)
                     IN  /\ m.cg[g].clusters = true.clusters
                         /\ m.cg[g].clustersum = true.clustersum

(* None of the checks marked INCON in alloc.c ever finds the summaries     *)
(* wrong and makes the volume read-only.                                   *)
NeverInconsistent == ~m.sb.fs_ronly

(* block_free_find(), which gives up once a free block is further away     *)
(* than the last, returns a free block of the group to which none is       *)
(* nearer, and -1 only if there is none.                                   *)
NearestFound ==
    \A g \in Group : \A p \in BlockStarts(g) :
        LET blocks == FreeBlocks(g, m.cg[g].free)
            got    == block_free_find(g, m.cg[g].free, p)
        IN  IF blocks = {} THEN got = -1
            ELSE got \in blocks /\ \A b \in blocks : Abs(p - got) <= Abs(p - b)

(* block_allocate() gives out a block that was free, and gives out none    *)
(* only if there is none in any group.                                     *)
FailsOnlyFull ==
    \A g \in Group : \A b \in BlockStarts(g) :
        LET got == block_allocate(m, cgbase(g) + b).got
        IN  IF \A h \in Group : FreeBlocks(h, m.cg[h].free) = {} THEN got = 0
            ELSE got # 0 /\ BlockAt(got) \subseteq FreeFrags(m)

(* All that alloc.c keeps in step with the bitmap: fsck takes any          *)
(* difference for damage, and the searches are steered by the counts.      *)
CountsExact == SummariesExact /\ ClustersExact

(* What the callers in file.c rely on: a block that is free and near, or   *)
(* none only when there is none.                                           *)
SearchesExact == NearestFound /\ FailsOnlyFull
=============================================================================
