-------------------------------- MODULE Alloc --------------------------------
(***************************************************************************)
(* The routines of fs/alloc.c as operators on the maps of a volume.  The   *)
(* maps are a record m with                                                *)
(*                                                                         *)
(*   m.cg[g]   the cylinder group block of group g:                        *)
(*     free        cg_blksfree: the frags of the group that are free       *)
(*     frsum       cg_frsum: how many runs of 1, 2, ... free frags there   *)
(*                 are in the blocks that are not entirely free            *)
(*     nbfree      cg_cs.cs_nbfree: the free blocks                        *)
(*     nffree      cg_cs.cs_nffree: the free frags in other blocks         *)
(*     clusters    cg_clustersfree: the numbers of the free blocks         *)
(*     clustersum  cg_clustersum: how many clusters of 1, 2, ... free      *)
(*                 blocks there are, the last also of more                 *)
(*   m.sb      the superblock: fs_cs, the counts of every group once more, *)
(*             fs_cstotal, their sums, and fs_ronly                        *)
(*                                                                         *)
(* A frag address is a group's base and an offset in the group; 0 stands   *)
(* for none.  The counts per cylinder and rotational position (cg_blks,    *)
(* cg_blktot), which nothing in the handler reads, are left out.           *)
(***************************************************************************)
EXTENDS Integers, FiniteSets

CONSTANTS
    FRAGS_PER_BLK,  \* fs_frag
    fs_ncg,         \* number of groups
    fs_fpg,         \* frags per group, from base to base
    cg_ndblk,       \* for every group the number of its frags
    contigsumsize,  \* fs_contigsumsize
    Reserved        \* addresses of the boot block, superblocks, groups, inodes

Group == 0..(fs_ncg - 1)

ASSUME GeometryAssumption ==
    /\ FRAGS_PER_BLK \in {1, 2, 4, 8}
    /\ fs_fpg \in Nat /\ fs_fpg > 0 /\ fs_fpg % FRAGS_PER_BLK = 0
    /\ fs_ncg \in Nat /\ fs_ncg > 0
    /\ cg_ndblk \in [Group -> 1..fs_fpg]
    /\ contigsumsize \in Nat
ASSUME ReservedAssumption == 0 \in Reserved /\ \A d \in Reserved : d \in Nat

-----------------------------------------------------------------------------
(* fsmacros.h                                                              *)
cgbase(g) == fs_fpg * g
dtog(d)   == d \div fs_fpg
dtogd(d)  == d % fs_fpg
blknum(f) == f - (f % FRAGS_PER_BLK)

FragsOf(f, n) == f..(f + n - 1)
BlockAt(b)    == FragsOf(b, FRAGS_PER_BLK)

(* The offsets at which the blocks of a group start, the last of which may *)
(* be cut off by the group's end.                                          *)
BlockStarts(g) == {b \in 0..(cg_ndblk[g] - 1) : b % FRAGS_PER_BLK = 0}

Abs(x)    == IF x < 0 THEN -x ELSE x
Least(S)  == CHOOSE x \in S : \A y \in S : x <= y
Most(S)   == CHOOSE x \in S : \A y \in S : x >= y
Lesser(x, y) == IF x < y THEN x ELSE y

(* F of x, where TLC is to evaluate x once.                                *)
With(x, F(_)) == CHOOSE y \in {F(z) : z \in {x}} : TRUE

-----------------------------------------------------------------------------
(* The searches.  All return an offset in the group, or -1.                *)

block_avail(free, b) == BlockAt(b) \subseteq free

frags_left_are_free(free, f) == f..(blknum(f) + FRAGS_PER_BLK - 1) \subseteq free

(* Both searches round the preferred offset down, and start at 0 when it   *)
(* is past the group's end.                                                *)
Preferred(g, f) == IF blknum(f) > cg_ndblk[g] THEN 0 ELSE blknum(f)

FreeBlocks(g, free) == {b \in BlockStarts(g) : block_avail(free, b)}

(* The scan for the free block nearest to the preferred one: upwards from  *)
(* the group's start, it takes each free block that is no further away     *)
(* than any before (nor than mindist), and stops at the first that is.     *)
ScanWithin(g, free, p, mindist) ==
    LET avail == FreeBlocks(g, free)
        Closer(b) == Abs(p - b) <= mindist /\ \A c \in avail : c < b => Abs(p - b) <= Abs(p - c)
        taken == {b \in avail : \A c \in avail : c <= b => Closer(c)}
    IN  IF taken = {} THEN -1 ELSE Most(taken)

(* (Mutant: the least distance so far starts too small.)                   *)
ScanHalf(g, free, p) == ScanWithin(g, free, p, cg_ndblk[g] \div 2)

Scan(g, free, p) == ScanWithin(g, free, p, cg_ndblk[g])

(* With eight frags per block, a byte of the map, it looks in both         *)
(* directions from the preferred block instead.                            *)
BothWays(g, free, p) ==
    LET avail == FreeBlocks(g, free)
        back  == {b \in avail : b <= p}
        forw  == {b \in avail : b > p}
    IN  CASE back = {} /\ forw = {} -> -1
          [] back = {} /\ forw # {} -> Least(forw)
          [] back # {} /\ forw = {} -> Most(back)
          [] OTHER -> IF Least(forw) - p < p - Most(back) THEN Least(forw) ELSE Most(back)

block_free_find(g, free, preferred) ==
    IF FRAGS_PER_BLK = 8 THEN BothWays(g, free, Preferred(g, preferred))
                         ELSE Scan(g, free, Preferred(g, preferred))

(* Where in block b a run of n free frags starts.                          *)
Fits(free, b, n) ==
    {f \in b..(b + FRAGS_PER_BLK - n) : FragsOf(f, n) \subseteq free}

(* The first fit in the nearest block after the preferred one or, failing  *)
(* that, before it (OPT_TIME; nothing ever selects OPT_SPACE).             *)
block_fragblock_find(g, free, preferred, n) ==
    LET p    == Preferred(g, preferred)
        fit  == {b \in BlockStarts(g) : Fits(free, b, n) # {}}
        forw == {b \in fit : b >= p}
    IN  CASE n \notin 1..FRAGS_PER_BLK \/ fit = {} -> -1
          [] forw # {} -> Least(Fits(free, Least(forw), n))
          [] OTHER     -> Least(Fits(free, Most(fit), n))

-----------------------------------------------------------------------------
(* The summaries.                                                          *)

(* (Mutant: the superblock's copy of the group's count is left alone.)     *)
adjust_blks_free_cg(m, g, adjust) ==
    [m EXCEPT !.cg[g].nbfree = @ + adjust,
              !.sb.fs_cstotal.nbfree = @ + adjust]

adjust_blks_free(m, g, adjust) ==
    [m EXCEPT !.cg[g].nbfree = @ + adjust,
              !.sb.fs_cs[g].nbfree = @ + adjust,
              !.sb.fs_cstotal.nbfree = @ + adjust]

adjust_frags_free(m, g, adjust) ==
    [m EXCEPT !.cg[g].nffree = @ + adjust,
              !.sb.fs_cs[g].nffree = @ + adjust,
              !.sb.fs_cstotal.nffree = @ + adjust]

adjust_frsum(m, g, count, adjust) ==
    IF count = 0 THEN m ELSE [m EXCEPT !.cg[g].frsum[count] = @ + adjust]

(* How many blocks, at most contigsumsize, are free in a row in direction  *)
(* step from block k.                                                      *)
InARow(clusters, k, step) ==
    Most({n \in 0..contigsumsize : \A i \in 1..n : k + step * i \in clusters})

Adding(sum, count, adjust) ==
    IF count = 0 THEN sum ELSE [sum EXCEPT ![count] = @ + adjust]

ffs_clusteracct(m, g, b, adjust) ==
    IF contigsumsize = 0 THEN m ELSE
    LET k        == b \div FRAGS_PER_BLK
        clusters == IF adjust > 0 THEN m.cg[g].clusters \cup {k} ELSE m.cg[g].clusters \ {k}
        forw     == InARow(clusters, k, 1)
        back     == InARow(clusters, k, -1)
        whole    == Lesser(back + forw + 1, contigsumsize)
    IN  [m EXCEPT !.cg[g].clusters = clusters,
                  !.cg[g].clustersum =
                      Adding(Adding(Adding(@, whole, adjust), back, -adjust), forw, -adjust)]

-----------------------------------------------------------------------------
(* Allocation.  The result is a record of the maps and of got, the address *)
(* or 0.                                                                   *)

ReadOnly(m) == [m EXCEPT !.sb.fs_ronly = TRUE]

TakeBlock(m, g, b) ==
    [got |-> cgbase(g) + b,
     m   |-> ffs_clusteracct(
                 adjust_blks_free([m EXCEPT !.cg[g].free = @ \ BlockAt(b)], g, -1),
                 g, b, -1)]

(* The group with the most free blocks, the first of several.              *)
Roomiest(m) ==
    Least({g \in Group : \A h \in Group : m.sb.fs_cs[g].nbfree >= m.sb.fs_cs[h].nbfree})

block_allocate(m, near) ==
    LET g     == dtog(near)
        h     == Roomiest(m)
        There(f) == IF m.sb.fs_cs[h].nbfree = 0 \/ f = -1
                    THEN [got |-> 0, m |-> ReadOnly(m)]
                    ELSE TakeBlock(m, h, f)
        Here(f)  == IF f # -1 THEN TakeBlock(m, g, f)
                    ELSE With(block_free_find(h, m.cg[h].free, 0), There)
    IN  IF m.sb.fs_cstotal.nbfree = 0 THEN [got |-> 0, m |-> m]
        ELSE With(block_free_find(g, m.cg[g].free, dtogd(near)), Here)

block_deallocate(m, d) ==
    LET g == dtog(d)
        b == dtogd(d)
    IN  ffs_clusteracct(
            adjust_blks_free([m EXCEPT !.cg[g].free = @ \cup BlockAt(b)], g, 1),
            g, b, 1)

(* The free frags just below offset f of its block, and from offset f on.  *)
FreeBelow(free, f) ==
    Most({n \in 0..(f % FRAGS_PER_BLK) : FragsOf(f - n, n) \subseteq free})
(* (Mutant: the last frag of the block is not looked at.)                  *)
FreeFromShort(free, f, b) ==
    Most({n \in 0..(b + FRAGS_PER_BLK - f) : FragsOf(f, n) \subseteq free \ {b + FRAGS_PER_BLK - 1}})

FreeFrom(free, f, b) ==
    Most({n \in 0..(b + FRAGS_PER_BLK - f) : FragsOf(f, n) \subseteq free})

(* Frags n from address d on, free and in one block, are taken.  A block   *)
(* that was entirely free is allocated and the rest of it given back.      *)
(* When block_allocate() gives another block everything is to be undone.   *)
(* failed is the value that the routine returns.                           *)
frags_allocate(m, d, n) ==
    LET g    == dtog(d)
        f    == dtogd(d)
        b    == blknum(f)
        low  == FreeBelow(m.cg[g].free, f)
        high == FreeFrom(m.cg[g].free, f + n, b)
        m1   == adjust_frsum(adjust_frsum(m, g, low, 1), g, high, 1)
        Undone(w) ==
            ReadOnly(adjust_frsum(adjust_frsum(
                adjust_frags_free(IF w.got = 0 THEN w.m ELSE block_deallocate(w.m, w.got), g, n),
                g, low, -1), g, high, -1))
        Whole(w) ==
            IF w.got # cgbase(g) + b THEN [failed |-> TRUE, m |-> Undone(w)]
            ELSE [failed |-> FALSE,
                  m |-> adjust_frags_free(
                            [w.m EXCEPT !.cg[g].free =
                                @ \cup FragsOf(f - low, low) \cup FragsOf(f + n, high)],
                            g, FRAGS_PER_BLK - n)]
    IN  IF n + low + high = FRAGS_PER_BLK THEN Whole(block_allocate(m1, cgbase(g) + b))
        ELSE [failed |-> FALSE,
              m |-> adjust_frags_free(
                        [adjust_frsum(m1, g, n + low + high, -1)
                            EXCEPT !.cg[g].free = @ \ FragsOf(f, n)], g, -n)]

(* Frags n from address d on, all in use and in one block, are given back. *)
frags_deallocate(m, d, n) ==
    LET g    == dtog(d)
        f    == dtogd(d)
        b    == blknum(f)
        low  == FreeBelow(m.cg[g].free, f)
        high == FreeFrom(m.cg[g].free, f + n, b)
        m1   == adjust_frsum(adjust_frsum(m, g, low, -1), g, high, -1)
    IN  CASE n = 0 -> m
          [] n # 0 /\ n + low + high = FRAGS_PER_BLK ->
                adjust_frags_free(block_deallocate(m1, cgbase(g) + b), g, n - FRAGS_PER_BLK)
          [] OTHER ->
                adjust_frags_free(
                    [adjust_frsum(m1, g, n + low + high, 1)
                         EXCEPT !.cg[g].free = @ \cup FragsOf(f, n)], g, n)

-----------------------------------------------------------------------------
(* What the summaries should say, from the bitmap alone.                   *)

(* The runs of n free frags in block b with no free frag of the block      *)
(* beside them.                                                            *)
Runs(free, b, n) ==
    {f \in b..(b + FRAGS_PER_BLK - n) :
        /\ FragsOf(f, n) \subseteq free
        /\ f = b \/ f - 1 \notin free
        /\ f + n = b + FRAGS_PER_BLK \/ f + n \notin free}

Broken(g, free)     == BlockStarts(g) \ FreeBlocks(g, free)

(* The free frags outside the free blocks.                                *)
Loose(g, free) == free \ UNION {BlockAt(b) : b \in FreeBlocks(g, free)}

(* The free blocks with which a cluster of n, or with the largest n of at  *)
(* least as many, starts.                                                  *)
Clusters(blocks, n) ==
    {k \in blocks :
        /\ k - 1 \notin blocks
        /\ \A i \in 0..(n - 1) : k + i \in blocks
        /\ n = contigsumsize \/ k + n \notin blocks}

Summary(g, free) ==
    [free       |-> free,
     frsum      |-> [n \in 1..(FRAGS_PER_BLK - 1) |->
                        Cardinality(UNION {Runs(free, b, n) : b \in Broken(g, free)})],
     nbfree     |-> Cardinality(FreeBlocks(g, free)),
     nffree     |-> Cardinality(Loose(g, free)),
     clusters   |-> IF contigsumsize = 0 THEN {}
                    ELSE {b \div FRAGS_PER_BLK : b \in FreeBlocks(g, free)},
     clustersum |-> [n \in 1..contigsumsize |->
                        Cardinality(Clusters({b \div FRAGS_PER_BLK : b \in FreeBlocks(g, free)}, n))]]

(* How many there are in all groups of what each of them has a set of.     *)
Total(parts) == Cardinality(UNION {{g} \X parts[g] : g \in Group})

(* The maps of a consistent volume on which exactly the frags in free[g]   *)
(* of every group g are free.                                              *)
Maps(free) ==
    LET cg == [g \in Group |-> Summary(g, free[g])]
    IN  [cg |-> cg,
         sb |-> [fs_cs |-> [g \in Group |-> [nbfree |-> cg[g].nbfree, nffree |-> cg[g].nffree]],
                 fs_cstotal |-> [nbfree |-> Total([g \in Group |-> FreeBlocks(g, free[g])]),
                                 nffree |-> Total([g \in Group |-> Loose(g, free[g])])],
                 fs_ronly |-> FALSE]]

(* The frags of a volume that hold data, as addresses and by group.        *)
DataFrag == (UNION {FragsOf(cgbase(g), cg_ndblk[g]) : g \in Group}) \ Reserved
DataOf(g) == {f \in 0..(cg_ndblk[g] - 1) : cgbase(g) + f \in DataFrag}

FreeFrags(m) == UNION {{cgbase(g) + f : f \in m.cg[g].free} : g \in Group}
=============================================================================
