--------------------------------- MODULE NewFs ---------------------------------
(***************************************************************************)
(* newfs (newfs/newfs.c, mkfs.c): from the options and the disk label to   *)
(* the layout of a volume, its cylinder groups, its root directory and its *)
(* superblocks.  The numbers are the program's own; addresses are in       *)
(* frags, and a map is the set of frags, blocks or inodes marked in it.    *)
(*                                                                         *)
(*   opt      the options and the label, an option of 0 not being given    *)
(*   fs       the superblock in memory: <<>> until mkfs() has laid it out  *)
(*   fscs     the summary of each cylinder group in memory                 *)
(*   cgs      the cylinder groups on the disk                              *)
(*   dirs     the inodes written by iput()                                 *)
(*   disk     what was written: <<object, group or inode, frag, frags>>    *)
(*   pc, n    the step, and the group it is at                             *)
(*   exit     the exit code; -1 while it runs                              *)
(*                                                                         *)
(* error_exit() in the midst of the work is the end of it: any write may   *)
(* fail.  No build defines LOSTDIR: a new volume has no lost+found.  Not   *)
(* modelled: sizes that overflow an int, sector sizes other than 512       *)
(* bytes, a volume in memory (mfs, not part of the Amiga build), the old   *)
(* inode format (-O), which differs in the types of the entries.           *)
(***************************************************************************)
EXTENDS Integers, FiniteSets, SequencesExt, FiniteSetsExt

CONSTANTS
    Requests,       \* the options and labels to try
    SizeofFs,       \* sizeof(struct fs)
    SizeofCg,       \* sizeof(struct cg)
    CgSpace         \* offset of cg_space in struct cg

ASSUME RequestAssumption == \A r \in Requests : r.nsect * r.ntrak > r.spares /\ r.nrpos > 0
ASSUME CgAssumption == SizeofCg > CgSpace

VARIABLES opt, fs, fscs, cgs, dirs, disk, pc, n, exit

vars == <<opt, fs, fscs, cgs, dirs, disk, pc, n, exit>>

sectorsize   == 512
BBSIZE       == 8192
SBSIZE       == 8192
MINBSIZE     == 4096
MAXBSIZE     == 16384
MAXPHYS      == 1048576
MAXFRAG      == 8
FS_MAXCONTIG == 16
DINODE       == 128         \* sizeof(struct dinode)
CSUM         == 16          \* sizeof(struct csum)
ROOTINO      == 2
DIRBLKSIZ    == 512

-----------------------------------------------------------------------------
(* The arithmetic of C.                                                    *)

Quot(a, b)    == IF a < 0 THEN -((-a) \div b) ELSE a \div b
howmany(x, y) == Quot(x + y - 1, y)
roundup(x, y) == howmany(x, y) * y
MinOf(a, b)   == IF a < b THEN a ELSE b
MaxOf(a, b)   == IF a > b THEN a ELSE b
Powers        == {2^k : k \in 0..16}
POWEROF2(x)   == x \in Powers

(* F of x, where TLC is to evaluate x once.                                *)
With(x, F(_)) == CHOOSE y \in {F(z) : z \in {x}} : TRUE

-----------------------------------------------------------------------------
(* main(): an option that was not given comes from the label, or is a      *)
(* default of the program.                                                 *)

Given(x, default) == IF x = 0 THEN default ELSE x

Options(r) ==
    LET fsize == Given(r.fsize, IF r.pfsize > 0 THEN r.pfsize ELSE MaxOf(1024, sectorsize))
        bsize == Given(r.bsize, IF r.pfsize * r.pfrag > 0 THEN r.pfsize * r.pfrag
                                ELSE MinOf(8192, 8 * fsize))
    IN  [r EXCEPT !.fsize     = fsize,
                  !.bsize     = bsize,
                  !.fssize    = Given(r.fssize, r.psize),
                  !.cpg       = Given(r.cpg, 32),
                  !.cpgflg    = r.cpg # 0,
                  !.density   = Given(r.density, 8 * fsize),
                  !.maxcontig = Given(r.maxcontig,
                                      MinOf(1, MinOf(MAXPHYS, MAXBSIZE) \div bsize - 1))]

(* The checks at the head of mkfs(): the exit code, 0 for none.            *)
Refused(o) ==
    CASE o.fssize <= 0              -> 13
      [] ~POWEROF2(o.bsize)         -> 16
      [] ~POWEROF2(o.fsize)         -> 17
      [] o.fsize < sectorsize       -> 18
      [] o.bsize < MINBSIZE         -> 19
      [] o.bsize < o.fsize          -> 20
      [] o.bsize \div o.fsize > MAXFRAG -> 21
      [] OTHER                      -> 0

-----------------------------------------------------------------------------
(* Quantities of the superblock that mkfs() derives from the options.      *)

Spc(o)   == o.nsect * o.ntrak - o.spares
NSPF(o)  == o.fsize \div sectorsize
NSPB(o)  == o.bsize \div sectorsize
Frag(o)  == o.bsize \div o.fsize
INOPB(o) == o.bsize \div DINODE
INOPF(o) == INOPB(o) \div Frag(o)

(* ~fs_cgmask: groups start on the next track, around the cylinder.        *)
NotMask(o) == (CHOOSE p \in Powers : p >= o.ntrak /\ (p = 1 \/ p \div 2 < o.ntrak)) - 1

(* fs_cpc, and mincpc: cylinders until block and cylinder boundary meet.   *)
Cycle(o) == NSPB(o) \div Max({p \in Powers : p <= NSPB(o) /\ Spc(o) % p = 0})

MAXIPG(o) == roundup((o.bsize * 8) \div 3, INOPB(o))

contigsumsize(o) == IF o.maxcontig > 1 THEN MinOf(o.maxcontig, FS_MAXCONTIG) ELSE 0

sblkno(o)   == roundup(howmany(BBSIZE + SBSIZE, o.fsize), Frag(o))
cblkno(o)   == sblkno(o) + roundup(howmany(SBSIZE, o.fsize), Frag(o))
iblkno(o)   == cblkno(o) + Frag(o)
cgoffset(o) == roundup(howmany(o.nsect, NSPF(o)), Frag(o))

(* (Mutant: no room for the counts by rotational position.)                *)
CGSIZEFlat(o, cpg, ipg) ==
    SizeofCg + 4 + cpg * 4 + howmany(ipg, 8) + howmany(Quot(cpg * Spc(o), NSPF(o)), 8)

CGSIZE(o, cpg, ipg) ==
    SizeofCg + 4 + cpg * 4 + cpg * o.nrpos * 2 + howmany(ipg, 8)
        + howmany(Quot(cpg * Spc(o), NSPF(o)), 8)
        + (IF contigsumsize(o) = 0 THEN 0
           ELSE contigsumsize(o) * 4 + howmany(Quot(cpg * Spc(o), NSPB(o)), 8))

(* What a group needs before its data, were there an inode for every 128   *)
(* bytes of a cylinder; hence the fewest cylinders of a group.             *)
used(o) ==
    (iblkno(o) + MinOf(roundup((Spc(o) * sectorsize) \div DINODE, INOPB(o)), MAXIPG(o)) \div INOPF(o))
        * NSPF(o)

mincpg(o) == roundup(howmany(cgoffset(o) * NotMask(o) + used(o), Spc(o)), Cycle(o))

Ipg(o, cpg) ==
    roundup(Quot((cpg * Spc(o) - used(o)) * sectorsize, o.density), INOPB(o))

(* A smallest group has no room for its maps, or for the inodes asked for: *)
(* whatever block size mkfs() then proposes, it ends.                      *)
mapcramped(o) ==
    CGSIZE(o, mincpg(o), MinOf(roundup((Spc(o) * sectorsize) \div DINODE, INOPB(o)), MAXIPG(o))) > o.bsize

inodecramped(o) == Ipg(o, mincpg(o)) > MAXIPG(o)

(* Cylinders per group: as many as asked for, rounded up to Cycle, less    *)
(* Cycle as often as the inodes or the maps do not fit.                    *)
Fits(o, cpg) == Ipg(o, cpg) <= MAXIPG(o) /\ CGSIZE(o, cpg, Ipg(o, cpg)) <= o.bsize

FitCpg(o) ==
    LET most == roundup(o.cpg, Cycle(o))
    IN  Max({c \in {most - k * Cycle(o) : k \in 0..(most \div Cycle(o))} : Fits(o, c)})

-----------------------------------------------------------------------------
(* Locations (ufs/fs.h), of a superblock f.                                *)

cgbase(f, c)   == f.fpg * c
cgstart(f, c)  == cgbase(f, c) + f.cgoffset * (c % (f.notmask + 1))
cgsblock(f, c) == cgstart(f, c) + f.sblkno
cgtod(f, c)    == cgstart(f, c) + f.cblkno
cgimin(f, c)   == cgstart(f, c) + f.iblkno
cgdmin(f, c)   == cgstart(f, c) + f.dblkno

cbtocylno(f, d) == (d * f.nspf) \div f.spc

cbtorpos(f, d) ==
    LET s == (d * f.nspf) % f.spc
    IN  ((((s \div f.nsect) * f.trackskew + (s % f.nsect) * f.interleave) % f.nsect) * f.nrpos)
            \div f.npsect

Cell(f, d) == <<cbtocylno(f, d), cbtorpos(f, d)>>

ino_to_cg(f, i)   == i \div f.ipg
ino_to_fsba(f, i) == cgimin(f, ino_to_cg(f, i)) + ((i % f.ipg) \div f.inopb) * f.frag

(* The rotational layout tables: for each cylinder of the cycle and each   *)
(* position the first block there, and for each block how far the next one *)
(* is (a u_char), filled in from the last block to the first.              *)
RotTables(f) ==
    LET blks == (f.cpc * f.spc) \div (f.nspf * f.frag)
        Place(t, b, p) ==
            [post |-> [t.post EXCEPT ![p] = b],
             rot  |-> [t.rot EXCEPT ![b] = IF t.post[p] = -1 THEN 0 ELSE (t.post[p] - b) % 256]]
        From[b \in 0..blks] ==
            IF b = blks
            THEN [post |-> [p \in (0..(f.cpc - 1)) \X (0..(f.nrpos - 1)) |-> -1],
                  rot  |-> [k \in 0..(blks - 1) |-> 0]]
            ELSE With(From[b + 1], LAMBDA t : Place(t, b, Cell(f, b * f.frag)))
    IN  From[0]

(* They are left out (fs_cpc is 0) when a cylinder is one track, or when   *)
(* the superblock has no room for them.                                    *)
TablesFit(o) ==
    LET rotblsize  == (Cycle(o) * Spc(o)) \div NSPB(o)
        postblsize == o.nrpos * Cycle(o) * 2
        static     == o.nrpos = 8 /\ Cycle(o) <= 16
    IN  /\ SizeofFs + rotblsize + (IF static THEN 0 ELSE postblsize) <= SBSIZE
        /\ o.nsect <= 256 * NSPB(o)

cpc(o) == IF o.ntrak = 1 \/ ~TablesFit(o) THEN 0 ELSE Cycle(o)

(* The superblock once the number of groups is known, before the last one  *)
(* has been looked at.                                                     *)
LayoutWith(o, cpg, size) ==
    [cpg |-> cpg, ipg |-> Ipg(o, cpg), fpg |-> (cpg * Spc(o)) \div NSPF(o),
     size |-> size,
     ncyl |-> howmany(size * NSPF(o), Spc(o)),
     ncg  |-> howmany(howmany(size * NSPF(o), Spc(o)), cpg),
     bsize |-> o.bsize, fsize |-> o.fsize, frag |-> Frag(o), nspf |-> NSPF(o), inopb |-> INOPB(o),
     spc |-> Spc(o), nsect |-> o.nsect, npsect |-> o.nsect + o.trackspares, nrpos |-> o.nrpos,
     interleave |-> o.interleave, trackskew |-> o.trackskew,
     cpc |-> cpc(o), contigsumsize |-> contigsumsize(o),
     sblkno |-> sblkno(o), cblkno |-> cblkno(o), iblkno |-> iblkno(o),
     dblkno |-> iblkno(o) + Ipg(o, cpg) \div INOPF(o),
     cgoffset |-> cgoffset(o), notmask |-> NotMask(o),
     cgsize |-> roundup(CGSIZE(o, cpg, Ipg(o, cpg)), o.fsize),
     cssize |-> 0, dsize |-> 0,
     cstotal |-> [ndir |-> 0, nbfree |-> 0, nifree |-> 0, nffree |-> 0]]

Layout(o) == With(FitCpg(o), LAMBDA cpg : LayoutWith(o, cpg, o.fssize \div NSPF(o)))

(* Exit codes of the calculation: of the group's size, and of the groups.  *)
Unfit(o) ==
    CASE mapcramped(o) \/ inodecramped(o)      -> 23
      [] (FitCpg(o) * Spc(o)) % NSPB(o) # 0    -> 24
      [] FitCpg(o) < mincpg(o)                 -> 25
      [] o.cpgflg /\ FitCpg(o) # o.cpg         -> 27
      [] OTHER                                 -> 0

(* The last group ends before its data would begin.                        *)
LastShort(f) ==
    LET j == f.ncg - 1
        i == f.size - j * f.fpg
    IN  i < f.fpg /\ cgdmin(f, j) - cgbase(f, j) > i

Short(f) ==
    LET i == MinOf(f.notmask, f.ncg - 1)
    IN  CASE f.ncyl < 1                                     -> 28
          [] cgdmin(f, i) - cgbase(f, i) >= f.fpg           -> 29
          [] LastShort(f) /\ f.ncg = 1                      -> 30
          [] OTHER                                          -> 0

(* A last group with no room for data is left out.                         *)
Trimmed(f) ==
    LET ncyl == f.ncyl - (f.ncyl % f.cpg)
    IN  IF ~LastShort(f) THEN f
        ELSE [f EXCEPT !.ncg = @ - 1, !.ncyl = ncyl, !.size = (ncyl * f.spc) \div f.nspf]

Summed(f) == [f EXCEPT !.cssize = roundup(f.ncg * CSUM, f.fsize)]

-----------------------------------------------------------------------------
(* initcg(): the cylinder group c.                                         *)

Whole(f, lo, hi) == {d \in lo..(hi - f.frag) : (d - lo) % f.frag = 0}
Frags(f, d)      == d..(d + f.frag - 1)

(* clustersum: the runs of free blocks, the long ones counted as one of    *)
(* the greatest length.                                                    *)
Clusters(f, blocks) ==
    LET last == {b \in blocks : b + 1 \notin blocks}
        RunTo(b)  == b - Max({a \in -1..b : a \notin blocks})
    IN  With({<<b, MinOf(RunTo(b), f.contigsumsize)>> : b \in last},
             LAMBDA runs : [k \in 1..f.contigsumsize |-> Cardinality({r \in runs : r[2] = k})])

(* dmax, dlower and dupper, counted from the start of the group.           *)
Bounds(f, c) ==
    [ndblk  |-> MinOf(cgbase(f, c) + f.fpg, f.size) - cgbase(f, c),
     dlower |-> cgsblock(f, c) - cgbase(f, c),
     dupper |-> cgdmin(f, c) - cgbase(f, c) + (IF c = 0 THEN howmany(f.cssize, f.fsize) ELSE 0)]

(* The free blocks, and the frags before the first one and behind the      *)
(* last one of the data area.                                              *)
Pieces(f, c, b) ==
    LET odd   == (f.frag - (b.dupper % f.frag)) % f.frag
        first == b.dupper + odd
        tail  == IF first > b.ndblk THEN 0 ELSE (b.ndblk - first) % f.frag
    IN  [blocks |-> Whole(f, first, b.ndblk) \cup (IF c = 0 THEN {} ELSE Whole(f, 0, b.dlower)),
         odd    |-> odd,
         tail   |-> tail,
         loose  |-> (b.dupper..(first - 1)) \cup ((b.ndblk - tail)..(b.ndblk - 1))]

GroupOf(f, c, b, p) ==
    [ndblk    |-> b.ndblk,
     ncyl     |-> IF c = f.ncg - 1 THEN f.ncyl % f.cpg ELSE f.cpg,
     free     |-> UNION {Frags(f, d) : d \in p.blocks} \cup p.loose,
     clusters |-> IF f.contigsumsize = 0 THEN {} ELSE {d \div f.frag : d \in p.blocks},
     sums     |-> With({d \div f.frag : d \in p.blocks}, LAMBDA bs : Clusters(f, bs)),
     inosused |-> IF c = 0 THEN 0..(ROOTINO - 1) ELSE {},
     cs       |-> [ndir   |-> 0,
                   nbfree |-> Cardinality(p.blocks),
                   nifree |-> f.ipg - (IF c = 0 THEN ROOTINO ELSE 0),
                   nffree |-> p.odd + p.tail],
     frsum    |-> [k \in 1..(f.frag - 1) |-> (IF k = p.odd THEN 1 ELSE 0) + (IF k = p.tail THEN 1 ELSE 0)],
     blks     |-> With({<<d, Cell(f, d)>> : d \in p.blocks}, LAMBDA at :
                    [q \in {x[2] : x \in at} |-> Cardinality({x \in at : x[2] = q})]),
     data     |-> (IF c = 0 THEN 0 ELSE b.dlower) + b.ndblk - b.dupper]

Group(f, c) ==
    With(Bounds(f, c), LAMBDA b : With(Pieces(f, c, b), LAMBDA p : GroupOf(f, c, b, p)))

(* The offsets of the tables in the group's block, in their order; the     *)
(* counts of clusters are used from the second one on.                     *)
TableEnds(f) ==
    LET boff     == CgSpace + f.cpg * 4
        iusedoff == boff + f.cpg * f.nrpos * 2
        freeoff  == iusedoff + howmany(f.ipg, 8)
        freeend  == freeoff + howmany((f.cpg * f.spc) \div f.nspf, 8)
        sumoff   == roundup(freeend - 4, 4)
        clusoff  == sumoff + (f.contigsumsize + 1) * 4
    IN  [freeend |-> freeend,
         sumoff  |-> IF f.contigsumsize = 0 THEN freeend ELSE sumoff + 4,
         next    |-> IF f.contigsumsize = 0 THEN freeend
                     ELSE clusoff + howmany((f.cpg * f.spc) \div (f.nspf * f.frag), 8)]

-----------------------------------------------------------------------------
(* alloc() of a frag: of the first free block of group 0.                  *)

FreeBlocks(f, g) == {d \in 0..(g.ndblk - f.frag) : d % f.frag = 0 /\ Frags(f, d) \subseteq g.free}

(* (Mutant: the frags that are left over are counted, but not as a run.)   *)
TakenNoRun(f, g, d) ==
    [g EXCEPT !.free      = (@ \ Frags(f, d)) \cup ((d + 1)..(d + f.frag - 1)),
              !.clusters  = @ \ {d \div f.frag},
              !.cs.nbfree = @ - 1,
              !.cs.nffree = @ + f.frag - 1,
              !.cs.ndir   = @ + 1,
              !.blks[Cell(f, d)] = @ - 1]

Taken(f, g, d) ==
    [g EXCEPT !.free      = (@ \ Frags(f, d)) \cup ((d + 1)..(d + f.frag - 1)),
              !.clusters  = @ \ {d \div f.frag},
              !.cs.nbfree = @ - 1,
              !.cs.nffree = @ + f.frag - 1,
              !.cs.ndir   = @ + 1,
              !.blks[Cell(f, d)] = @ - 1,
              !.frsum     = [k \in DOMAIN @ |-> IF k = f.frag - 1 THEN @[k] + 1 ELSE @[k]]]

(* iput() of inode i.                                                      *)
Inode(g, i) == [g EXCEPT !.cs.nifree = @ - 1, !.inosused = @ \cup {i}]

Plus(a, b) == [k \in DOMAIN a |-> a[k] + b[k]]

-----------------------------------------------------------------------------
(* The steps.  Pending is what the step at pc writes.                      *)

Sectors(f, bytes) == howmany(bytes, f.fsize)    \* bytes in frags

Free0 == FreeBlocks(fs, cgs[1])
First == IF Free0 = {} THEN 0 ELSE Min(Free0)   \* alloc() returns 0 when there is none

Pending ==
    CASE pc = "check"  -> {<<"test", 0, opt.fssize - 1, 1>>}
      [] pc = "groups" -> {<<"inodes", n, cgimin(fs, n), (fs.ipg \div fs.inopb) * fs.frag>>,
                           <<"cg", n, cgtod(fs, n), fs.frag>>}
      [] pc = "root"   -> {<<"dir", ROOTINO, First, 1>>}
      [] pc = "super"  -> {<<"super", -1, BBSIZE \div fs.fsize, Sectors(fs, SBSIZE)>>}
      [] pc = "sums"   -> {<<"sums", 0, cgdmin(fs, 0), fs.cssize \div fs.fsize>>}
      [] pc = "copies" -> {<<"super", n, cgsblock(fs, n), Sectors(fs, SBSIZE)>>}
      [] OTHER         -> {}

(* bwrite() to a file heeds -N (fbwrite() in mkfs.c), the one to a device  *)
(* (amiga_device.c) does not.                                              *)
bwrite == disk' = IF opt.N /\ opt.dev = "file" THEN disk ELSE disk \cup Pending

Exit(code) == /\ exit' = code
              /\ pc' = "done"
              /\ UNCHANGED <<fs, fscs, cgs, dirs, n>>

main ==
    /\ pc = "options"
    /\ \E o \in {Options(opt)} :
         /\ opt' = o
         /\ disk' = disk
         /\ \/ o.fssize > o.psize /\ Exit(1)
            \/ /\ o.fssize <= o.psize
               /\ pc' = "check"
               /\ UNCHANGED <<fs, fscs, cgs, dirs, n, exit>>

(* The last sector is written to see that it is there, before the other    *)
(* checks.                                                                 *)
mkfsCheck ==
    /\ pc = "check"
    /\ opt' = opt
    /\ IF opt.fssize > 0 THEN bwrite ELSE disk' = disk
    /\ \E code \in {Refused(opt)} :
         \/ code # 0 /\ Exit(code)
         \/ /\ code = 0
            /\ pc' = "layout"
            /\ UNCHANGED <<fs, fscs, cgs, dirs, n, exit>>

mkfsLayout ==
    /\ pc = "layout"
    /\ UNCHANGED <<opt, disk>>
    /\ \E code \in {Unfit(opt)} :
         \/ code # 0 /\ Exit(code)
         \/ /\ code = 0
            /\ \E f \in {Layout(opt)} :
                 \/ Short(f) # 0 /\ Exit(Short(f))
                 \/ /\ Short(f) = 0
                    /\ fs' = Summed(Trimmed(f))
                    /\ pc' = "groups"
                    /\ UNCHANGED <<fscs, cgs, dirs, n, exit>>

initcg ==
    /\ pc = "groups"
    /\ opt' = opt
    /\ n < fs.ncg
    /\ bwrite
    /\ \E g \in {Group(fs, n)} :
         /\ cgs' = Append(cgs, g)
         /\ fscs' = Append(fscs, g.cs)
         /\ fs' = [fs EXCEPT !.cstotal = Plus(@, g.cs), !.dsize = @ + g.data]
    /\ n' = n + 1
    /\ UNCHANGED <<dirs, pc, exit>>

groupsDone ==
    /\ pc = "groups"
    /\ n = fs.ncg
    /\ UNCHANGED <<opt, disk>>
    /\ \/ opt.N /\ Exit(0)
       \/ /\ ~opt.N
          /\ pc' = "root"
          /\ UNCHANGED <<fs, fscs, cgs, dirs, n, exit>>

(* fsinit(): alloc() and iput() for the root, with its two entries.        *)
fsinit ==
    /\ pc = "root"
    /\ opt' = opt
    /\ bwrite
    /\ \E old \in {cgs[1]} : \E d \in {First} :
       \E g \in {Inode(IF Free0 = {} THEN old ELSE Taken(fs, old, d), ROOTINO)} :
         LET change == [k \in DOMAIN g.cs |-> g.cs[k] - old.cs[k]]
         IN  /\ cgs' = [cgs EXCEPT ![1] = g]
             /\ fscs' = [fscs EXCEPT ![1] = Plus(@, change)]
             /\ fs' = [fs EXCEPT !.cstotal = Plus(@, change)]
    /\ dirs' = dirs \cup {[ino |-> ROOTINO, nlink |-> 2, size |-> DIRBLKSIZ, db |-> First,
                           at |-> ino_to_fsba(fs, ROOTINO), entries |-> <<ROOTINO, ROOTINO>>]}
    /\ pc' = "super"
    /\ UNCHANGED <<n, exit>>

writeSuper ==
    /\ pc = "super"
    /\ bwrite
    /\ pc' = "sums"
    /\ UNCHANGED <<opt, fs, fscs, cgs, dirs, n, exit>>

writeSums ==
    /\ pc = "sums"
    /\ bwrite
    /\ pc' = "copies"
    /\ n' = 0
    /\ UNCHANGED <<opt, fs, fscs, cgs, dirs, exit>>

writeCopies ==
    /\ pc = "copies"
    /\ opt' = opt
    /\ \/ /\ n < fs.ncg
          /\ bwrite
          /\ n' = n + 1
          /\ UNCHANGED <<fs, fscs, cgs, dirs, pc, exit>>
       \/ n = fs.ncg /\ disk' = disk /\ Exit(0)

(* A write fails, after some of the step's others.                         *)
writeFails ==
    /\ pc # "done" /\ ~(opt.N /\ opt.dev = "file")
    /\ \E w \in Pending : \E part \in SUBSET (Pending \ {w}) : disk' = disk \cup part
    /\ opt' = opt
    /\ Exit(1)

Init ==
    /\ opt \in Requests
    /\ fs = <<>> /\ fscs = <<>> /\ cgs = <<>>
    /\ dirs = {} /\ disk = {}
    /\ pc = "options" /\ n = 0 /\ exit = -1

Next == main \/ mkfsCheck \/ mkfsLayout \/ initcg \/ groupsDone \/ fsinit \/ writeSuper
            \/ writeSums \/ writeCopies \/ writeFails

Spec == Init /\ [][Next]_vars

-----------------------------------------------------------------------------
(* Properties.                                                             *)

(* mkfs.c says that a volume must have three blocks behind the inodes of   *)
(* its first group.                                                        *)
Roomy == fs.size >= cgdmin(fs, 0) + 3 * fs.frag

Finished == exit = 0 /\ ~opt.N /\ Roomy

Extent(a) == IF a[1] = "super" THEN roundup(a[4], fs.frag) ELSE a[4]     \* whole blocks for a copy
Area(a)   == a[3]..(a[3] + Extent(a) - 1)
Groups    == 0..(Len(cgs) - 1)
FreeIn(c) == {cgbase(fs, c) + d : d \in cgs[c + 1].free}
Objects   == {a \in disk : a[1] # "test" /\ a[2] # -1}

Total(S, F(_)) == FoldSet(LAMBDA x, t : F(x) + t, 0, S)

(* A finished volume is no larger than the device, and each of its frags   *)
(* behind the boot area belongs to exactly one of: an inode table, the     *)
(* block of a group, a superblock copy, the summary, a directory, the free *)
(* map of a group.  fs_dsize is what is left of it for data.               *)
LayoutTiles ==
    Finished =>
        /\ fs.size * fs.nspf <= opt.fssize
        /\ UNION {Area(a) : a \in Objects} \cup UNION {FreeIn(c) : c \in Groups}
              = fs.sblkno..(fs.size - 1)
        /\ LET Open(c) == Cardinality(cgs[c + 1].free)
               ofDirs  == Total({a \in Objects : a[1] = "dir"}, Extent)
           IN  /\ Total(Objects, Extent) + Total(Groups, Open) = fs.size - fs.sblkno
               /\ fs.dsize = Total(Groups, Open) + ofDirs

(* The tables of a group lie one behind the other within fs_cgsize, which  *)
(* is no more than the block a group has; the groups have whole blocks     *)
(* (mkfs.c has panics for both, 24 and 37); an inode that was written lies *)
(* in the inode table.                                                     *)
TablesInBlock ==
    /\ exit # 24
    /\ (fs # <<>> =>
          \E t \in {TableEnds(fs)} : t.sumoff >= t.freeend /\ t.next <= fs.cgsize /\ fs.cgsize <= fs.bsize)
    /\ \A i \in dirs : \E a \in disk : a[1] = "inodes" /\ i.at \in Area(a)

(* In every state every summary is what can be counted in the maps: of     *)
(* blocks, frags, inodes and directories in a group, in the summary area   *)
(* and in the superblock; of blocks by cylinder and rotational position;   *)
(* of runs of frags; of runs of blocks in the groups without the root.     *)
FragRuns(free, blocks) ==
    LET odd == {d \in free : d - (d % fs.frag) \notin blocks}
    IN  With(odd, LAMBDA S :
          LET Starts(d) == d - 1 \notin S \/ d % fs.frag = 0
          IN  {<<a, b>> \in S \X S : /\ b \in a..(a + fs.frag - 1)
                                     /\ a..b \subseteq S
                                     /\ {d \in a..b : Starts(d)} = {a}
                                     /\ b + 1 \notin S \/ (b + 1) % fs.frag = 0})

BlockRuns(S) == {<<a, b>> \in S \X S : a <= b /\ a - 1 \notin S /\ b + 1 \notin S /\ a..b \subseteq S}

GroupSummed(c) ==
    \E g \in {cgs[c + 1]} : \E bs \in {FreeBlocks(fs, g)} :
        /\ g.cs.nbfree = Cardinality(bs)
        /\ g.cs.nffree = Cardinality(g.free) - fs.frag * Cardinality(bs)
        /\ g.cs.nifree = Cardinality((0..(fs.ipg - 1)) \ g.inosused)
        /\ g.cs.ndir = (IF c = 0 THEN Cardinality(dirs) ELSE 0)
        /\ \E runs \in {FragRuns(g.free, bs)} :
             \A k \in DOMAIN g.frsum : g.frsum[k] = Cardinality({r \in runs : r[2] - r[1] + 1 = k})
        /\ \E at \in {{<<d, Cell(fs, d)>> : d \in bs}} :
             \A p \in {x[2] : x \in at} \cup DOMAIN g.blks :
               /\ p[1] \in 0..(fs.cpg - 1) /\ p[2] \in 0..(fs.nrpos - 1)
               /\ g.blks[p] = Cardinality({x \in at : x[2] = p})
        /\ fs.contigsumsize > 0 => g.clusters = {d \div fs.frag : d \in bs}
        /\ fs.contigsumsize > 0 /\ c > 0 =>
             \E runs \in {BlockRuns(g.clusters)} :
               \A k \in 1..fs.contigsumsize :
                 g.sums[k] = Cardinality({r \in runs : MinOf(r[2] - r[1] + 1, fs.contigsumsize) = k})
        /\ fscs[c + 1] = g.cs

SumsExact ==
    fs # <<>> /\ Roomy =>
        /\ \A c \in Groups : GroupSummed(c)
        /\ \A k \in DOMAIN fs.cstotal :
             LET Of(c) == fscs[c + 1][k]
             IN  fs.cstotal[k] = Total(Groups, Of)

(* From the first block that the rotational tables give for a cylinder and *)
(* a position, the distances lead to each block there, in ascending order. *)
RotationChains ==
    (pc = "groups" /\ n = 0 /\ fs.cpc > 0) =>
        \E t \in {RotTables(fs)} :
        \A p \in DOMAIN t.post :
        \E bs \in {{b \in DOMAIN t.rot : Cell(fs, b * fs.frag) = p}} :
            /\ t.post[p] = (IF bs = {} THEN -1 ELSE Min(bs))
            /\ \A b \in bs : IF b = Max(bs) THEN t.rot[b] = 0
                            ELSE b + t.rot[b] = Min({c \in bs : c > b})

(* The superblock is on the disk only when all groups, inode tables and    *)
(* the root directory are; its copies only when it and the summary are.    *)
SuperblockLast ==
    \A s \in {a \in disk : a[1] = "super"} :
        /\ \A c \in 0..(fs.ncg - 1) : \A what \in {"inodes", "cg"} : \E a \in disk : a[1] = what /\ a[2] = c
        /\ \E a \in disk : a[1] = "dir" /\ a[2] = ROOTINO
        /\ s[2] # -1 => \A what \in {"super", "sums"} : \E a \in disk : a[1] = what /\ a[2] < 1

================================================================================
