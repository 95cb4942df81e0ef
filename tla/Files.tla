-------------------------------- MODULE Files --------------------------------
(***************************************************************************)
(* The frags of files and directories (fs/file.c, fs/inode.c, fs/fwrite.c) *)
(* and the packets by which clients open, write, close and delete files.   *)
(* While a file is written its last block is a whole one; when the file is *)
(* closed the frags it does not need are given back, for which its tail    *)
(* may be moved in between frags of other files.                           *)
(*                                                                         *)
(*   m        the maps of the volume, see Alloc                            *)
(*   inode    for every inode ic_size, ic_blocks as a number of frags,     *)
(*            ic_db, the addresses of the direct blocks, and ic_ib, those  *)
(*            of the index blocks at the top of the trees                  *)
(*   holds    what is stored in a frag in use: a frag of a file, or None   *)
(*   idx      the pointers that the cache shows in the frags of index      *)
(*            blocks                                                       *)
(*   dirty    the frags of index blocks that the cache has changed and not *)
(*            written                                                      *)
(*   handle   the file handles (BFFSfh_t) with their inode, position,      *)
(*            maximum_position, access_mode and truncate_mode, and whether *)
(*            their lock is exclusive; Closed for those not in use         *)
(*   short    history variable: the files of which a write ran out of room *)
(*            after ic_size had been set                                   *)
(*   lost     history variable: the blocks that were allocated for a file, *)
(*            and for which then no index block could be had; with None    *)
(*            for a file that is gone                                      *)
(*   astray   history variable: an index block was looked for on the disk  *)
(*            and not in the cache, or the last block of a file where it   *)
(*            is not                                                       *)
(*   writes   the writes so far, for the bound                             *)
(*                                                                         *)
(* An inode that is wiped stands for a file that is not there or empty.    *)
(* The device and the memory do not fail.                                  *)
(***************************************************************************)
EXTENDS Alloc, SequencesExt

CONSTANTS
    NDADDR, NIADDR, \* direct blocks and trees of an inode
    PTRS,           \* pointers in a frag of an index block (pfragmask + 1)
    FSIZE,          \* bytes per frag
    NDSPF,          \* sectors of 512 bytes per frag
    itod,           \* for every inode the block that holds it
    File, Directory,\* inode numbers
    Handle,         \* file handles; memory has room for these
    Amount, Reading,\* the sizes of writes and of reads
    SeekTo,         \* the positions clients seek to
    MaxDir,         \* bound on the frags of a directory
    MaxWrites,      \* bound on the writes
    None, Closed, Old \* model values

Inum == File \cup Directory

ASSUME SizesAssumption ==
    /\ NDADDR \in Nat /\ NDADDR > 0 /\ FSIZE \in Nat /\ FSIZE > 0
    /\ NIADDR \in Nat /\ NIADDR > 0 /\ PTRS \in Nat /\ PTRS > 0
    /\ NDSPF \in Nat /\ NDSPF > 0
    /\ \A n \in Amount \cup Reading : n \in Nat /\ n > 0
ASSUME InodeAssumption == File \cap Directory = {} /\ itod \in [Inum -> Reserved]

VARIABLES m, inode, holds, idx, dirty, handle, short, lost, astray, writes

vars == <<m, inode, holds, idx, dirty, handle, short, lost, astray, writes>>

(* Step over a sequence or a set, where TLC is to evaluate the result of   *)
(* each step once.                                                         *)
Steps(Step(_, _), start, seq) ==
    FoldLeft(LAMBDA a, x : With(a, LAMBDA b : Step(b, x)), start, seq)

StepsDown(Step(_, _), start, seq) ==
    FoldRight(LAMBDA x, a : With(a, LAMBDA b : Step(b, x)), seq, start)

StepEach(Step(_, _), start, S) ==
    FoldSet(LAMBDA x, a : With(a, LAMBDA b : Step(b, x)), start, S)

FBSIZE    == FSIZE * FRAGS_PER_BLK
fs_nindir == PTRS * FRAGS_PER_BLK
Slot      == 0..(fs_nindir - 1)

Wiped == [ic_size |-> 0, ic_blocks |-> 0,
          ic_db |-> [k \in 0..(NDADDR - 1) |-> 0], ic_ib |-> [t \in 0..(NIADDR - 1) |-> 0]]

(* The volume as the routines see it.                                      *)
Volume == [m |-> m, inode |-> inode, holds |-> holds, idx |-> idx, dirty |-> dirty,
           lost |-> lost, astray |-> astray]

TotFrags(v, i) == (v.inode[i].ic_size + FSIZE - 1) \div FSIZE

-----------------------------------------------------------------------------
(* The trees of index blocks (fs/inode.c).  Behind the direct blocks comes *)
(* block 0 of the trees.  The way to it is a slot per level, the highest   *)
(* last; with every level one is subtracted for the tree before.           *)

(* (Mutant: not subtracted.)                                               *)
SlotsFlat(ind) ==
    LET rest[l \in 0..NIADDR] == IF l = 0 THEN ind ELSE rest[l - 1] \div fs_nindir
        levels == Least({l \in 1..NIADDR : l = NIADDR \/ rest[l] = 0})
    IN  [l \in 1..levels |-> rest[l - 1] % fs_nindir]

Slots(ind) ==
    LET rest[l \in 0..NIADDR] ==
            CASE l = 0 -> ind
              [] l = 1 -> ind \div fs_nindir
              [] OTHER -> (rest[l - 1] - 1) \div fs_nindir
        levels == Least({l \in 1..NIADDR : l = NIADDR \/ rest[l] = 0})
    IN  [l \in 1..levels |-> (IF l = 1 THEN ind ELSE rest[l - 1] - 1) % fs_nindir]

(* The pointer in a slot of index block b, and the block with it changed.  *)
(* Taken for an index block, a frag that was never erased points anywhere. *)
At(v, b, s) ==
    CASE b = 0 -> 0
      [] b # 0 /\ b + (s \div PTRS) \notin DOMAIN v.idx -> Least(DataFrag)
      [] OTHER -> v.idx[b + (s \div PTRS)][s % PTRS]

SetSlot(v, b, s, d) == [v EXCEPT !.idx[b + (s \div PTRS)][s % PTRS] = d,
                             !.dirty = @ \cup {b + (s \div PTRS)}]

Erased(v, S) ==
    [v EXCEPT !.idx = [d \in S |-> [p \in 0..(PTRS - 1) |-> 0]] @@ @, !.dirty = @ \cup S]

block_erase(v, b) == Erased(v, BlockAt(b))

ridisk_frag(v, i, f) ==
    LET k == f \div FRAGS_PER_BLK
        Walk(path) == StepsDown(LAMBDA b, s : At(v, b, s), v.inode[i].ic_ib[Len(path) - 1], path)
    IN  With(IF k < NDADDR THEN v.inode[i].ic_db[k] ELSE With(Slots(k - NDADDR), Walk),
             LAMBDA d : IF d = 0 THEN 0 ELSE d + (f % FRAGS_PER_BLK))

ADJUST_IC_BLKS(v, i, frags) == [v EXCEPT !.inode[i].ic_blocks = @ + frags]

(* The frag of the file before f that has an address, else the inode.      *)
prev_frag_addr(v, i, f) ==
    LET known == {b \in 0..(f - 1) : ridisk_frag(v, i, b) # 0}
    IN  With(known, LAMBDA S : IF S = {} THEN itod[i] ELSE ridisk_frag(v, i, Most(S)))

(* The index blocks on a way, from the top down to b, the lowest.  Those   *)
(* that are missing are allocated near prev, or near the one above if the  *)
(* caller does so (follow), until there is no room.                        *)
IndexBlocks(v, i, path, prev, follow) ==
    LET top == Len(path)
        Linked(w, l, above, new) ==
            IF l = top THEN [w EXCEPT !.inode[i].ic_ib[l - 1] = new] ELSE SetSlot(w, above, path[l + 1], new)
        Got(a, l, r) ==
            IF r.got = 0 THEN [a EXCEPT !.v.m = r.m, !.full = TRUE]
            ELSE [v |-> ADJUST_IC_BLKS(Linked(block_erase([a.v EXCEPT !.m = r.m], r.got), l, a.b, r.got),
                                       i, FRAGS_PER_BLK),
                  b |-> r.got, full |-> FALSE]
        Down(a, l) ==
            LET cur == IF l = top THEN a.v.inode[i].ic_ib[l - 1] ELSE At(a.v, a.b, path[l + 1])
            IN  CASE a.full -> a
                  [] ~a.full /\ cur # 0 -> [a EXCEPT !.b = cur]
                  [] OTHER -> With(block_allocate(a.v.m, IF follow /\ a.b # 0 THEN a.b ELSE prev), LAMBDA r : Got(a, l, r))
    IN  StepsDown(Down, [v |-> v, b |-> 0, full |-> FALSE], [l \in 1..top |-> l])

(* The address of a block is changed, for which index blocks may be needed.*)
cidisk_frag(v, i, f, d) ==
    LET k    == f \div FRAGS_PER_BLK
        path == Slots(k - NDADDR)
        Changed(a) == [failed |-> a.full, v |-> IF a.full THEN a.v ELSE SetSlot(a.v, a.b, path[1], d)]
    IN  IF k < NDADDR THEN [failed |-> FALSE, v |-> [v EXCEPT !.inode[i].ic_db[k] = d]]
        ELSE With(IndexBlocks(v, i, path, prev_frag_addr(v, i, f), TRUE), Changed)

(* A block for a hole at f.                                                *)
widisk_frag(v, i, f) ==
    LET k    == f \div FRAGS_PER_BLK
        path == Slots(k - NDADDR)
        None0(w) == [v |-> w, got |-> 0]
        Link(w, b, d) == IF k < NDADDR THEN [w EXCEPT !.inode[i].ic_db[k] = d] ELSE SetSlot(w, b, path[1], d)
        Got(w, b, r) ==
            IF r.got = 0 THEN None0([w EXCEPT !.m = r.m])
            ELSE [v   |-> ADJUST_IC_BLKS(Link([w EXCEPT !.m = r.m], b, r.got), i, FRAGS_PER_BLK),
                  got |-> r.got + (f % FRAGS_PER_BLK)]
        Fill(prev, a) ==
            IF a.full THEN None0(a.v)
            ELSE With(block_allocate(a.v.m, prev), LAMBDA r : Got(a.v, a.b, r))
        Hole(prev) ==
            IF k < NDADDR THEN Fill(prev, [v |-> v, b |-> 0, full |-> FALSE])
            ELSE With(IndexBlocks(v, i, path, prev, FALSE), LAMBDA a : Fill(prev, a))
    IN  With(ridisk_frag(v, i, f),
             LAMBDA d : IF d # 0 THEN [v |-> v, got |-> d]
                        ELSE With(prev_frag_addr(v, i, f), Hole))

-----------------------------------------------------------------------------
(* Frags that are given back or moved take their contents with them.       *)

Forget(h, S) == [d \in DOMAIN h |-> IF d \in S THEN None ELSE h[d]]

FreeBlock(v, d) ==
    [v EXCEPT !.m = block_deallocate(@, d), !.holds = Forget(@, BlockAt(d)),
              !.idx = [e \in DOMAIN @ \ BlockAt(d) |-> @[e]],
              !.dirty = @ \ BlockAt(d)]

FreeFragRun(v, d, n) ==
    [v EXCEPT !.m = frags_deallocate(@, d, n), !.holds = Forget(@, FragsOf(d, n))]

(* cache_frag_move() for n frags in turn; frags from that are not of a     *)
(* file come from the boot block.                                          *)
MoveFrags(v, to, from, n) ==
    LET Moved(d) == IF from + (d - to) \in DataFrag THEN v.holds[from + (d - to)] ELSE None
    IN  [v EXCEPT !.holds = [d \in DOMAIN @ |-> IF d \in FragsOf(to, n) THEN Moved(d) ELSE @[d]]]

-----------------------------------------------------------------------------
(* fs/file.c.  A routine's result is a record of the volume and of what    *)
(* the routine returns.                                                    *)

(* Blocks from startfrag on.  A frag that has an address is counted as     *)
(* done, and looked at again for the next block.  That cidisk_frag() could *)
(* not put a block into the file is not seen.                              *)
file_blocks_add(v, i, startfrag, blocks) ==
    LET Added(c, new) == IF c.failed THEN [c.v EXCEPT !.lost = @ \cup {<<i, new>>}] ELSE c.v
        Got(a, r) ==
            IF r.got = 0 THEN [a EXCEPT !.v.m = r.m, !.full = TRUE]
            ELSE [v |-> With(cidisk_frag(ADJUST_IC_BLKS([a.v EXCEPT !.m = r.m], i, FRAGS_PER_BLK),
                                         i, a.startfrag, r.got), LAMBDA c : Added(c, r.got)),
                  startfrag |-> a.startfrag + FRAGS_PER_BLK,
                  prev |-> r.got, index |-> a.index + 1, full |-> FALSE]
        Add(a, k) ==
            CASE a.full -> a
              [] ~a.full /\ ridisk_frag(a.v, i, a.startfrag) # 0 -> [a EXCEPT !.index = @ + 1]
              [] OTHER -> With(block_allocate(a.v.m, a.prev), LAMBDA r : Got(a, r))
    IN  Steps(Add, [v |-> v, startfrag |-> startfrag, prev |-> prev_frag_addr(v, i, startfrag),
                    index |-> 0, full |-> FALSE],
              [k \in 1..blocks |-> k])

(* The frags behind the last ones of a file can be had.                    *)
(* (Mutant: whether they are free is not looked at.)                       *)
StaysIfAligned(v, dblk, fspill) == dblk % FRAGS_PER_BLK = 0

Stays(v, dblk, fspill) ==
    /\ dblk % FRAGS_PER_BLK = 0
    /\ frags_left_are_free(v.m.cg[dtog(dblk)].free, dtogd(dblk + fspill))

(* The last block becomes a whole one: in place, or in a new block.  It is *)
(* looked for behind as many frags as ic_blocks counts, index blocks too.  *)
file_block_extend(v, i) ==
    LET frags  == v.inode[i].ic_blocks
        fspill == frags % FRAGS_PER_BLK
        fblk   == frags - fspill
        dblk   == ridisk_frag(v, i, fblk)
        near   == IF fblk > 0 THEN ridisk_frag(v, i, fblk - 1) ELSE itod[i]
        Full(w) == [failed |-> TRUE, v |-> w]
        Done(w) == [failed |-> FALSE, v |-> ADJUST_IC_BLKS(w, i, FRAGS_PER_BLK - fspill)]
        Rest(r) == IF r.failed THEN Full([v EXCEPT !.m = r.m]) ELSE Done([v EXCEPT !.m = r.m])
        Moved(w, new) ==
            IF new = 0 THEN Full(w)
            ELSE Done(FreeFragRun([cidisk_frag(MoveFrags(w, new, dblk, fspill), i, fblk, new).v
                                       EXCEPT !.astray = @ \/ dblk = 0],
                                  dblk, fspill))
        New(r)  == Moved([v EXCEPT !.m = r.m], r.got)
    IN  CASE fspill = 0 -> [failed |-> FALSE, v |-> v]
          [] fspill # 0 /\ Stays(v, dblk, fspill) ->
                With(frags_allocate(v.m, dblk + fspill, FRAGS_PER_BLK - fspill), Rest)
          [] OTHER -> With(block_allocate(v.m, near), New)

(* The blocks past ic_size.                                                *)
StartBlock(v, i) == (v.inode[i].ic_size + FBSIZE - 1) \div FBSIZE

DropDirect(v, i, blocks) ==
    LET Drop(w, k) == [FreeBlock(w, w.inode[i].ic_db[k]) EXCEPT !.inode[i].ic_db[k] = 0]
    IN  StepEach(Drop, v, blocks)

PastEnd(v, i) == {k \in StartBlock(v, i)..(NDADDR - 1) : v.inode[i].ic_db[k] # 0}

(* What iblock_deallocate() finds in index block b: its frags are dropped  *)
(* from the cache, written or not, and the block is read from the disk.    *)
(* For what was not written yet the disk is taken to have no pointers.     *)
OnDisk(v, b) == {At(v, b, s) : s \in {s \in Slot : b + (s \div PTRS) \notin v.dirty}} \ {0}

(* The blocks under index block b of a level, and the index blocks read.   *)
Under(v, level, b) ==
    LET Level(a, l) == LET below == UNION {OnDisk(v, c) : c \in a.front}
                       IN  [front |-> below, all |-> a.all \cup below, read |-> a.read \cup a.front]
    IN  Steps(Level, [front |-> {b}, all |-> {}, read |-> {}], [l \in 1..(level + 1) |-> l])

FreeAll(v, S) == StepEach(FreeBlock, v, S)

(* (Mutant: the blocks of the lowest level only.)                          *)
iblock_deallocate_leaves(v, level, b) ==
    LET Freed(under) == [v |-> FreeAll(v, under.front \cup {b}), deallocated |-> Cardinality(under.front) + 1]
    IN  With(Under(v, level, b), Freed)

iblock_deallocate(v, level, b) ==
    LET Hit(under)   == \E c \in under.read : BlockAt(c) \cap v.dirty # {}
        Freed(under) == [v |-> FreeAll([v EXCEPT !.astray = @ \/ Hit(under)], under.all \cup {b}),
                         deallocated |-> Cardinality(under.all) + 1]
    IN  With(Under(v, level, b), Freed)

(* With a count of the blocks.                                             *)
DropTrees(a, i, trees) ==
    LET Drop(w, t) ==
            With(iblock_deallocate(w.v, t, w.v.inode[i].ic_ib[t]),
                 LAMBDA r : [v |-> [r.v EXCEPT !.inode[i].ic_ib[t] = 0],
                             deallocated |-> w.deallocated + r.deallocated])
    IN  StepEach(Drop, a, {t \in trees : a.v.inode[i].ic_ib[t] # 0})

(* On the way to the first block past the end, in every index block the    *)
(* slots behind are emptied; then that block is.  The index blocks on the  *)
(* way stay.                                                               *)
SlotsPast(path, l) == {s \in Slot : s > path[l] \/ (l = 1 /\ s = path[l])}

TrimTree(a, i, path) ==
    LET Gone(w, l, d) == IF l = 1 THEN [v |-> FreeBlock(w.v, d), deallocated |-> 1]
                         ELSE iblock_deallocate(w.v, l - 2, d)
        Cut(w, l, b, s) ==
            LET d == At(w.v, b, s)
            IN  IF d = 0 THEN w
                ELSE With(Gone(w, l, d),
                          LAMBDA r : [v |-> SetSlot(r.v, b, s, 0), deallocated |-> w.deallocated + r.deallocated])
        Down(x, l) ==
            IF x.b = 0 THEN x
            ELSE [b |-> At(x.w.v, x.b, path[l]),
                  w |-> StepEach(LAMBDA w, s : Cut(w, l, x.b, s), x.w, SlotsPast(path, l))]
    IN  StepsDown(Down, [b |-> a.v.inode[i].ic_ib[Len(path) - 1], w |-> a], [l \in 1..Len(path) |-> l]).w

(* All trees when the file ends in the direct blocks, else those behind    *)
(* the one it ends in.                                                     *)
file_blocks_deallocate(v, i) ==
    LET start == StartBlock(v, i)
        path  == Slots(start - NDADDR)
        Trees(a) == IF start < NDADDR THEN DropTrees(a, i, 0..(NIADDR - 1))
                    ELSE With(TrimTree(a, i, path), LAMBDA b : DropTrees(b, i, Len(path)..(NIADDR - 1)))
        Counted(b) == ADJUST_IC_BLKS(b.v, i, -(FRAGS_PER_BLK * b.deallocated))
    IN  With([v |-> DropDirect(v, i, PastEnd(v, i)), deallocated |-> Cardinality(PastEnd(v, i))],
             LAMBDA a : With(Trees(a), Counted))

(* Of the last block, a whole one, only the frags needed stay: in place, or*)
(* moved to frags of a block in the same group that is in use already.  A  *)
(* disk address is taken for a frag of the file when it looks for the      *)
(* block before.                                                           *)
file_block_retract(v, i) ==
    LET totfrags == TotFrags(v, i)
        reqfrags == totfrags % FRAGS_PER_BLK
        curfrags == v.inode[i].ic_blocks % FRAGS_PER_BLK
        fdblk    == ridisk_frag(v, i, blknum(totfrags))
        g        == dtog(fdblk)
        free     == v.m.cg[g].free
        pblk     == IF totfrags < FRAGS_PER_BLK THEN dtogd(itod[i])
                    ELSE dtogd(ridisk_frag(v, i, fdblk - FRAGS_PER_BLK))
        Counted  == ADJUST_IC_BLKS(v, i, -(FRAGS_PER_BLK - reqfrags))
        Moved(w, new) == cidisk_frag(FreeBlock(MoveFrags(w, new, fdblk, reqfrags), fdblk),
                                     i, totfrags - reqfrags, new).v
        Taken(r, new) == IF r.failed THEN [Counted EXCEPT !.m = r.m]
                         ELSE Moved([Counted EXCEPT !.m = r.m], new)
        Found(new) ==
            CASE new = -1 \/ (new % FRAGS_PER_BLK = 0 /\ block_avail(free, new)) ->
                    FreeFragRun(Counted, fdblk + reqfrags, FRAGS_PER_BLK - reqfrags)
              [] new # -1 /\ blknum(cgbase(g) + new) = blknum(fdblk) ->
                    [Counted EXCEPT !.m = ReadOnly(@)]
              [] OTHER -> With(frags_allocate(v.m, cgbase(g) + new, reqfrags),
                               LAMBDA r : Taken(r, cgbase(g) + new))
    IN  IF \/ reqfrags = 0
           \/ totfrags > FRAGS_PER_BLK * NDADDR
           \/ totfrags > v.inode[i].ic_blocks * NDSPF * NDSPF
           \/ reqfrags = curfrags
           \/ fdblk = 0
        THEN v ELSE With(block_fragblock_find(g, free, pblk, reqfrags), Found)

(* All frags of a file that is deleted, whose inode is then wiped.         *)
Direct(v, i) == {k \in 0..(NDADDR - 1) : v.inode[i].ic_db[k] # 0}

(* What was lost for the file stays lost.                                  *)
Wipe(v, i) ==
    [v EXCEPT !.inode[i] = Wiped, !.lost = {IF p[1] = i THEN <<None, p[2]>> ELSE p : p \in @}]

file_deallocate(v, i) ==
    LET totfrags == TotFrags(v, i)
        ffrags   == totfrags % FRAGS_PER_BLK
        k        == totfrags \div FRAGS_PER_BLK
        block    == ridisk_frag(v, i, totfrags - ffrags)
        tail     == k < NDADDR /\ ffrags # 0 /\ block # 0
        Rest(w)  == With([v |-> DropDirect(w, i, Direct(w, i)), deallocated |-> 0],
                         LAMBDA a : Wipe(DropTrees(a, i, 0..(NIADDR - 1)).v, i))
    IN  With(IF tail THEN [FreeFragRun(v, block, ffrags) EXCEPT !.inode[i].ic_db[k] = 0] ELSE v, Rest)

(* A directory gets one more frag: in a block that is in use or new, right *)
(* behind its last one, or with its last ones elsewhere.                   *)
file_frag_expand(v, i) ==
    LET frags   == v.inode[i].ic_blocks
        fspill  == frags % FRAGS_PER_BLK
        fblk    == frags - fspill
        dblk    == ridisk_frag(v, i, fblk)
        g       == dtog(dblk)
        free    == v.m.cg[g].free
        behind  == /\ fspill # 0
                   /\ (dblk % FRAGS_PER_BLK) + fspill < FRAGS_PER_BLK
                   /\ dtogd(dblk) + fspill \in free
        near    == IF fspill = 0 /\ fblk = 0 THEN itod[i] - cgbase(g) ELSE dblk - cgbase(g)
        Grown(w, at) ==
            [ADJUST_IC_BLKS(w, i, 1) EXCEPT !.inode[i].ic_size = @ + FSIZE,
                                            !.holds[at] = <<i, frags>>]
        Placed(w, new) ==
            Grown(cidisk_frag(FreeFragRun(MoveFrags(w, new, dblk, fspill), dblk, fspill),
                              i, fblk, new).v, new + fspill)
        Behind(r) == IF r.failed THEN [v EXCEPT !.m = r.m]
                     ELSE Grown([v EXCEPT !.m = r.m], dblk + fspill)
        Frags(r, new) == IF r.failed THEN [v EXCEPT !.m = r.m] ELSE Placed([v EXCEPT !.m = r.m], new)
        Block(r) == IF r.got = 0 THEN [v EXCEPT !.m = r.m]
                    ELSE Placed(FreeFragRun([v EXCEPT !.m = r.m], r.got + fspill + 1,
                                            FRAGS_PER_BLK - fspill - 1), r.got)
        Found(count) ==
            IF count = -1 THEN With(block_allocate(v.m, IF dblk = 0 THEN itod[i] ELSE dblk), Block)
            ELSE With(frags_allocate(v.m, cgbase(g) + count, fspill + 1),
                      LAMBDA r : Frags(r, cgbase(g) + count))
    IN  CASE behind -> With(frags_allocate(v.m, dblk + fspill, 1), Behind)
          [] ~behind /\ fspill # 0 /\ fspill + 1 = FRAGS_PER_BLK -> Found(-1)
          [] OTHER -> With(block_fragblock_find(g, free, near, fspill + 1), Found)

-----------------------------------------------------------------------------
(* fs/fwrite.c.  ic_size is set before the frags are written, one by one,  *)
(* until one of them cannot be given a block.  told is what the routine    *)
(* returns.                                                                *)

(* When one frag of a block has an address the others have.                *)
WriteFrags(v, i, first, last) ==
    LET Within(k) == {f \in first..last : f \div FRAGS_PER_BLK = k}
        Into(a, k, f, w) ==
            IF w.got = 0 THEN [a EXCEPT !.v = w.v, !.full = TRUE]
            ELSE [v |-> [w.v EXCEPT !.holds = [e \in {w.got + (g - f) : g \in Within(k)} |->
                                                  <<i, f + (e - w.got)>>] @@ @],
                  next |-> Most(Within(k)) + 1, full |-> FALSE]
        Put(a, k) == IF a.full THEN a
                     ELSE With(widisk_frag(a.v, i, a.next), LAMBDA w : Into(a, k, a.next, w))
    IN  Steps(Put, [v |-> v, next |-> first, full |-> FALSE],
              [k \in 1..(last \div FRAGS_PER_BLK - first \div FRAGS_PER_BLK + 1) |->
                  first \div FRAGS_PER_BLK + k - 1])

(* The blocks for a write past the end, and the bytes n that then fit.     *)
Expand(v, i, sbyte, nbytes) ==
    LET size   == v.inode[i].ic_size
        blocks == (sbyte + nbytes + FBSIZE - 1 - size) \div FBSIZE
        Sized(w, n) == [none |-> FALSE, n |-> n,
                        v |-> [w EXCEPT !.inode[i].ic_size = IF sbyte + n > @ THEN sbyte + n ELSE @]]
        Got(add) == CASE add.index = 0 -> [none |-> TRUE, n |-> 0, v |-> add.v]
                      [] add.index \in 1..(blocks - 1) ->
                            Sized(add.v, add.index * FBSIZE + size - sbyte)
                      [] OTHER -> Sized(add.v, nbytes)
    IN  IF sbyte + nbytes > size THEN With(file_blocks_add(v, i, size \div FSIZE, blocks), Got)
        ELSE [none |-> FALSE, n |-> nbytes, v |-> v]

file_write(v, i, sbyte, nbytes) ==
    LET spos  == sbyte % FSIZE
        sfrag == sbyte \div FSIZE
        Told(put, n) ==
            CASE ~put.full -> n
              [] put.full /\ (sfrag = (sbyte + n) \div FSIZE \/ (put.next = sfrag /\ spos # 0)) -> -1
              [] OTHER -> FSIZE - spos + FSIZE * (put.next - (IF spos = 0 THEN sfrag ELSE sfrag + 1))
        Done(put, n) == [v |-> put.v, told |-> Told(put, n), full |-> put.full]
        Write(e) == IF e.none THEN [v |-> e.v, told |-> -1, full |-> FALSE]
                    ELSE With(WriteFrags(e.v, i, sfrag, (sbyte + e.n - 1) \div FSIZE),
                              LAMBDA put : Done(put, e.n))
    IN  With(Expand(v, i, sbyte, nbytes), Write)

-----------------------------------------------------------------------------
(* fs/fread.c.  What is read is a frag's contents for every frag that is   *)
(* touched; holes read as None, but in a frag that is not read as a whole  *)
(* as what is in the boot block.                                           *)

(* Whole frags: from the cache, or from the disk, for which frags that     *)
(* follow each other there are collected, from csfrag to cefrag, for the   *)
(* buffer from bstart on.  cached are the frags in the cache; the disk has *)
(* older contents of them.                                                 *)
Collecting(buf) == [csfrag |-> 0, cefrag |-> 0, bstart |-> 0, buf |-> buf]

(* The frags collected are read.                                           *)
Stored(v, a, cached) ==
    LET Frag(d) == IF d \in cached THEN Old ELSE v.holds[d]
    IN  IF a.csfrag = 0 THEN a
        ELSE Collecting([k \in FragsOf(a.bstart, a.cefrag - a.csfrag + 1) |->
                            Frag(a.csfrag + (k - a.bstart))] @@ a.buf)

file_frags_read(v, i, sfrag, nfrags, cached) ==
    LET Add(a, k, lfrag) ==
                CASE lfrag = 0 -> [Stored(v, a, cached) EXCEPT !.buf[k] = None]
                  [] lfrag # 0 /\ lfrag \in cached -> [Stored(v, a, cached) EXCEPT !.buf[k] = v.holds[lfrag]]
                  [] lfrag = a.cefrag + 1 /\ lfrag \notin cached -> [a EXCEPT !.cefrag = lfrag]
                  [] OTHER -> [Stored(v, a, cached) EXCEPT !.csfrag = lfrag, !.cefrag = lfrag, !.bstart = k]
        Frag(a, k) == With(ridisk_frag(v, i, k), LAMBDA lfrag : Add(a, k, lfrag))
        empty == [k \in FragsOf(sfrag, nfrags) |-> Old]
    IN  With(Steps(Frag, Collecting(empty), [k \in 1..nfrags |-> sfrag + k - 1]),
             LAMBDA a : Stored(v, a, cached).buf)

(* Fewer than four are read through the cache.                             *)
FewFrags(v, i, sfrag, nfrags) ==
    [k \in FragsOf(sfrag, nfrags) |->
        IF ridisk_frag(v, i, k) = 0 THEN None ELSE v.holds[ridisk_frag(v, i, k)]]

partial_frag_read(v, i, f) ==
    IF ridisk_frag(v, i, f) = 0 THEN Old ELSE v.holds[ridisk_frag(v, i, f)]

ReadBytes(v, i, sbyte, n) == Lesser(n, v.inode[i].ic_size - sbyte)

(* The odd bytes at the beginning, the whole frags, the odd bytes at the   *)
(* end.                                                                    *)
file_read(v, i, sbyte, n, cached) ==
    LET nbytes == ReadBytes(v, i, sbyte, n)
        sfrag  == sbyte \div FSIZE
        efrag  == (sbyte + nbytes) \div FSIZE
        first  == IF sbyte % FSIZE = 0 THEN sfrag ELSE sfrag + 1
        odd    == ({sfrag, efrag} \ FragsOf(first, efrag - first))
                    \ (IF (sbyte + nbytes) % FSIZE = 0 THEN {efrag} ELSE {})
        whole  == IF efrag - first < 4 THEN FewFrags(v, i, first, efrag - first)
                  ELSE file_frags_read(v, i, first, efrag - first, cached)
    IN  [k \in odd |-> partial_frag_read(v, i, k)] @@ whole

-----------------------------------------------------------------------------
(* The packets.                                                            *)

Become(new) ==
    \E v \in {new} :
        /\ m' = v.m /\ inode' = v.inode /\ holds' = v.holds /\ idx' = v.idx /\ dirty' = v.dirty
        /\ lost' = v.lost /\ astray' = v.astray

volume == <<m, inode, holds, idx, dirty, lost, astray>>

OpenOn(i)  == {h \in Handle : handle[h] # Closed /\ handle[h].inum = i}
Writing(i) == {h \in OpenOn(i) : handle[h].access_mode = "write"}

Opened(i, truncates) ==
    [inum |-> i, pos |-> 0, max |-> 0, access_mode |-> "read",
     truncates |-> truncates, exclusive |-> truncates]

PFindInput(h, i) ==
    /\ handle[h] = Closed
    /\ \A o \in OpenOn(i) : ~handle[o].exclusive
    /\ handle' = [handle EXCEPT ![h] = Opened(i, FALSE)]
    /\ UNCHANGED <<volume, short, writes>>

PFindOutput(h, i) ==
    /\ ~m.sb.fs_ronly
    /\ handle[h] = Closed
    /\ OpenOn(i) = {}
    /\ handle' = [handle EXCEPT ![h] = Opened(i, TRUE)]
    /\ UNCHANGED <<volume, short, writes>>

PSeek(h, to) ==
    /\ handle[h] # Closed
    /\ to <= inode[handle[h].inum].ic_size
    /\ handle' = [handle EXCEPT ![h].pos = to]
    /\ UNCHANGED <<volume, short, writes>>

PRead(h, n) ==
    /\ handle[h] # Closed
    /\ handle[h].pos <= inode[handle[h].inum].ic_size
    /\ LET pos == handle[h].pos + ReadBytes(Volume, handle[h].inum, handle[h].pos, n)
       IN  handle' = [handle EXCEPT ![h].pos = pos, ![h].max = IF pos > @ THEN pos ELSE @]
    /\ UNCHANGED <<volume, short, writes>>

(* The first write through a handle makes the last block a whole one.      *)
Extended(h) ==
    IF handle[h].access_mode = "write" THEN [failed |-> FALSE, v |-> Volume]
    ELSE file_block_extend(Volume, handle[h].inum)

(* Files are kept within the bytes that the trees have room for.           *)
MaxSize == FBSIZE * (NDADDR + FoldSet(LAMBDA t, n : n + fs_nindir^t, 0, 1..NIADDR)) - 1

MayWrite(h, n) ==
    /\ ~m.sb.fs_ronly
    /\ handle[h] # Closed
    /\ handle[h].pos + n <= MaxSize

Wrote(h, w, pos) ==
    /\ Become(w.v)
    /\ handle' = [handle EXCEPT ![h].access_mode = "write",
                                ![h].pos = pos,
                                ![h].max = IF pos > @ THEN pos ELSE @]
    /\ short' = IF w.full THEN short \cup {handle[h].inum} ELSE short

PWrite(h, n) ==
    /\ MayWrite(h, n)
    /\ writes < MaxWrites
    /\ writes' = writes + 1
    /\ \E e \in {Extended(h)} :
        IF e.failed
        THEN Become(e.v) /\ UNCHANGED <<handle, short>>
        ELSE \E w \in {file_write(e.v, handle[h].inum, handle[h].pos, n)} :
                Wrote(h, w, handle[h].pos + (IF w.told < 0 THEN 0 ELSE w.told))

truncate_file(v, h) ==
    LET i    == handle[h].inum
        cuts == handle[h].truncates /\ v.inode[i].ic_size > handle[h].max
    IN  With(IF cuts THEN file_blocks_deallocate([v EXCEPT !.inode[i].ic_size = handle[h].max], i)
             ELSE v,
             LAMBDA w : file_block_retract(w, i))

PEnd(h) ==
    /\ handle[h] # Closed
    /\ Become(IF handle[h].access_mode = "write" THEN truncate_file(Volume, h) ELSE Volume)
    /\ handle' = [handle EXCEPT ![h] = Closed]
    /\ UNCHANGED <<short, writes>>

(* PInhibit() and PDiskChange() have all written files truncated; the      *)
(* handles stay open.  The order is that of the locks, here any.           *)
close_files ==
    LET W == {h \in Handle : handle[h] # Closed /\ handle[h].access_mode = "write"}
    IN  \E order \in SetToSeqs(W) :
            /\ W # {}
            /\ Become(Steps(truncate_file, Volume, order))
            /\ handle' = [h \in Handle |->
                            IF h \in W THEN [handle[h] EXCEPT !.access_mode = "read",
                                                             !.truncates = FALSE]
                            ELSE handle[h]]
            /\ UNCHANGED <<short, writes>>

(* The last name of a file that nobody has open, or of a directory.        *)
PDeleteObject(i) ==
    /\ ~m.sb.fs_ronly
    /\ inode[i] # Wiped
    /\ OpenOn(i) = {}
    /\ Become(file_deallocate(Volume, i))
    /\ short' = short \ {i}
    /\ UNCHANGED <<handle, writes>>

(* A directory has no room for one more name.                              *)
dir_create(i) ==
    /\ ~m.sb.fs_ronly
    /\ inode[i].ic_blocks < MaxDir
    /\ Become(file_frag_expand(Volume, i))
    /\ UNCHANGED <<handle, short, writes>>

(* The timer, ACTION_FLUSH or want of buffers: what the cache has changed  *)
(* is written.                                                             *)
cache_flush ==
    /\ dirty # {}
    /\ dirty' = {}
    /\ UNCHANGED <<m, inode, holds, idx, handle, short, lost, astray, writes>>

Init ==
    /\ m = Maps([g \in Group |-> DataOf(g)])
    /\ inode = [i \in Inum |-> Wiped]
    /\ holds = [d \in DataFrag |-> None]
    /\ idx = <<>>
    /\ dirty = {}
    /\ lost = {}
    /\ astray = FALSE
    /\ writes = 0
    /\ handle = [h \in Handle |-> Closed]
    /\ short = {}

(* A file is written through one handle at a time, at most at its end;     *)
(* nothing in the handler sees to it.                                      *)
Proper(h) ==
    /\ handle[h] # Closed
    /\ Writing(handle[h].inum) \subseteq {h}
    /\ handle[h].pos <= inode[handle[h].inum].ic_size

Next ==
    \/ \E h \in Handle, i \in File : PFindInput(h, i) \/ PFindOutput(h, i)
    \/ \E h \in Handle, to \in SeekTo : PSeek(h, to)
    \/ \E h \in Handle, n \in Reading : PRead(h, n)
    \/ \E h \in Handle, n \in Amount : Proper(h) /\ PWrite(h, n)
    \/ \E h \in Handle : PEnd(h)
    \/ close_files
    \/ \E i \in Inum : PDeleteObject(i)
    \/ \E i \in Directory : dir_create(i)
    \/ cache_flush

Spec == Init /\ [][Next]_vars

-----------------------------------------------------------------------------
(* A place for a block in a file: a direct block, or in a tree the slots   *)
(* to it from the top.  All but the longest lead to index blocks.          *)
Places ==
    {<<"direct", k, <<>>>> : k \in 0..(NDADDR - 1)}
        \cup UNION {{<<"tree", t, way>> : way \in UNION {[1..n -> Slot] : n \in 0..(t + 1)}} : t \in 0..(NIADDR - 1)}

BlockOf(i, place) ==
    IF place[1] = "direct" THEN inode[i].ic_db[place[2]]
    ELSE Steps(LAMBDA b, s : At(Volume, b, s), inode[i].ic_ib[place[2]], place[3])

(* The frags that are there: of the last direct block, unless the file is  *)
(* being written, as many as ic_size needs.                                *)
FragsAt(i, place) ==
    LET tail == TotFrags(Volume, i) % FRAGS_PER_BLK
        last == /\ place[1] = "direct" /\ place[2] = TotFrags(Volume, i) \div FRAGS_PER_BLK
                /\ tail # 0 /\ Writing(i) = {}
    IN  With(BlockOf(i, place),
             LAMBDA d : IF d = 0 THEN {} ELSE FragsOf(d, IF last THEN tail ELSE FRAGS_PER_BLK))

(* Who has which frags: a file in one of its places, or as lost.           *)
Claims ==
    UNION {{<<i, p, d>> : d \in FragsAt(i, p)} : i \in Inum, p \in Places}
        \cup UNION {{<<l[1], <<"lost", 0, <<>>>>, d>> : d \in BlockAt(l[2])} : l \in lost}

(* Every data frag is free or belongs to exactly one place of exactly one  *)
(* file, index blocks included, or was lost for want of an index block:    *)
(* what fsck checks, at every moment, through moves, truncation inside     *)
(* trees and a full disk; and ic_blocks, from which file_block_extend()    *)
(* and file_frag_expand() find the end of a file, is their number.         *)
FragsOwnedOnce ==
    ~astray => \A claims \in {Claims} :
        /\ {c[3] : c \in claims} = DataFrag \ FreeFrags(m)
        /\ Cardinality(claims) = Cardinality(DataFrag \ FreeFrags(m))
        /\ \A i \in Inum : inode[i].ic_blocks = Cardinality({c \in claims : c[1] = i})

(* The calls that file.c makes of alloc.c leave all summaries exact and    *)
(* never run into one of its checks, which would make the volume           *)
(* read-only.                                                              *)
MapsExact == ~astray => m = Maps([g \in Group |-> m.cg[g].free])

(* The places that are not for index blocks, and the numbers of their      *)
(* blocks in the file, as the format has them.                             *)
DataPlaces == {p \in Places : p[1] = "direct" \/ Len(p[3]) = p[2] + 1}

Number ==
    [p \in DataPlaces |->
        IF p[1] = "direct" THEN p[2]
        ELSE NDADDR + FoldSet(LAMBDA u, n : n + fs_nindir^u, 0, 1..p[2])
                    + FoldLeft(LAMBDA n, s : n * fs_nindir + s, 0, p[3])]

(* Reading a file, whichever of its frags are in the cache, gives what was *)
(* written there, although tails are moved, blocks go into trees and out   *)
(* of them and others write; and it is where the format has it, for fsck,  *)
(* dump and other systems.  Unless a write ran out of room.                *)
ReadsBack ==
    LET Every(n) == {d \in DataFrag : d % n = 0}
    IN  ~astray => \A i \in Inum \ short :
            /\ \A cached \in {{}, Every(2), Every(5)} :
                  file_read(Volume, i, 0, inode[i].ic_size, cached)
                      = [f \in 0..(TotFrags(Volume, i) - 1) |-> <<i, f>>]
            /\ \A at \in {[p \in DataPlaces |-> BlockOf(i, p)]} : \A f \in 0..(TotFrags(Volume, i) - 1) :
                  \E p \in DataPlaces : /\ Number[p] = f \div FRAGS_PER_BLK /\ at[p] # 0
                                        /\ holds[at[p] + (f % FRAGS_PER_BLK)] = <<i, f>>
=============================================================================
