--------------------------------- MODULE Fsck ---------------------------------
(***************************************************************************)
(* fsck (fsck/): a volume after a crash, and the check that repairs it     *)
(* pass by pass, all questions answered yes (fsck -y) or, unattended, with *)
(* the innocuous repairs only (fsck -p).  A run can be interrupted, or     *)
(* give up; then only some of the blocks it changed are on the disk, and   *)
(* another run follows.                                                    *)
(*                                                                         *)
(*   vol    the volume as fsck sees it through its buffers:                *)
(*            di     the inodes: mode, nlink, the blocks db, di_blocks,    *)
(*                   and whether di_size is a multiple of the block        *)
(*            data   what is in a block: the entries of a directory, in    *)
(*                   their order, or Junk                                  *)
(*            cg     cg_inosused, cg_blksfree and the counts: one group    *)
(*            sb     the standard superblock (0) and the alternates, each  *)
(*                   "ok" or "bad"                                         *)
(*   img    the volume at the start of the run                             *)
(*   tab    fsck's tables: statemap, lncntp, blockmap, the duplicates (how *)
(*          often each), the list inpsort of directories, the inodes with  *)
(*          link count zero, lfdir, lastino, the superblock in use; and,   *)
(*          to tell the history, whether linkup() said SORRY               *)
(*   at     where it is: pass, and the index, block and entry there        *)
(*   mode   "y" or "p"                                                     *)
(*   faults, stops, runs, settled   how often the volume was damaged, a    *)
(*          run was interrupted, one began, and, since, one with -y ended  *)
(*          without a SORRY                                                *)
(*   lost   history variable: undamaged inodes that were cleared           *)
(*                                                                         *)
(* Space is counted in blocks, also for a directory that ends in a few     *)
(* frags: frags are the matter of module Alloc.  Directory entries all     *)
(* have one size.  Not modelled: conversions between                       *)
(* formats (-c), the types in directory entries, indirect blocks, more bad *)
(* blocks than MAXBAD, a file with the name lost+found, read errors.       *)
(***************************************************************************)
EXTENDS Integers, FiniteSets, SequencesExt, TLC

CONSTANTS
    maxino,         \* inodes 0..maxino-1
    Block,          \* the blocks for data: 1..n
    PerBlock,       \* entries that a directory block has room for
    NDADDR,         \* blocks of a directory
    Alternates,     \* number of alternate superblocks
    Trees,          \* the trees to start with: [directory -> <<name, inode>>...]
    Wholes,         \* the sets of directories that grew to whole blocks
    Kinds,          \* the kinds of damage
    MaxFaults, MaxStops, MaxRuns,
    Junk, Bad       \* model values: no directory; a block number out of range

ROOTINO == 2
Inum    == ROOTINO..(maxino - 1)
lfname  == "lost+found"

ASSUME SizeAssumption  == maxino > 3 /\ Block = 1..Cardinality(Block) /\ PerBlock > 2 /\ NDADDR > 0
ASSUME BoundAssumption == MaxFaults \in Nat /\ MaxStops \in Nat /\ MaxRuns \in Nat /\ Alternates \in Nat \ {0}

VARIABLES vol, img, tab, at, mode, faults, stops, runs, settled, lost

vars == <<vol, img, tab, at, mode, faults, stops, runs, settled, lost>>

Zero == [mode |-> "none", nlink |-> 0, db |-> <<>>, blocks |-> 0, whole |-> FALSE]

Least(S) == CHOOSE x \in S : \A y \in S : x <= y

(* F of x, where TLC is to evaluate x once.                                *)
With(x, F(_)) == CHOOSE y \in {F(z) : z \in {x}} : TRUE

Dirent(i, n) == [ino |-> i, name |-> n]
Gap          == Dirent(0, "")

-----------------------------------------------------------------------------
(* A consistent volume with a given tree: what newfs and the handler leave *)
(* when nothing goes wrong.  The k-th inode in use has the k-th block.     *)

Children(t, i) == IF i \in DOMAIN t THEN Range(t[i]) ELSE {}

Names(t, i) == {e \in (DOMAIN t) \X (1..PerBlock) :
                    e[2] \in DOMAIN t[e[1]] /\ t[e[1]][e[2]][2] = i}

ParentIn(t, i) == IF i = ROOTINO THEN ROOTINO
                  ELSE CHOOSE p \in DOMAIN t : \E c \in Children(t, p) : c[2] = i

InTree(t) == {ROOTINO} \cup UNION {{c[2] : c \in Children(t, p)} : p \in DOMAIN t}

BlockIn(t, i) == Cardinality({j \in InTree(t) : j <= i})

Content(t, i) ==
    <<Dirent(i, "."), Dirent(ParentIn(t, i), "..")>>
        \o [k \in DOMAIN t[i] |-> Dirent(t[i][k][2], t[i][k][1])]

Counts(v) ==
    [nifree |-> Cardinality(Inum \ v.used), nbfree |-> Cardinality(v.free), ndir |-> v.ndir]

Build(t, whole) ==
    LET used == InTree(t)
        busy == {BlockIn(t, i) : i \in used}
    IN  [di   |-> [i \in Inum |->
                    IF i \notin used THEN Zero
                    ELSE [mode   |-> IF i \in DOMAIN t THEN "dir" ELSE "file",
                          nlink  |-> IF i \notin DOMAIN t THEN Cardinality(Names(t, i))
                                     ELSE 2 + Cardinality({c \in Children(t, i) : c[2] \in DOMAIN t}),
                          db     |-> <<BlockIn(t, i)>>,
                          blocks |-> 1,
                          whole  |-> i \in DOMAIN t /\ i \in whole]],
         data |-> [b \in Block |->
                    LET i == {j \in DOMAIN t : BlockIn(t, j) = b}
                    IN  IF i = {} THEN Junk ELSE Content(t, CHOOSE j \in i : TRUE)],
         cg   |-> [used |-> used, free |-> Block \ busy,
                   cs |-> Counts([used |-> used, free |-> Block \ busy,
                                  ndir |-> Cardinality(DOMAIN t)])],
         sb   |-> [k \in 0..Alternates |-> "ok"]]

-----------------------------------------------------------------------------
(* Crashes and other damage: blocks that were never written, blocks of     *)
(* which an old copy came back.                                            *)

DirBlocks == {b \in Block : vol.data[b] # Junk}

(* The root directory's block was written by newfs, and has been its since. *)
NewBlocks == DirBlocks \ Range(vol.di[ROOTINO].db)

Damaged(kind) ==
    CASE kind = "inode" ->       \* never written
            {[vol EXCEPT !.di[i] = Zero] : i \in Inum}
      [] kind = "type" ->        \* overwritten
            {[vol EXCEPT !.di[i].mode = "odd"] : i \in {j \in Inum : vol.di[j].mode # "none"}}
      [] kind = "old" ->         \* a deleted file is back
            {[vol EXCEPT !.di[i] = [Zero EXCEPT !.mode = "file", !.nlink = 1, !.db = <<b>>, !.blocks = 1]] :
                i \in {j \in Inum : vol.di[j].mode = "none"}, b \in Block \cup {Bad}}
      [] kind = "empty" ->       \* a directory without its first block
            {[vol EXCEPT !.di[i].db = <<>>, !.di[i].blocks = 0] :
                i \in {j \in Inum : vol.di[j].mode = "dir"}}
      [] kind = "links" ->
            {[vol EXCEPT !.di[i].nlink = @ + n] :
                i \in {j \in Inum : vol.di[j].mode # "none"}, n \in {-1, 1}}
      [] kind = "blocks" ->
            {[vol EXCEPT !.di[i].blocks = @ + 1] : i \in {j \in Inum : vol.di[j].mode # "none"}}
      [] kind = "entry" ->       \* a name was not written
            UNION {{[vol EXCEPT !.data[b] = RemoveAt(@, k)] : k \in 3..Len(vol.data[b])} : b \in DirBlocks}
      [] kind = "junk" ->        \* a new directory's block was not written
            {[vol EXCEPT !.data[b] = Junk] : b \in NewBlocks}
      [] kind = "stale" ->       \* and another directory had been there
            UNION {{[vol EXCEPT !.data[b] = vol.data[c]] : c \in DirBlocks \ {b}} : b \in NewBlocks}
      [] kind = "cg" ->
            {[vol EXCEPT !.cg.used = u] : u \in {vol.cg.used \cup {maxino - 1}, vol.cg.used \ {ROOTINO}}}
                \cup {[vol EXCEPT !.cg.free = Block], [vol EXCEPT !.cg.cs.nbfree = 0]}
      [] kind = "sb" -> {[vol EXCEPT !.sb[k] = "bad"] : k \in 0..Alternates}

Damage ==
    /\ at.pass = "off" /\ faults < MaxFaults /\ runs = 0
    /\ \E kind \in Kinds : \E v \in Damaged(kind) : v # vol /\ vol' = v
    /\ faults' = faults + 1
    /\ img' = vol'
    /\ UNCHANGED <<tab, at, mode, stops, runs, settled, lost>>

-----------------------------------------------------------------------------
(* fsck's way of working on a record s of the volume v, the tables t and   *)
(* out, which says that it gave up: pfatal() with -p, errexit().           *)

Now == [v |-> vol, t |-> tab, out |-> FALSE]

(* pfatal(), and errors that lead to it: with -p the end.                  *)
Fatal(s) == IF mode = "p" THEN [s EXCEPT !.out = TRUE] ELSE s

Position(pass, i) == [pass |-> pass, i |-> i, b |-> 1, e |-> 1, n |-> 0]

Off == Position("off", 0)

(* A step ends with fsck at another place, or out: then what the step did  *)
(* to the buffers is lost.                                                 *)
Then(s, place) ==
    /\ vol' = (IF s.out THEN vol ELSE s.v) /\ tab' = s.t
    /\ at' = IF s.out THEN Position("out", 0) ELSE place
    /\ UNCHANGED <<img, mode, faults, stops, runs, settled>>

NoTables ==
    [state |-> [i \in Inum |-> "U"], lncnt |-> [i \in 0..(maxino - 1) |-> 0], bmap |-> {},
     dups |-> [b \in Block |-> 0], inp |-> <<>>, zln |-> {}, lf |-> 0, sorry |-> FALSE,
     last |-> 0, sb |-> 0]

(* setup() and readsb(): the standard superblock must agree with the last  *)
(* alternate; else the first alternate that is one is used.  With -p, or   *)
(* if there is none, the run ends.                                         *)
Usable(v) ==
    IF v.sb[0] = "ok" /\ v.sb[Alternates] = "ok" THEN {0}
    ELSE {k \in 1..Alternates : mode = "y" /\ v.sb[k] = "ok"}

setup ==
    /\ at.pass = "off" /\ runs < MaxRuns
    /\ \E m \in (IF runs = 0 THEN {"y", "p"} ELSE {"y"}) : mode' = m
    /\ runs' = runs + 1
    /\ img' = vol
    /\ at' = Position("setup", 0)
    /\ UNCHANGED <<vol, tab, faults, stops, settled, lost>>

readsb ==
    /\ at.pass = "setup"
    /\ IF Usable(vol) = {}
       THEN tab' = NoTables /\ at' = Position("out", 0)
       ELSE tab' = [NoTables EXCEPT !.sb = Least(Usable(vol))] /\ at' = Position("1", ROOTINO)
    /\ UNCHANGED <<vol, img, mode, faults, stops, runs, settled, lost>>

-----------------------------------------------------------------------------
(* Pass 1: blocks and sizes.                                               *)

(* A block number that is not in the range of blocks for data.             *)
chkrange(b) == b = Bad

(* The blocks of an inode, in the order ckinode() hands them to a pass.    *)
ckinode(dp) == dp.db

(* blkerror().                                                             *)
Suspect(t, i) == [t EXCEPT !.state[i] = CASE @ = "F" -> "FCLEAR" [] @ = "D" -> "DCLEAR" [] OTHER -> @]

(* (Mutant: a block in use already is not entered as a duplicate.)         *)
pass1checkOnce(s, i, b) ==
    CASE chkrange(b) -> [Fatal(s) EXCEPT !.t = Suspect(s.t, i)]
      [] ~chkrange(b) /\ b \notin s.t.bmap -> [s EXCEPT !.t.bmap = @ \cup {b}]
      [] OTHER -> [Fatal(s) EXCEPT !.t = Suspect(s.t, i)]

pass1check(s, i, b) ==
    CASE chkrange(b) -> [Fatal(s) EXCEPT !.t = Suspect(s.t, i)]
      [] ~chkrange(b) /\ b \notin s.t.bmap -> [s EXCEPT !.t.bmap = @ \cup {b}]
      [] OTHER -> [Fatal(s) EXCEPT !.t = [Suspect(s.t, i) EXCEPT !.dups[b] = @ + 1]]

(* cacheino(): the newest entry of an inode is the one getinoinfo() finds. *)
cacheino(t, i, dp) ==
    [t EXCEPT !.inp = Append(@, [ino |-> i, parent |-> 0, dotdot |-> 0, blks |-> dp.db,
                                 gen |-> Len(@)])]

getinoinfo(t, i) ==
    CHOOSE k \in DOMAIN t.inp :
        t.inp[k].ino = i /\ \A j \in DOMAIN t.inp : t.inp[j].ino = i => t.inp[j].gen <= t.inp[k].gen

Cached(t, i) == \E k \in DOMAIN t.inp : t.inp[k].ino = i

ftypeok(dp) == dp.mode # "odd"

checkinode(s, i) ==
    LET dp == s.v.di[i]
        known == [s.t EXCEPT !.last = i, !.lncnt[i] = dp.nlink,
                             !.zln = IF dp.nlink <= 0 THEN @ \cup {i} ELSE @,
                             !.state[i] = CASE dp.mode # "dir" -> "F"
                                            [] dp.mode = "dir" /\ dp.db = <<>> -> "DCLEAR"
                                            [] OTHER -> "D"]
        begun == [s EXCEPT !.t = IF dp.mode = "dir" THEN cacheino(known, i, dp) ELSE known]
        read  == FoldLeft(LAMBDA r, b : pass1check(r, i, b), begun, ckinode(dp))
    IN  CASE dp.mode = "none" /\ dp = Zero -> s
          [] dp.mode = "none" /\ dp # Zero -> [Fatal(s) EXCEPT !.v.di[i] = Zero]
          [] ~ftypeok(dp) -> [Fatal(s) EXCEPT !.t.last = i, !.v.di[i] = Zero]
          [] OTHER -> [read EXCEPT !.v.di[i].blocks = Len(dp.db)]

pass1 ==
    /\ at.pass = "1"
    /\ Then(checkinode(Now, at.i),
            IF at.i < maxino - 1 THEN [at EXCEPT !.i = @ + 1] ELSE Position("1b", 0))
    /\ UNCHANGED lost

(* Pass 1b: for every duplicate the first inode that has the block.        *)
pass1b ==
    /\ at.pass = "1b"
    /\ LET twice  == {b \in Block : tab.dups[b] > 0}
           having(b) == {i \in Inum : tab.state[i] # "U" /\ \E k \in DOMAIN vol.di[i].db : vol.di[i].db[k] = b}
           first  == {Least(having(b)) : b \in twice}
       IN  Then([Now EXCEPT !.t.state = [i \in Inum |-> IF i \in first THEN Suspect(tab, i).state[i] ELSE @[i]]],
                Position("root", 0))
    /\ UNCHANGED lost

-----------------------------------------------------------------------------
(* Allocation (fsck_inode.c, utilities.c), and changes in directories      *)
(* (dir.c).  A search that finds nothing leads to inode 0, which ginode()  *)
(* does not accept: errexit().                                             *)

allocblk(t) == IF Block \ t.bmap = {} THEN 0 ELSE Least(Block \ t.bmap)

pass4check(t, b) ==
    CASE chkrange(b) \/ b \notin t.bmap -> t
      [] ~chkrange(b) /\ b \in t.bmap /\ t.dups[b] > 0 -> [t EXCEPT !.dups[b] = @ - 1]
      [] OTHER -> [t EXCEPT !.bmap = @ \ {b}]

(* freeino() and clri().                                                   *)
freeino(s, i) ==
    [s EXCEPT !.v.di[i] = Zero,
              !.t = [FoldLeft(pass4check, s.t, ckinode(s.v.di[i])) EXCEPT !.state[i] = "U"]]

allocino(s, request) ==
    LET some == {i \in Inum : i >= request /\ s.t.state[i] = "U"}
    IN  IF some = {} \/ allocblk(s.t) = 0 THEN 0 ELSE Least(some)

allocdir(s, parent, request) ==
    LET Made(i, b, dp) == [s EXCEPT !.v.di[i] = dp,
                                    !.v.data[b] = <<Dirent(i, "."), Dirent(parent, "..")>>,
                                    !.t = [cacheino(s.t, i, dp) EXCEPT !.bmap = @ \cup {b}]]
        New(i) == LET b == allocblk(s.t)
                  IN  Made(i, b, [Zero EXCEPT !.mode = "dir", !.nlink = 2, !.db = <<b>>, !.blocks = 1])
    IN  With(allocino(s, request),
             LAMBDA i : CASE i = 0 -> [s EXCEPT !.out = TRUE]
                          [] i = ROOTINO -> [New(i) EXCEPT !.t.lncnt[i] = 2]
                          [] OTHER -> [New(i) EXCEPT !.t.state[i] = s.t.state[parent],
                                                     !.v.di[parent].nlink = @ + 1])

(* expanddir(): another block, to which the first entries move.  It goes   *)
(* before lblkno(di_size), the block of the last frags; in a directory of  *)
(* whole blocks that is the one behind the last, which is not there.       *)
Ends(dp) == dp.db # <<>> /\ ~dp.whole

expanddir(s, d) ==
    LET b == allocblk(s.t)
        k == Len(s.v.di[d].db)
        last == s.v.di[d].db[k]
    IN  IF ~Ends(s.v.di[d]) \/ k >= NDADDR \/ b = 0 THEN s
        ELSE [s EXCEPT !.t.bmap = @ \cup {b},
                       !.v.di[d] = [@ EXCEPT !.db = [@ EXCEPT ![k] = b] \o <<last>>, !.blocks = @ + 1],
                       !.v.data[b] = s.v.data[last],
                       !.v.data[last] = <<Gap>>]

(* Where mkentry() and chgino() find what they look for: <<block, entry>>. *)
Entered(v, d) ==
    UNION {{<<k, e>> : e \in DOMAIN v.data[v.di[d].db[k]]} :
                k \in {j \in DOMAIN v.di[d].db : v.di[d].db[j] # Bad /\ v.data[v.di[d].db[j]] # Junk}}

Before(p, q) == p[1] < q[1] \/ (p[1] = q[1] /\ p[2] <= q[2])
First(S)     == CHOOSE p \in S : \A q \in S : Before(p, q)
EntryAt(v, d, p) == v.data[v.di[d].db[p[1]]][p[2]]

Roomy(v, d) ==
    {p \in Entered(v, d) :
        \/ EntryAt(v, d, p).ino = 0
        \/ p[2] = Len(v.data[v.di[d].db[p[1]]]) /\ p[2] < PerBlock}

mkentry(v, d, p, new) ==
    [v EXCEPT !.data[v.di[d].db[p[1]]] =
        IF EntryAt(v, d, p).ino = 0 THEN [@ EXCEPT ![p[2]] = new] ELSE Append(@, new)]

(* ok says whether the entry was made.                                     *)
makeentry(s, d, i, n) ==
    LET Enter(r) == IF Roomy(r.v, d) = {} THEN [s |-> r, ok |-> FALSE]
                    ELSE [s |-> [r EXCEPT !.v = mkentry(@, d, First(Roomy(r.v, d)), Dirent(i, n))],
                          ok |-> TRUE]
    IN  CASE d \notin Inum \/ i \notin Inum -> [s |-> s, ok |-> FALSE]
          [] d \in Inum /\ i \in Inum /\ Roomy(s.v, d) # {} -> Enter(s)
          [] OTHER -> With(expanddir(s, d), Enter)

Called(v, d, n) == {p \in Entered(v, d) : EntryAt(v, d, p).name = n /\ EntryAt(v, d, p).ino # 0}

changeino(s, d, n, i) ==
    [s EXCEPT !.v.data[s.v.di[d].db[First(Called(s.v, d, n))[1]]][First(Called(s.v, d, n))[2]].ino = i]

(* propagate().                                                            *)
propagate(t) ==
    LET Up(S) == S \cup {t.inp[k].ino : k \in {j \in DOMAIN t.inp :
                            t.inp[j].parent \in S /\ t.state[t.inp[j].ino] = "D"}}
        Reach[k \in 0..maxino] ==
            IF k = 0 THEN {i \in Inum : t.state[i] = "DFOUND"} ELSE With(Reach[k - 1], Up)
    IN  With(Reach[maxino],
             LAMBDA found : [t EXCEPT !.state = [i \in Inum |-> IF i \in found THEN "DFOUND" ELSE @[i]]])

-----------------------------------------------------------------------------
(* Pass 2: path names.                                                     *)

(* The root directory, then the directories in the order of their first    *)
(* blocks (a list sorted by i_blks[0]).                                    *)
FirstBlock(r) == CASE r.blks = <<>> -> 0 [] r.blks # <<>> /\ r.blks[1] = Bad -> 1000 [] OTHER -> r.blks[1]

rootcheck ==
    /\ at.pass = "root"
    /\ LET bad == tab.state[ROOTINO] # "D"
           s   == CASE tab.state[ROOTINO] = "D" -> Now
                    [] tab.state[ROOTINO] = "U" -> allocdir(Fatal(Now), ROOTINO, ROOTINO)
                    [] OTHER -> allocdir(freeino(Fatal(Now), ROOTINO), ROOTINO, ROOTINO)
       IN  Then([s EXCEPT !.t.state[ROOTINO] = "DFOUND",
                          !.t.inp = SortSeq(@, LAMBDA x, y : FirstBlock(x) < FirstBlock(y))],
                Position("2", 1))
    /\ UNCHANGED lost

(* The place after entry e of block b of the directory at the index i, n   *)
(* of whose entries were seen.                                             *)
NextEntry(s, place, n) ==
    LET r == s.t.inp[place.i]
    IN  IF place.e < Len(s.v.data[r.blks[place.b]])
        THEN [place EXCEPT !.e = @ + 1, !.n = n]
        ELSE [place EXCEPT !.b = @ + 1, !.e = 1, !.n = n]

(* The states of pass2check(): where it is at (chk1, chk2), the entry      *)
(* number n, and the index e of the entry looked at.                       *)
SetEntry(s, b, e, x) == [s EXCEPT !.v.data[b][e] = x]

Seen(s, i) == IF i = 0 THEN s ELSE [s EXCEPT !.t.lncnt[i] = @ - 1]

(* The first entry: ".".                                                   *)
DotCheck(s, d, b, e) ==
    LET x == s.v.data[b][e]
        slack == e = Len(s.v.data[b]) /\ e < PerBlock
    IN  CASE x.ino # 0 /\ x.name = "." ->
                [s |-> IF x.ino = d THEN s ELSE SetEntry(Fatal(s), b, e, Dirent(d, ".")), n |-> 0, e |-> e]
          [] x.ino # 0 /\ x.name \notin {".", ".."} -> [s |-> Fatal(s), n |-> 0, e |-> e]
          [] x.name # "." /\ ~slack /\ (x.ino = 0 \/ x.name = "..") ->
                [s |-> SetEntry(Fatal(s), b, e, Dirent(d, ".")), n |-> 0, e |-> e]
          [] OTHER ->
                [s |-> [Seen(Fatal(s), d) EXCEPT !.v.data[b] = Append([@ EXCEPT ![e] = Dirent(d, ".")], Gap)],
                 n |-> 1, e |-> e + 1]

(* The second: "..".  done says that the entry needs no further look.      *)
DotDotCheck(s, k, b, n, e) ==
    LET split == n = 0 /\ e = Len(s.v.data[b]) /\ e < PerBlock
        s1 == IF split THEN [Seen(s, s.v.data[b][e].ino) EXCEPT !.v.data[b] = Append(@, Gap)] ELSE s
        e1 == IF split THEN e + 1 ELSE e
        x  == s1.v.data[b][e1]
        p  == s1.t.inp[k].parent
    IN  CASE n = 0 /\ ~split -> [s |-> s, n |-> 0, e |-> e, done |-> FALSE]
          [] (n = 1 \/ split) /\ x.ino # 0 /\ x.name = ".." ->
                [s |-> [s1 EXCEPT !.t.inp[k].dotdot = x.ino], n |-> 1, e |-> e1, done |-> FALSE]
          [] (n = 1 \/ split) /\ x.ino # 0 /\ x.name \notin {".", ".."} ->
                [s |-> Seen([Fatal(s1) EXCEPT !.t.inp[k].dotdot = -1], x.ino),
                 n |-> 2, e |-> e1, done |-> TRUE]
          [] (n = 1 \/ split) /\ (x.ino = 0 \/ x.name = ".") /\ p # 0 ->
                [s |-> Seen([SetEntry(Fatal(s1), b, e1, Dirent(p, "..")) EXCEPT !.t.inp[k].dotdot = p], p),
                 n |-> 2, e |-> e1, done |-> TRUE]
          [] OTHER -> [s |-> Seen(s1, x.ino), n |-> 2, e |-> e1, done |-> TRUE]

Erase(s, b, e) == [s EXCEPT !.v.data[b][e].ino = 0]

Extraneous(t, i, n) == n > 2 /\ t.inp[getinoinfo(t, i)].parent # 0 /\ mode = "y"

(* Any entry; n counts it.                                                 *)
EntryCheck(s, d, b, e, n) ==
    LET i == s.v.data[b][e].ino
        c == s.t.state[i]
        found == [s EXCEPT !.t.state[i] = IF @ = "D" /\ s.t.state[d] = "DFOUND" THEN "DFOUND" ELSE @]
        named == IF n > 2 THEN [found EXCEPT !.t.inp[getinoinfo(s.t, i)].parent = d] ELSE found
    IN  CASE c \in {"U", "FCLEAR", "DCLEAR"} /\ n <= 2 -> s
          [] c \in {"U", "FCLEAR"} /\ n > 2 -> Erase(Fatal(s), b, e)
          [] c = "DCLEAR" /\ n > 2 -> Erase(s, b, e)
          [] c \in {"D", "DFOUND"} /\ Extraneous(s.t, i, n) -> Erase(found, b, e)
          [] c \in {"D", "DFOUND"} /\ ~Extraneous(s.t, i, n) -> Seen(named, i)
          [] OTHER -> Seen(s, i)

ChkTwo(s, d, b, e, n) ==
    LET x == s.v.data[b][e]
    IN  CASE x.ino = 0 -> [s |-> s, n |-> n]
          [] x.ino # 0 /\ n >= 2 /\ x.name \in {".", ".."} -> [s |-> Erase(Fatal(s), b, e), n |-> n]
          [] OTHER -> [s |-> EntryCheck(s, d, b, e, n + 1), n |-> n + 1]

pass2check(s, place) ==
    LET k == place.i
        d == s.t.inp[k].ino
        b == s.t.inp[k].blks[place.b]
        After(r) == [s |-> r.s, place |-> NextEntry(r.s, [place EXCEPT !.e = r.e], r.n)]
        Two(r) == With(ChkTwo(r.s, d, b, r.e, r.n), LAMBDA c : After([s |-> c.s, n |-> c.n, e |-> r.e]))
        One(r) == IF r.n > 1 THEN Two(r)
                  ELSE With(DotDotCheck(r.s, getinoinfo(r.s.t, d), b, r.n, r.e),
                            LAMBDA c : IF c.done THEN After(c) ELSE Two(c))
    IN  IF place.n = 0 THEN With(DotCheck(s, d, b, place.e), One)
        ELSE One([s |-> s, n |-> place.n, e |-> place.e])

(* fsck_readdir(): a block that is none becomes an empty one.              *)
(* (Mutant: it is left.)                                                   *)
BlankNot(s, b) == Fatal(s)
Blank(s, b)    == [Fatal(s) EXCEPT !.v.data[b] = <<Gap>>]

(* One entry, or the step to the next block or directory.                  *)
pass2 ==
    /\ at.pass = "2"
    /\ IF at.i > Len(tab.inp) THEN Then(Now, Position("2b", 1))
       ELSE LET r == tab.inp[at.i]
            IN  CASE at.b > Len(r.blks) -> Then(Now, Position("2", at.i + 1))
                  [] at.b <= Len(r.blks) /\ r.blks[at.b] = Bad -> Then(Now, [at EXCEPT !.b = @ + 1])
                  [] at.b <= Len(r.blks) /\ r.blks[at.b] # Bad /\ vol.data[r.blks[at.b]] = Junk ->
                        Then(Blank(Now, r.blks[at.b]), at)
                  [] OTHER -> \E r2 \in {pass2check(Now, at)} : Then(r2.s, r2.place)
    /\ UNCHANGED lost

(* "..", once all parents are known.                                       *)
(* (Mutant: the count of the old parent is left.)                          *)
DotDotFixKept(s, k) ==
    LET r == s.t.inp[k]
        f == [s EXCEPT !.t.state[r.ino] = IF @ = "D" /\ s.t.state[r.parent] = "DFOUND" THEN "DFOUND" ELSE @]
    IN  IF r.parent = 0 \/ r.blks = <<>> THEN s ELSE f

DotDotFix(s, k) ==
    LET r == s.t.inp[k]
        f == [s EXCEPT !.t.state[r.ino] = IF @ = "D" /\ s.t.state[r.parent] = "DFOUND" THEN "DFOUND" ELSE @]
        g == [Fatal(f) EXCEPT !.t.inp[k].dotdot = r.parent, !.t.lncnt[r.parent] = @ - 1]
    IN  CASE r.parent = 0 \/ r.blks = <<>> -> s
          [] r.parent # 0 /\ r.blks # <<>> /\ r.dotdot \in {r.parent, -1} -> f
          [] r.parent # 0 /\ r.blks # <<>> /\ r.dotdot = 0 -> makeentry(g, r.ino, r.parent, "..").s
          [] OTHER -> LET h == [g EXCEPT !.t.lncnt[r.dotdot] = @ + 1]
                      IN  IF Called(h.v, r.ino, "..") = {} THEN h ELSE changeino(h, r.ino, "..", r.parent)

pass2b ==
    /\ at.pass = "2b"
    /\ IF at.i <= Len(tab.inp) THEN Then(DotDotFix(Now, at.i), [at EXCEPT !.i = @ + 1])
       ELSE Then([Now EXCEPT !.t = propagate(tab)], Position("3", Len(tab.inp)))
    /\ UNCHANGED lost

-----------------------------------------------------------------------------
(* Pass 3: connectivity.                                                   *)

(* The inode a directory has under a name, or 0.                           *)
findino(v, d, n) ==
    With(Called(v, d, n), LAMBDA have : IF have = {} THEN 0 ELSE EntryAt(v, d, First(have)).ino)

freedir(s, i, parent) == freeino(IF i = parent THEN s ELSE [s EXCEPT !.v.di[parent].nlink = @ - 1], i)

(* The lost+found directory, found or made.                                *)
FindLost(s) ==
    LET have == findino(s.v, ROOTINO, lfname)
        Enter(i, made) ==
            With(makeentry(made, ROOTINO, i, lfname),
                 LAMBDA in : IF in.ok THEN [in.s EXCEPT !.t.lf = i] ELSE freedir(in.s, i, ROOTINO))
    IN  CASE s.t.lf # 0 -> s
          [] s.t.lf = 0 /\ have # 0 -> [s EXCEPT !.t.lf = have]
          [] OTHER -> With(allocdir(s, ROOTINO, ROOTINO),
                           LAMBDA made : IF made.out THEN made ELSE Enter(allocino(s, ROOTINO), made))

Temp(i) == "#" \o ToString(i)

(* linkup(): ok says whether the inode has a name again.                   *)
Sorry(s) == [Fatal(s) EXCEPT !.t.sorry = TRUE]

linkup(s, orphan, parentdir) ==
    LET isdir == s.v.di[orphan].mode = "dir"
        Dots(r, lf) ==
            IF Called(r.v, orphan, "..") # {} THEN changeino(r, orphan, "..", lf)
            ELSE IF parentdir = -1 THEN r ELSE makeentry(r, orphan, lf, "..").s
        In(r, lf) ==
            With(makeentry(r, lf, orphan, Temp(orphan)),
                 LAMBDA e :
                    CASE ~e.ok -> [s |-> Sorry(e.s), ok |-> FALSE]
                      [] e.ok /\ isdir ->
                            [s |-> [Dots(Seen(e.s, orphan), lf) EXCEPT !.v.di[lf].nlink = @ + 1,
                                                                       !.t.lncnt[lf] = @ + 1],
                             ok |-> TRUE]
                      [] OTHER -> [s |-> Seen(e.s, orphan), ok |-> TRUE])
        Found(r) ==
            CASE r.out -> [s |-> r, ok |-> FALSE]
              [] ~r.out /\ (r.t.lf = 0 \/ r.t.state[r.t.lf] # "DFOUND") -> [s |-> Sorry(r), ok |-> FALSE]
              [] OTHER -> In(r, r.t.lf)
    IN  IF mode = "p" /\ s.v.di[orphan].db = <<>> THEN [s |-> s, ok |-> FALSE]
        ELSE With(FindLost(s), Found)

(* From an orphan upwards to one without a parent, or in a circle.         *)
Topmost(t, k) ==
    LET Higher(j) == LET p == t.inp[j].parent
                     IN  IF p # 0 /\ t.state[p] = "D" THEN getinoinfo(t, p) ELSE j
        Up[n \in 0..(Len(t.inp) + 1)] == IF n = 0 THEN k ELSE With(Up[n - 1], Higher)
    IN  Up[Len(t.inp) + 1]

Orphaned(t, k) ==
    /\ t.inp[k].ino # ROOTINO
    /\ t.inp[k].parent = 0 \/ t.state[t.inp[k].ino] = "D"
    /\ t.state[t.inp[k].ino] # "DCLEAR"

Reconnect(s, k) ==
    LET At(t, j, ino) == [t EXCEPT !.inp[j].parent = t.lf, !.inp[j].dotdot = t.lf,
                                   !.lncnt[t.lf] = @ - 1, !.state[ino] = "DFOUND"]
        From(j, r) == With(linkup(s, r.ino, r.dotdot).s,
                           LAMBDA up : [up EXCEPT !.t = With(At(@, j, r.ino), propagate)])
    IN  With(Topmost(s.t, k), LAMBDA j : From(j, s.t.inp[j]))

pass3 ==
    /\ at.pass = "3"
    /\ IF at.i > 0
       THEN \E s \in {IF Orphaned(tab, at.i) THEN Reconnect(Now, at.i) ELSE Now} :
                Then(s, [at EXCEPT !.i = @ - 1])
       ELSE Then(Now, Position("4", ROOTINO))
    /\ UNCHANGED lost

-----------------------------------------------------------------------------
(* Pass 4: reference counts.                                               *)

clri(s, i) == freeino(s, i)

adjust(s, i) ==
    LET n == s.t.lncnt[i]
    IN  CASE s.v.di[i].nlink = n ->
                With(linkup(s, i, 0), LAMBDA up : IF up.ok THEN up.s ELSE clri(up.s, i))
          [] s.v.di[i].nlink # n /\ n < 0 -> [Fatal(s) EXCEPT !.v.di[i].nlink = @ - n]
          [] OTHER -> [s EXCEPT !.v.di[i].nlink = @ - n]

(* (Mutant: a file without a name is cleared, not linked up.)              *)
CheckedCleared(s, i) ==
    CASE s.t.state[i] \in {"F", "DFOUND"} /\ s.t.lncnt[i] # 0 -> clri(s, i)
      [] OTHER -> s

Checked(s, i) ==
    CASE s.t.state[i] \in {"F", "DFOUND"} /\ s.t.lncnt[i] # 0 -> adjust(s, i)
      [] s.t.state[i] \in {"F", "DFOUND"} /\ s.t.lncnt[i] = 0 /\ i \in s.t.zln -> clri(s, i)
      [] s.t.state[i] \in {"D", "DCLEAR", "FCLEAR"} -> clri(s, i)
      [] OTHER -> s

(* The root directory, if there is one, has its first two entries.  No run *)
(* gives it another "..": that happens only where the parent is known.     *)
RootWhole(v) ==
    LET r == v.di[ROOTINO]
    IN  r.mode = "dir" /\ r.db # <<>> /\ r.db[1] # Bad =>
            /\ v.data[r.db[1]] # Junk
            /\ IsPrefix(<<Dirent(ROOTINO, "."), Dirent(ROOTINO, "..")>>, v.data[r.db[1]])

(* The other directories begin with "." and "..", or with room for them:   *)
(* "CANNOT FIX, FIRST ENTRY IN DIRECTORY CONTAINS ..." (pass2.c:277).  An  *)
(* interrupted expanddir() can leave one that does not.                    *)
DotsFit(v) ==
    \A d \in {i \in Inum \ {ROOTINO} : v.di[i].mode = "dir" /\ v.di[i].db # <<>>} :
        LET b == v.di[d].db[1]
        IN  b \in Block /\ v.data[b] # Junk =>
                \A e \in {1, 2} \cap DOMAIN v.data[b] :
                    v.data[b][e].ino = 0 \/ v.data[b][e].name \in {".", ".."}

(* A directory can take another name: an entry is free, or its last block  *)
(* is not whole and n blocks are free.                                     *)
CanEnter(v, d, n) ==
    \/ Roomy(v, d) # {}
    \/ /\ ~v.di[d].whole /\ Len(v.di[d].db) \in 1..(NDADDR - 1)
       /\ Cardinality(Block \ tab.bmap) >= n

(* An inode without bad or duplicate blocks that had a link, cleared       *)
(* although lost+found could take its name, or the root that of lost+found *)
(* (which takes a block itself).                                           *)
NewlyLost(s, i) ==
    /\ ~s.out /\ tab.state[i] \in {"F", "D", "DFOUND"} /\ s.t.state[i] = "U"
    /\ i \notin tab.zln /\ RootWhole(img)
    /\ IF s.t.lf # 0 THEN CanEnter(s.v, s.t.lf, 1) ELSE CanEnter(s.v, ROOTINO, 2)

pass4 ==
    /\ at.pass = "4"
    /\ IF at.i <= tab.last
       THEN \E s \in {Checked(Now, at.i)} :
                /\ Then(s, [at EXCEPT !.i = @ + 1])
                /\ lost' = IF NewlyLost(s, at.i) THEN lost \cup {at.i} ELSE lost
       ELSE Then(Now, Position("5", 0)) /\ UNCHANGED lost

-----------------------------------------------------------------------------
(* Pass 5: the maps and counts of the groups, and the totals; then the     *)
(* superblock: an alternate that was used becomes the standard one.        *)

NewCg(v, t) ==
    LET used == {i \in Inum : t.state[i] # "U"}
    IN  [used |-> used, free |-> Block \ t.bmap,
         cs |-> Counts([used |-> used, free |-> Block \ t.bmap,
                ndir |-> Cardinality({i \in Inum : t.state[i] \in {"D", "DCLEAR", "DFOUND"}})])]

pass5 ==
    /\ at.pass = "5"
    /\ Then([Now EXCEPT !.v.cg = NewCg(vol, tab)], Position("fini", 0))
    /\ UNCHANGED lost

Superblock(v, t) == [v EXCEPT !.sb[0] = "ok"]

ckfini ==
    /\ at.pass = "fini"
    /\ Then([Now EXCEPT !.v = Superblock(vol, tab)], Position("done", 0))
    /\ UNCHANGED lost

-----------------------------------------------------------------------------
(* What the disk holds when a run did not come to its end: of the inodes,  *)
(* of every directory block and of the group, the old or the new.          *)
Partly(S) ==
    [di   |-> IF 0 \in S THEN vol.di ELSE img.di,
     data |-> [b \in Block |-> IF b \in S THEN vol.data[b] ELSE img.data[b]],
     cg   |-> img.cg,
     sb   |-> img.sb]

Changed == {b \in Block : vol.data[b] # img.data[b]} \cup (IF vol.di # img.di THEN {0} ELSE {})

(* A run that gave up, or one that is interrupted.                         *)
Restart ==
    /\ \/ at.pass = "out" /\ stops' = stops
       \/ /\ at.pass \notin {"off", "out", "done", "fini", "setup"} /\ stops < MaxStops
          /\ stops' = stops + 1
    /\ \E S \in SUBSET Changed : vol' = Partly(S)
    /\ img' = vol' /\ at' = Off /\ tab' = NoTables
    /\ settled' = 0
    /\ UNCHANGED <<mode, faults, runs, lost>>

(* The next run.                                                           *)
Again ==
    /\ at.pass = "done" /\ runs < MaxRuns
    /\ at' = Off /\ tab' = NoTables
    /\ settled' = IF mode = "y" /\ ~tab.sorry THEN settled + 1 ELSE 0
    /\ UNCHANGED <<vol, img, mode, faults, stops, runs, lost>>

Init ==
    /\ \E t \in Trees, whole \in Wholes : vol = Build(t, whole)
    /\ img = vol /\ tab = NoTables /\ at = Off /\ mode = "y"
    /\ faults = 0 /\ stops = 0 /\ runs = 0 /\ settled = 0 /\ lost = {}

Passes == readsb \/ pass1 \/ pass1b \/ rootcheck \/ pass2 \/ pass2b \/ pass3 \/ pass4 \/ pass5 \/ ckfini

Next == Damage \/ setup \/ Passes \/ Restart \/ Again

Spec     == Init /\ [][Next]_vars
FairSpec == Spec /\ WF_vars(Passes)

-----------------------------------------------------------------------------
Alive(v) == {i \in Inum : v.di[i].mode \in {"dir", "file"}}
DirsOf(v) == {i \in Inum : v.di[i].mode = "dir"}

Owned(v, b) == {x \in Alive(v) \X (1..NDADDR) :
                    x[2] \in DOMAIN v.di[x[1]].db /\ v.di[x[1]].db[x[2]] = b}

Linked(v, i) == {<<d, p>> \in UNION {{c} \X Entered(v, c) : c \in DirsOf(v)} : EntryAt(v, d, p).ino = i}

Named(v, i) == {x \in Linked(v, i) : EntryAt(v, x[1], x[2]).name \notin {".", ".."}}

Above(v, d) == EntryAt(v, d, <<1, 2>>).ino

Rooted(v) ==
    LET Down(S) == S \cup {d \in DirsOf(v) : Above(v, d) \in S}
        Reach[k \in 0..maxino] == IF k = 0 THEN {ROOTINO} ELSE With(Reach[k - 1], Down)
    IN  Reach[maxino]

Formed(v, d) ==
    /\ v.di[d].db # <<>> /\ \A k \in DOMAIN v.di[d].db : v.data[v.di[d].db[k]] # Junk
    /\ Len(v.data[v.di[d].db[1]]) >= 2
    /\ EntryAt(v, d, <<1, 1>>) = Dirent(d, ".")
    /\ EntryAt(v, d, <<1, 2>>).name = ".."

(* What a volume is to be: blocks, the maps and counts, the names, the     *)
(* directories, and the numbers of links.                                  *)
BlocksSound(v) ==
    /\ \A i \in Inum \ Alive(v) : v.di[i] = Zero
    /\ \A i \in Alive(v) : v.di[i].blocks = Len(v.di[i].db) /\ Bad \notin Range(v.di[i].db)
    /\ \A b \in Block : Cardinality(Owned(v, b)) <= 1 /\ (b \in v.cg.free <=> Owned(v, b) = {})

MapsSound(v) ==
    /\ v.cg.used = Alive(v)
    /\ v.cg.cs = Counts([used |-> Alive(v), free |-> v.cg.free, ndir |-> Cardinality(DirsOf(v))])
    /\ v.sb[0] = "ok"

TreeSound(v) ==
    /\ ROOTINO \in DirsOf(v)
    /\ \A d \in DirsOf(v) : Formed(v, d)
    /\ DirsOf(v) \subseteq Rooted(v)

NamesSound(v) ==
    /\ \A d \in DirsOf(v) : \A p \in Entered(v, d) : EntryAt(v, d, p).ino \in {0} \cup Alive(v)
    /\ \A i \in Alive(v) \ {ROOTINO} : Named(v, i) # {}
    /\ \A d \in DirsOf(v) \ {ROOTINO} : {x[1] : x \in Named(v, d)} = {Above(v, d)} /\ Cardinality(Named(v, d)) = 1

LinksSound(v) == \A i \in Alive(v) : v.di[i].nlink = Cardinality(Linked(v, i))
LinksEnough(v) == \A i \in Alive(v) : v.di[i].nlink >= Cardinality(Linked(v, i))

Consistent(v) == BlocksSound(v) /\ MapsSound(v) /\ TreeSound(v) /\ NamesSound(v) /\ LinksSound(v)

(* After a run that came to its end no block has two owners, the maps and  *)
(* counts of the group are right, every directory is well formed and hangs *)
(* in the tree, and no link count is lower than the number of names: what  *)
(* the handler does to such a volume does no harm (pass1.c to pass5.c).    *)
(* Only a directory without room for "." and ".." stays as it was, and one *)
(* that found no room in lost+found waits until there is some.             *)
Repairs ==
    at.pass = "done" /\ RootWhole(img) =>
        /\ BlocksSound(vol) /\ MapsSound(vol) /\ LinksEnough(vol)
        /\ DotsFit(img) /\ ~tab.sorry => TreeSound(vol)

(* Names of cleared inodes and link counts that are too high can be left   *)
(* (a directory that is cleared in pass 4 was still followed in pass 2; a  *)
(* directory linked up leaves its old parent's count as it was), but not   *)
(* by three runs.  Only a directory without a name stays so while          *)
(* lost+found has no room for it: no run names it, and none clears it      *)
(* (pass3.c:67, pass4.c:73).                                               *)
Converges == settled >= 3 /\ RootWhole(vol) /\ DotsFit(vol) => Consistent(vol)

(* A consistent volume is not changed, and no run gives it up.             *)
CleanUntouched ==
    at.pass # "off" /\ Consistent(img) /\ RootWhole(img) /\ img.sb[Alternates] = "ok"
        => vol = img /\ at.pass # "out"

(* Nothing is cleared for want of a name alone while there is room for     *)
(* one: linkup() finds or makes lost+found, and gives it one more block    *)
(* when it is full, unless it has whole blocks (dir.c:619).                *)
KeepsUndamaged == lost = {}

(* fsck -p, which asks nobody, takes no name from an inode that has data.  *)
PreenKeepsNames ==
    mode = "p" /\ at.pass \notin {"off", "out"} =>
        \A i \in Alive(img) : img.di[i].db # <<>> =>
            {EntryAt(img, x[1], x[2]) : x \in Linked(img, i)} \subseteq
            {EntryAt(vol, x[1], x[2]) : x \in Linked(vol, i)}

(* A run does no harm: a sound volume stays as it is, nothing that could   *)
(* be linked up is cleared, and what fsck does unasked loses no name.      *)
HarmsNothing == CleanUntouched /\ KeepsUndamaged /\ PreenKeepsNames

(* A run ends, whatever it finds.                                          *)
RunEnds == at.pass = "setup" ~> at.pass \in {"off", "out", "done"}
===============================================================================
