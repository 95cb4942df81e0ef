-------------------------------- MODULE Names --------------------------------
(***************************************************************************)
(* Directories (fs/dir.c), inode numbers (fs/inode.c) and the packets that *)
(* look up, create, link, rename and delete names (fs/packets.c), with the *)
(* locks as far as they remember where a name is, and one client that      *)
(* lists a directory while others change it.                               *)
(*                                                                         *)
(*   ct       the entries of every directory, as a function from offsets   *)
(*            counted in units of four bytes                               *)
(*   mode     the type of every inode: "none", "dir", "file" or "link"     *)
(*   nlink    ic_nlink                                                     *)
(*   used     the inodes whose bit is set in cg_inosused                   *)
(*   cg       for every group cs_nifree, cs_ndir and cg_irotor             *)
(*   ronly    fs_ronly, set by the checks that print INCON                 *)
(*   lock     fl_Key, fl_Pinum and fl_Poffset of every lock, or Free       *)
(*   scan     the FileInfoBlock of the client that lists a directory:      *)
(*            fib_DirOffset, and what it has still to be shown; or Free    *)
(*   stray    history variable: the locks whose object got another name    *)
(*                                                                         *)
(* The bytes of a deleted entry stay where they are, but only a client     *)
(* that was to be shown that entry next reads them again.  Permissions are *)
(* left out: a packet refused for them changes nothing.                    *)
(***************************************************************************)
EXTENDS Integers, FiniteSets, Functions

CONSTANTS
    Group, ipg,         \* cylinder groups 0..ncg-1 and inodes per group
    DIRBLKSIZ,          \* units per directory block
    BlocksPerFrag,      \* directory blocks per frag
    MaxBlocks,          \* directory blocks a directory can have
    MaxUsed, MaxDirs,   \* bounds: inodes in use at a time, cs_ndir
    Name, namlen,       \* names and their lengths in bytes
    case,               \* what streqv() takes a name for
    case_dependent,     \* configuration
    Lock,
    Free, Dot, DotDot, NoName  \* model values

ROOTINO == 2
ncg     == Cardinality(Group)
Inum    == 0..(ncg * ipg - 1)
AnyName == Name \cup {Dot, DotDot, NoName}

ASSUME GroupAssumption ==
    /\ IsFiniteSet(Group) /\ Group = 0..(ncg - 1) /\ Group # {}
    /\ ipg \in Nat /\ ipg > 3
ASSUME NameAssumption  ==
    /\ Cardinality({Dot, DotDot, NoName}) = 3 /\ Name \cap {Dot, DotDot, NoName} = {}
    /\ namlen \in [AnyName -> Nat] /\ namlen[Dot] = 1 /\ namlen[DotDot] = 2 /\ namlen[NoName] = 0
    /\ case \in [Name -> Name]
ASSUME BlockAssumption ==
    /\ DIRBLKSIZ \in Nat /\ BlocksPerFrag \in Nat
    /\ DIRBLKSIZ > 6 /\ BlocksPerFrag > 0 /\ MaxBlocks >= BlocksPerFrag

VARIABLES ct, mode, nlink, used, cg, ronly, lock, scan, stray

vol  == <<ct, mode, nlink, used, cg, ronly>>
vars == <<ct, mode, nlink, used, cg, ronly, lock, scan, stray>>

(* The volume as the routines see it.                                      *)
Volume == [ct |-> ct, mode |-> mode, nlink |-> nlink, used |-> used, cg |-> cg, ronly |-> ronly]

Become(v) ==
    /\ ct' = v.ct /\ mode' = v.mode /\ nlink' = v.nlink
    /\ used' = v.used /\ cg' = v.cg /\ ronly' = v.ronly

Least(S) == CHOOSE x \in S : \A y \in S : x <= y
Most(S)  == CHOOSE x \in S : \A y \in S : x >= y

-----------------------------------------------------------------------------
(* fs/dir.c.                                                               *)

(* UFS_DIRSIZ() and what dir_create() asks for, in units: a name is ended  *)
(* by a zero byte, which the second forgets; it compares with > instead.   *)
UFS_DIRSIZ(n) == 2 + ((namlen[n] + 4) \div 4)
Needed(n)     == (namlen[n] + 11) \div 4

(* MAXNAMLEN leaves room for any name in a block.                          *)
ASSUME RoomAssumption == \A n \in Name : UFS_DIRSIZ(n) <= DIRBLKSIZ

Size(d) == IF DOMAIN d = {} THEN 0 ELSE LET o == Most(DOMAIN d) IN o + d[o].reclen

Live(d) == {o \in DOMAIN d : d[o].ino # 0}

(* An entry is written at an offset, or an empty block is.                 *)
Put(d, at, e) == [o \in DOMAIN d \cup {at} |-> IF o = at THEN e ELSE d[o]]

(* dir_fragfill(): empty blocks up to the end of the frag.                 *)
Fill(d) ==
    LET size == (Size(d) \div (BlocksPerFrag * DIRBLKSIZ) + 1) * (BlocksPerFrag * DIRBLKSIZ)
        new  == {q \in Size(d)..(size - 1) : q % DIRBLKSIZ = 0}
    IN  [o \in DOMAIN d \cup new |->
            IF o \in DOMAIN d THEN d[o]
            ELSE [ino |-> 0, name |-> NoName, reclen |-> DIRBLKSIZ]]

(* Where dir_create() finds room behind an entry.                          *)
Roomy(d, n) == {o \in DOMAIN d : d[o].reclen - UFS_DIRSIZ(d[o].name) > Needed(n)}

(* more says whether file_frag_expand() finds a frag; the rest of a frag   *)
(* that the directory does not use yet is taken without it.                *)
dir_create(v, p, n, i, more) ==
    LET d     == v.ct[p]
        o     == Least(Roomy(d, n))
        ds    == UFS_DIRSIZ(d[o].name)
        entry(len) == [ino |-> i, name |-> n, reclen |-> len]
        spill == Size(d) % (BlocksPerFrag * DIRBLKSIZ) # 0
    IN  CASE v.mode[p] # "dir" -> [ok |-> FALSE, v |-> v, at |-> 0]
          [] v.mode[p] = "dir" /\ Roomy(d, n) # {} ->
                [ok |-> TRUE, at |-> o + ds,
                 v  |-> [v EXCEPT !.ct[p] = Put([d EXCEPT ![o].reclen = ds], o + ds,
                                                entry(d[o].reclen - ds))]]
          [] v.mode[p] = "dir" /\ Roomy(d, n) = {} /\ (spill \/ more) ->
                [ok |-> TRUE, at |-> Size(d),
                 v  |-> [v EXCEPT !.ct[p] = Put(Fill(d), Size(d), entry(DIRBLKSIZ))]]
          [] OTHER -> [ok |-> FALSE, v |-> v, at |-> 0]

(* file_frag_expand() can be told that there is a frag.                    *)
MayGrow(v, p) == Size(v.ct[p]) < MaxBlocks * DIRBLKSIZ

(* The search by name: exact, else ignoring case, and then from the last   *)
(* frag to the first, deleted entries at the start of a block included.    *)
(* The result is where the name is, or -1.                                 *)
Frag(o) == o \div (BlocksPerFrag * DIRBLKSIZ)

dir_name_search(v, p, n) ==
    LET d     == v.ct[p]
        exact == {o \in Live(d) : d[o].name = n}
        alike == {o \in DOMAIN d : n \in Name /\ d[o].name \in Name /\ case[d[o].name] = case[n]}
        first == Least({o \in alike : \A q \in alike : Frag(q) <= Frag(o)})
    IN  CASE exact # {} -> Least(exact)
          [] exact = {} /\ ~case_dependent /\ alike # {} /\ d[first].ino # 0 -> first
          [] OTHER -> -1

InumAt(v, p, o) == IF o = -1 THEN 0 ELSE v.ct[p][o].ino

Lookup(v, p, n) == InumAt(v, p, dir_name_search(v, p, n))

(* The offset of an inode in a directory; for a second frag the code takes *)
(* the size of a block for that of a frag.                                 *)
dir_inum_search(v, p, i) ==
    LET here == {o \in DOMAIN v.ct[p] : v.ct[p][o].ino = i}
    IN  IF here = {} THEN 0
        ELSE Frag(Least(here)) * DIRBLKSIZ + (Least(here) % (BlocksPerFrag * DIRBLKSIZ))

dir_is_not_empty(v, i) == v.mode[i] = "dir" /\ Cardinality(Live(v.ct[i])) > 2

(* The entry before in its block takes the room; without one the entry     *)
(* becomes an empty one.  0 if nothing was deleted.                        *)
Before(d, o) == {q \in DOMAIN d : q < o /\ q \div DIRBLKSIZ = o \div DIRBLKSIZ}

dir_offset_delete(v, p, o, check) ==
    LET d == v.ct[p]
        l == Most(Before(d, o))
    IN  CASE o = 0 -> [inum |-> 0, v |-> [v EXCEPT !.ronly = TRUE]]
          [] o # 0 /\ check /\ dir_is_not_empty(v, d[o].ino) -> [inum |-> 0, v |-> v]
          [] o # 0 /\ ~(check /\ dir_is_not_empty(v, d[o].ino)) /\ Before(d, o) = {} ->
                [inum |-> d[o].ino, v |-> [v EXCEPT !.ct[p][o].ino = 0]]
          [] OTHER -> [inum |-> d[o].ino,
                       v |-> [v EXCEPT !.ct[p] = Restrict([d EXCEPT ![l].reclen = @ + d[o].reclen],
                                                          DOMAIN d \ {o})]]

(* The first entry of an inode gets another inode.                         *)
dir_inum_change(v, p, from, to) ==
    LET here == {o \in DOMAIN v.ct[p] : v.ct[p][o].ino = from}
    IN  IF here = {} THEN v ELSE [v EXCEPT !.ct[p][Least(here)].ino = to]

(* The directories on the way from q to the root, where the code follows   *)
(* "..": every set has them that has q and what its members' ".." lead to. *)
Above(v, q) ==
    LET up(S) == {Lookup(v, i, DotDot) : i \in S \ {ROOTINO}}
        dirs  == {i \in Inum : v.mode[i] = "dir"}
    IN  {i \in Inum : \A S \in SUBSET dirs : q \in S /\ up(S) \subseteq S => i \in S}

-----------------------------------------------------------------------------
(* fs/inode.c.                                                             *)

itog(i) == i \div ipg

(* The number that a search in group g comes to: from cg_irotor on, then   *)
(* from the start.  The first three of group 0 are never looked at.        *)
FreeIn(v, g) ==
    {k \in (IF g = 0 THEN 3 ELSE 0)..(ipg - 1) : g * ipg + k \notin v.used}

Found(v, g) ==
    LET ahead == {k \in FreeIn(v, g) : k >= v.cg[g].irotor}
    IN  IF ahead # {} THEN Least(ahead) ELSE Least(FreeIn(v, g))

(* A directory goes to the first of the groups with the most free inodes   *)
(* that have free blocks or frags (roomy); a file to its directory's group,*)
(* else upwards, else downwards.                                           *)
GroupForDir(v, roomy) ==
    LET most(S) == {g \in S : \A h \in S : v.cg[g].nifree >= v.cg[h].nifree}
    IN  {g \in most({h \in roomy : v.cg[h].nifree > 0}) :
            \A h \in most({h \in roomy : v.cg[h].nifree > 0}) : g <= h}

GroupForFile(v, p) ==
    LET some == {g \in Group : v.cg[g].nifree > 0}
        up   == {g \in some : g >= itog(p)}
    IN  IF up # {} THEN {Least(up)} ELSE {Most(some)}

NoInode(v) == [got |-> 0, v |-> v]

Take(v, g, isdir) ==
    [got |-> g * ipg + Found(v, g),
     v   |-> [v EXCEPT !.used = @ \cup {g * ipg + Found(v, g)},
                       !.cg[g] = [nifree |-> @.nifree - 1,
                                  ndir   |-> IF isdir THEN @.ndir + 1 ELSE @.ndir,
                                  irotor |-> Found(v, g)]]]

inum_new(v, p, isdir, roomy) ==
    LET From(gs) ==
            CASE gs = {} -> NoInode([v EXCEPT !.ronly = TRUE])
              [] gs # {} /\ FreeIn(v, Least(gs)) = {} -> NoInode([v EXCEPT !.ronly = TRUE])
              [] OTHER -> Take(v, Least(gs), isdir)
    IN  IF \A g \in Group : v.cg[g].nifree = 0 THEN NoInode(v)
        ELSE From(IF isdir THEN GroupForDir(v, roomy) ELSE GroupForFile(v, p))

inum_sane(v, i, type) ==
    [v EXCEPT !.mode[i] = type, !.nlink[i] = IF type = "dir" THEN 2 ELSE 1, !.ct[i] = <<>>]

inum_free(v, i) ==
    LET g == itog(i)
    IN  [v EXCEPT !.used = @ \ {i},
                  !.cg[g] = [nifree |-> @.nifree + 1,
                             ndir   |-> IF v.mode[i] = "dir" THEN @.ndir - 1 ELSE @.ndir,
                             irotor |-> i % ipg],
                  !.mode[i] = "none", !.nlink[i] = 0, !.ct[i] = <<>>]

-----------------------------------------------------------------------------
(* The packets.  p and q are the directories that the paths of a packet    *)
(* lead to, n and m the last components.                                   *)

IsDir(i) == mode[i] = "dir"
Dirs     == {i \in Inum : IsDir(i)}

Locked(i) == \E l \in Lock : lock[l] # Free /\ lock[l].key = i

LockOn(i, p, o, named) == [key |-> i, pinum |-> p, poffset |-> o, named |-> named]

ListedDir == lock[scan.lock].key

(* The entry at o is gone from p.  If it was the next to be shown to the   *)
(* client who lists p, that client is shown what its bytes hold now, the   *)
(* deleted entry or part of one written over it: it is not followed on.    *)
Forget(p, o) ==
    CASE scan = Free \/ ListedDir # p -> scan
      [] scan # Free /\ ListedDir = p /\ scan.off = o -> Free
      [] OTHER -> [scan EXCEPT !.due = @ \ {o}]

PLocateObject(l, p, n) ==
    LET o == dir_name_search(Volume, p, n)
    IN  /\ lock[l] = Free /\ IsDir(p) /\ n \in Name
        /\ InumAt(Volume, p, o) # 0
        /\ lock' = [lock EXCEPT ![l] = LockOn(InumAt(Volume, p, o), p, o, TRUE)]
        /\ UNCHANGED <<vol, scan, stray>>

(* "" and "." name the directory itself, whose place is looked up in its   *)
(* parent; ".." the directory above.                                       *)
PLocateDots(l, p, n) ==
    LET i == IF n = DotDot THEN Lookup(Volume, p, DotDot) ELSE p
        q == Lookup(Volume, i, DotDot)
    IN  /\ lock[l] = Free /\ IsDir(p) /\ n \in {Dot, DotDot}
        /\ lock' = [lock EXCEPT ![l] = LockOn(i, q, dir_inum_search(Volume, q, i), FALSE)]
        /\ UNCHANGED <<vol, scan, stray>>

(* The parent is what the lock says it is.  The client goes on with the    *)
(* lock on it and frees the other (the two packets as one step, so that a  *)
(* client needs no second lock).                                           *)
PParent(l) ==
    /\ lock[l] # Free /\ lock[l].key # ROOTINO
    /\ IF IsDir(lock[l].pinum)
       THEN LET p == lock[l].pinum
                q == Lookup(Volume, p, DotDot)
            IN  /\ lock' = [lock EXCEPT ![l] = LockOn(p, q, dir_inum_search(Volume, q, p), FALSE)]
                /\ stray' = stray \ {l}
                /\ scan' = IF scan # Free /\ scan.lock = l THEN Free ELSE scan
                /\ UNCHANGED ronly
       ELSE /\ ronly' = TRUE
            /\ UNCHANGED <<lock, scan, stray>>
    /\ UNCHANGED <<ct, mode, nlink, used, cg>>

PFreeLock(l) ==
    /\ lock[l] # Free
    /\ lock' = [lock EXCEPT ![l] = Free]
    /\ stray' = stray \ {l}
    /\ scan' = IF scan # Free /\ scan.lock = l THEN Free ELSE scan
    /\ UNCHANGED vol

(* A file, a device or a symbolic link: PFindOutput() of a new file,       *)
(* PCreateObject(), PMakeLink().                                           *)
PCreateObject(p, n, type, more) ==
    /\ ~ronly /\ IsDir(p) /\ n \in Name
    /\ Cardinality(used) < MaxUsed
    /\ Lookup(Volume, p, n) = 0
    /\ \E new \in {inum_new(Volume, p, FALSE, Group)} :
       \E made \in {dir_create(new.v, p, n, new.got, more)} :
            Become(CASE new.got = 0 -> new.v
                     [] new.got # 0 /\ made.ok -> inum_sane(made.v, new.got, type)
                     [] OTHER -> inum_free(made.v, new.got))
    /\ UNCHANGED <<lock, scan, stray>>

(* What becomes of a new directory, or is undone: its inode (new), its     *)
(* name in p (made), and its own first entries (dots).                     *)
NewDir(p, new, made, dots) ==
    CASE new.got = 0 -> new.v
      [] new.got # 0 /\ ~made.ok -> inum_free(made.v, new.got)
      [] new.got # 0 /\ made.ok /\ dots.ok /\ dots.at # 0 -> [dots.v EXCEPT !.nlink[p] = @ + 1]
      [] OTHER -> inum_free(dir_offset_delete(dots.v, p, made.at, FALSE).v, new.got)

(* more1 and more2: whether there is a frag for the entry, and one for the *)
(* new directory.                                                          *)
PCreateDir(p, n, roomy, more1, more2) ==
    /\ ~ronly /\ IsDir(p) /\ n \in Name
    /\ Cardinality(used) < MaxUsed /\ \A g \in Group : cg[g].ndir < MaxDirs
    /\ Lookup(Volume, p, n) = 0
    /\ \E new \in {inum_new(Volume, p, TRUE, roomy)} :
       \E made \in {dir_create(new.v, p, n, new.got, more1)} :
       \E dot \in {dir_create(inum_sane(made.v, new.got, "dir"), new.got, Dot, new.got, more2)} :
       \E dots \in {dir_create(dot.v, new.got, DotDot, p, more2)} :
            Become(NewDir(p, new, made, dots))
    /\ UNCHANGED <<lock, scan, stray>>

(* A hard link to what a lock is on.                                       *)
PMakeLink(l, p, n, more) ==
    /\ ~ronly /\ lock[l] # Free /\ IsDir(p) /\ n \in Name
    /\ Lookup(Volume, p, n) = 0
    /\ ~IsDir(lock[l].key)
    /\ \E made \in {dir_create(Volume, p, n, lock[l].key, more)} :
            Become(IF made.ok THEN [made.v EXCEPT !.nlink[lock[l].key] = @ + 1] ELSE made.v)
    /\ UNCHANGED <<lock, scan, stray>>

(* (Mutant: a name of a file that has others deletes the file.)            *)
UnlinkedAlways(v, p, i) == inum_free(v, i)

Unlinked(v, p, i) ==
    LET dir  == v.mode[i] = "dir"
        left == IF dir THEN v.nlink[i] - 2 ELSE v.nlink[i] - 1
        w    == IF dir THEN [v EXCEPT !.nlink[p] = @ - 1] ELSE v
    IN  IF left < 1 THEN inum_free(w, i) ELSE [w EXCEPT !.nlink[i] = left]

PDeleteObject(p, n) ==
    /\ ~ronly /\ IsDir(p)
    /\ \E o \in {dir_name_search(Volume, p, n)} :
       \E i \in {InumAt(Volume, p, o)} :
            /\ i > ROOTINO
            /\ ~Locked(i)
            /\ \E gone \in {dir_offset_delete(Volume, p, o, TRUE)} :
                    /\ Become(IF gone.inum = 0 THEN gone.v ELSE Unlinked(gone.v, p, i))
                    /\ scan' = IF gone.inum = 0 THEN scan ELSE Forget(p, o)
    /\ UNCHANGED <<lock, stray>>

(* (Mutant: only the directory itself is no place for it.)                 *)
MovableAnywhere(v, i, q) == q # i

Movable(v, i, q) == i \notin Above(v, q)

(* What is left of a rename, when the new name has been made and the old   *)
(* one deleted, or not: an entry made in vain goes, and a directory that   *)
(* has come to another one (over) gets its "..".                           *)
Renamed(p, q, o, i, over, made, gone) ==
    /\ Become(CASE ~made.ok -> made.v
                [] made.ok /\ gone.inum = 0 -> dir_offset_delete(gone.v, q, made.at, TRUE).v
                [] made.ok /\ gone.inum # 0 /\ over ->
                        [dir_inum_change(gone.v, i, p, q) EXCEPT
                            !.nlink[p] = @ - 1, !.nlink[q] = @ + 1]
                [] OTHER -> gone.v)
    /\ scan' = IF gone.inum # 0 THEN Forget(p, o) ELSE scan
    /\ stray' = IF gone.inum = 0 THEN stray
                ELSE stray \cup {l \in Lock : lock[l] # Free /\ lock[l].key = i}

(* Nothing looks whether the new name is there already, or whether the     *)
(* object is locked.                                                       *)
PRenameObject(p, n, q, m, more) ==
    /\ ~ronly /\ IsDir(p) /\ IsDir(q) /\ n \in Name /\ m \in Name
    /\ \E o \in {dir_name_search(Volume, p, n)} :
       \E i \in {InumAt(Volume, p, o)} :
       \E over \in {IsDir(i) /\ p # q} :
            /\ i # 0 /\ i # q
            /\ over => Movable(Volume, i, q)
            /\ \E made \in {dir_create(Volume, q, m, i, more)} :
               \E gone \in {IF made.ok THEN dir_offset_delete(made.v, p, o, FALSE)
                             ELSE [inum |-> 0, v |-> made.v]} :
                    Renamed(p, q, o, i, over, made, gone)
    /\ UNCHANGED lock

-----------------------------------------------------------------------------
(* Listing a directory: PExamineObject(), then PExamineNext() again and    *)
(* again.  due are the entries that were there at the start, are there     *)
(* still and have not been shown.                                          *)

PExamineObject(l) ==
    /\ scan = Free /\ lock[l] # Free /\ IsDir(lock[l].key)
    /\ LET d == ct[lock[l].key]
       IN  scan' = [lock |-> l, off |-> 0, due |-> Live(d) \ {0, d[0].reclen}]
    /\ UNCHANGED <<vol, lock, stray>>

(* From an offset on to an entry in use.                                   *)
(* (Mutant: a block that begins with an entry not in use is skipped.)      *)
NextUsedBlock(d, o) ==
    LET on == {q \in Live(d) : q >= o /\ d[(q \div DIRBLKSIZ) * DIRBLKSIZ].ino # 0}
    IN  IF on = {} THEN Size(d) ELSE Least(on)

NextUsed(d, o) ==
    LET on == {q \in Live(d) : q >= o}
    IN  IF on = {} THEN Size(d) ELSE Least(on)

SkipDots(d) == d[0].reclen + d[d[0].reclen].reclen

PExamineNext ==
    /\ scan # Free /\ scan.off < Size(ct[ListedDir])
    /\ LET d == ct[ListedDir]
           o == NextUsed(d, IF scan.off = 0 THEN SkipDots(d) ELSE scan.off)
       IN  scan' = IF o = Size(d) THEN [scan EXCEPT !.off = o]
                   ELSE [scan EXCEPT !.off = o + d[o].reclen, !.due = @ \ {o}]
    /\ UNCHANGED <<vol, lock, stray>>

-----------------------------------------------------------------------------
RootDir ==
    [o \in {0, 3} |-> IF o = 0 THEN [ino |-> ROOTINO, name |-> Dot, reclen |-> 3]
                      ELSE [ino |-> ROOTINO, name |-> DotDot, reclen |-> DIRBLKSIZ - 3]]

(* A volume as newfs makes it.                                             *)
Init ==
    /\ ct = [i \in Inum |-> IF i = ROOTINO THEN RootDir ELSE <<>>]
    /\ mode = [i \in Inum |-> IF i = ROOTINO THEN "dir" ELSE "none"]
    /\ nlink = [i \in Inum |-> IF i = ROOTINO THEN 2 ELSE 0]
    /\ used = {0, 1, ROOTINO}
    /\ cg = [g \in Group |-> IF g = 0 THEN [nifree |-> ipg - 3, ndir |-> 1, irotor |-> 0]
                              ELSE [nifree |-> ipg, ndir |-> 0, irotor |-> 0]]
    /\ ronly = FALSE
    /\ lock = [l \in Lock |-> Free]
    /\ scan = Free
    /\ stray = {}

More(p) == IF MayGrow(Volume, p) THEN BOOLEAN ELSE {FALSE}

Lookups ==
    \/ \E l \in Lock, p \in Dirs, n \in AnyName : PLocateObject(l, p, n) \/ PLocateDots(l, p, n)
    \/ \E l \in Lock : PFreeLock(l) \/ PExamineObject(l)
    \/ PExamineNext

Changes ==
    \E p \in Dirs, n \in Name : \E more \in More(p) :
        \/ PCreateObject(p, n, "file", more)
        \/ \E l \in Lock : PMakeLink(l, p, n, more)
        \/ \E q \in Dirs, m \in Name : PRenameObject(q, m, p, n, more)

(* Clients who use paths through directories only, and a volume with room  *)
(* in a group that has inodes.                                             *)
Next ==
    \/ Lookups
    \/ Changes
    \/ \E p \in Dirs, n \in Name : PDeleteObject(p, n)
    \/ \E l \in Lock \ stray : PParent(l)
    \/ \E p \in Dirs, n \in Name, roomy \in SUBSET Group :
            /\ \E g \in roomy : cg[g].nifree > 0
            /\ \E more1 \in More(p), more2 \in BOOLEAN : PCreateDir(p, n, roomy, more1, more2)

Spec == Init /\ [][Next]_vars

-----------------------------------------------------------------------------
Entries == UNION {{p} \X Live(ct[p]) : p \in Dirs}

(* The entries of a directory block follow each other to the end of the    *)
(* block, and each has room for its name: what every search relies on,     *)
(* whatever was created in the gaps, deleted and created again.            *)
EntriesTile ==
    \A p \in Dirs :
        LET d == ct[p]
        IN  /\ Size(d) % DIRBLKSIZ = 0
            /\ \A o \in DOMAIN d :
                    /\ UFS_DIRSIZ(d[o].name) <= d[o].reclen
                    /\ o \div DIRBLKSIZ = (o + d[o].reclen - 1) \div DIRBLKSIZ
                    /\ o + d[o].reclen \in DOMAIN d \cup {Size(d)}

(* ic_nlink is the number of entries that name an inode, "." and ".." too, *)
(* and an inode is free exactly when no entry names it: no name leads to a *)
(* free inode, and none is lost.                                           *)
LinksExact ==
    \A i \in Inum :
        LET names == {e \in Entries : ct[e[1]][e[2]].ino = i}
        IN  /\ nlink[i] = Cardinality(names)
            /\ i > 1 => (i \in used <=> names # {})

(* The counts of free inodes are exact.  That of directories is not below  *)
(* their number; a PCreateDir() that found no room for the name leaves it  *)
(* one too high, since inum_free() looks at the mode of an inode that      *)
(* inum_sane() has not seen.                                               *)
InodesCounted ==
    \A g \in Group :
        /\ cg[g].nifree = Cardinality({i \in Inum : itog(i) = g /\ i \notin used})
        /\ cg[g].ndir >= Cardinality({i \in Dirs : itog(i) = g})

(* Every directory but the root is named by exactly one other, which its   *)
(* ".." leads to, and from which the root is reached: no rename closes a   *)
(* circle or leaves a wrong "..", so that the loop in dir_rename() ends.   *)
TreeHolds ==
    \A i \in Dirs \ {ROOTINO} :
        /\ {p \in Dirs : \E o \in Live(ct[p]) : ct[p][o].ino = i /\ ct[p][o].name \in Name}
                = {Lookup(Volume, i, DotDot)}
        /\ ROOTINO \in Above(Volume, i)

(* fl_Pinum and fl_Poffset of a lock got by name lead to the entry of the  *)
(* locked object, for examine_common() and PParent(), although others      *)
(* create and delete around it, until the object itself is renamed.        *)
LockPlaced ==
    \A l \in Lock \ stray :
        lock[l] # Free =>
            /\ IsDir(lock[l].pinum)
            /\ lock[l].named => /\ lock[l].poffset \in Live(ct[lock[l].pinum])
                                /\ ct[lock[l].pinum][lock[l].poffset].ino = lock[l].key

(* A client who lists a directory while names are created and deleted is   *)
(* shown every name that is there all the time, and none that is not there *)
(* when it is shown, unless the very entry it is to read next is deleted.  *)
ScanExact ==
    scan # Free =>
        /\ scan.off \in DOMAIN ct[ListedDir] \cup {Size(ct[ListedDir])}
        /\ \A o \in scan.due : o >= scan.off

(* What is in a directory, for those who search it and those who list it.  *)
EntriesSound == EntriesTile /\ ScanExact

(* What inodes count: the names that lead to them, and how many are free.  *)
InodesExact == LinksExact /\ InodesCounted

(* Where names lead: the tree of directories, and the places of locks.     *)
PlacesHold == TreeHolds /\ LockPlaced
=============================================================================
