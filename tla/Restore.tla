-------------------------------- MODULE Restore --------------------------------
(***************************************************************************)
(* dump and restore -r: a chain of dumps of one file system, each restored *)
(* over the one before it.  dump (dump/traverse.c, itime.c, main.c) picks  *)
(* the inodes of a tape from their times; restore (restore/restore.c,      *)
(* symtab.c, dirs.c, restore_utilities.c, restore_main.c) keeps a symbol   *)
(* table of what it has restored and turns the old tree into the new one   *)
(* by renames, removals and extractions.                                   *)
(*                                                                         *)
(*   disk     the file system that is dumped: an inode has a type, its     *)
(*            contents, the later of its times, and a directory its names  *)
(*   driver   who writes it: the handler in fs/, or a BSD kernel           *)
(*   now      the time in seconds; many edits fit into one                 *)
(*   dates    dumpdates: the date of the last dump of each level, or 0     *)
(*   maps     dump's maps: the directories to visit, the inodes to dump    *)
(*   tape     the tape: the two maps, the directories and the files        *)
(*   w        what restore works on: its symbol table (entries, the links  *)
(*            of an inode with the found one first, the list of directories*)
(*            to remove), the tree it writes, and whether it has panicked  *)
(*   saved    the symbol table on disk, with the dates of its dump and the *)
(*            first file on the volume it was saved at                     *)
(*   todo     the names treescan() has yet to visit, innermost first       *)
(*   next     the inode of the file the tape stands at                     *)
(*   stops    times this restore was stopped; copied: one came when links  *)
(*            had been made, which -R may turn into copies                 *)
(*   phase    the step of the program that runs                            *)
(*                                                                         *)
(* The program is stopped at most MaxStops times, at any point after its   *)
(* first checkpoint, and taken up again with -R.  A dump runs on a file    *)
(* system at rest: the Amiga build inhibits it.  Not modelled: whiteouts,  *)
(* which BFFS does not have; owners, modes and times of what is restored;  *)
(* dates that clients set; two entries of one name in a directory, which a *)
(* rename onto a name that is there leaves; the 1 KB records a file is cut *)
(* into.                                                                   *)
(***************************************************************************)
EXTENDS Naturals, FiniteSets, SequencesExt, FiniteSetsExt

CONSTANTS
    Names,          \* names in a directory
    LastIno,        \* inodes are ROOTINO..LastIno
    Disks,          \* file systems to begin with
    Drivers,        \* who may write the file system: "bffs", "bsd"
    Schedule,       \* the levels each dump in turn may have
    EditsBy,        \* edits made by the time of each dump, at most
    MaxTime,        \* seconds that pass
    MaxStops,       \* times restore is stopped
    MaxIds          \* entries of the symbol table, and objects of the tree

ROOTINO == 2
maxino  == LastIno + 1
Inodes  == ROOTINO..LastIno
Levels  == UNION Range(Schedule)
Ids     == 1..MaxIds
Root    == 1                \* the root's entry, and the root of the tree

ASSUME ScheduleAssumption == \A k \in DOMAIN Schedule : Schedule[k] \subseteq Nat
ASSUME InodesAssumption == LastIno \in Nat /\ LastIno > ROOTINO
ASSUME DriverAssumption == Drivers \subseteq {"bffs", "bsd"}

VARIABLES disk, driver, now, edits, dumps, stops, copied, dates, level, maps, tape, w, saved,
          todo, next, volno, phase

source == <<disk, driver, now, edits>>
broken == <<stops, copied>>
dumper == <<dumps, dates, level, maps, tape>>
vars   == <<source, dumper, broken, w, saved, todo, next, volno, phase>>

None == <<>>

(* The value of F at x, with x evaluated once.                             *)
With(x, F(_)) == CHOOSE y \in {F(z) : z \in {x}} : TRUE

-----------------------------------------------------------------------------
(* The file system that is dumped.  The handler stamps an inode when it is *)
(* made and a file when it is closed after writing, and nothing else: no   *)
(* directory, and no file that is linked or renamed.  A BSD kernel stamps  *)
(* what an edit changes, directories included.                             *)

Fresh    == 1               \* the contents of a new file, none of the first files' own
Free     == [type |-> "free", data |-> 0, time |-> 0, kids |-> <<>>]
IsDir(i)  == disk[i].type = "dir"
IsFile(i) == disk[i].type = "file"
NLink(d, i) == Cardinality({x \in Inodes \X Names :
                  x[2] \in DOMAIN d[x[1]].kids /\ d[x[1]].kids[x[2]] = i})
Without(f, n) == [x \in DOMAIN f \ {n} |-> f[x]]
Plus(f, n, i) == [x \in DOMAIN f \cup {n} |-> IF x = n THEN i ELSE f[x]]
Stamped(d, s) == [i \in Inodes |-> IF i \in s /\ d[i].type # "free"
                                   THEN [d[i] EXCEPT !.time = now] ELSE d[i]]
Touched(s) == IF driver = "bsd" THEN s ELSE {}

(* Is i the directory d or above it?                                       *)
Above(i, d) ==
    LET Up[k \in 0..LastIno] ==
            IF k = 0 THEN {d}
            ELSE With(Up[k - 1], LAMBDA u :
                    u \cup {p \in Inodes : \E n \in DOMAIN disk[p].kids :
                                              disk[p].kids[n] \in u /\ disk[p].kids[n] # ROOTINO})
    IN  i \in Up[LastIno]

Edit(d) ==
    /\ phase = "idle" /\ dumps < Len(Schedule) /\ edits < EditsBy[dumps + 1]
    /\ edits' = edits + 1
    /\ disk' = d
    /\ UNCHANGED <<driver, now, dumper, broken, w, saved, todo, next, volno, phase>>

Create(d, n, i, t) ==
    /\ IsDir(d) /\ n \notin DOMAIN disk[d].kids /\ disk[i].type = "free"
    /\ Edit(Stamped([disk EXCEPT ![i] = [type |-> t, data |-> Fresh, time |-> now, kids |-> <<>>],
                                 ![d].kids = Plus(@, n, i)], Touched({d})))

Link(d, n, i) ==
    /\ IsDir(d) /\ n \notin DOMAIN disk[d].kids /\ IsFile(i)
    /\ Edit(Stamped([disk EXCEPT ![d].kids = Plus(@, n, i)], Touched({d, i})))

Delete(d, n) ==
    /\ n \in DOMAIN disk[d].kids
    /\ \E i \in {disk[d].kids[n]} :
         /\ disk[i].kids = <<>>
         /\ \E e \in {[disk EXCEPT ![d].kids = Without(@, n)]} :
               Edit(IF NLink(e, i) = 0 THEN Stamped([e EXCEPT ![i] = Free], Touched({d}))
                                       ELSE Stamped(e, Touched({d, i})))

(* A kernel may stamp the inode it renames, or not.                        *)
Rename(d, n, e, m, stamp) ==
    /\ n \in DOMAIN disk[d].kids
    /\ IsDir(e) /\ m \notin DOMAIN disk[e].kids
    /\ ~Above(disk[d].kids[n], e)
    /\ \E i \in {disk[d].kids[n]} :
          Edit(Stamped([[disk EXCEPT ![d].kids = Without(@, n)] EXCEPT ![e].kids = Plus(@, m, i)],
                       Touched({d, e} \cup IF stamp THEN {i} ELSE {})))

Write(i) == IsFile(i) /\ Edit([disk EXCEPT ![i].data = 1 - @, ![i].time = now])

Tick ==
    /\ phase = "idle" /\ now < MaxTime
    /\ now' = now + 1
    /\ UNCHANGED <<disk, driver, edits, dumper, broken, w, saved, todo, next, volno, phase>>

-----------------------------------------------------------------------------
(* dump.                                                                   *)

(* Without the file there is no dump of any level yet.                     *)
initdumptimes == [l \in Levels |-> 0]

(* The date of the latest dump of a lower level.                           *)
getdumptime(l) == Max({0} \cup {dates[k] : k \in {j \in Levels : j < l}})

(* Mutant: a file changed in the second of the last dump is not dumped.      *)
CHANGEDSINCELate(i, t) == disk[i].time > t

CHANGEDSINCE(i, t) == disk[i].time >= t

(* Pass I: the inodes to dump, and every directory.                        *)
mapfiles(l) ==
    /\ phase = "idle" /\ dumps < Len(Schedule) /\ l \in Schedule[dumps + 1]
    /\ level' = l
    /\ \E ddate \in {getdumptime(l)} :
          maps' = [ddate |-> ddate,
                   dirs  |-> {i \in Inodes : IsDir(i)},
                   inos  |-> {ROOTINO} \cup {i \in Inodes : disk[i].type # "free" /\ CHANGEDSINCE(i, ddate)}]
    /\ dumps' = dumps + 1
    /\ phase' = "mapdirs"
    /\ UNCHANGED <<source, dates, tape, broken, w, saved, todo, next, volno>>

Entries(i) == Range(disk[i].kids)

(* What pass II makes of one directory: on the tape if a name in it is, off
   the list if it holds no directory on the list either.                   *)
searchdir(m, i) ==
    IF i \notin m.dirs \/ i \in m.inos THEN m
    ELSE IF Entries(i) \cap m.inos # {} THEN [m EXCEPT !.inos = @ \cup {i}]
    ELSE IF Entries(i) \cap m.dirs = {} THEN [m EXCEPT !.dirs = @ \ {i}]
    ELSE m

(* A pass over the directories in the order of their inodes.               *)
MapPass(m) ==
    LET Pass[i \in 1..LastIno] ==
            IF i = 1 THEN m ELSE With(Pass[i - 1], LAMBDA p : searchdir(p, i))
    IN  Pass[LastIno]

(* Mutant: one pass only.                                                   *)
mapdirsOnce ==
    /\ phase = "mapdirs"
    /\ maps' = MapPass(maps)
    /\ phase' = "dump"
    /\ UNCHANGED <<source, dumps, dates, level, tape, broken, w, saved, todo, next, volno>>

(* Pass II again, as long as a pass changes something.                     *)
mapdirs ==
    /\ phase = "mapdirs"
    /\ \E m \in {MapPass(maps)} :
          /\ maps' = m
          /\ phase' = IF m = maps THEN "dump" ELSE "mapdirs"
    /\ UNCHANGED <<source, dumps, dates, level, tape, broken, w, saved, todo, next, volno>>

(* The record of the level, replaced or added (dump is run with -u).       *)
putdumptime(l) == [dates EXCEPT ![l] = now]

(* Passes III and IV, and the date of the dump put into dumpdates.         *)
dumpino ==
    /\ phase = "dump"
    /\ tape' = [ddate |-> maps.ddate, date |-> now,
                used  |-> {i \in Inodes : disk[i].type # "free"},
                inos  |-> maps.inos,
                dirs  |-> [i \in maps.dirs |-> disk[i].kids],
                files |-> [i \in {j \in maps.inos : ~IsDir(j)} |-> disk[i].data]]
    /\ dates' = putdumptime(level)
    /\ phase' = "tape"
    /\ UNCHANGED <<source, dumps, level, maps, broken, w, saved, todo, next, volno>>

(* The tape is put aside and never restored.                               *)
PutAside ==
    /\ phase = "tape"
    /\ phase' = "idle"
    /\ UNCHANGED <<source, dumper, broken, w, saved, todo, next, volno>>

-----------------------------------------------------------------------------
(* The tree restore writes.  A call that cannot be carried out leaves it   *)
(* alone; restore prints a warning and goes on.                            *)

(* The object at a path, or 0.                                             *)
ObjAt(t, p) ==
    LET Walk[k \in 0..Len(p)] ==
            IF k = 0 THEN Root
            ELSE With(Walk[k - 1], LAMBDA o :
                    IF o # 0 /\ p[k] \in DOMAIN t[o].kids THEN t[o].kids[p[k]] ELSE 0)
    IN  Walk[Len(p)]
DirAt(t, p) == ObjAt(t, Front(p))
Exists(t, p) == ObjAt(t, p) # 0
NewId(f) == Min(Ids \ DOMAIN f)
Object(t, x) == [type |-> t, data |-> x, kids |-> <<>>]
Named(t, o) == \E d \in DOMAIN t : o \in Range(t[d].kids)

Unnamed(t, p) == [t EXCEPT ![DirAt(t, p)].kids = Without(@, Last(p))]
NamedAs(t, p, o) == [t EXCEPT ![DirAt(t, p)].kids = Plus(@, Last(p), o)]
Swept(t) == [o \in {x \in DOMAIN t : x = Root \/ Named(t, x)} |-> t[o]]

CanMake(t, p) == DirAt(t, p) # 0 /\ ~Exists(t, p)
make(t, p, obj) ==
    IF CanMake(t, p)
    THEN With(NewId(t), LAMBDA o : NamedAs(Plus(t, o, obj), p, o)) ELSE t
unlink(t, p) ==
    IF Exists(t, p) /\ t[ObjAt(t, p)].type = "file" THEN Swept(Unnamed(t, p)) ELSE t
rmdir(t, p) ==
    IF Exists(t, p) /\ t[ObjAt(t, p)].type = "dir" /\ t[ObjAt(t, p)].kids = <<>>
    THEN Swept(Unnamed(t, p)) ELSE t
rename(t, p, q) ==
    IF Exists(t, p) /\ CanMake(t, q)
    THEN With(ObjAt(t, p), LAMBDA o : NamedAs(Unnamed(t, p), q, o)) ELSE t
link(t, p, q) == IF Exists(t, p) /\ CanMake(t, q) THEN NamedAs(t, q, ObjAt(t, p)) ELSE t
(* open() to write, and the contents: an existing file is cut first.       *)
creat(t, p, x) ==
    IF ~Exists(t, p) THEN make(t, p, Object("file", x))
    ELSE IF t[ObjAt(t, p)].type = "file" THEN [t EXCEPT ![ObjAt(t, p)].data = x] ELSE t

NoTable == [date |-> 0, ent |-> <<>>, links |-> <<>>, next |-> 0, volno |-> 0]
EmptyTree == [o \in {Root} |-> Object("dir", 0)]

-----------------------------------------------------------------------------
(* The symbol table.  s is the whole that restore works on; panic() and    *)
(* badentry() end it.                                                      *)

Panic(s) == [s EXCEPT !.bad = TRUE]
badentry(s) == Panic(s)
Flags(s, e) == s.ent[e].flags
Marked(s, e, f) == [s EXCEPT !.ent[e].flags = @ \cup f]
Cleared(s, e, f) == [s EXCEPT !.ent[e].flags = @ \ f]
Children(s, e) == {k \in DOMAIN s.ent \ {Root} : s.ent[k].parent = e}

lookupino(s, i) == IF i \notin Inodes \/ s.links[i] = <<>> THEN 0 ELSE Head(s.links[i])

(* The path of an entry, from the root.                                    *)
myname(s, e) ==
    LET Path[x \in DOMAIN s.ent] ==
            IF x = Root THEN <<>> ELSE Append(Path[s.ent[x].parent], s.ent[x].name)
    IN  Path[e]
lookupname(s, p) ==
    LET found == {e \in DOMAIN s.ent : myname(s, e) = p}
    IN  IF found = {} THEN 0 ELSE CHOOSE e \in found : TRUE

(* The directory of a path, or 0.  A file in its place is a panic, as no   *)
(* directory is for those who ask.                                         *)
lookupparent(s, p) ==
    With(lookupname(s, Front(p)), LAMBDA e : IF e # 0 /\ s.ent[e].type = "NODE" THEN e ELSE 0)

(* A new entry is found first, unless it is a link to one that is there.   *)
addentry(s, p, i, t, islink) ==
    LET dir == lookupparent(s, p) IN
    IF dir = 0 \/ islink # (s.links[i] # <<>>) THEN Panic(s)
    ELSE LET id == NewId(s.ent) IN
         [s EXCEPT !.ent = Plus(@, id, [name |-> Last(p), parent |-> dir, type |-> t,
                                        ino |-> i, flags |-> {}]),
                   !.links[i] = IF islink THEN InsertAt(@, 2, id) ELSE <<id>>]

(* Off the lookup chains, with whatever is linked to it.                   *)
deleteino(s, e) == [s EXCEPT !.links[s.ent[e].ino] = <<>>, !.ent[e].ino = 0]

freeentry(s, e) ==
    LET i == s.ent[e].ino IN
    IF \/ Flags(s, e) # {"REMOVED"}
       \/ s.ent[e].type = "NODE" /\ (Children(s, e) # {} \/ (i # 0 /\ Len(s.links[i]) > 1))
       \/ i # 0 /\ ~Contains(s.links[i], e)
    THEN badentry(s)
    ELSE [s EXCEPT !.ent = Without(@, e),
                   !.links = IF i = 0 THEN @ ELSE [@ EXCEPT ![i] = SelectSeq(@, LAMBDA x : x # e)]]

removeleaf(s, e) ==
    IF s.ent[e].type # "LEAF" THEN badentry(s)
    ELSE [s EXCEPT !.ent[e].flags = (@ \cup {"REMOVED"}) \ {"TMPNAME"},
                   !.out = unlink(@, myname(s, e))]
removenode(s, e) ==
    IF s.ent[e].type # "NODE" \/ Children(s, e) # {} THEN badentry(s)
    ELSE [s EXCEPT !.ent[e].flags = (@ \cup {"REMOVED"}) \ {"TMPNAME"},
                   !.out = rmdir(@, myname(s, e))]
newnode(s, e) ==
    IF s.ent[e].type # "NODE" THEN badentry(s)
    ELSE IF CanMake(s.out, myname(s, e))
         THEN [s EXCEPT !.out = make(@, myname(s, e), Object("dir", 0))]
         ELSE Marked(s, e, {"EXISTED"})

renameit(s, p, q) == [s EXCEPT !.out = rename(@, p, q)]
linkit(s, p, q) == [s EXCEPT !.out = link(@, p, q)]

(* The name of an entry, and the file with it, becomes one of its own.     *)
gentempname(s, e) == <<CHOOSE k \in DOMAIN s.links[s.ent[e].ino] : s.links[s.ent[e].ino][k] = e,
                       s.ent[e].ino>>
mktempname(s, e) ==
    IF \/ "TMPNAME" \in Flags(s, e)
       \/ s.ent[e].ino = 0 \/ ~Contains(s.links[s.ent[e].ino], e)
    THEN badentry(s)
    ELSE With([s EXCEPT !.ent[e].name = gentempname(s, e), !.ent[e].flags = @ \cup {"TMPNAME"}],
              LAMBDA t : renameit(t, myname(s, e), myname(t, e)))

(* Mutant: the entry is still taken for one under a temporary name.         *)
moveentryFlagged(s, e, p) ==
    LET dir == lookupparent(s, p) IN
    IF dir = 0 THEN Panic(s)
    ELSE [s EXCEPT !.ent[e].parent = dir, !.ent[e].name = Last(p)]

moveentry(s, e, p) ==
    LET dir == lookupparent(s, p) IN
    IF dir = 0 THEN Panic(s)
    ELSE [s EXCEPT !.ent[e].parent = dir, !.ent[e].name = Last(p),
                   !.ent[e].flags = @ \ {"TMPNAME"}]

(* removeleaf() and freeentry(), as they follow each other everywhere.     *)
Dropped(s, e) == With(removeleaf(s, e), LAMBDA t : IF t.bad THEN t ELSE freeentry(t, e))

(* A directory goes under a name of its own on the list of directories to
   remove, and off the chains.                                             *)
Doomed(s, e) ==
    With(IF "TMPNAME" \in Flags(s, e) THEN s ELSE mktempname(s, e),
         LAMBDA t : IF t.bad THEN t ELSE [deleteino(t, e) EXCEPT !.doomed = @ \cup {e}])

(* A new entry with its flags; a directory is made at once.                *)
Entered(s, p, i, t, islink, f) ==
    With(NewId(s.ent), LAMBDA id :
      With(addentry(s, p, i, t, islink), LAMBDA u :
         IF u.bad THEN u
         ELSE Marked(IF t = "NODE" THEN newnode(u, id) ELSE u, id, f)))

-----------------------------------------------------------------------------
(* restore -r.                                                             *)

Stay == UNCHANGED <<source, dumper, broken>>

(* restore begins: a tape of level 0 is restored into an empty tree, any
   other only over the dump it was taken from.                             *)
initsymtable ==
    /\ phase = "tape"
    /\ \/ /\ tape.ddate = 0
          /\ w' = [ent    |-> [e \in {Root} |-> [name |-> None, parent |-> Root, type |-> "NODE",
                                                 ino |-> ROOTINO, flags |-> {"NEW"}]],
                   links  |-> [i \in Inodes |-> IF i = ROOTINO THEN <<Root>> ELSE <<>>],
                   doomed |-> {}, out |-> EmptyTree, bad |-> FALSE]
          /\ todo' = <<{[path |-> <<>>, ino |-> ROOTINO]}>>
          /\ phase' = "scan"
       \/ /\ tape.ddate # 0 /\ tape.ddate = saved.date
          /\ w' = [ent |-> saved.ent, links |-> saved.links, doomed |-> {}, out |-> w.out, bad |-> FALSE]
          /\ todo' = <<{[path |-> <<>>, ino |-> ROOTINO]}>>
          /\ phase' = "leaves"
       \/ /\ tape.ddate # 0 /\ tape.ddate # saved.date
          /\ phase' = "idle"
          /\ UNCHANGED <<w, todo>>
    /\ Stay /\ UNCHANGED <<saved, next, volno>>

Step(s, p) ==
    /\ w' = s
    /\ phase' = IF s.bad THEN "panic" ELSE p

(* The files of inodes no longer in use are removed, and their directories
   renamed and listed for removal.                                         *)
Unused(s) == {i \in Inodes \ {ROOTINO} : i \notin tape.used /\ s.links[i] # <<>>}
removeoldleaves ==
    /\ phase = "leaves"
    /\ IF Unused(w) = {} THEN Step(w, "scan")
       ELSE \E e \in {lookupino(w, Min(Unused(w)))} :
               Step(IF w.ent[e].type = "LEAF" THEN Dropped(w, e) ELSE Doomed(w, e), "leaves")
    /\ Stay /\ UNCHANGED <<saved, todo, next, volno>>

(* The name that is in the way of another file: a link is dropped, any     *)
(* other file is renamed until it is found under its new name.             *)
IsLink(s, np) == lookupino(s, s.ent[np].ino) # np
Moved(s, np) == IF IsLink(s, np) THEN Dropped(s, np) ELSE mktempname(s, np)

(* The inode was restored before and its name p is new: the first name it  *)
(* is found at makes it a rename, any other a link.                        *)
Renamed(s, ip, p, i, t) ==
    IF "KEEP" \notin Flags(s, ip)
    THEN With(renameit(s, myname(s, ip), p),
              LAMBDA u : With(moveentry(u, ip, p), LAMBDA v : Marked(v, ip, {"KEEP"})))
    ELSE IF s.ent[ip].type = "NODE" THEN s
    ELSE Entered(s, p, i, t, TRUE, {"NEW"})

(* The inode was restored before under this name and has changed.          *)
Updated(s, np, p, i, t) ==
    IF IsLink(s, np)
    THEN With(Dropped(s, np), LAMBDA u : IF u.bad THEN u ELSE Entered(u, p, i, t, TRUE, {"NEW", "KEEP"}))
    ELSE Marked(s, np, {"KEEP"} \cup IF t = "LEAF" THEN {"EXTRACT"} ELSE {})

(* The inode has become another kind of file.                              *)
Retyped(s, ip, p, i, t) ==
    IF "KEEP" \in Flags(s, ip) THEN Panic(s)
    ELSE With(IF s.ent[ip].type = "LEAF" THEN Dropped(s, ip) ELSE Doomed(s, ip),
              LAMBDA u : IF u.bad THEN u ELSE Entered(u, p, i, t, FALSE, {"NEW", "KEEP"}))

(* What becomes of the name p of inode i, with the entries found by inode  *)
(* (ip) and by name (np), which are the same when there are both.          *)
Disposed(s, ip, np, p, i, t) ==
    LET modechg == \/ ip # 0 /\ s.ent[ip].type # t
                   \/ np # 0 /\ s.ent[np].type # t
    IN  IF i \in tape.inos
        THEN CASE ip = 0 /\ np = 0 -> Entered(s, p, i, t, FALSE, {"NEW", "KEEP"})
               [] ip = 0 /\ np # 0 ->
                     With(Moved(s, np), LAMBDA u :
                        IF u.bad THEN u ELSE Entered(u, p, i, t, FALSE, {"NEW", "KEEP"}))
               [] ip # 0 /\ modechg -> Retyped(s, ip, p, i, t)
               [] ip # 0 /\ np = 0 /\ ~modechg ->
                     Renamed(IF t = "LEAF" /\ "KEEP" \notin Flags(s, ip)
                             THEN Marked(s, ip, {"EXTRACT"}) ELSE s, ip, p, i, t)
               [] OTHER -> Updated(s, np, p, i, t)
        ELSE CASE ip # 0 /\ np # 0 -> Marked(s, ip, {"KEEP"})
               [] ip # 0 /\ np = 0 -> Renamed(s, ip, p, i, t)
               [] OTHER -> s

(* Is the directory gone into after that?                                  *)
Descends(s, ip, np, i) ==
    /\ ~(ip # 0 /\ np = 0 /\ "KEEP" \in Flags(s, ip) /\ s.ent[ip].type = "NODE")
    /\ ~(ip = 0 /\ np # 0 /\ i \notin tape.inos)

(* The entry of inode i that nodeupdates() takes for the name's own.       *)
FoundBy(s, np, i) == IF np # 0 /\ Contains(s.links[i], np) THEN np ELSE lookupino(s, i)

(* The directories of the tape, as extractdirs() lists them, their entries, *)
(* and the kind of an inode, which is told by that list.                   *)
inotab == tape.dirs
rst_readdir(i) == DOMAIN inotab[i]
inodetype(i) == IF i \in DOMAIN inotab THEN "NODE" ELSE "LEAF"

(* The names yet to visit once x has been, those in it before its siblings. *)
NonEmpty(q) == SelectSeq(q, LAMBDA z : z # {})
Within(x) == {[path |-> Append(x.path, n), ino |-> inotab[x.ino][n]] : n \in rst_readdir(x.ino)}
After(x, down) == NonEmpty((IF down THEN <<Within(x)>> ELSE <<>>) \o <<Head(todo) \ {x}>> \o Tail(todo))

nodeupdates(x, t) ==
    \E np \in {lookupname(w, x.path)} : \E ip \in {FoundBy(w, np, x.ino)} :
    \E clash \in {np # 0 /\ ip # 0 /\ ip # np} :
    \E nq \in {IF clash THEN 0 ELSE np} :
    \E s \in {IF clash THEN Moved(w, np) ELSE w} :
       /\ Step(IF s.bad THEN s ELSE Disposed(s, ip, nq, x.path, x.ino, t), "scan")
       /\ todo' = After(x, t = "NODE" /\ Descends(w, ip, nq, x.ino))

(* Every name on the tape is visited, the names of a directory in the order
   they have in it, which may be any.                                      *)
treescan ==
    /\ phase = "scan"
    /\ IF todo = <<>>
       THEN Step(w, IF tape.ddate = 0 THEN "checkpoint" ELSE "unref") /\ UNCHANGED todo
       ELSE \E x \in Head(todo) :
               nodeupdates(x, inodetype(x.ino))
    /\ Stay /\ UNCHANGED <<saved, next, volno>>

(* Names that were not found again: those without a flag in a directory on
   the tape, and whatever is left in a directory to be removed.            *)
InDumped(s, e) == LET i == s.ent[s.ent[e].parent].ino
                  IN  i \in tape.inos /\ lookupino(s, i) = s.ent[e].parent
Unreferenced(s) == {e \in DOMAIN s.ent \ {Root} : InDumped(s, e) /\ Flags(s, e) = {}}
LeftBehind(s)   == {e \in DOMAIN s.ent \ {Root} : s.ent[e].parent \in s.doomed /\ s.ent[e].type = "LEAF"}
findunreflinks ==
    /\ phase = "unref"
    /\ IF Unreferenced(w) # {} THEN Step(Dropped(w, Min(Unreferenced(w))), "unref")
       ELSE IF LeftBehind(w) = {} THEN Step(w, "nodes")
       ELSE \E e \in {Min(LeftBehind(w))} :
               Step(IF Flags(w, e) # {} THEN Panic(w) ELSE Dropped(w, e), "unref")
    /\ Stay /\ UNCHANGED <<saved, todo, next, volno>>

(* The directories on the list go as they become empty.                    *)
removeoldnodes ==
    /\ phase = "nodes"
    /\ IF w.doomed = {} THEN Step(w, "checkpoint")
       ELSE \E empty \in {{e \in w.doomed : Children(w, e) = {}}} :
              IF empty = {} THEN Step(Panic(w), "nodes")
              ELSE \E e \in {Min(empty)} : \E s \in {removenode(w, e)} :
                      Step(IF s.bad THEN s
                           ELSE [freeentry(s, e) EXCEPT !.doomed = @ \ {e}], "nodes")
    /\ Stay /\ UNCHANGED <<saved, todo, next, volno>>

(* The symbol table as it is saved, with the place on the tape.            *)
dumpsymtable(s, n, v) == [date |-> tape.date, ent |-> s.ent, links |-> s.links, next |-> n, volno |-> v]
FileAfter(i) == Min({maxino} \cup {j \in DOMAIN tape.files : j > i})

checkpoint ==
    /\ phase = "checkpoint"
    /\ next' = FileAfter(0)
    /\ volno' = 1
    /\ saved' = dumpsymtable(w, FileAfter(0), 1)
    /\ phase' = "create"
    /\ Stay /\ UNCHANGED <<w, todo>>

Wanted(s) == {i \in Inodes : /\ lookupino(s, i) # 0
                             /\ s.ent[lookupino(s, i)].type = "LEAF"
                             /\ Flags(s, lookupino(s, i)) \cap {"NEW", "EXTRACT"} # {}}
lowerbnd(s, i) == Min({maxino} \cup {j \in Wanted(s) : j >= i})

(* A file that is replaced is removed first.                               *)
extractfile(s, e, x) ==
    With(IF "EXTRACT" \in Flags(s, e) THEN removeleaf(s, e) ELSE s, LAMBDA t :
      IF t.bad THEN t
      ELSE [Cleared(t, e, {"NEW", "EXTRACT"} \cup (Flags(t, e) \ Flags(s, e)))
               EXCEPT !.out = creat(@, myname(t, e), x)])

(* Files that were wanted and passed over on the tape are not wanted more.  *)
Passed(s, i) ==
    [s EXCEPT !.ent = [e \in DOMAIN @ |->
        IF \E j \in Wanted(s) : j < i /\ lookupino(s, j) = e
        THEN [@[e] EXCEPT !.flags = @ \ {"NEW", "EXTRACT"}] ELSE @[e]]]

(* One file of the tape.  At a new volume the symbol table is saved.       *)
createleaves ==
    /\ phase = "create" /\ next < maxino
    /\ \E s \in {Passed(w, next)} :
       \E t \in {IF lowerbnd(s, ROOTINO) = next
                 THEN extractfile(s, lookupino(s, next), tape.files[next]) ELSE s} :
       \E v \in {volno, 2} :
          /\ Step(t, "create")
          /\ next' = FileAfter(next)
          /\ volno' = v
          /\ saved' = IF v # volno THEN dumpsymtable(t, FileAfter(next), v) ELSE saved
    /\ Stay /\ UNCHANGED todo

leavesDone ==
    /\ phase = "create" /\ next = maxino
    /\ phase' = "links"
    /\ Stay /\ UNCHANGED <<w, saved, todo, next, volno>>

(* The other names of an inode that are new.                               *)
NewLinks(s) == {e \in DOMAIN s.ent : "NEW" \in Flags(s, e) /\ s.ent[e].ino # 0
                                     /\ lookupino(s, s.ent[e].ino) # e}
createlinks ==
    /\ phase = "links"
    /\ IF NewLinks(w) = {} THEN Step(w, "finish")
       ELSE \E e \in {Min(NewLinks(w))} :
              \E p \in {myname(w, lookupino(w, w.ent[e].ino))} :
                Step(linkit(Cleared(w, e, {"NEW"}), p, myname(w, e)), "links")
    /\ Stay /\ UNCHANGED <<saved, todo, next, volno>>

(* setdirmodes(), which needs every directory of the tape, checkrestore(),
   and the symbol table for the next tape.                                 *)
Finished(e) == IF e.type = "NODE" THEN e.flags \ {"KEEP", "NEW", "EXISTED"} ELSE e.flags \ {"KEEP"}
checkrestore ==
    /\ phase = "finish"
    /\ \E s \in {[w EXCEPT !.ent = [e \in DOMAIN @ |-> [@[e] EXCEPT !.flags = Finished(w.ent[e])]]]} :
          IF \/ \E i \in DOMAIN inotab : lookupino(w, i) = 0
             \/ \E e \in DOMAIN s.ent : Flags(s, e) # {}
          THEN Step(Panic(w), "panic") /\ UNCHANGED saved
          ELSE Step(s, "restored") /\ saved' = dumpsymtable(s, 0, 1)
    /\ Stay /\ UNCHANGED <<todo, next, volno>>

Exit ==
    /\ phase = "restored"
    /\ phase' = "idle"
    /\ todo' = <<>> /\ next' = 0 /\ volno' = 0 /\ stops' = 0
    /\ UNCHANGED <<source, dumper, copied, w, saved>>

(* Restore is stopped after its first checkpoint, in the midst of a file
   perhaps, which is then cut short: all that is left to go on from is the
   saved table, and the tape from the saved volume on.                     *)
Part == 2
CutShort(e) == creat(IF "EXTRACT" \in Flags(w, e) THEN removeleaf(w, e).out ELSE w.out, myname(w, e), Part)
Stop ==
    /\ phase \in {"create", "links", "finish"} /\ stops < MaxStops
    /\ stops' = stops + 1
    /\ copied' = (copied \/ phase # "create")
    /\ \E out \in {w.out} \cup {CutShort(lookupino(w, i)) : i \in {next} \cap Wanted(w)} :
          w' = [w EXCEPT !.ent = saved.ent, !.links = saved.links, !.out = out]
    /\ next' = saved.next /\ volno' = saved.volno
    /\ phase' = "stopped"
    /\ UNCHANGED <<source, dumper, saved, todo>>

(* restore -R.                                                             *)
Resume ==
    /\ phase = "stopped"
    /\ phase' = "create"
    /\ Stay /\ UNCHANGED <<w, saved, todo, next, volno>>

-----------------------------------------------------------------------------
Init ==
    /\ disk \in Disks /\ driver \in Drivers
    /\ now = 1 /\ edits = 0 /\ dumps = 0 /\ stops = 0 /\ copied = FALSE
    /\ dates = initdumptimes
    /\ level = 0 /\ maps = None /\ tape = None
    /\ w = [ent |-> <<>>, links |-> [i \in Inodes |-> <<>>], doomed |-> {}, out |-> EmptyTree, bad |-> FALSE]
    /\ saved = NoTable /\ todo = <<>> /\ next = 0 /\ volno = 0
    /\ phase = "idle"

Editing ==
    \/ \E d \in Inodes, n \in Names, i \in Inodes, t \in {"dir", "file"} : Create(d, n, i, t)
    \/ \E d \in Inodes, n \in Names, i \in Inodes : Link(d, n, i)
    \/ \E d \in Inodes, n \in Names : Delete(d, n)
    \/ \E d, e \in Inodes, n, m \in Names, stamp \in BOOLEAN : Rename(d, n, e, m, stamp)
    \/ \E i \in Inodes : Write(i)
    \/ Tick

Dumping == (\E l \in Levels : mapfiles(l)) \/ mapdirs \/ dumpino \/ PutAside

Restoring ==
    \/ initsymtable \/ removeoldleaves \/ treescan \/ findunreflinks \/ removeoldnodes
    \/ checkpoint \/ createleaves \/ leavesDone \/ createlinks \/ checkrestore \/ Exit
    \/ Stop \/ Resume

Next == Editing \/ Dumping \/ Restoring
Spec == Init /\ [][Next]_vars

-----------------------------------------------------------------------------
(* The paths of a tree, at most a name per inode deep.                     *)
Paths(root, Kids(_)) ==
    LET Deep[k \in 0..LastIno] ==
            IF k = 0 THEN {[path |-> <<>>, at |-> root]}
            ELSE With(Deep[k - 1], LAMBDA s :
                    s \cup UNION {{[path |-> Append(x.path, n), at |-> Kids(x.at)[n]] : n \in DOMAIN Kids(x.at)} : x \in s})
    IN  Deep[LastIno]
DiskPaths == Paths(ROOTINO, LAMBDA i : disk[i].kids)
TreePaths == Paths(Root, LAMBDA o : w.out[o].kids)

(* dump, restore: the tree restored from a chain of tapes is the one that  *)
(* was dumped: the same names, kinds and contents, and names that were     *)
(* links to one file still are; also when restore was stopped and resumed. *)
(* Of a file system that the handler wrote this holds of the directories   *)
(* on the tape, whether or not what changed in them was stamped; of others *)
(* the tape does not tell, and changes of names there are missed.  A file  *)
(* that restore finds first under a name in one of those, where it no      *)
(* longer is, keeps its old contents.                                      *)
Told(p) ==
    driver = "bsd" \/ \A y \in DiskPaths : IsStrictPrefix(y.path, p) => y.at \in DOMAIN inotab
Restored ==
    phase = "restored" =>
      \E old \in {{x \in DiskPaths : Told(x.path)}} : \E new \in {{x \in TreePaths : Told(x.path)}} :
      /\ {x.path : x \in old} = {x.path : x \in new}
      /\ \A x, y \in old : \A a, b \in new :
            x.path = a.path /\ y.path = b.path =>
               /\ disk[x.at].type = w.out[a.at].type
               /\ w.out[a.at].type = "file" /\ Told(myname(w, lookupino(w, x.at)))
                     => disk[x.at].data = w.out[a.at].data
               /\ (x.at = y.at) = (a.at = b.at) \/ copied

(* A file with several names whose first found one was in the way of       *)
(* another file: nodeupdates() gave it a temporary name, and the name that *)
(* stayed was found by name, so that nothing takes the temporary one away. *)
Stranded ==
    \E e \in DOMAIN w.ent : /\ "TMPNAME" \in Flags(w, e) /\ w.ent[e].ino # 0
                           /\ Len(w.links[w.ent[e].ino]) > 1

(* A file whose name was in the way of another file, and that the handler  *)
(* has moved into a directory that is not on the tape: nothing finds it    *)
(* there.                                                                  *)
Astray ==
    \E e \in DOMAIN w.ent : /\ "TMPNAME" \in Flags(w, e)
                           /\ \A x \in DiskPaths : x.at = w.ent[e].ino => ~Told(x.path)

(* panic(), badentry(): restore finds nothing wrong with its own symbol    *)
(* table, whatever was done to the file system between two dumps, but for  *)
(* the names that are stranded or astray.                                  *)
NeverPanics == phase = "panic" => Stranded \/ Astray

(* Pass II of dump: whatever is on a tape can be reached from the root     *)
(* through directories on the tape, and the directories put on the tape    *)
(* are the ones its map lists.                                             *)
OnTape(i) == \E x \in DiskPaths : /\ x.at = i
                /\ \A y \in DiskPaths : IsStrictPrefix(y.path, x.path) => y.at \in DOMAIN tape.dirs
Reachable ==
    phase = "tape" => /\ DOMAIN tape.dirs \subseteq tape.inos
                      /\ \A i \in tape.inos : OnTape(i)

(* symtab.c: while restore works, its table tells what is in the tree:     *)
(* nothing is there that has no entry, and every entry that is not yet to  *)
(* be extracted or linked is there, under its name and of its type.        *)
Tracks ==
    phase \in {"leaves", "scan", "unref", "nodes", "checkpoint", "create", "links", "finish"} =>
      \E named \in {{[path |-> myname(w, e), type |-> w.ent[e].type, due |-> Flags(w, e) \cap {"NEW", "EXTRACT"}] : e \in DOMAIN w.ent}} :
        \E there \in {{[path |-> x.path, type |-> IF w.out[x.at].type = "dir" THEN "NODE" ELSE "LEAF"] : x \in TreePaths}} :
          /\ \A x \in there : \E y \in named : y.path = x.path /\ y.type = x.type
          /\ \A y \in named : (y.type = "LEAF" => y.due = {}) => [path |-> y.path, type |-> y.type] \in there

(* What both programs go by: the maps at the head of a tape, and the       *)
(* symbol table between and during the restores.                           *)
TablesTell == Reachable /\ Tracks
==============================================================================
