--------------------------------- MODULE Mount ---------------------------------
(***************************************************************************)
(* A volume made by newfs is put into a drive and mounted by the handler   *)
(* (fs/ufs.c, system.c): the device is opened, the disk label read, the    *)
(* superblock looked for and read, the volume named; then packets change   *)
(* its name and the attributes of its root (fs/packets.c), and it is       *)
(* written back and unmounted, over and over.                              *)
(*                                                                         *)
(*   drive    the AmigaDOS partition [low, high), a disk label in its      *)
(*            first sector perhaps, the sector the volume begins at, the   *)
(*            partition the mountlist asks for (reserved), write           *)
(*            protection, og_perm_invert, and whether packets are sent     *)
(*   image    the superblock in each sector that has one: <<>> if none     *)
(*   root     the attributes of the root on the disk                       *)
(*   m        the handler: dev_openfail, the labels given up, the          *)
(*            partition, psectoffset, the superblock and root in memory    *)
(*   asked    what a client that heard no error expects the name and the   *)
(*            root's attributes to be; kept, the name the volume has if    *)
(*            not that one; saved, what of all that is on the disk         *)
(*   ph       where open_filesystem() is; try, the partition it tries      *)
(*                                                                         *)
(* Reads fail MaxFaults times; a write does not.  Sectors have 512 bytes, and the *)
(* build is big endian without FAST.  A sector that is no superblock does  *)
(* not look like one.  Not modelled: file systems that others than newfs   *)
(* made (UFS 2, journals, fs_flags, the older inode formats), a data read  *)
(* that fails after the first sector of the superblock was read, and what  *)
(* packets find on a volume that was mounted at a wrong place.             *)
(***************************************************************************)
EXTENDS NewFs, Attrs

CONSTANTS
    Drives(_),      \* the drives a volume made with some options is put into
    Names,          \* names for the volume
    Taken0,         \* how many of the handler's own names others have
    Masks,          \* protection bits to set
    Owners,         \* owners and groups to set
    Dates,          \* DateStamps to set
    Now,            \* the time newfs runs at
    MaxMounts, MaxPackets, MaxFaults

VARIABLES drive, image, root, m, asked, ph, try, mounts, packets, faults

made  == vars
mvars == <<made, drive, image, root, m, asked, ph, try, mounts, packets, faults>>

NoDrive == <<>>
NoSuper == <<>>
Unnamed == "none"           \* an empty fs_fsmnt
SUPER_BLOCK == 16
MAX_PART == 8
Times == {"mtime", "ctime", "atime"}
Bit(x, b) == (x \div b) % 2 = 1

(* Local time in seconds since 1970.                                       *)
Local(ds) == (ds.days + 2922) * Day + ds.minute * 60 + ds.tick \div 50

-----------------------------------------------------------------------------
(* What newfs left on the disk, found at sector drive.at.                  *)

SuperAt(a) == IF a[2] = -1 THEN BBSIZE \div sectorsize ELSE a[3] * fs.nspf
Blank == [mnt |-> Unnamed, clean |-> 0]
FirstMode == (Whose \X Rights) \ {<<"group", "write">>, <<"other", "write">>}
FirstRoot == [type |-> IFDIR, mode |-> FirstMode, ouid |-> 0, ogid |-> 0, nuid |-> 0, ngid |-> 0,
              mtime |-> Now, ctime |-> Now, atime |-> Now]

Insert(d) ==
    /\ pc = "done" /\ drive = NoDrive
    /\ drive' = d
    /\ image' = [s \in {d.at + SuperAt(a) : a \in {b \in disk : b[1] = "super"}} |-> Blank]
    /\ UNCHANGED <<made, root, m, asked, ph, try, mounts, packets, faults>>

-----------------------------------------------------------------------------
(* open_device(): fails without a device, or without a disk in it.         *)
open_device ==
    /\ drive # NoDrive /\ ph = "closed" /\ mounts < MaxMounts
    /\ \/ /\ m' = [m EXCEPT !.fail = 0, !.physical_ro = drive.ro, !.noSun = FALSE, !.noBsd = FALSE]
          /\ ph' = "find" /\ try' = drive.reserved
          /\ UNCHANGED faults
       \/ /\ faults < MaxFaults /\ faults' = faults + 1
          /\ UNCHANGED <<m, ph, try>>
    /\ mounts' = mounts + 1
    /\ UNCHANGED <<made, drive, image, root, asked, packets>>

(* A partition of a label is of use if it is neither empty nor too large.  *)
Useful(p) == p.size # 0 /\ p.size <= drive.high - drive.low

(* The labels are looked for at the beginning of the AmigaDOS partition;   *)
(* a bit of the number asked for says not to.  One that is not found or    *)
(* not of use is not looked for again.                                     *)
sun_label_read(s, p, fault) ==
    IF s.noSun THEN [s EXCEPT !.ret = 1]
    ELSE IF Bit(p, 8) \/ fault = "label" \/ drive.kind # "sun" \/ ~Useful(drive.parts[p % 8])
    THEN [s EXCEPT !.ret = 1, !.noSun = TRUE]
    ELSE [s EXCEPT !.ret = 0, !.offset = drive.low + drive.parts[p % 8].start, !.partition = p % 8]

(* Finding no label, or none of use, is no error here: rc is what the read *)
(* of the sector returned.                                                 *)
bsd44_label_read(s, p, fault) ==
    IF s.noBsd THEN [s EXCEPT !.ret = 1]
    ELSE IF Bit(p, 16) \/ fault = "label" THEN [s EXCEPT !.ret = 1, !.noBsd = TRUE]
    ELSE IF drive.kind # "bsd" \/ ~Useful(drive.parts[p % 8]) THEN [s EXCEPT !.ret = 0, !.noBsd = TRUE]
    ELSE [s EXCEPT !.ret = 0, !.offset = @ + drive.parts[p % 8].start, !.partition = p % 8]

partition_info_read(p, fault) ==
    With([m EXCEPT !.offset = drive.low], LAMBDA s :
      With(sun_label_read(s, p, fault), LAMBDA t :
        IF t.ret = 0 THEN t ELSE bsd44_label_read(t, p, fault)))

(* The guesses of superblock_read().  ssector only counts them, and is     *)
(* moved on in the midst: what counts is whether it ever gets to the end.  *)
Guess(s) == CASE s = 5   -> 8
              [] s = 10  -> 6
              [] s = 18  -> 48
              [] s = 49  -> 64
              [] s = 65  -> 112
              [] s = 113 -> 240
              [] OTHER   -> s
Advance == [s \in 0..248 |-> IF s + 1 >= 248 THEN 248 ELSE Guess(s + 1)]
After256 ==         \* 256 turns of the loop
    LET Twice[k \in 0..8] ==
            IF k = 0 THEN Advance ELSE With(Twice[k - 1], LAMBDA f : [s \in 0..248 |-> f[f[s]]])
    IN  Twice[8]
Unending == After256[Guess(0)] # 248

(* The sectors looked at from psectoffset on: unless the guesses end, up   *)
(* to the end of the partition, where data_read() fails.                   *)
Searched(offset) ==
    LET from == offset + SUPER_BLOCK
    IN  {s \in DOMAIN image : /\ s >= from /\ s < drive.high
                              /\ s < from + 248 \/ Unending}

(* The shift of a frag's number to the block of pointers it is in.         *)
pfragshift(nindir, fblkshift) ==
    CHOOSE k \in 0..16 : /\ 2^k >= nindir \div 2^fblkshift
                         /\ k > 0 => 2^(k - 1) < nindir \div 2^fblkshift

(* The superblock and its summary are read: there is a volume.             *)
cgsummary_read(s, at, fault) ==
    [s EXCEPT !.offset = at - SUPER_BLOCK,
              !.sb = [image[at] EXCEPT !.clean = 0] @@ [fmod |-> 0],
              !.ronly = fault = "sums" \/ s.physical_ro,
              !.pfragshift = pfragshift(fs.bsize \div 4, CHOOSE k \in 0..3 : 2^k = fs.frag)]

(* fsname(): the last name the volume was mounted under, or one of the     *)
(* handler's own that no other volume has.                                 *)
fsname(mnt, partition) == IF mnt # Unnamed THEN <<mnt>> ELSE <<"BFFS", partition, Taken0>>

Faults(p) == {"none"} \cup IF faults < MaxFaults THEN {"label", "read", "sums", "memory"} ELSE {}

GivenUp(s) == IF ph = "find" THEN s.noSun /\ s.noBsd ELSE try = MAX_PART

(* One partition is tried, the one asked for first; if it has no           *)
(* superblock and there is a label, all of them.                           *)
superblock_read(fault) ==
    /\ ph \in {"find", "others"} /\ fault \in Faults(try)
    /\ faults' = faults + IF fault = "none" THEN 0 ELSE 1
    /\ \E s \in {With(partition_info_read(try, fault), LAMBDA t : IF t.ret = 1 THEN [t EXCEPT !.partition = 0] ELSE t)} :
       \E seen \in {IF fault \in {"read", "memory"} THEN {} ELSE Searched(s.offset)} :
         IF seen # {}
         THEN /\ m' = With(cgsummary_read(s, Min(seen), fault), LAMBDA t :
                         [t EXCEPT !.name = fsname(t.sb.mnt, t.partition), !.root = root])
              /\ ph' = "mounted" /\ UNCHANGED try
         ELSE /\ m' = [s EXCEPT !.fail = IF GivenUp(s) THEN 2 ELSE 0]
              /\ ph' = IF m'.fail = 2 THEN "failed" ELSE "others"
              /\ try' = IF ph = "find" THEN 0 ELSE IF try = MAX_PART THEN try ELSE try + 1
    /\ UNCHANGED <<made, drive, image, root, asked, mounts, packets>>

(* A packet finds dev_openfail set and tries again, with the device open.  *)
Retry ==
    /\ ph = "failed" /\ mounts < MaxMounts
    /\ mounts' = mounts + 1
    /\ m' = [m EXCEPT !.fail = 0, !.noSun = FALSE, !.noBsd = FALSE]
    /\ ph' = "find" /\ try' = drive.reserved
    /\ UNCHANGED <<made, drive, image, root, asked, packets, faults>>

-----------------------------------------------------------------------------
(* PDeviceInfo(), PDiskInfo(): only whole blocks count as free.  The share *)
(* newfs reserved is taken for used if the mountlist says so.              *)
MINFREE == 5
PDeviceInfo ==
    [state  |-> IF m.ronly THEN "ID_WRITE_PROTECTED" ELSE "ID_VALIDATED",
     blocks |-> fs.dsize,
     used   |-> fs.dsize - fs.cstotal.nbfree * fs.frag + IF drive.minfree THEN (MINFREE * fs.dsize) \div 100 ELSE 0]

(* The packets.  None of the three that follow asks whether the volume is  *)
(* write protected.                                                        *)

Packet == /\ ph = "mounted" /\ drive.busy /\ packets < MaxPackets
          /\ packets' = packets + 1
          /\ UNCHANGED <<made, drive, image, root, ph, try, mounts, faults>>

PSetProtect(mask) ==
    /\ Packet
    /\ m' = [m EXCEPT !.root.mode = SetProtect(mask, drive.invert)]
    /\ asked' = [asked EXCEPT !.protection = {mask}, !.perms = {}]

PSetOwner(owner, group) ==
    /\ Packet
    /\ m' = [m EXCEPT !.root = SetOwner(@, owner, group)]
    /\ asked' = [asked EXCEPT !.owner = <<IF owner # 65535 THEN owner ELSE @[1],
                                          IF group # 65535 THEN group ELSE @[2]>>]

PSetPerms(mode) ==
    /\ Packet
    /\ m' = [m EXCEPT !.root.mode = mode]
    /\ asked' = [asked EXCEPT !.protection = {}, !.perms = {mode}]

(* PSetDate() and PSetDates() of one of the three times; PSetTimes() takes *)
(* the local time in seconds.                                              *)
PSetDates(which, ds) ==
    /\ Packet /\ ~m.ronly
    /\ m' = [m EXCEPT !.root[which] = amiga_ds_to_unix_time(ds)]
    /\ asked' = [asked EXCEPT ![which] = Local(ds)]

PSetTimes(which, t) ==
    /\ Packet /\ ~m.ronly
    /\ m' = [m EXCEPT !.root[which] = t - GMT * 3600]
    /\ asked' = [asked EXCEPT ![which] = t]

(* On a write protected volume nothing is renamed, but the error goes to   *)
(* Res1, and the client hears that it was.                                 *)
PRenameDisk(name) ==
    /\ Packet
    /\ \/ /\ ~m.ronly
          /\ m' = [m EXCEPT !.sb.mnt = name, !.sb.fmod = @ + 1, !.name = <<name>>]
          /\ asked' = [asked EXCEPT !.name = name, !.kept = {}]
       \/ /\ m.ronly
          /\ UNCHANGED m
          /\ asked' = [asked EXCEPT !.name = name, !.kept = IF @ = {} THEN {asked.name} ELSE @]

PWriteProtect(on) ==
    /\ Packet
    /\ m' = [m EXCEPT !.ronly = IF on THEN TRUE ELSE IF m.physical_ro THEN @ ELSE FALSE]
    /\ UNCHANGED asked

-----------------------------------------------------------------------------
(* superblock_flush(): at the frag the superblock's place is in.           *)

(* Mutant: at the block it is in.                                            *)
FlushAtBlock == m.offset + (BBSIZE \div fs.bsize) * fs.frag * fs.nspf

FlushAt == m.offset + (BBSIZE \div fs.fsize) * fs.nspf

superblock_flush(sb) ==
    IF sb.fmod = 0 \/ m.ronly THEN image
    ELSE [s \in DOMAIN image \cup {FlushAt} |->
            IF s = FlushAt THEN [mnt |-> sb.mnt, clean |-> sb.clean] ELSE image[s]]

(* What was asked for, without what of it is on the disk.                  *)
Wishes == [k \in DOMAIN asked \ {"saved"} |-> asked[k]]

(* PFlush(): the superblock, then the cache.                               *)
PFlush ==
    /\ ph = "mounted" /\ drive.busy
    /\ image' = superblock_flush(m.sb)
    /\ root' = IF m.ronly THEN root ELSE m.root
    /\ m' = [m EXCEPT !.sb.fmod = IF m.ronly THEN @ ELSE 0]
    /\ asked' = IF m.ronly THEN asked ELSE [asked EXCEPT !.saved = Wishes]
    /\ UNCHANGED <<made, drive, ph, try, mounts, packets, faults>>

(* close_filesystem(), for INHIBIT, DISK_CHANGE and when the handler ends: *)
(* what cannot be written is lost.                                         *)
Lost == IF m.ronly THEN asked.saved @@ [saved |-> asked.saved] ELSE [asked EXCEPT !.saved = Wishes]
close_filesystem ==
    /\ ph = "mounted"
    /\ root' = IF m.ronly THEN root ELSE m.root
    /\ image' = superblock_flush([m.sb EXCEPT !.clean = 1, !.fmod = @ + 1])
    /\ asked' = Lost
    /\ m' = [m EXCEPT !.fail = 1, !.sb = NoSuper]
    /\ ph' = "closed"
    /\ UNCHANGED <<made, drive, try, mounts, packets, faults>>

-----------------------------------------------------------------------------
FirstAsked == [name |-> Unnamed, kept |-> {}, protection |-> {}, perms |-> {FirstMode}, owner |-> <<0, 0>>,
               mtime |-> Now + GMT * 3600, ctime |-> Now + GMT * 3600, atime |-> Now + GMT * 3600]
MInit ==
    /\ Init
    /\ drive = NoDrive /\ image = <<>> /\ root = FirstRoot
    /\ m = [fail |-> 1, physical_ro |-> FALSE, noSun |-> FALSE, noBsd |-> FALSE, partition |-> 0, offset |-> 0,
            ret |-> 0, sb |-> NoSuper, ronly |-> FALSE, pfragshift |-> 0, name |-> <<>>, root |-> FirstRoot]
    /\ asked = FirstAsked @@ [saved |-> FirstAsked]
    /\ ph = "closed" /\ try = 0 /\ mounts = 0 /\ packets = 0 /\ faults = 0

Packets ==
    \/ \E mask \in Masks : PSetProtect(mask)
    \/ \E u, g \in Owners : PSetOwner(u, g)
    \/ \E mask \in Masks : PSetPerms(SetProtect(mask, FALSE))
    \/ \E which \in Times, ds \in Dates : PSetDates(which, ds) \/ PSetTimes(which, Local(ds))
    \/ \E name \in Names : PRenameDisk(name)
    \/ \E on \in BOOLEAN : PWriteProtect(on)

Make == Next /\ UNCHANGED <<drive, image, root, m, asked, ph, try, mounts, packets, faults>>
MNext ==
    \/ Make
    \/ \E d \in Drives(opt) : Insert(d)
    \/ open_device \/ Retry
    \/ \E fault \in {"none", "label", "read", "sums", "memory"} : superblock_read(fault)
    \/ Packets \/ PFlush \/ close_filesystem

MSpec == MInit /\ [][MNext]_mvars

-----------------------------------------------------------------------------
(* mkfs(): of every volume made, the groups tile the disk and have their   *)
(* tables in their blocks; what is written later does not touch them.      *)
(* While it is made a crash leaves no superblock of a volume that is not   *)
(* all there.                                                              *)
LayoutSound == drive = NoDrive => LayoutTiles /\ TablesInBlock /\ SuperblockLast

(* initcg(), fsinit(): the summaries of every volume made count what its   *)
(* maps say, and the rotational tables chain the blocks they should.       *)
SumsSound == drive = NoDrive => SumsExact /\ RotationChains

(* find_superblock(), superblock_flush(): the volume is mounted where it   *)
(* lies, but for one case: a partition of the label that begins within the *)
(* volume has a copy of the superblock found first, and the volume mounted *)
(* at the place that copy would have it at.  Without a fault this takes    *)
(* that the partition asked for does not lead to the volume.  It is given  *)
(* up only if newfs did not get to write the superblock, or a read failed. *)
(* The shifts to come by a frag of pointers are right.  What is written    *)
(* back lies where superblocks were, on either kind of mount (a frag of    *)
(* more than the boot area's size has the superblock in its midst).        *)
Begin(p)   == drive.low + drive.parts[p].start
LeadsTo(p) == Useful(drive.parts[p]) /\ Begin(p) <= drive.at
Misled ==
    /\ drive.kind # "none" /\ Begin(m.partition) > drive.at
    /\ m.offset = Min({s \in DOMAIN image : s >= Begin(m.partition) + SUPER_BLOCK}) - SUPER_BLOCK
    /\ LeadsTo(drive.reserved % 8) => faults > 0

FoundInPlace ==
    /\ ph = "mounted" => (m.offset = drive.at \/ Misled) /\ 4 * 2^m.pfragshift = fs.fsize
    /\ ph = "failed" /\ faults = 0 => DOMAIN image = {}
    /\ drive # NoDrive /\ fs # <<>> /\ BBSIZE % fs.fsize = 0 =>
          DOMAIN image = {drive.at + SuperAt(a) : a \in {b \in disk : b[1] = "super"}}

(* The packets that set attributes and the ones that show them agree, on   *)
(* this mount and, for what was written back, on later ones: protection    *)
(* bits, but for those that one bit of the mode has to stand for, modes,   *)
(* owners, dates to the second, the volume's name, unless it was asked for *)
(* while the volume was write protected: then the name stays what it was.  *)
(* The space shown as free is that of the whole blocks free in the maps of *)
(* the groups.                                                             *)
Shown(mask) ==
    {b \in mask \ {File("archive")} : b[2] \notin {"write", "delete"}}
    \cup UNION {{<<p, "write">>, <<p, "delete">>} : p \in {q \in Whose : {<<q, "write">>, <<q, "delete">>} \subseteq mask}}
AttrsShown ==
    ph = "mounted" /\ m.offset = drive.at =>
      \E fib \in {FillInfoBlock(m.root, TRUE, drive.invert, TRUE, Now)} :
      \E attr \in {FillAttrBlock(m.root)} :
        /\ \A mask \in asked.protection : fib.protection = Shown(mask)
        /\ \A mode \in asked.perms : attr.mode = mode
        /\ fib.owner = asked.owner
        /\ Local(fib.date) = asked.mtime
        /\ attr.times = <<asked.mtime, asked.ctime, asked.atime>>
        /\ \A name \in IF asked.kept = {} THEN {asked.name} ELSE asked.kept : m.name = fsname(name, m.partition)
        /\ ~drive.minfree => PDeviceInfo.blocks - PDeviceInfo.used
                             = fs.frag * Total(Groups, LAMBDA c : Cardinality(FreeBlocks(fs, cgs[c + 1])))
================================================================================
