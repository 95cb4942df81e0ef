--------------------------------- MODULE Attrs ---------------------------------
(***************************************************************************)
(* What an inode's attributes look like from AmigaDOS, and what the        *)
(* packets that set them make of their arguments (fs/packets.c,            *)
(* unixtime.c).                                                            *)
(*                                                                         *)
(* An inode is a record: type, the nibble of ic_mode that tells the kind   *)
(* of file; mode, the set of its other bits; ouid and ogid, the old fields *)
(* of 16 bits; nuid and ngid, the new ones of 32 bits, here as signed      *)
(* numbers; mtime, ctime and atime, in seconds.  Protection bits of        *)
(* AmigaDOS are a set too; one that is set denies.                         *)
(*                                                                         *)
(* Times that GMT would take below 0 or above the width of an int are left *)
(* out, and so are the comments of a FileInfoBlock and the nanoseconds.    *)
(***************************************************************************)
EXTENDS Integers

CONSTANT GMT        \* hours east of Greenwich

ASSUME GMTAssumption == GMT \in -128..127

Whose  == {"owner", "group", "other"}
Rights == {"read", "write", "execute"}
File(bit) == <<"file", bit>>        \* a bit that is no one's right
Extras == {<<File("script"), File("ISUID")>>, <<File("hidden"), File("ISGID")>>, <<File("pure"), File("ISVTX")>>}
ProtectionBits == {x[1] : x \in Extras} \cup {File("archive")} \cup (Whose \X (Rights \cup {"delete"}))

(* The group's and the others' rights are the other way round on some      *)
(* volumes.                                                                *)
Inverted == {"group", "other"} \X Rights
og_perm_invert(mode, invert) ==
    IF invert THEN (mode \ Inverted) \cup (Inverted \ mode) ELSE mode

(* Mutant: the right to write needs both bits.                               *)
SetProtectBoth(mask, invert) ==
    og_perm_invert({x[2] : x \in {y \in Extras : y[1] \in mask}}
                   \cup {x \in (Whose \X Rights) \ mask : x[2] = "write" => <<x[1], "delete">> \notin mask}, invert)

(* PSetProtect(): the mode for a mask of protection bits.  There is one    *)
(* bit for the rights to write and to delete: either grants both.          *)
SetProtect(mask, invert) ==
    og_perm_invert({x[2] : x \in {y \in Extras : y[1] \in mask}}
                   \cup ((Whose \X Rights) \ mask)
                   \cup {<<p, "write">> : p \in {q \in Whose : <<q, "delete">> \notin mask}}, invert)

(* FillInfoBlock(): the protection bits of a mode.                         *)
Protection(mode, invert) ==
    LET seen == og_perm_invert(mode, invert)
    IN  {x[1] : x \in {y \in Extras : y[2] \in seen}}
        \cup ((Whose \X Rights) \ seen)
        \cup {<<p, "delete">> : p \in {q \in Whose : <<q, "write">> \notin seen}}

-----------------------------------------------------------------------------
Signed(x) == IF x >= 32768 THEN x - 65536 ELSE x     \* 16 bits as a signed number
Word(x)  == x % 65536                               \* the low 16 bits

(* PSetOwner(): -1 leaves the owner, or the group, as it is.               *)
SetOwner(inode, owner, group) ==
    LET u == Signed(owner) g == Signed(group)
    IN  [inode EXCEPT !.ouid = IF u # -1 THEN Word(u) ELSE @, !.nuid = IF u # -1 THEN u ELSE @,
                      !.ogid = IF g # -1 THEN Word(g) ELSE @, !.ngid = IF g # -1 THEN g ELSE @]

Owner(inode, bsd44fs) ==
    IF bsd44fs THEN <<Word(inode.nuid), Word(inode.ngid)>> ELSE <<inode.ouid, inode.ogid>>

-----------------------------------------------------------------------------
TICKS_PER_SECOND == 50
Day == 86400

unix_time_to_amiga_ds(t) ==
    LET local == t + GMT * 3600
    IN  [days   |-> local \div Day - 2922,
         minute |-> (local % Day) \div 60,
         tick   |-> (local % 60) * TICKS_PER_SECOND]

amiga_ds_to_unix_time(ds) ==
    2922 * Day - GMT * 3600 + ds.days * Day + ds.minute * 60 + ds.tick \div 50

(* The date of an object: an inode without one shows the volume's.         *)
Date(inode, fs_time) == unix_time_to_amiga_ds(IF inode.mtime # 0 THEN inode.mtime ELSE fs_time)

-----------------------------------------------------------------------------
(* FillInfoBlock() and FillAttrBlock().  The latter takes the kind of a    *)
(* file from one bit of it, and the former takes whiteouts for devices.    *)
IFFIFO == 1
IFCHR  == 2
IFDIR  == 4
IFBLK  == 6
IFREG  == 8
IFLNK  == 10
IFSOCK == 12

EntryType(inode, isRoot) ==
    CASE isRoot                        -> "ST_ROOT"
      [] inode.type = IFREG            -> "ST_FILE"
      [] inode.type = IFDIR            -> "ST_USERDIR"
      [] inode.type = IFLNK            -> "ST_SOFTLINK"
      [] inode.type = IFBLK            -> "ST_BDEVICE"
      [] (inode.type \div IFCHR) % 2 = 1 /\ inode.type \notin {IFLNK, IFBLK} -> "ST_CDEVICE"
      [] inode.type = IFFIFO           -> "ST_FIFO"
      [] inode.type = IFSOCK           -> "ST_SOCKET"
      [] OTHER                         -> "ST_FILE"

FillInfoBlock(inode, isRoot, invert, bsd44fs, fs_time) ==
    [type       |-> EntryType(inode, isRoot),
     protection |-> Protection(inode.mode, invert),
     owner      |-> Owner(inode, bsd44fs),
     date       |-> Date(inode, fs_time)]

FillAttrBlock(inode) ==
    [type  |-> IF inode.type >= IFREG THEN "NFREG" ELSE "NFNON",
     mode  |-> inode.mode,
     owner |-> <<inode.ouid, inode.ogid>>,
     times |-> <<inode.mtime + GMT * 3600, inode.ctime + GMT * 3600, inode.atime + GMT * 3600>>]
================================================================================
