# TLA+ models of the BFFS file system

BFFS is a file system handler for AmigaOS that reads and writes Berkeley Fast
File System volumes, with ports of the Berkeley programs that make, check, dump
and restore such volumes.  `src/fs` holds the handler; `src/newfs`, `src/fsck`,
`src/dump` and `src/restore` the programs; the rest of the repository is small
commands, support code and documents.  This project models the parts where a
mistake loses data or hangs someone: in the handler the caches, the packet loop
with its write-back timer, the locks, names, files and allocation, and mounting;
of the programs the layout of a volume, its repair, and the way of a tree through
dump, tape and restore.

## The system

The handler is one process.  Clients send it packets through a message port;
the timer device and a disk change interrupt wake it with signals.  Inside it
everything is sequential: a packet's routine runs to its end before the next
one starts.  What is hard is therefore not locking inside the handler but the
interplay of long sequences of packets, faults of the medium, delayed write-back
and the wake-ups from outside.

| component | source | state | operations | who calls it | what must hold |
|---|---|---|---|---|---|
| frag cache | `fs/cache.c` | LRU list, hash chains, dirty flags, counters, buffers | read, write, move, invalidate a frag; flush; grow and shrink | everything below | a frag reads as last written; lists, chains and counters agree |
| cylinder group cache | `fs/cache.c` | array of buffers with dirty flags | read, modify, flush, resize | allocation | one buffer per group; a group reads as last modified |
| packet loop | `fs/handler.c` | signals, `timing`, `write_items`, `write_delay` | wait, serve a batch, timer policy, shutdown, quiescent loop, revival | exec | every packet is replied to; dirty frags are written back |
| locks and handles | `fs/system.c`, `packets.c` | `dl_LockList` on the volume node, file handles | create, copy, move, free locks; open, write, close; inhibit, disk change | clients | exclusive locks exclude; open files are not deleted |
| allocation | `fs/alloc.c` | free bitmap, frag and cluster summaries per group, totals in the superblock | allocate, extend, free blocks and frags | file block map | summaries agree with the bitmap; no frag is given out twice |
| inodes | `fs/inode.c` | inode bitmap and counts, inodes in cached frags | new, free, map logical to disk frags | files, directories | counts agree with the bitmap; a frag is found where it was put |
| file block map | `fs/file.c`, `fread.c`, `fwrite.c` | direct and index blocks | extend, retract, free, read, write | packets | block map and `ic_blocks` agree; no block in two files |
| directories | `fs/dir.c` | entries in directory blocks | find, create, delete, rename, list | packets | entries tile the block; every entry names a used inode |
| superblock, labels, device | `fs/ufs.c`, `system.c` | superblock copy, place of the volume, read-only flags | mount, flush, unmount | all | the volume is found where it is, and written back there |
| attributes | `fs/packets.c`, `unixtime.c` | mode, owners, times of an inode | set, show | clients | what is shown is what was set |
| newfs | `newfs/mkfs.c` | superblock, groups, summaries in memory and on disk | lay out, write groups, directories, superblocks | user | the parts tile the disk; the counts are right |
| fsck | `fsck/*.c` | tables of states, link counts, blocks, directories; buffers | five passes, lost+found | user | a run leaves a sound volume; runs converge |
| dump | `dump/*.c` | maps of inodes, dates, slaves and their requests | choose inodes, queue records, change volumes | user | every record is on the volumes, in order |
| restore | `restore/*.c` | symbol table, its copy on disk, place on the tape | compare names, rename, remove, extract, link; resume | user | the restored tree is the dumped one |

The handler's components call each other downwards; the only shared state that
crosses them is the set of cache buffers, into which inode and directory code
keeps pointers, and the flags `fs_ronly` and `receiving_packets`.  The programs
meet the handler only through the volume: newfs makes what the handler mounts
(module `Mount` composes the two), fsck repairs what a crash of the handler
leaves.  dump and restore meet through the tape.

Hard behaviours, listed with their lines under `hazards` in `PROJECT.json`:
faults half way through an operation, medium changes with dirty data in memory,
a wake-up consumed before its packet is served, a timer request used twice,
locks whose list is thrown away, entries that move under a client who lists
them, a full volume in the midst of growth, repairs of which only some reach the
disk, processes that pass a tape on by signals, volumes that end at any record,
and a restore that is stopped and taken up again.

## The modules

| module | models | composition |
|---|---|---|
| `Lists` | linked lists as sequences | used by `FragCache`, `Locks` |
| `FragStore` | abstract: addresses with delayed write-back | refined by `FragCache` and `CgCache` |
| `FragCache` | the frag cache of `cache.c`, `file_frags_write()` of `fwrite.c`, and the packets that resize, flush, protect and remount it | implements `FragStore` |
| `FragCacheProofs` | theorems about `FragCache`, which implements `FragStore` | extends it and `ListProofs` |
| `CacheChains` | the pointers of the hash chains | justifies the sequence `hash` of `FragCache` |
| `CacheChainsProofs` | theorems about `CacheChains` | extends it and `ListProofs` |
| `CgCache` | the cylinder group cache | implements `FragStore` |
| `CgCacheProofs` | theorems about `CgCache`, which implements `FragStore` | extends it and `ListProofs` |
| `Handler` | the main loop of `handler.c`, the timer, the clients | |
| `HandlerProofs` | theorems about `Handler` | extends it and `ListProofs` |
| `Locks` | locks, file handles and the volume node | |
| `LocksProofs` | theorems about `Locks` | extends it and `ListProofs` |
| `Alloc` | the routines of `alloc.c` as operators, and what its summaries should be | used by `AllocCalls`, `Files` |
| `AllocCalls` | any sequence of calls of `alloc.c` | calls `Alloc` |
| `AllocProofs` | theorems about `AllocCalls` and the routines of `Alloc` | extends `AllocCalls` |
| `Files` | block map with index blocks, reading, writing, truncation and deletion of files (`file.c`, `inode.c`, `fread.c`, `fwrite.c`), and the packets that lead to them | calls `Alloc` |
| `Names` | directories, inode numbers, the packets on names, the places locks remember, a client that lists | |
| `NamesProofs` | theorems about `Names`: entries and listings; links and counts, the tree, the places of locks | extends it and `ListProofs` |
| `ListProofs` | lemmas on lists without repetitions and on least numbers | used by the proofs |
| `NewFs` | `newfs`: layout, groups, root directory, superblocks | |
| `Attrs` | attributes and dates, both ways | used by `Mount` |
| `Mount` | the volume `NewFs` made, in a drive, mounted and changed and mounted again | extends `NewFs` and `Attrs` |
| `Fsck` | the five passes of `fsck`, crashes, and runs that are interrupted | |
| `Restore` | which inodes `dump` takes, and how `restore -r` turns one tree into the next | |
| `Tape` | `dump`'s master and slaves, the volumes, and `restore` reading them | |
| `MC...` | instances for TLC | |

Definitions keep the names of the C code where one definition stands for one
routine; the head of each module lists its variables and the C variables they
stand for.  Operators whose comment starts with "Mutant" are faulty versions of
the definition that follows them.  They are used by no specification; putting
one in the place of its original shows that a property notices the fault.

### FragStore

`store` is what readers see, `durable` what the medium holds, `pending` the
addresses that are to be written.  `weak` are addresses whose write-back failed
but which a clean buffer still shows: they may fall back to `durable` at any
time.  `torn` are addresses of which two copies are kept; only a move makes one.  Everything the caches do in the background (`Background`) is to write
back pending addresses, to lose the ones whose write failed, and to let weak
ones fall back.

### FragCache

A call of a cache routine is one step, since the handler is one process.  The
loops of `cache_adjust()` are one step per buffer, with `pc = "adjust"` and
nothing else enabled.  `ok`, a parameter of most actions, is the set of buffers
whose `data_write()` succeeds in the flush the action makes; it is empty when
the volume is read-only.  A miss is split by what happens: `MissRead`,
`MissFault` (the buffer is lost, as in the code), `MissNoBuffer` (the NULL of
`cache_getnode()` is dereferenced; `pc = "wild"` and the model stops).
`HitWrite` and `MissWrite` include the caller's stores into the buffer.
`cache_frag_move()` with a read fault leaves anything in the buffer.  Like the
code, it does not ask whether its target is cached: the target may then have two
buffers (`Doubled`), of which `cache_node()` finds the one linked last.
`FragStore` calls such a frag `torn` and says what is left of its promise: only a
move makes a frag torn, and only its target; a torn frag is read as last written
right after the write, but until one of its buffers is gone an older copy may
come to be read or be written back last; all other frags keep the whole promise.

### CacheChains

`hashtable[]`, `hash_up` and `hash_down` as functions, `cache_add()` and
`cache_remove()` pointer by pointer.  `cache_remove()` finds the bucket of a
chain's first node from the node's address, so addresses must not change while
a node is chained.

### CgCache

The array from slot 0 (least recently used) with `cache_popup_cg()` as
`Popped`.  `Bad` is the group number -1 of a buffer whose read failed.  `wild`
is set when a flush uses a dirty flag whose slot has no buffer or a bad one:
the flags are not reset by `close_cache()` or `open_cache()`.  The medium may
be changed before `PDiskChange()` runs.  That routine says that dirty buffers
are destroyed (`packets.c:1721`), but the cylinder groups are written to the
new medium; `ReadsAsModified` promises nothing about these steps.

### Handler

`Send`, `Expire` and `DiskInterrupt` are the environment: exec's `PutMsg()`,
the timer device, the interrupt server.  The loop is cut where the environment
can be noticed: after `Wait()`, before each packet, after each packet.  What a
packet does to the volume is left to the other modules; here it sets the number
of dirty frags and the motor to anything, and may stop the loop.  Then it is
quiescent and refuses every packet.

`timer_loops` is no bound on the number of delays, although `config.c:37` calls
it "maximum delays before forced cleanup": every packet that finds frags dirty
sets `write_delay` back (`handler.c:299`), and frags become dirty only through
packets.  What bounds the delays is `StallsCostFrags`.

### Locks

`list` is `dl_LockList`, newest first.  `CreateLock()` compares with the newest
lock on the object only.  `current` and `loose` are history variables: the
locks given for objects found on the volume as mounted now, and whether an
invisible lock was given or `examine_common()` moved a lock from a symbolic
link to its file.  Either of these makes comparing with one lock insufficient:
a new invisible lock hides an older exclusive one, and a moved lock is compared
with nothing, so `ExclusiveAlone` is stated for as long as neither happened.

### Alloc and AllocCalls

A group's bitmap is the set of its free frags; the counters and the cluster map
are kept beside it as the code keeps them, so that they can be wrong.  The
searches are operators on the bitmap.  `Scan` is the loop of `block_free_find()`
in closed form: it takes every free block that is no further away than those
before it and leaves at the first that is, so what it returns is the last block
before that one.  `BothWays` is the search for blocks of eight frags.  The second half of the module says what the counters should be,
from the bitmap alone (`Summary`, `Maps`).  `AllocCalls` makes the calls that
`file.c` makes, in any order, under the conditions that `file.c` checks: frags
are taken where a search found them or behind frags in use, and what is given
back was in use.

### Files

A routine of `file.c`, `inode.c`, `fread.c` or `fwrite.c` is an operator from
the volume (maps, inodes, index blocks, contents of frags) to the volume and
what the routine returns; a packet is an action.  `holds` says which frag of
which file is stored in a frag of the disk: writing sets it,
`cache_frag_move()` copies it, and giving a frag back forgets it.  `idx` is what
the cache shows of the index blocks and `dirty` which of it is not on the disk.
While a handle is in `MODE_WRITE` the last block of its file is a whole one;
`Claims` are the frags that files have, with that in mind.  `short` remembers
the files of which a write ran out of room after `ic_size` was set: they end in
a hole, and `ReadsBack` does not speak of them.  `lost` are blocks that
`file_blocks_add()` allocated before it found no room for the index block.
`astray` marks the two steps after which the code works with index blocks that
are not the file's; the model does not go on from there.  A directory grows by a
frag at a time, through `dir_create()`.  `Next` lets a file be written through
one handle at a time, and at most at its end (`Proper`).

### Names

A directory is a function from offsets to entries with their `d_reclen`, so that
`dir_create()`, `dir_offset_delete()` and `dir_rename()` can be wrong about the
room of an entry as the code could.  Inode numbers are searched from
`cg_irotor`, in the group the code prefers.  A lock has `fl_Pinum` and
`fl_Poffset`; `stray` are locks whose object was renamed.  One client lists a
directory with EXAMINE_NEXT while the others change it: `scan.due` is what it
must still be shown.  An entry that is deleted when it would have been shown
next leaves the client with bytes the model does not follow (`Forget`).  `Above`
is what the loop in `dir_rename()` comes past on its way up, stated without a
loop: what every set of directories has that ".." does not lead out of.

### NewFs, Attrs, Mount

`NewFs` keeps the program's arithmetic: options and disk label to sectors,
cylinders, groups and tables, in the order of `mkfs()` with its early exits,
then one step per group, for the root and per superblock, each of which may fail
to be written.  No build defines `LOSTDIR` (`mkfs.c:40` is inside a comment), so
there is no lost+found.  `Mount` puts the result into a drive with a Sun, a BSD or no label,
opens the device, reads the label, guesses at the superblock and flushes it back,
up to three times, with a read fault anywhere.  `image` says at which sectors a
superblock is.  `Attrs` are the conversions of protection bits, owners and dates;
packets set them, and `asked` is what a client who heard no error expects; a
rename it was told of in error leaves `kept`, the name the volume has.

### Fsck

`vol` is the volume through fsck's buffers, `img` the disk when the run began.
A run that is interrupted, or that `-p` ends, leaves any set of the changed
blocks written (`flush()` writes a block when its buffer is reused).  `Damaged`
are the states a crash leaves: inodes, entries and directory blocks that were
not written, old ones that came back, wrong counts and maps, bad superblocks.
Pass 2 is one step per entry, the others one per inode or directory, because a
stop between any two must be recovered from.  `whole` tells the directories
whose size is a multiple of the block: `expanddir()` looks at the block number
behind their last one, finds none, and refuses (`dir.c:619`).  `tab.sorry` is
set when `linkup()` found no room, or could not make lost+found.

### Restore

`Edit` is any change of the dumped file system within and across seconds, made by
the handler of `src/fs`, which stamps an inode when it is made and a file when it
is closed after writing, or by a BSD kernel, which stamps directories too; a dump
of a level takes what its dates say.  restore's routines are operators on a
record of the symbol table and the tree it writes; a call that fails on the tree
leaves it alone, as restore prints a warning and goes on.  `treescan()` visits
the names of a directory in any order.  `Stop` throws away what is in memory;
`Resume` is `-R`.  dump runs with `-u`.

### Tape

The master queues records for one slave after another; a slave reads the disk,
waits for the signal of the one before, writes and reports.  Signals can arrive
before `setjmp()` (`caught`) or after (`ready`).  A volume takes a number of
records nobody knows in advance, or is limited by `blocksperfile`; at its end the
blocks of all slaves are queued again behind a new header.  restore reads block
by block, skips what it does not want, leaves out duplicates after a volume
change, and has blocks it cannot read, each of which it takes for a full one of
zeros.

## Runs

Twelve runs, one for each question, all passing:

* `cache` (`MCFragCache.cfg`): three frags, two buffers, sizes 1 to 2, two
  contents.  Fewer buffers than frags, so that buffers are reused, flushed and
  cycled; each buffer can be lost to a fault, and both; both can come to hold the
  same frag.  Checks the consistency
  invariants (which the theorems extend to any number of buffers), that a flush
  synchronizes, and the refinement of `FragStore`.
* `cache_chains` (`MCCacheChains.cfg`): three buffers in two buckets, so that
  a chain has a top, a middle and a bottom, and there is another chain.
* `cg_cache` (`MCCgCache.cfg`): three groups, four slots of which at most three
  are used, sizes from below the least to above the most.
* `handler` (`MCHandler.cfg`): three clients, batches of two, one stall, two
  dirty frags: the timer policy, who is left behind by a batch, and both liveness
  properties.  The third client is the one that a batch may leave waiting without
  a wake-up: `OnlyExcessWaits` says that it takes a batch of others to do that,
  `EveryPacketReplied` that its packet is replied to all the same unless nothing
  ever happens again (`Overslept`).
* `locks` (`MCLocks.cfg`): three locks, two files, a symbolic link to one of
  them, all access modes, two levels of inhibition.
* `alloc` (`MCAllocCalls.cfg`): blocks of four frags, so that runs of one to
  three frags are split and joined; three blocks in one group, more than the
  longest cluster counted, and one in another, so that allocation must change
  groups.  All 65536 bitmaps are reached.  The theorems extend the three
  invariants to any geometry.
* `files` (`MCFiles.cfg`): a file, a directory and a handle on ten blocks of four
  frags of two bytes; two direct blocks and two trees whose index blocks have
  four pointers.  Writes of 13 and 40 bytes take the file through both trees,
  and three of them fill the volume; tails share blocks with the directory and
  are moved.  States after `astray` are not explored (`Followed`).
* `names` (`MCNames.cfg`): two names, one short and one long, equal without
  regard to case; two groups of four inodes, directories of two blocks that hold
  few entries, one lock, one listing client.
* `fsck` (`MCFsck.cfg`): four trees (nested, a file with two names, one with
  lost+found, one with a full lost+found) whose directories end in frags or in
  whole blocks, eight inodes, seven blocks, one damage of eleven kinds, one stop,
  five runs.  `Repairs`: a run that ends with the root whole leaves blocks, maps,
  tree and links sound.  `Converges`: after three `-y` runs nothing is left to
  do; two would not be enough, see below.  `HarmsNothing`: among others, nothing
  is cleared for want of a name while lost+found has room, or can get some.
* `newfs_mount` (`MCMount.cfg`): 179 requests about the edges of groups, tracks
  and tables; drives with every kind of label, with partitions that are not
  there and with some that begin within the volume, asked for or first in the
  label; three mounts, two packets, one read fault.  `FoundInPlace`: only such a
  partition has the volume mounted elsewhere than where it lies.  `AttrsShown`:
  what was set is shown, but for a name given while write protected.
* `restore` (`MCRestore.cfg`): three file systems of four inodes, two names per
  directory, either driver, a full and an incremental dump with two edits in two
  seconds between them, one stop.  Of what the handler wrote `Restored` speaks of
  the directories on the tape, which takes in those that are there for the sake
  of a file that was stamped.
* `tape` (`MCTape.cfg`): eight objects (maps, a directory, files with holes and
  an indirect block, a link, a device), blocks of three records, volumes of 6 to
  21 records or limited ones, one unreadable block, an object that is skipped.
  Every boundary of a volume within an object occurs.

What a run leaves out is said in its properties: `NeverPanics` excepts two known
cases (`Stranded`, `Astray`), `Restored` of `Restore` excepts links that become
copies after a stop (`copied`) and, where the handler wrote the volume,
directories the tapes do not tell (`Told`), and the properties of `Tape` except
the known losses (`lost`, `AfterEot`, `astray`, `PassedOver`).  Each exception is described below.

Deadlock is not checked in `names`, `fsck`, `newfs_mount`, `restore` and `tape`:
they end, at a bound, at the end of the program, or when it gives up.

Bounds: `MaxSize` and `Amounts` (cache size), `MaxDirty` (dirty frags), `Batch`
and `timer_loops` (smaller than the code's 5 and 12), `MaxInhibit`; `NDADDR`,
`NIADDR`, `PTRS`, `MaxDir`, `MaxWrites` (files), `Amount`, `Reading` and
`SeekTo` (what clients write, read and where they seek); `MaxBlocks`, `MaxUsed`,
`MaxDirs` (names); `MaxFaults`, `MaxStops`, `MaxRuns`, `MaxMounts`,
`MaxPackets`, `MaxTime`, `EditsBy`, `MaxIds`.  Symmetry is used for buffers,
groups, locks, files and handles, never with liveness.

Fairness.  `Handler!Fairness`: weak fairness of the handler, because exec runs
a process that can run (handlers have a higher priority than their clients), and
of `Expire`, because the timer device answers every request; nothing obliges
clients to send or users to change the medium.  `Fsck!FairSpec`: the program
goes on while nobody stops it.  `Tape!Fairness`: master, each slave and restore
are processes that the system runs, and the operator mounts the volume that is
asked for.

## Seen while modelling

None of these is the subject of a run; each is where a model stops or a property
makes an exception, or was met in the lines a definition translates.

Caches and handler:

* `cache_frag_move()` does not look for a buffer of the address it moves to
  (`cache.c:684`).  Freeing data frags does not invalidate them, so the targets
  of `file.c:525`, `816` and `984` may be cached, and two dirty buffers of one
  frag are then flushed with the older one last (`cache.c:635`).  The model does
  all of this; `ReadsAsWritten` and `FlushSynchronizes` promise less of such
  frags.
* `cache_full_invalidate()` changes the addresses of nodes that stay chained
  (`cache.c:293`); `cache_remove()` then unlinks from another bucket.
* A batch serves at most five packets (`handler.c:257`); with more clients than
  that, the rest waits for a signal that was taken already (`Overslept`), until
  the timer, a disk change or another packet wakes the handler.
* After `ACTION_FS_STATS` revives the handler, its signal masks are those of
  ports that were freed, `timerIO` has no command, and if the timer cannot be
  opened the packet gets no reply (`handler.c:341`).  `open_filesystem()` says
  success when nothing could be mounted (`handler.c:272`), and the quiescent
  loop frees locks through a volume node that is gone (`handler.c:348`).
* `RemoveVolNode()` drops the lock list (`system.c:202`): after INHIBIT or
  DISK_CHANGE a file that a client has open can be deleted.
* On DISK_CHANGE dirty groups are written to the new medium.
* `cache_cg()` lets the group number `fs_ncg` through (`cache.c:919`).

Files and allocation:

* Of two handles that write one file the first to be closed cuts the last block
  under the other (`packets.c:918`, `file.c:694`).
* `iblock_deallocate()` invalidates the cached frags of an index block and then
  reads it from the disk (`file.c:258`): pointers not yet written are lost, old
  ones are freed.
* `file_blocks_deallocate()` keeps an emptied index block when a file is cut at
  `NDADDR` blocks; the next `file_block_extend()` then takes frag 0 for the
  file's last block (`file.c:493`).
* `file_blocks_add()` ignores that `cidisk_frag()` failed (`file.c:436`), and
  does not advance over a block that is there (`file.c:428`).
* `file_write()` returns one frag too much when it runs out of room and began at
  a frag boundary (`fwrite.c:276`).  Writing 0 bytes to an empty file has
  `prev_frag_addr()` return a variable that was not set (`inode.c:188`).
* `file_block_retract()` takes a disk address for a frag of the file
  (`file.c:777`), which only spoils the policy.  The undoing in
  `frags_allocate()` adds frags to the free count that it never took
  (`alloc.c:783`); `NeverInconsistent` shows that it does not run on a volume
  that was consistent.

Names:

* Paths through files, `d/.` as an object to delete (`packets.c:1139`), PARENT of
  a lock whose object was renamed away, and a new directory when no group has
  both an inode and a block (`inode.c:673`) make the volume read-only; `Next`
  keeps to the others.
* `PRenameObject()` looks for neither a target that exists nor locks on it.
  Locks keep the place their object had.
* A `PCreateDir()` that fails leaves `cs_ndir` one too high (`InodesExact` says
  at least).  A failing `CreateLock()` leaves an entry without inode
  (`packets.c:778`).  `PDeleteObject()` uses an inode pointer over a call that
  may reuse its buffer (`packets.c:1173`).

Mounting and attributes:

* The search for the superblock cycles through four sectors and ends only at the
  end of the AmigaDOS partition (`ufs.c:783`).  From a label's partition that begins within
  the volume it finds a copy of the superblock first, takes it for the
  superblock, and mounts the volume shifted by the distance (`Misled`).  A
  partition that was not asked for is tried when the one that was failed to be
  read or has no volume.  With frags of 16 KB the superblock is flushed to frag 0
  (`ufs.c:1089`); `FoundInPlace` excepts it.
* `fs_clean` is cleared in memory only (`ufs.c:905`).
* On a write-protected volume `PRenameDisk()` and `PRenameObject()` store the
  error in `Res1` (`packets.c:1456`, `1358`), which a client takes for success:
  nothing was renamed.
* PSetProtect, PSetPerms and PSetOwner do not look at `fs_ronly`; WRITE_PROTECT
  off also ends a read-only state that was set for an inconsistency.
* The rights to write and to delete share a bit; owners from 32768 on are shown
  with their sign.

newfs:

* When the last group is dropped `fs_ncyl` may stay and `fs_size` grow
  (`mkfs.c:585`); the check that a cylinder group is not too big never fires
  (`mkfs.c:765`); the comment at `newfs.c:118` says 16 cylinders per group where
  the code has 32.

fsck:

* A full lost+found of whole blocks is not expanded (`dir.c:619`), although blocks
  are free and `fsck.8:267` says "If there is insufficient space its size is
  increased": files are then cleared for want of a name (`dir.c:337`), and a
  directory that nothing names stays so in every run, since pass 3 counts it as
  linked up (`pass3.c:67`).  The same holds of a full root without lost+found.
* When `expanddir()` is interrupted after the old last block was written and
  before the inode, the directory begins with a name in the place of ".", which
  no run repairs (`pass2.c:277`, `DotsFit`).
* A directory reconnected in pass 3 leaves its old parent's count for the next
  run, and a directory cleared in pass 4 is scanned in pass 2: up to three runs.
* A directory without "." or ".." in the place of another entry, a root without
  "..", an inode table without a free inode for lost+found (`dir.c:684`) are not
  repaired; `Repairs` and `Converges` speak of volumes whose root is whole.
* The alternate superblock compared is the last one, though the message says
  first (`setup.c:478`).

dump and restore:

* A name in the way of another gets a temporary name; when the file has another
  name that is found first nothing renames it again, and `checkrestore()` panics
  (`Stranded`).
* A stop between `createlinks()` and the last checkpoint has `-R` extract a link
  as a file of its own (`copied`).
* The handler stamps no directory when names in it change (`packets.c:1301`,
  `1409`, `2139`), and no file that is linked or renamed.  An incremental dump of
  a volume that BFFS wrote misses such a change unless something else brings the
  directory onto the tape (`Told`).  A file that was written, and whose name that
  restore finds first was in a directory not on the tape and is gone, keeps its
  old contents.  A file moved into such a directory, whose old name was in the way
  of another file, keeps a temporary name, and `checkrestore()` panics (`Astray`).
* `rollforward()` leaves a record carried over to the next volume in another
  slave's buffer (`dump/tape.c:525`), and loses it (`lost`).  After an end of
  tape the first record of the new volume is not advanced (`AfterEot`).
  Duplicates and the rest of an object are both skipped (`restore/tape.c:440`),
  with the objects that follow (`PassedOver`).  A block that cannot be read counts
  as a full one also when it was the short one at the end of its volume
  (`restore/tape.c:987`): what is counted too much is skipped on the next volume
  though it was never read.  A volume header that cannot be read stays counted
  when its volume is mounted again (`astray`).  A volume begun within a map changes the bound of the loop that
  writes it (`traverse.c:523`).
* `putdumptime()` is called before the last blocks are known to be written
  (`main.c:563`).

## Proofs

The theorems hold for every value of the constants that the named assumptions
admit.  Each inductive invariant was first an invariant of the component's run.

**`FragCacheProofs`** proves for any sets of frags, contents and buffers (finite)
and any sizes that every behaviour of `Spec` satisfies `TypeOK`, `ListsAgree`,
`Accounted`, `StopsOnlyWithoutMemory`, and that a NULL buffer is used only after
faults.  The inductive invariant `Inv` is their conjunction
with what is needed to see that the last buffer is never taken away: outside
`cache_adjust()` a handler that receives packets has at least one buffer, listed
or lost, and `cache_size` is at least one.  None of the parts is inductive
alone: taking a buffer keeps the counters right because its node is in both lists
once, and `cache_flush()` resets the counter to 0 because the count was exact.
That holds for doubled frags as well: the counter counts buffers.  The lemmas come in three
layers: what unlinking, appending and rotating do to a list without repetitions;
what a miss, a flush and a mark do to the dirty set and its count; one lemma per
action.

Its second part proves the refinement `Spec => ReadsAsWritten`, under the same
assumptions, moves onto cached targets included.  `Mapped` tells the refinement
mapping by the one buffer of a frag that is not doubled, `Newest` by the buffer
that `cache_node()` finds of any frag.  Most steps are harmless: they change what
no reader sees and double no frag, which `FragStore` allows as `Background`; a
write is the store's write, a move puts a copy before the one that may be there,
and a flush that fails for some frags loses exactly those.  The action property
`FlushSynchronizes` follows from what a flush does to the medium (`Flushed`).

**`CgCacheProofs`** proves `SlotsSound` and the refinement `ReadsAsModified`.
`SlotsSound` alone says too little of the array while `cache_popup_cg()` turns
it: `Inv` names the number of slots that are filled, that no group is in two of
them, and that a clean buffer holds what the medium holds, as long as the medium
was not changed and nothing wild was written.  `PopKeeps` and `PutKeeps` carry it
through the rotation.

**`CacheChainsProofs`** proves `ChainIsBucket` for any nodes, buckets and hash
function.  `Inv` says that the chain of each bucket is linked, both ways, as the
list `order` of the bucket, and that this list has each node of the bucket once.
`SoundRemove` and `SoundAdd` are the two routines on a sound table: the bucket of
the node changes, and no pointer of another chain.  That the walk of
`cache_node()` goes along the list is shown by its first step that did not.

**`LocksProofs`** proves `ListIsHeld`, `ExclusiveAlone` and `OpenNotDeleted` for
any number of locks, files and links.  They are inductive with two more facts:
the list is empty and `INHIBIT` in force exactly while there is no volume node,
and without invisible locks every listed lock can be seen by `CreateLock()`.

**`NamesProofs`** proves `EntriesSound` for any names, sizes of blocks and frags,
groups and locks.  Its invariant holds of the volume as a record, so that the
routines of `dir.c` and `inode.c` get lemmas of their own: `SplitTiled`,
`AppendTiled`, `RenumberTiled` and `MergeTiled` say what the four changes of a
directory do to its tiling, `Created`, `Deleted`, `Aside` and `Counted` what a
routine leaves alone, `VolStep` what a packet needs.  `EntriesTile` is not
inductive alone: a deletion merges entries only within a block, which needs that
no entry reaches into the one behind it; `PDeleteObject()` and
`PRenameObject()` must not meet "." and "..", which needs that these are the
first two entries and that no packet names them; and an inode in use must not be
made a directory again, which needs that directories are in use.  `ScanExact`
needs that the lock of the client who lists is on a directory and that nothing
ahead of it moves (`Sees`, `Keeps`).  A new directory is the one case in which a
volume is out of order in the midst of a packet, between `inum_sane()` and the
creation of "..": `DotsMade` shows that both entries are made or neither, and
`SeesUndone` that taking the name back out of the parent leaves its readers where
they were.

The second part of **`NamesProofs`** proves `InodesExact` and `PlacesHold`.  The
names of a volume are seen as the arcs of a graph (`Arcs`): a directory, an offset, and the inode named there.
Whatever a packet does to the volume is then one arc more or less, or two, and
has a lemma of its own about graphs (`RootedLink`, `RootedUnlink`,
`RootedMkdir`, `RootedRmdir`, `RootedMove`, `RootedOver`), link counts
(`TallyAdd`, `TallyDrop`) and inodes in use (`NamedAdd`, `NamedDrop`).
`LinksExact` is not inductive alone.  `Unlinked()` takes two links from a
directory that is deleted and one from its parent, without looking where the
entries are: that these are its name, its "." and its ".." needs that a directory
has one name, that its ".." leads to where that name is (`Rooted`), and that
`dir_is_not_empty()`, which only counts entries, has counted no others
(`OnlyDots`).  `PMakeLink()` links what a lock is on without looking whether it
is in use: the invariant says that it is (`KeysOK`), and is kept by the `Locked`
test of `PDeleteObject()`; a rename frees nothing.  `InodesCounted` needs that
what `inum_new()` finds was free (`Census`, `FreshIs`).  A creation that fails
half way is followed back: the volume is exact again after `inum_free()`,
except that `cs_ndir` may stay too high (`FreshBack`, `BegunBack`).

That no rename closes a circle (`TreeHolds`) is proved without counting steps.
`Reached` says that every set of directories that ".." does not lead out of
(`Climbs`) has the root.  It is inductive because each change of the graph leaves
such sets alone or turns them into smaller ones: when `i` comes to `q`, the test
of `dir_rename()` gives a set with `q` and without `i` that ".." does not lead out
of (`AboveIs`); what a set with `i` in the new graph shares with it is closed in
the old graph, and so has the root (`RootedOver`).  `LockPlaced` needs no more
than that an arc is never moved: `Placed` names the arc behind every lock, `Kept`
says of each packet that the only names that go are of one inode, and that inode
is not locked (`PDeleteObject()`) or its locks have gone astray
(`PRenameObject()`).  `PLocateDots` and `PParent` take the directory from "..":
`UpIs` shows that this is where the name is.

**`AllocProofs`** proves `CountsExact`, `NeverInconsistent` and `SearchesExact`
for blocks of one, two, four or eight frags, any number of groups of any sizes,
whose last blocks may be cut off, any reserved frags, and clusters counted up to
any length or not at all.  A run of free frags lies within a block, so a call changes one
block of the bitmap, and there splits one run into at most two or joins two into
one: `Parts` says which runs begin in a block, `RunsSplit`, `BlocksSplit` and
`LooseSplit` what a split does to the number of runs of each length, of free
blocks, and of free frags in other blocks.  Giving back is the same split, seen
from the other side.  A cluster is a run of blocks and is split by one block;
that the two walks of `cluster_account()`, which stop at the longest length
counted, give the lengths to count is `ClusterSplit`.  `FragCounts` puts the
changes within a block together.

The inductive invariant `Exact` says that the maps have their shape, each group's
counts are those of its bitmap (`GroupRight`), the superblock's counts of a group
are the group's own and its totals their sums, and the volume is not read-only.
`NeverInconsistent` is not inductive without the counts: `block_allocate()`
chooses its group by them, and would find no block where they promise one.
`frags_allocate()` asks it for one certain block and takes it for granted that it
gets that one: `FragsTaken` shows that it does, from a whole block being the one
nearest to itself, so that the undoing at its end is never reached.  `FragsGiven`
joins frags up to a whole block again.  `ScanIs` and `FindIs` say that the search
that leaves early misses nothing: the first block that is further away than one
before it lies past the preferred one, and so does everything after it.  `FragFindIs` says that what
`block_fragblock_find()` returns lies in one block and is free.  At last
`ExactCounts` turns `Exact` into `CountsExact`, which compares with the maps that
`Summary` and `Total` make from nothing.

**`HandlerProofs`** proves `TimingIsTimer`, `OneTimer`, `DirtyHasTimer`,
`StallsCostFrags` and `OnlyExcessWaits` for any number of clients, batch size,
`timer_loops` and cache size.  `TimingIsTimer` is not inductive by itself: the
expiry that ends `timing` must be the only one, which is `OneTimer`.  For
`OnlyExcessWaits` the invariant `Served` counts the clients that have their reply
and did not send again: while there is no signal, every packet served makes one
more; that it does needs that the port holds one packet of each client that waits
(`PortHolds`).

The assumptions are the named ones of the modules: frag addresses are not 0 (the
code uses 0 for "caches nothing"), buffers are finitely many, the least cache
size, batch and bounds are naturals; a directory block has room for any name
(`MAXNAMLEN`), a group has more than the three inodes newfs takes, "." and ".."
are not names that clients give, and the models' values for "none" are none of
the things they stand beside.  Allocation has the geometry that
a superblock gives (`GeometryAssumption`, `ReservedAssumption`): frags per block
are as above, groups begin at multiples of whole blocks, none is longer than the
distance to the next, and address 0 holds no data.

Only model-checked:

* The liveness properties: fairness is out of the prover's reach.
* `FragsOwnedOnce`, `MapsExact`, `ReadsBack` of `Files`: what a file has is
  reached by loops over its blocks and index blocks, which the model states as
  folds of calls, and what a fold computes needs induction over data.  That the
  calls themselves keep the maps exact is proved (`AllocProofs`).
* `Repairs`, `Converges`, `HarmsNothing` of `Fsck`, `Restored`, `NeverPanics`,
  `TablesTell` of `Restore`, `InOrder` and `Restored` of `Tape`: passes and
  processes over trees and records, whose result is again a fold.
* `LayoutSound`, `SumsSound`, `FoundInPlace`, `AttrsShown` of `Mount`: the layout
  is found by loops, and the sums are folds over the groups.

## Not modelled

* Contents of files, comments, formatting, messages, debug output.
* The revival of the handler: its behaviour is not determined by the source.
* `AllocMem()` failing in `cache_cg()` and `CreateLock()`; group numbers past the
  last one; pointers into cache buffers that a later call reuses.
* Volumes whose maps are damaged when they are mounted: `Alloc`, `Files` and
  `Names` start from volumes as newfs leaves them.  Faults of the medium while
  blocks are allocated, or while a file is read or written.
* Sparse files, and directories whose size is not a number of whole frags (made
  by other systems; `dir.c:206`).  Paths of several parts, symbolic links within
  them (`file_find()`).
* The counts per cylinder and rotational position in a group, which the handler
  writes and never reads.
* The quiescent loop's `FREE_LOCK` and `END`, which run without a volume node.
* Rigid disk blocks (`rdb_label_read()` is unfinished), volumes of other systems.
* In fsck indirect blocks, frags, conversions, read errors, answers of no, and
  `preen.c`, which the Amiga build does not call; in newfs the old inode format
  and disk labels; in dump estimates and remote tapes; in restore `-i`, `-x`,
  `-t`, `glob.c` and old tape formats.
* `tunefs`, `dumpfs`, `disklabel`, `rdb`, `bffstool` and the small commands,
  which show or set single fields, send single packets, or copy streams.

## Plan

Done: the modules above, and the proofs about the caches, the packet loop, the
locks, allocation, and everything stated of directories, names and inodes.  What
is left is proof:

1. `LayoutSound` of `Mount` for one size of group.
2. The part of `AttrsShown` of `Mount` that is about attributes alone.
3. `FragsOwnedOnce` of `Files` for files without index blocks, on the lemmas of
   `AllocProofs`.
