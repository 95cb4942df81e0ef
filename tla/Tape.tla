---------------------------------- MODULE Tape ---------------------------------
(***************************************************************************)
(* The volumes of a dump: dump's master and its slaves write them          *)
(* (dump/tape.c, traverse.c), restore reads them (restore/tape.c).  This   *)
(* is the build of dump/Makefile, in which the slaves are processes; in    *)
(* the Amiga build the master runs their code itself.                      *)
(*                                                                         *)
(* A record (TP_BSIZE) is a header, data from some sector of the disk, or  *)
(* data handed over by the master.  A block has ntrec records.  The master *)
(* fills the request list of one slave after the other; a slave reads the  *)
(* disk, waits for a signal of the slave before it, writes its block and   *)
(* sends the size it wrote to the master, who looks at it when it is this  *)
(* slave's turn again.  If it was too small the blocks of all the slaves   *)
(* are written once more on the next volume, shifted by the header that    *)
(* begins it.                                                              *)
(*                                                                         *)
(*   todo     how many calls of writeheader(), writerec() and dumpblock()  *)
(*            the master has made, and how much of the last has been queued*)
(*   w        the master's other variables; w.pc, where it is              *)
(*   slots    what the master knows of each slave (struct slave)           *)
(*   slaves   the slave processes: pc, the requests sent to them, the      *)
(*            size they sent back, signals that wait for them              *)
(*   vols     the volumes: the blocks written, the records that fit        *)
(*   r        restore: place on the volumes, tpblksread, the last header,  *)
(*            the file being read, and the calls of readtape() to come     *)
(*   out      what restore has extracted of each inode                     *)
(*                                                                         *)
(* restore runs with -r or -R, which enforce the order of the volumes, and *)
(* takes their block size from the first block.  Up to MaxFaults blocks    *)
(* cannot be read, and the operator has restore go on.  Not modelled: the  *)
(* processes startnewtape() keeps to go back to the beginning of a volume, *)
(* as no slave ever reports the error that would make them (size is never  *)
(* below 0 in doslave()); pipes; remote tapes; conversion of old formats.  *)
(***************************************************************************)
EXTENDS Integers, SequencesExt, FiniteSetsExt, Functions

CONSTANTS
    Objects,        \* what is dumped: maps, directories and files in order
    ntrec,          \* records in a block
    TP_NINDIR,      \* records a header can account for
    tbperdb,        \* records in a block of the disk
    tbperfrag,      \* and in a frag of it
    NDADDR, NINDIR, \* blocks of a file in its inode, and in an indirect block
    Limits,         \* blocksperfile: records per volume, or 0
    Room(_, _),     \* the records that may fit on a volume, by the limit and its number
    Unwanted,       \* the sets of inodes restore may be told to skip
    MaxFaults

SLAVES  == 3
Slaves  == 0..(SLAVES - 1)
NextOf(i) == (i + 1) % SLAVES
PerRecord == 2              \* TP_BSIZE / DEV_BSIZE

ASSUME NtrecAssumption == ntrec \in Nat /\ ntrec > 1
ASSUME HeaderAssumption == {TP_NINDIR, tbperdb, tbperfrag, NDADDR, NINDIR} \subseteq Nat \ {0}
ASSUME BlockAssumption  == TP_NINDIR % tbperdb = 0 /\ tbperdb % tbperfrag = 0

VARIABLES todo, w, slots, slaves, vols, lost, r, out, faults

writing == <<todo, w, slots, slaves, vols, lost>>
reading == <<r, out, faults>>
vars    == <<writing, reading>>

Least(a, b) == IF a < b THEN a ELSE b
With(x, F(_)) == CHOOSE y \in {F(z) : z \in {x}} : TRUE

-----------------------------------------------------------------------------
(* What main() and dumpino() have written: an object is a map or a short   *)
(* symbolic link, whose records the master has, a special file, or a file: *)
(* the blocks on the disk (0: a hole) and its size in records.             *)

DiskRec(d)    == [t |-> "data", d |-> d]
MapRec(o, k)  == [t |-> "map", ino |-> o.ino, k |-> k]
NoRec         == [t |-> "none"]
Hole          == [t |-> "hole"]

WriteHead(type, ino, addr, size) ==
    <<[call |-> "writeheader", rec |-> [t |-> type, ino |-> ino, addr |-> addr, size |-> size]]>>
WriteRec(call, o, k) == [call |-> call, rec |-> MapRec(o, k)]
DumpBlock(d, n)  == [call |-> "dumpblock", dblk |-> d, n |-> n]

dumpmap(o) ==
    WriteHead(o.type, o.ino, [k \in 1..o.size |-> 0], o.size) \o [k \in 1..o.size |-> WriteRec("maprec", o, k)]

shortlink(o) == WriteHead("TS_INODE", o.ino, <<1>>, 1) \o <<WriteRec("writerec", o, 1)>>

(* blksout(), for n records from record b of the file: one header for      *)
(* TP_NINDIR of them at a time.                                            *)
BlockOf(o, k) == o.blks[k \div tbperdb + 1]
Described(o, b, count) ==
    LET first == {j \in 0..(count - 1) : j % tbperdb = 0 /\ BlockOf(o, b + j) # 0}
    IN  WriteHead(IF b = 0 THEN "TS_INODE" ELSE "TS_ADDR", o.ino,
                  [j \in 1..count |-> IF BlockOf(o, b + j - 1) # 0 THEN 1 ELSE 0], o.size)
        \o [k \in 1..Cardinality(first) |->
              LET j == SetToSortSeq(first, <)[k]
              IN  DumpBlock(BlockOf(o, b + j), Least(tbperdb, count - j))]
blksout(o, b, n) ==
    FlattenSeq([k \in 1..((n + TP_NINDIR - 1) \div TP_NINDIR) |->
        Described(o, b + (k - 1) * TP_NINDIR, Least(n - (k - 1) * TP_NINDIR, TP_NINDIR))])

(* dmpindir(): a call of blksout() for each indirect block; the first one  *)
(* is for the blocks in the inode.                                         *)
Rounded(n)   == ((n + tbperfrag - 1) \div tbperfrag) * tbperfrag
FirstOf(k)   == IF k = 1 THEN 0 ELSE (NDADDR + (k - 2) * NINDIR) * tbperdb
dmpindir(o, k) == blksout(o, FirstOf(k), Least(Rounded(o.size), FirstOf(k + 1)) - FirstOf(k))

dumpino(o) ==
    IF o.size = 0 \/ o.type = "special" THEN WriteHead("TS_INODE", o.ino, <<>>, 0)
    ELSE FlattenSeq([k \in 1..Cardinality({k \in 1..o.size : FirstOf(k) < o.size}) |-> dmpindir(o, k)])

DumpOf(o) == CASE o.type \in {"TS_CLRI", "TS_BITS"} -> dumpmap(o)
               [] o.type = "link" -> shortlink(o)
               [] OTHER -> dumpino(o)
maxino == 1 + Max({Objects[k].ino : k \in DOMAIN Objects})

(* ntrec times the same header, as main() has it.                          *)
Ends   == WriteHead("TS_END", maxino - 1, <<>>, 0) \o [k \in 1..(ntrec - 1) |-> [call |-> "spcl"]]
Calls  == FlattenSeq([k \in DOMAIN Objects |-> DumpOf(Objects[k])]) \o Ends

-----------------------------------------------------------------------------
(* A request: a record the master has, or count records from sector dblk.  *)
Given(rec)        == [dblk |-> 0, count |-> 1, rec |-> rec]
FromDisk(d, n)    == [dblk |-> d, count |-> n, rec |-> NoRec]
Records(req)      == IF req.dblk = 0 THEN <<req.rec>>
                     ELSE [k \in 1..req.count |-> DiskRec(req.dblk + (k - 1) * PerRecord)]
BlockOfReqs(list) == FlattenSeq([k \in DOMAIN list |-> Records(list[k])])

(* writerec(): a record into the buffer of the slave in turn.  The first   *)
(* of a list goes to the beginning of its buffer.                          *)
Queue(s, req) ==
    [s EXCEPT !.req = Append(@, req),
              !.buf0 = IF req.dblk = 0 /\ \A k \in DOMAIN s.req : s.req[k].dblk # 0 THEN req.rec ELSE @]

-----------------------------------------------------------------------------
(* doslave(): the block is put together, then written when the slave       *)
(* before has signalled; proceed() leaves or counts the signal.            *)
SlaveRead(i) ==
    /\ slaves[i].pc = "read" /\ slaves[i].in # <<>>
    /\ slaves' = [slaves EXCEPT ![i].pc = "sync", ![i].block = BlockOfReqs(slaves[i].in), ![i].in = <<>>]
    /\ UNCHANGED <<todo, w, slots, vols, lost, reading>>

(* Mutant: the slave goes on without the signal.                             *)
proceedAlways(i) == TRUE

proceed(i) == slaves[i].caught > 0

SlaveSync(i) ==
    /\ slaves[i].pc = "sync" /\ proceed(i)
    /\ slaves' = [slaves EXCEPT ![i].pc = "write", ![i].caught = 0]
    /\ UNCHANGED <<todo, w, slots, vols, lost, reading>>

(* The write.  A volume takes the records that still fit; the size is 0 if *)
(* it did not take all.                                                    *)
Fitting(v, block) == SubSeq(block, 1, Least(Len(block), v.room - v.used))
SlaveWrite(i) ==
    /\ slaves[i].pc = "write"
    /\ \E part \in {Fitting(Last(vols), slaves[i].block)} :
         /\ vols' = [vols EXCEPT ![Len(vols)].blocks = IF part = <<>> THEN @ ELSE Append(@, part),
                                 ![Len(vols)].used = @ + Len(part)]
         /\ slaves' = [slaves EXCEPT ![i].pc = "kill", ![i].block = <<>>,
                                     ![i].back = <<IF Len(part) = ntrec THEN ntrec ELSE 0>>]
    /\ UNCHANGED <<todo, w, slots, lost, reading>>

(* Mutant: the next slave is left asleep after a partial write.              *)
SignalledFull(i) == IF slaves[i].back = <<0>> THEN 0 ELSE 1

Signalled(i) == 1
SlaveKill(i) ==
    /\ slaves[i].pc = "kill"
    /\ slaves' = [slaves EXCEPT ![i].pc = "read", ![NextOf(i)].caught = @ + Signalled(i)]
    /\ UNCHANGED <<todo, w, slots, vols, lost, reading>>

-----------------------------------------------------------------------------
(* The master.  writeheader(), writerec() and one turn of dumpblock().     *)
Call == Calls[todo.at]
Cutoff == Call.call = "maprec" /\ Call.rec.k > w.spcl.count

(* spcl: the header last filled in.  A call of writeheader() fills it in,  *)
(* and so does a new volume, which shows where it is used again.           *)
Spcl(call) ==
    IF call.call # "writeheader" THEN w.spcl
    ELSE [rec |-> call.rec, count |-> Len(call.rec.addr),
          addr |-> [k \in 1..TP_NINDIR |-> IF k \in DOMAIN call.rec.addr /\ call.rec.t \in {"TS_INODE", "TS_ADDR"}
                                           THEN call.rec.addr[k] ELSE w.spcl.addr[k]]]

Filled(x, n) == [x EXCEPT !.trecno = @ + n, !.tapea = @ + n, !.pc = IF x.trecno + n >= ntrec THEN "flush" ELSE @]

writerec ==
    /\ w.pc = "fill" /\ todo.at <= Len(Calls) /\ Call.call # "dumpblock" /\ ~Cutoff
    /\ w' = Filled([w EXCEPT !.spcl = Spcl(Call),
                             !.lastspclrec = IF Call.call \in {"writeheader", "spcl"} THEN w.tapea ELSE @], 1)
    /\ slots' = [slots EXCEPT ![w.slp] = Queue(@, Given(IF Call.call = "spcl" THEN w.spcl.rec ELSE Call.rec))]
    /\ todo' = [at |-> todo.at + 1, done |-> 0]
    /\ UNCHANGED <<slaves, vols, lost, reading>>

(* dumpmap() goes on for as long as spcl says, and a volume begun in the   *)
(* middle of the map has left another count there: the rest is not dumped. *)
mapEnds ==
    /\ w.pc = "fill" /\ todo.at <= Len(Calls) /\ Cutoff
    /\ todo' = [at |-> todo.at + 1, done |-> 0]
    /\ lost' = TRUE
    /\ UNCHANGED <<w, slots, slaves, vols, reading>>

dumpblock ==
    /\ w.pc = "fill" /\ todo.at <= Len(Calls) /\ Call.call = "dumpblock"
    /\ \E avail \in {Least(Call.n - todo.done, ntrec - w.trecno)} :
         /\ w' = Filled(w, avail)
         /\ slots' = [slots EXCEPT ![w.slp] = Queue(@, FromDisk(Call.dblk + todo.done * PerRecord, avail))]
         /\ todo' = IF todo.done + avail = Call.n THEN [at |-> todo.at + 1, done |-> 0]
                    ELSE [todo EXCEPT !.done = @ + avail]
    /\ UNCHANGED <<slaves, vols, lost, reading>>

(* flushtape(): the list is sent; then the answer of the next slave is     *)
(* waited for, if there is one due.                                        *)
flushtape ==
    /\ w.pc = "flush"
    /\ slaves' = [slaves EXCEPT ![w.slp].in = slots[w.slp].req]
    /\ slots' = [slots EXCEPT ![w.slp].sent = TRUE]
    /\ w' = [w EXCEPT !.pc = "answer", !.slp = NextOf(@)]
    /\ UNCHANGED <<todo, vols, lost, reading>>

Due(S)      == \A i \in S : slots[i].sent => slaves[i].back # <<>>
Answers(S)  == {slaves[i].back[1] : i \in {j \in S : slots[j].sent}}
Heard(S)    == [i \in Slaves |-> IF i \in S THEN [slaves[i] EXCEPT !.back = <<>>] ELSE slaves[i]]
Before(i)   == (i + SLAVES - 1) % SLAVES

(* What is left of the current file's data when a block begins.            *)
LeftOf(x) ==
    LET blks == IF x.spcl.rec.t = "TS_END" THEN 0
                ELSE Cardinality({k \in 1..x.spcl.count : x.spcl.addr[k] # 0})
    IN  x.lastspclrec + blks + 1 - x.tapea

NextList ==
    [slots[w.slp] EXCEPT !.req = <<>>, !.sent = FALSE, !.count = LeftOf(w), !.tapea = w.tapea,
                         !.firstrec = slots[Before(w.slp)].firstrec + ntrec]
answer ==
    /\ w.pc = "answer" /\ Due({w.slp})
    /\ slaves' = Heard({w.slp})
    /\ IF Answers({w.slp}) \subseteq {ntrec}
       THEN /\ slots' = [slots EXCEPT ![w.slp] = NextList]
            /\ w' = [w EXCEPT !.trecno = 0, !.blocksthisvol = @ + ntrec,
                              !.pc = IF w.limit # 0 /\ w.blocksthisvol + ntrec >= w.limit THEN "rewind" ELSE "fill"]
       ELSE /\ slots' = [slots EXCEPT ![w.slp].sent = FALSE]
            /\ w' = [w EXCEPT !.pc = "drain"]
    /\ UNCHANGED <<todo, vols, lost, reading>>

(* trewind(): the answers still due must be good.  The slaves end.         *)
Ended == \A i \in Slaves : slaves[i].pc = "read" /\ slaves[i].in = <<>>

-----------------------------------------------------------------------------
(* startnewtape(): the volume, new slaves (enslave()), the volume header.  *)
NewSlave(first) == [pc |-> "read", in |-> <<>>, block |-> <<>>, back |-> <<>>, caught |-> IF first THEN 1 ELSE 0]
VolHead(s, volume) == [t |-> "TS_TAPE", volume |-> volume, firstrec |-> s.firstrec, count |-> s.count]
NewVol(room, eot) == [blocks |-> <<>>, used |-> 0, room |-> room, again |-> eot]

Opened(room, eot) == vols' = Append(vols, NewVol(room, eot))
enslave == [i \in Slaves |-> NewSlave(i = w.slp)]

(* spcl is the volume's header afterwards, with the addresses of the file. *)
startnewtape(x, s) ==
    [x EXCEPT !.volume = @ + 1, !.blocksthisvol = 0, !.spcl.rec = VolHead(s, x.volume + 1), !.spcl.count = s.count]

Changed(room) ==
    /\ slots' = [i \in Slaves |-> [(IF i = w.slp THEN Queue(slots[i], Given(VolHead(slots[i], w.volume + 1))) ELSE slots[i])
                                   EXCEPT !.sent = FALSE]]
    /\ slaves' = enslave
    /\ Opened(room, FALSE)
    /\ w' = [Filled(startnewtape(w, slots[w.slp]), 1) EXCEPT !.pc = "fill", !.lastspclrec = w.tapea]

(* The first volume, and one that follows a volume with as many records as *)
(* were asked for.                                                         *)
rewind(room) ==
    /\ w.pc = "rewind" /\ Due(Slaves) /\ Ended
    /\ IF Answers(Slaves) \subseteq {ntrec} THEN Changed(room)
       ELSE w' = [w EXCEPT !.pc = "quit"] /\ UNCHANGED <<slots, slaves, vols>>
    /\ UNCHANGED <<todo, lost, reading>>

(* The answers are thrown away; close_rewind() has nothing to wait for.    *)
drain ==
    /\ w.pc = "drain" /\ Due(Slaves) /\ Ended
    /\ slots' = [i \in Slaves |-> [slots[i] EXCEPT !.sent = FALSE]]
    /\ slaves' = Heard(Slaves)
    /\ w' = [w EXCEPT !.pc = "roll"]
    /\ UNCHANGED <<todo, vols, lost, reading>>

(* rollforward(): the lists of all slaves, from the one that failed on,    *)
(* are sent again.  Each begins with what the one before ended with.       *)
Cut(list) ==        \* a list without its last record
    LET q == Last(list)
    IN  IF q.count > 1 THEN Append(Front(list), FromDisk(q.dblk, q.count - 1)) ELSE Front(list)

Carried(list) ==
    LET q == Last(list) IN IF q.dblk = 0 THEN q ELSE FromDisk(q.dblk + (q.count - 1) * PerRecord, 1)

List(k) == slots[(w.slp + k) % SLAVES].req
Again(k) == <<IF k = 0 THEN Given(VolHead(slots[w.slp], w.volume + 1)) ELSE Carried(List(k - 1))>> \o Cut(List(k))

(* The last record of all begins the list in hand.  If it is one the       *)
(* master had, it is left in the buffer the lists were put together in,    *)
(* and the slave in turn gets what its own begins with: the record is lost.*)
rollforward(room) ==
    /\ w.pc = "roll"
    /\ Opened(room, TRUE)
    /\ slaves' = [i \in Slaves |-> [enslave[i] EXCEPT !.in = Again((i + SLAVES - w.slp) % SLAVES)]]
    /\ \E q \in {Carried(List(SLAVES - 1))} :
       \E got \in {IF q.dblk = 0 THEN Given(slots[w.slp].buf0) ELSE q} :
         /\ slots' = [i \in Slaves |-> [slots[i] EXCEPT !.sent = TRUE, !.req = IF i = w.slp THEN <<got>> ELSE @]]
         /\ lost' = (lost \/ got # q)
    /\ w' = [startnewtape(w, slots[w.slp]) EXCEPT !.trecno = 1, !.lastspclrec = w.tapea - 1, !.pc = "first"]
    /\ UNCHANGED <<todo, reading>>

(* One hopes that it worked.                                               *)
firstAnswer ==
    /\ w.pc = "first" /\ Due({w.slp})
    /\ slaves' = Heard({w.slp})
    /\ slots' = [slots EXCEPT ![w.slp].sent = FALSE]
    /\ w' = [w EXCEPT !.pc = IF Answers({w.slp}) = {ntrec} THEN "fill" ELSE "quit"]
    /\ UNCHANGED <<todo, vols, lost, reading>>

(* The end of main().                                                      *)
finish ==
    /\ w.pc = "fill" /\ todo.at > Len(Calls) /\ Due(Slaves) /\ Ended
    /\ w' = [w EXCEPT !.pc = IF Answers(Slaves) \subseteq {ntrec} THEN "done" ELSE "quit"]
    /\ UNCHANGED <<todo, slots, slaves, vols, lost, reading>>

-----------------------------------------------------------------------------
(* restore.  readtape() gives the next record of the volume; at its end    *)
(* getvol() has the next mounted.  calls are the calls of readtape() and   *)
(* gethead() to come, each with what it is for.                            *)

None == -1
Zeroed == [t |-> "zeroed"]              \* from a block that could not be read
IsHead(rec) == rec.t \in {"TS_TAPE", "TS_CLRI", "TS_BITS", "TS_INODE", "TS_ADDR", "TS_END"}
Blocks  == vols[r.vol].blocks
AtEnd   == r.blk > Len(Blocks)
Record  == IF r.bad THEN Zeroed ELSE Blocks[r.blk][r.pos]
Delivered(x) == IF x.bad THEN ntrec ELSE Len(Blocks[x.blk])
Passed(x) ==
    With([x EXCEPT !.tpblksread = @ + 1, !.pos = @ + 1], LAMBDA y :
        IF y.pos <= Delivered(y) THEN y ELSE [y EXCEPT !.blk = @ + 1, !.pos = 1, !.bad = FALSE])

Task(for, n) == <<[for |-> for, n |-> n]>>
Skip(n)      == IF n > 0 THEN Task("skip", n) ELSE <<>>

(* A block that cannot be read counts as a full one of zeros, also when it *)
(* was the short one at the end of its volume.                             *)
readError ==
    /\ r.pc = "read" /\ ~AtEnd /\ r.pos = 1 /\ ~r.bad /\ faults < MaxFaults
    /\ faults' = faults + 1
    /\ r' = [r EXCEPT !.bad = TRUE, !.hurt = @ \cup ToSet(Blocks[r.blk])]
    /\ UNCHANGED <<writing, out>>

(* getvol(), as far as the header of the next volume; with none left the   *)
(* operator says so.                                                       *)
getvol ==
    /\ r.pc = "read" /\ AtEnd /\ r.vol < Len(vols)
    /\ r' = [r EXCEPT !.vol = @ + 1, !.blk = 1, !.pos = 1, !.calls = Task("volume", 1) \o @]
    /\ UNCHANGED <<writing, out, faults>>

terminateinput ==
    /\ r.pc = "read" /\ AtEnd /\ r.vol = Len(vols)
    /\ r' = [r EXCEPT !.pc = "stopped"]
    /\ UNCHANGED <<writing, out, faults>>


(* The records of the volume that have been read on the one before.        *)
Duplicates(firstrec, tpblksread) ==
    IF firstrec > 0 /\ firstrec < tpblksread - 1 THEN tpblksread - firstrec - 1 ELSE 0

(* On a volume that takes up where one met its end of tape the rest of the *)
(* file is found among the duplicates, and passed over once more; and a    *)
(* short block that could not be read was counted in full.                 *)
PassedOver(x, n) ==
    LET recs == FlattenSeq(vols[x.vol].blocks)
    IN  {recs[k] : k \in DOMAIN recs \cap 2..(n + 1)}

(* The rest of getvol(): in a file that is not extracted, on to the next.  *)
(* A volume whose header cannot be read is mounted again; the record read  *)
(* in vain stays counted.                                                  *)
volumeHead(rec, x) ==
    IF rec.t = "TS_TAPE"
    THEN [x EXCEPT !.calls =
            Skip(Duplicates(rec.firstrec, x.tpblksread))
            \o IF x.action = "USING" THEN Tail(x.calls) ELSE Skip(rec.count) \o Task("resync", 1),
                   !.hurt = IF x.action = "USING" \/ ~vols[x.vol].again THEN @
                            ELSE @ \cup PassedOver(x, Duplicates(rec.firstrec, x.tpblksread) + rec.count)]
    ELSE IF x.vol = 1 THEN [x EXCEPT !.pc = "stopped"]
    ELSE [x EXCEPT !.blk = 1, !.pos = 1, !.bad = FALSE, !.astray = TRUE]

(* findinode(): headers are read until one begins a file.                  *)
findinode(x) ==
    CASE ~IsHead(x.spcl)        -> [x EXCEPT !.action = "UNKNOWN", !.calls = Task("resync", 1)]
      [] x.spcl.t = "TS_ADDR"   -> [x EXCEPT !.action = "UNKNOWN",
                                             !.calls = Skip(Cardinality({k \in DOMAIN x.spcl.addr : x.spcl.addr[k] # 0}))
                                                       \o Task("resync", 1)]
      [] x.spcl.t = "TS_TAPE"   -> [x EXCEPT !.pc = "panic", !.calls = <<>>]
      [] OTHER                  -> [x EXCEPT !.pc = "file", !.action = "UNKNOWN", !.calls = <<>>]

(* getfile(): the records a header accounts for, and then the next header. *)
(* Holes are passed over at once; what lies behind the size of the file is *)
(* read and thrown away.                                                   *)
Here(x)  == {j \in x.i..Len(x.spcl.addr) : x.spcl.t \in {"TS_CLRI", "TS_BITS"} \/ x.spcl.addr[j] # 0}
getfile(x) ==
    With(Min(Here(x) \cup {Len(x.spcl.addr) + 1}), LAMBDA n :
    With(Least(x.left, n - x.i), LAMBDA holes :
        [x EXCEPT !.i = n, !.left = @ - holes, !.got = @ \o [k \in 1..holes |-> Hole],
                  !.calls = Task(IF n <= Len(x.spcl.addr) THEN "data" ELSE "header", 1)]))

(* xtrfile(), xtrmap(), xtrlnkfile(): a record of the file.                *)
data(rec, x) ==
    getfile([x EXCEPT !.i = @ + 1, !.left = IF @ > 0 THEN @ - 1 ELSE 0,
                      !.got = IF x.left > 0 THEN Append(@, rec) ELSE @])

(* The header behind: more of the file, or the next one.                   *)
header(rec, x) ==
    IF rec.t = "TS_ADDR" /\ x.left > 0 THEN getfile([x EXCEPT !.spcl = rec, !.i = 1])
    ELSE findinode([x EXCEPT !.spcl = rec])

gethead(rec, x) == findinode([x EXCEPT !.spcl = rec])

Used(rec, x, call) ==
    CASE call.for = "volume" -> volumeHead(rec, x)
      [] call.for = "skip"   -> [x EXCEPT !.calls = Skip(call.n - 1) \o Tail(@)]
      [] call.for = "data"   -> data(rec, x)
      [] call.for = "header" -> header(rec, x)
      [] call.for = "resync" -> gethead(rec, x)

readtape ==
    /\ r.pc = "read" /\ ~AtEnd
    /\ r' = Used(Record, Passed(r), Head(r.calls))
    /\ UNCHANGED <<writing, out, faults>>

(* extractfile() or skipfile(), for the file whose header was found; what  *)
(* was read of the one before is complete.  A special file is made and     *)
(* then skipped.                                                           *)
Special == {Objects[k].ino : k \in {j \in DOMAIN Objects : Objects[j].type = "special"}}
Closed == IF r.open = None THEN out ELSE [out EXCEPT ![r.open] = @ \o <<r.got>>]

(* setup() ends restore if the maps are not the first two.                 *)
Expected == CASE r.maps = 0 -> r.spcl.t = "TS_CLRI" [] r.maps = 1 -> r.spcl.t = "TS_BITS" [] OTHER -> TRUE
noMap ==
    /\ r.pc = "file" /\ ~Expected
    /\ r' = [r EXCEPT !.pc = "stopped"]
    /\ UNCHANGED <<writing, out, faults>>

extractfile ==
    /\ r.pc = "file" /\ r.spcl.t # "TS_END" /\ Expected
    /\ \E skipped \in {r.spcl.t = "TS_INODE" /\ r.spcl.ino \in r.unwanted} :
         r' = getfile([r EXCEPT !.pc = "read", !.action = IF skipped \/ r.spcl.ino \in Special THEN "SKIP" ELSE "USING", !.i = 1,
                                !.left = r.spcl.size, !.maps = Least(@ + 1, 2), !.got = <<>>, !.open = IF skipped THEN None ELSE r.spcl.ino])
    /\ out' = Closed
    /\ UNCHANGED <<writing, faults>>

endOfTape ==
    /\ r.pc = "file" /\ r.spcl.t = "TS_END" /\ Expected
    /\ r' = [r EXCEPT !.pc = "ended", !.open = None]
    /\ out' = Closed
    /\ UNCHANGED <<writing, faults>>

(* setup(): the header of the first volume, then that of the first map.    *)
setup ==
    /\ w.pc = "done" /\ r.pc = "setup"
    /\ \E s \in Unwanted :
         r' = [r EXCEPT !.pc = "read", !.calls = Task("volume", 1) \o Task("resync", 1), !.action = "USING", !.unwanted = s]
    /\ UNCHANGED <<writing, out, faults>>

-----------------------------------------------------------------------------
Init ==
    /\ todo = [at |-> 1, done |-> 0]
    /\ w \in [pc : {"rewind"}, slp : {0}, trecno : {0}, tapea : {0}, lastspclrec : {0},
              blocksthisvol : {0}, limit : Limits, volume : {0},
              spcl : {[rec |-> NoRec, count |-> 0, addr |-> [k \in 1..TP_NINDIR |-> 0]]}]
    /\ slots = [i \in Slaves |-> [req |-> <<>>, buf0 |-> NoRec, sent |-> FALSE, count |-> 1, tapea |-> 0,
                                  firstrec |-> 0]]
    /\ slaves = [i \in Slaves |-> NewSlave(FALSE)]
    /\ vols = <<>> /\ lost = FALSE
    /\ r = [pc |-> "setup", vol |-> 1, blk |-> 1, pos |-> 1, bad |-> FALSE, hurt |-> {}, tpblksread |-> 0, spcl |-> NoRec,
            action |-> "UNKNOWN", calls |-> <<>>, i |-> 1, left |-> 0, got |-> <<>>, open |-> None,
            unwanted |-> {}, maps |-> 0, astray |-> FALSE]
    /\ out = [i \in 0..maxino |-> <<>>] /\ faults = 0

Master == writerec \/ mapEnds \/ dumpblock \/ flushtape \/ answer \/ drain \/ firstAnswer \/ finish
NewTape == \E room \in Room(w.limit, Len(vols) + 1) : rewind(room) \/ rollforward(room)
Slave(i) == SlaveRead(i) \/ SlaveSync(i) \/ SlaveWrite(i) \/ SlaveKill(i)
Restore == setup \/ getvol \/ terminateinput \/ readtape \/ noMap \/ extractfile \/ endOfTape

Next == Master \/ NewTape \/ (\E i \in Slaves : Slave(i)) \/ Restore \/ readError
Spec == Init /\ [][Next]_vars

(* The processes run, and somebody mounts the volumes dump asks for.       *)
Fairness == WF_vars(Master) /\ WF_vars(NewTape) /\ (\A i \in Slaves : WF_vars(Slave(i))) /\ WF_vars(Restore)
FairSpec == Spec /\ Fairness

-----------------------------------------------------------------------------
(* The records that ought to be on the volumes.                            *)
RecordsOf(call) == CASE call.call = "dumpblock" -> Records(FromDisk(call.dblk, call.n))
                     [] call.call = "spcl" -> <<Ends[1].rec>>
                     [] OTHER -> <<call.rec>>
Dumped == FlattenSeq([k \in DOMAIN Calls |-> RecordsOf(Calls[k])])
OnVolume(v) == FlattenSeq(v.blocks)

(* Contents of a file.                                                     *)
Contents(o) ==
    IF o.type \notin {"TS_INODE", "special"} THEN [k \in 1..o.size |-> MapRec(o, k)]
    ELSE [k \in 1..o.size |-> IF BlockOf(o, k - 1) = 0 THEN Hole
                              ELSE DiskRec(BlockOf(o, k - 1) + ((k - 1) % tbperdb) * PerRecord)]

(* Not claimed, since the code does not do it: that the last record of a   *)
(* volume that met its end of tape is kept if the master had it (lost);    *)
(* that volumes are read back after one that took up where a volume met    *)
(* its end of tape, whose header does not count the records it repeats;    *)
(* that restore is where it thinks it is when the header of a volume was   *)
(* read twice (astray).                                                    *)
AfterEot == \E k \in DOMAIN vols : vols[k].again /\ k < Len(vols)

(* Where the records of a volume, up to an end of tape record, are among   *)
(* those that were dumped.                                                 *)
IsEnd(rec)  == rec.t = "TS_END"
HasEnd(k)   == SelectInSeq(OnVolume(vols[k]), IsEnd) # 0
Piece(k)    == LET recs == Tail(OnVolume(vols[k]))
               IN  IF HasEnd(k) THEN SubSeq(recs, 1, SelectInSeq(recs, IsEnd)) ELSE recs
IsAt(p, j)  == j + Len(p) - 1 <= Len(Dumped) /\ p = SubSeq(Dumped, j, j + Len(p) - 1)
Begins(k)   == CHOOSE j \in 1..Len(Dumped) : IsAt(Piece(k), j)

(* InOrder: however the slaves take turns, each volume holds its header    *)
(* and then a piece of what was dumped, in order, that begins no later     *)
(* than where the volume before ended; when dump says it is done they hold *)
(* an end of tape record.                                                  *)
InOrder ==
    ~lost /\ ~AfterEot =>
    /\ \A k \in DOMAIN vols : vols[k].blocks # <<>> =>
         /\ OnVolume(vols[k])[1].t = "TS_TAPE" /\ OnVolume(vols[k])[1].volume = k
         /\ Piece(k) # <<>> /\ (\A l \in 1..(k - 1) : ~HasEnd(l)) => \E j \in 1..Len(Dumped) :
              IsAt(Piece(k), j) /\ (IF k = 1 THEN j = 1 ELSE j <= Begins(k - 1) + Len(Piece(k - 1)))
    /\ w.pc = "done" => \E k \in DOMAIN vols : HasEnd(k)

(* Restored: every file and map none of whose records was in a block that  *)
(* could not be read, or passed over when a volume took up after an end of *)
(* tape while no file was extracted (hurt), comes back as it was, once,    *)
(* over all changes of volumes.  restore stops early only when a block could not be read, and  *)
(* panics only when that was the end of tape record: a volume begun among  *)
(* those has turned the others into volume headers.                        *)
PartsOf(o)  == {rec \in ToSet(Dumped) : IF rec.t = "data" THEN rec \in ToSet(Contents(o))
                                           ELSE rec.t # "TS_END" /\ rec.ino = o.ino}
Restored ==
    ~lost /\ ~AfterEot /\ ~r.astray =>
    /\ r.pc = "panic" => \E rec \in r.hurt : IsEnd(rec)
    /\ r.pc = "stopped" => faults > 0
    /\ r.pc = "ended" => \A k \in DOMAIN Objects :
         Objects[k].ino \notin r.unwanted /\ PartsOf(Objects[k]) \cap r.hurt = {} => out[Objects[k].ino] = <<Contents(Objects[k])>>

(* Finishes: dump comes to its end, no slave and not the master waiting    *)
(* for another for good, and so does restore.                              *)
Finishes == <>(w.pc = "quit" \/ r.pc \in {"ended", "stopped", "panic"})
================================================================================
