-------------------------------- MODULE MCMount --------------------------------
EXTENDS Mount

(* The options and labels newfs is run with.                               *)
Plain ==
    [fsize |-> 0, bsize |-> 0, fssize |-> 0, cpg |-> 0, cpgflg |-> FALSE, density |-> 0, maxcontig |-> 0,
     nsect |-> 32, ntrak |-> 2, spares |-> 0, trackspares |-> 0, nrpos |-> 8, interleave |-> 1,
     trackskew |-> 0, pfsize |-> 0, pfrag |-> 0, psize |-> 1200, N |-> FALSE, dev |-> "dio"]

Small == [Plain EXCEPT !.fsize = 512, !.bsize = 4096]

(* Sizes about the edges of groups and of their tables.                    *)
Sized ==
    {[Small EXCEPT !.cpg = c, !.fssize = k, !.maxcontig = x] :
        c \in {3, 4}, k \in {40, 64, 80, 97, 191, 192, 250, 256, 257, 263, 288, 300, 320, 385, 512, 600}, x \in {0, 3}}

Tracks ==
    {[Small EXCEPT !.nsect = k[1], !.ntrak = k[2], !.spares = k[3], !.psize = k[4], !.nrpos = r,
                   !.trackspares = s, !.interleave = 1 + s, !.trackskew = s, !.maxcontig = 2] :
        k \in {<<16, 3, 0, 1000>>, <<9, 5, 1, 1500>>, <<11, 4, 0, 1500>>, <<24, 1, 0, 1000>>, <<17, 7, 3, 1100>>},
        r \in {1, 8}, s \in {0, 1}}

Blocks ==
    {[Plain EXCEPT !.fsize = k[1], !.bsize = k[2], !.density = d, !.cpg = c] :
        k \in {<<0, 0>>, <<512, 4096>>, <<1024, 4096>>, <<1024, 8192>>, <<2048, 8192>>, <<4096, 4096>>,
               <<8192, 8192>>, <<512, 8192>>, <<1536, 4096>>, <<8192, 4096>>, <<256, 4096>>, <<512, 2048>>,
               <<1024, 5120>>, <<2048, 16384>>},
        d \in {0, 1024, 4096}, c \in {0, 5}}

Odd ==
    {[Small EXCEPT !.fssize = 2000],                                    \* larger than the partition
     [Small EXCEPT !.psize = 0],
     [Small EXCEPT !.cpg = 1], [Small EXCEPT !.cpg = 7, !.nsect = 9],   \* too few, not a multiple
     [Small EXCEPT !.nsect = 4, !.psize = 2500, !.cpg = 240],           \* more cylinders than the maps hold
     [Small EXCEPT !.nsect = 4, !.psize = 2500, !.cpg = 0, !.nrpos = 60],
     [Small EXCEPT !.nsect = 8, !.psize = 2500, !.nrpos = 900],
     [Plain EXCEPT !.fsize = 8192, !.bsize = 8192, !.density = 1, !.psize = 9000],
     [Plain EXCEPT !.fsize = 1024, !.bsize = 8192, !.density = 64, !.psize = 9000, !.nsect = 64],
     [Plain EXCEPT !.pfsize = 1024, !.pfrag = 4],
     [Small EXCEPT !.N = TRUE, !.dev = "file"]}

MCRequests == Sized \cup Tracks \cup Blocks \cup Odd

(* A disk without a label, and disks with one whose second partition is    *)
(* the volume, after an empty partition and before another; two partitions *)
(* begin within the volume, before a copy of the superblock and behind it; *)
(* on some disks the first one begins there too.                           *)
Bare(o) == [low |-> 100, high |-> 100 + o.psize, kind |-> "none", parts |-> <<>>, at |-> 100,
            reserved |-> 0, ro |-> FALSE, invert |-> FALSE, minfree |-> FALSE, busy |-> FALSE]
Table(o) == [p \in 0..7 |-> CASE p = 0 -> [start |-> 0, size |-> 64]
                              [] p = 1 -> [start |-> 64, size |-> o.psize]
                              [] p = 2 -> [start |-> 64 + o.psize, size |-> 70]
                              [] p = 3 -> [start |-> 0, size |-> o.psize + 500]
                              [] p = 4 -> [start |-> 72, size |-> o.psize]
                              [] p = 6 -> [start |-> 364, size |-> 100]
                              [] OTHER -> [start |-> 0, size |-> 0]]
Tables(o) == {Table(o), [Table(o) EXCEPT ![0] = Table(o)[4]]}
Labelled(o) == {[Bare(o) EXCEPT !.high = @ + 134, !.kind = k, !.parts = t, !.at = 164, !.reserved = r] :
                  k \in {"sun", "bsd"}, t \in Tables(o), r \in {0, 1, 2, 3, 4, 5, 6, 9, 17, 20, 25}}
Used(o) == {[Bare(o) EXCEPT !.busy = TRUE, !.invert = i, !.minfree = i, !.ro = r] : i \in BOOLEAN, r \in BOOLEAN}

MCDrives(o) ==
    {Bare(o)} \cup (IF o.cpg = 4 /\ o.fssize = 300 /\ o.maxcontig = 3 THEN Labelled(o) \cup Used(o)
                   ELSE IF o.bsize = 16384 /\ o.density = 0 THEN Used(o) ELSE {})

MCMasks == {{}, ProtectionBits, {<<"owner", "delete">>}, {<<"group", "write">>, <<"group", "delete">>, File("pure")},
            {<<"other", "read">>, <<"owner", "execute">>, File("archive"), File("script")}}
MCGMT == -8
MCOwners == {0, 7, 40000, 65535}
MCDates == {[days |-> 0, minute |-> 0, tick |-> 0], [days |-> 16000, minute |-> 1439, tick |-> 2999]}
================================================================================
