--------------------------------- MODULE MCTape --------------------------------
EXTENDS Tape

MCObjects ==
    <<[ino |-> 0, type |-> "TS_CLRI", size |-> 2, blks |-> <<>>],
      [ino |-> 1, type |-> "TS_BITS", size |-> 2, blks |-> <<>>],
      [ino |-> 2, type |-> "TS_INODE", size |-> 1, blks |-> <<10>>],
      [ino |-> 3, type |-> "TS_INODE", size |-> 5, blks |-> <<20, 0, 30>>],
      [ino |-> 4, type |-> "special", size |-> 0, blks |-> <<>>],
      [ino |-> 5, type |-> "link", size |-> 1, blks |-> <<>>],
      [ino |-> 6, type |-> "TS_INODE", size |-> 2, blks |-> <<40>>],
      [ino |-> 7, type |-> "TS_INODE", size |-> 11, blks |-> <<0, 50, 60, 70, 80, 90>>]>>

MCUnwanted == {{}, {3}}
Unlimited == 1000
MCRoom(limit, k) == IF k > 2 THEN {Unlimited} ELSE IF limit # 0 THEN {7, Unlimited} ELSE 6..21
================================================================================
