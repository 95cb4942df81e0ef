------------------------------ MODULE MCRestore ------------------------------
EXTENDS Restore

CONSTANTS a, b

Inode(t, k) == [type |-> t, data |-> 0, time |-> 0, kids |-> k]
Two(x, y)   == [n \in {a, b} |-> IF n = a THEN x ELSE y]
One(x)      == [n \in {a} |-> x]
Disk(r, i3, i4, i5) == <<Free, Inode("dir", r), i3, i4, i5>>

(* A directory with a file, and a file; a file with two names; a directory *)
(* in a directory.                                                         *)
MCDisks ==
    {[i \in 2..5 |-> d[i]] : d \in
        {Disk(Two(3, 5), Inode("dir", One(4)), Inode("file", <<>>), Inode("file", <<>>)),
         Disk(Two(3, 4), Inode("dir", One(4)), Inode("file", <<>>), Free),
         Disk(Two(3, 5), Inode("dir", One(4)), Inode("dir", <<>>), Inode("file", <<>>))}}
MCSchedule == <<{0}, {1}>>
MCEdits    == <<0, 2>>
==============================================================================
