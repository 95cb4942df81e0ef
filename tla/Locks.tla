-------------------------------- MODULE Locks --------------------------------
(***************************************************************************)
(* The locks and file handles that clients hold (fs/system.c, the lock     *)
(* packets of fs/packets.c).  The handler finds conflicts in dl_LockList,  *)
(* which hangs on the volume node and goes with it.                        *)
(*                                                                         *)
(*   list       dl_LockList, the newest lock first                         *)
(*   fl_Key, fl_Access   as in the code, for every lock                    *)
(*   held       the locks that clients have and did not give back          *)
(*   mode       access_mode of the lock's file handle: "none" without one  *)
(*   exists     the inodes in use                                          *)
(*   VolNode    whether there is a volume node                             *)
(*   inhibited  as in the code                                             *)
(*   current    history variable: the locks on objects that were found on  *)
(*              the volume as it is mounted now                            *)
(*   loose      history variable: whether a client ever had an invisible   *)
(*              lock, or one that moved from a symbolic link to its file   *)
(***************************************************************************)
EXTENDS Naturals, Sequences, FiniteSets, Lists

CONSTANTS
    Lock,           \* lock structures; memory has room for these
    Inode,          \* inode numbers of files
    Link,           \* inode numbers of symbolic links
    Points,         \* the file that each of them leads to
    Modes,          \* the access modes that LOCATE_OBJECT packets ask for
    MaxInhibit      \* bound on inhibited

ASSUME LockAssumption  == IsFiniteSet(Lock)
ASSUME LinkAssumption  == Link \cap Inode = {} /\ Points \in [Link -> Inode]
ASSUME ModesAssumption == Modes \subseteq {"exclusive", "shared", "invisible"}

Key == Inode \cup Link

VARIABLES list, fl_Key, fl_Access, held, mode, exists, VolNode, inhibited,
          current, loose

vars == <<list, fl_Key, fl_Access, held, mode, exists, VolNode, inhibited,
          current, loose>>

Unused == Lock \ (Elems(list) \cup held)

-----------------------------------------------------------------------------
(* CreateLock() looks at the newest lock with this key, and no further.    *)
(* The access mode 0, "invisible", counts as no lock.                      *)
Matching(k) == {i \in 1..Len(list) : fl_Key[list[i]] = k}

(* (Mutant: only the head of the list is looked at.)                       *)
HeadAccess(k) ==
    IF Matching(k) = {} \/ fl_Key[list[1]] # k THEN "invisible"
    ELSE fl_Access[list[1]]

Access(k) ==
    IF Matching(k) = {} THEN "invisible"
    ELSE fl_Access[list[CHOOSE i \in Matching(k) : \A j \in Matching(k) : i <= j]]

Allowed(k, access) ==
    CASE access = "exclusive" -> Access(k) = "invisible"
      [] access = "invisible" -> TRUE
      [] OTHER                -> Access(k) # "exclusive"

CreateLock(l, k, access, handle) ==
    /\ VolNode
    /\ Allowed(k, access)
    /\ l \in Unused
    /\ list' = <<l>> \o list
    /\ fl_Key' = [fl_Key EXCEPT ![l] = k]
    /\ fl_Access' = [fl_Access EXCEPT ![l] = access]
    /\ held' = held \cup {l}
    /\ mode' = [mode EXCEPT ![l] = handle]
    /\ loose' = (loose \/ access = "invisible")
    /\ UNCHANGED <<VolNode, inhibited>>

Found(l) == current' = current \cup {l}

(* FreeLock() of a lock that a client gives back.  One that is not in the  *)
(* list stays allocated; nobody has it any more.                           *)
(* (Mutant: it unlinks the head of the list.)                              *)
FreeLockHead(l) ==
    /\ list' = IF l \in Elems(list) THEN Tail(list) ELSE list
    /\ held' = held \ {l}
    /\ current' = current \ {l}
    /\ mode' = [mode EXCEPT ![l] = "none"]

FreeLock(l) ==
    /\ list' = IF l \in Elems(list) THEN Without(list, l) ELSE list
    /\ held' = held \ {l}
    /\ current' = current \ {l}
    /\ mode' = [mode EXCEPT ![l] = "none"]

-----------------------------------------------------------------------------
(* The packets.  All but INHIBIT and DISK_CHANGE are answered only while   *)
(* the volume is there.                                                    *)

(* Also PParent(), which asks for a shared lock.                           *)
PLocateObject(l, k, access) ==
    /\ k \in exists
    /\ CreateLock(l, k, access, "none")
    /\ Found(l)
    /\ UNCHANGED exists

PCopyDir(l, m) ==
    /\ m \in held
    /\ CreateLock(l, fl_Key[m], fl_Access[m], "none")
    /\ current' = IF m \in current THEN current \cup {l} ELSE current
    /\ UNCHANGED exists

PFindInput(l, k) ==
    /\ k \in exists \cap Inode
    /\ CreateLock(l, k, "shared", "read")
    /\ Found(l)
    /\ UNCHANGED exists

(* The file is there, or is created with an inode that is not in use.      *)
PFindOutput(l, k) ==
    /\ k \in Inode
    /\ CreateLock(l, k, "exclusive", "read")
    /\ Found(l)
    /\ exists' = exists \cup {k}

PCreateDir(l, k) ==
    /\ k \in Inode \ exists
    /\ CreateLock(l, k, "exclusive", "none")
    /\ Found(l)
    /\ exists' = exists \cup {k}

(* The first write through a handle.                                       *)
PWrite(l) ==
    /\ VolNode
    /\ l \in held /\ mode[l] = "read"
    /\ mode' = [mode EXCEPT ![l] = "write"]
    /\ UNCHANGED <<list, fl_Key, fl_Access, held, exists, VolNode, inhibited,
                   current, loose>>

(* PFreeLock(), and PEnd() with the handle's truncate_file().              *)
PFreeLock(l) ==
    /\ VolNode
    /\ l \in held
    /\ FreeLock(l)
    /\ UNCHANGED <<fl_Key, fl_Access, exists, VolNode, inhibited, loose>>

(* examine_common() of a lock on a symbolic link, with resolve_symlinks    *)
(* set: the lock moves to the file that the link leads to.                 *)
PExamineObject(l) ==
    /\ VolNode
    /\ l \in held /\ fl_Key[l] \in Link
    /\ Points[fl_Key[l]] \in exists
    /\ fl_Key' = [fl_Key EXCEPT ![l] = Points[fl_Key[l]]]
    /\ loose' = TRUE
    /\ UNCHANGED <<list, fl_Access, held, mode, exists, VolNode, inhibited,
                   current>>

(* The last name of an inode is deleted, unless a lock is in the list.     *)
(* (Mutant: only exclusive locks count.)                                   *)
PDeleteExclusive(k) ==
    /\ VolNode
    /\ k \in exists
    /\ Access(k) # "exclusive"
    /\ exists' = exists \ {k}
    /\ UNCHANGED <<list, fl_Key, fl_Access, held, mode, VolNode, inhibited,
                   current, loose>>

PDeleteObject(k) ==
    /\ VolNode
    /\ k \in exists
    /\ Matching(k) = {}
    /\ exists' = exists \ {k}
    /\ UNCHANGED <<list, fl_Key, fl_Access, held, mode, VolNode, inhibited,
                   current, loose>>

-----------------------------------------------------------------------------
(* The volume goes and comes back.  close_files() ends the writing through *)
(* the handles in the list; RemoveVolNode() frees the node with the list,  *)
(* and NewVolNode() starts an empty one.                                   *)
close_files ==
    mode' = [l \in Lock |-> IF l \in Elems(list) /\ mode[l] = "write"
                            THEN "read" ELSE mode[l]]

(* The volume node goes, and with it the list that hangs on it.            *)
RemoveVolNode == list' = <<>> /\ current' = {}

PInhibit ==
    /\ inhibited < MaxInhibit
    /\ inhibited' = inhibited + 1
    /\ IF inhibited = 0
       THEN /\ close_files
            /\ RemoveVolNode
            /\ VolNode' = FALSE
       ELSE UNCHANGED <<mode, VolNode, list, current>>
    /\ UNCHANGED <<fl_Key, fl_Access, held, exists, loose>>

Uninhibit ==
    /\ inhibited > 0
    /\ inhibited' = inhibited - 1
    /\ VolNode' = (inhibited = 1)
    /\ UNCHANGED <<list, fl_Key, fl_Access, held, mode, exists, current,
                   loose>>

(* The medium is the same as before, as "after a fsck of the media".       *)
PDiskChange ==
    /\ inhibited = 0
    /\ close_files
    /\ RemoveVolNode
    /\ UNCHANGED <<fl_Key, fl_Access, held, exists, VolNode, inhibited, loose>>

(* A packet that gives a lock back is refused; the client forgets it.      *)
FreeRefused(l) ==
    /\ ~VolNode
    /\ l \in held
    /\ held' = held \ {l}
    /\ current' = current \ {l}
    /\ mode' = [mode EXCEPT ![l] = "none"]
    /\ UNCHANGED <<list, fl_Key, fl_Access, exists, VolNode, inhibited, loose>>

Init ==
    /\ list = <<>>
    /\ fl_Key \in [Lock -> Inode]
    /\ fl_Access = [l \in Lock |-> "invisible"]
    /\ held = {}
    /\ mode = [l \in Lock |-> "none"]
    /\ exists \in SUBSET Key
    /\ VolNode = TRUE
    /\ inhibited = 0
    /\ current = {}
    /\ loose = FALSE

Next ==
    \/ \E l \in Lock, k \in Key, access \in Modes : PLocateObject(l, k, access)
    \/ \E l, m \in Lock : PCopyDir(l, m)
    \/ \E l \in Lock, k \in Key :
          PFindInput(l, k) \/ PFindOutput(l, k) \/ PCreateDir(l, k)
    \/ \E l \in Lock : PWrite(l) \/ PFreeLock(l) \/ PExamineObject(l)
    \/ \E k \in Key : PDeleteObject(k)
    \/ PInhibit
    \/ Uninhibit
    \/ PDiskChange
    \/ \E l \in Lock : FreeRefused(l)

Spec == Init /\ [][Next]_vars

-----------------------------------------------------------------------------
(* Whatever happens to the volume and whichever packets are refused, the   *)
(* list has every lock that clients were given on the volume as mounted    *)
(* now, and none that nobody has, which would block its file until the     *)
(* next mount (system.c:200-204, 319-322, packets.c:392-415, 1698-1710).   *)
ListIsHeld ==
    /\ NoRepeats(list)
    /\ current \subseteq Elems(list) /\ Elems(list) \subseteq held

(* A client with an exclusive lock has the file for itself, though         *)
(* CreateLock() compares with one lock only: "somebody else has a lock on  *)
(* it..." (system.c:265-302).  Invisible locks, and locks that             *)
(* examine_common() moves (packets.c:470), put an end to that.             *)
ExclusiveAlone ==
    ~loose => \A l, m \in Elems(list) :
                 /\ l # m /\ fl_Key[l] = fl_Key[m]
                 => fl_Access[l] # "exclusive"

(* While the volume stays mounted no inode is freed, to become another     *)
(* file, on which a client has a lock or a handle, not even one that       *)
(* examine_common() moved there (packets.c:1127-1137).                     *)
OpenNotDeleted == \A l \in current : fl_Key[l] \in exists
=============================================================================
