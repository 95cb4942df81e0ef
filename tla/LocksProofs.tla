----------------------------- MODULE LocksProofs -----------------------------
(***************************************************************************)
(* Proofs about Locks, for any number of locks and inodes and any nesting  *)
(* of INHIBIT packets.                                                     *)
(***************************************************************************)
EXTENDS Locks, ListProofs

AccessMode == {"exclusive", "shared", "invisible"}

TypeOK ==
    /\ list \in Seq(Lock)
    /\ fl_Key \in [Lock -> Key]
    /\ fl_Access \in [Lock -> AccessMode]
    /\ held \subseteq Lock /\ current \subseteq Lock
    /\ mode \in [Lock -> {"none", "read", "write"}]
    /\ exists \subseteq Key
    /\ VolNode \in BOOLEAN /\ loose \in BOOLEAN
    /\ inhibited \in Nat

(* The list hangs on the volume node, and INHIBIT takes that away.         *)
NoListWithoutVolume ==
    /\ ~VolNode => list = <<>>
    /\ VolNode <=> inhibited = 0

(* As long as nobody asked for an invisible lock none is listed: Access()  *)
(* then tells an exclusive lock from no lock.                              *)
AllVisible == ~loose => \A l \in Elems(list) : fl_Access[l] # "invisible"

(* The inductive invariant.  ListIsHeld needs NoListWithoutVolume, for the *)
(* packets that are refused while there is no volume; ExclusiveAlone needs *)
(* AllVisible, for CreateLock() looks at one lock only; OpenNotDeleted     *)
(* needs ListIsHeld, for PDeleteObject() looks at the list only.           *)
Inv ==
    /\ TypeOK
    /\ ListIsHeld
    /\ ExclusiveAlone
    /\ OpenNotDeleted
    /\ NoListWithoutVolume
    /\ AllVisible

-----------------------------------------------------------------------------
LEMMA ListListed ==
    ASSUME Inv
    PROVE  /\ Listing(list, Elems(list), Lock)
           /\ Elems(list) \subseteq Lock
           /\ \A i \in 1..Len(list) : list[i] \in Elems(list)
<1>1. Listing(list, Elems(list), Lock)
  BY DEF Inv, TypeOK, ListIsHeld, Listing
<1>2. Elems(list) \subseteq Lock
  BY DEF Inv, TypeOK, Elems
<1>3. \A i \in 1..Len(list) : list[i] \in Elems(list)
  BY DEF Elems
<1> QED  BY <1>1, <1>2, <1>3

(* CreateLock() finds the access mode of some listed lock on the inode.    *)
LEMMA AccessFound ==
    ASSUME Inv, NEW k \in Key, Matching(k) # {}
    PROVE  \E m \in Elems(list) : fl_Key[m] = k /\ Access(k) = fl_Access[m]
<1>1. Matching(k) \subseteq Nat
  BY DEF Matching, Inv, TypeOK
<1>2. PICK x \in Matching(k) : \A y \in Matching(k) : x <= y
  BY <1>1, LeastNatural
<1> DEFINE i == CHOOSE i \in Matching(k) : \A j \in Matching(k) : i <= j
<1>3. i \in Matching(k)
  BY <1>2
<1>4. Access(k) = fl_Access[list[i]]
  BY DEF Access
<1> HIDE DEF i
<1>5. i \in 1..Len(list) /\ fl_Key[list[i]] = k
  BY <1>3 DEF Matching
<1> QED  BY <1>4, <1>5, ListListed

(* A new lock that is not invisible joins only shared locks, and only as a *)
(* shared lock itself, though it was compared with one of them.            *)
LEMMA AllowedSound ==
    ASSUME Inv, ~loose, NEW k \in Key,
           NEW access \in AccessMode, access # "invisible", Allowed(k, access),
           NEW m \in Elems(list), fl_Key[m] = k
    PROVE  access = "shared" /\ fl_Access[m] # "exclusive"
<1>1. PICK j \in 1..Len(list) : list[j] = m
  BY DEF Elems
<1>2. Matching(k) # {}
  BY <1>1 DEF Matching
<1>3. PICK h \in Elems(list) : fl_Key[h] = k /\ Access(k) = fl_Access[h]
  BY <1>2, AccessFound
<1>4. Access(k) # "invisible"
  BY <1>3 DEF Inv, AllVisible
<1>5. access = "shared" /\ Access(k) # "exclusive"
  BY <1>4 DEF Allowed, AccessMode
<1>6. fl_Access[m] # "exclusive"
  <2>1. CASE m = h
    BY <1>3, <1>5, <2>1
  <2>2. CASE m # h
    BY <1>3, <2>2 DEF Inv, ExclusiveAlone
  <2> QED  BY <2>1, <2>2
<1> QED  BY <1>5, <1>6

-----------------------------------------------------------------------------
(* CreateLock(), whoever calls it: the object is in use, or the lock was   *)
(* copied from one that may be of a former volume.                         *)
LEMMA CreateLockInv ==
    ASSUME Inv, NEW l \in Lock, NEW k \in Key, NEW access \in AccessMode,
           NEW handle \in {"none", "read"}, CreateLock(l, k, access, handle),
           exists \subseteq exists', exists' \subseteq Key,
           \/ current' = current \cup {l} /\ k \in exists'
           \/ current' = current
    PROVE  Inv'
<1>1. /\ VolNode /\ Allowed(k, access)
      /\ l \notin Elems(list) /\ l \notin held
      /\ list' = <<l>> \o list
      /\ fl_Key' = [fl_Key EXCEPT ![l] = k]
      /\ fl_Access' = [fl_Access EXCEPT ![l] = access]
      /\ held' = held \cup {l}
      /\ mode' = [mode EXCEPT ![l] = handle]
      /\ loose' = (loose \/ access = "invisible")
      /\ VolNode' = VolNode /\ inhibited' = inhibited
  BY DEF CreateLock, Unused
<1>2. Listing(list', Elems(list) \cup {l}, Lock)
  BY <1>1, ListListed, ListingPrepend
<1>3. Elems(list') = Elems(list) \cup {l} /\ list' \in Seq(Lock) /\ NoRepeats(list')
  BY <1>2 DEF Listing
<1>4. TypeOK'
  BY <1>1, <1>3 DEF Inv, TypeOK
<1>5. \A m \in Elems(list) : m # l /\ fl_Key'[m] = fl_Key[m]
                             /\ fl_Access'[m] = fl_Access[m]
  BY <1>1, ListListed DEF Inv, TypeOK
<1>6. fl_Key'[l] = k /\ fl_Access'[l] = access
  BY <1>1 DEF Inv, TypeOK
<1>7. ListIsHeld'
  BY <1>1, <1>3 DEF Inv, ListIsHeld
<1>8. ExclusiveAlone'
  <2> SUFFICES ASSUME ~loose',
                      NEW a \in Elems(list'), NEW b \in Elems(list'), a # b,
                      fl_Key'[a] = fl_Key'[b]
               PROVE  fl_Access'[a] # "exclusive"
    BY DEF ExclusiveAlone
  <2>1. ~loose /\ access # "invisible"
    BY <1>1 DEF Inv, TypeOK
  <2>2. CASE a = l
    BY <1>1, <1>3, <1>5, <1>6, <2>1, <2>2, AllowedSound
  <2>3. CASE b = l
    BY <1>1, <1>3, <1>5, <1>6, <2>1, <2>3, AllowedSound
  <2>4. CASE a # l /\ b # l
    BY <1>3, <1>5, <2>1, <2>4 DEF Inv, ExclusiveAlone
  <2> QED  BY <2>2, <2>3, <2>4
<1>9. OpenNotDeleted'
  <2>1. \A m \in current : m # l /\ fl_Key'[m] \in exists
    BY <1>1, <1>5 DEF Inv, ListIsHeld, OpenNotDeleted
  <2> QED  BY <1>6, <2>1 DEF OpenNotDeleted
<1>10. NoListWithoutVolume'
  BY <1>1 DEF Inv, NoListWithoutVolume
<1>11. AllVisible'
  BY <1>1, <1>3, <1>5, <1>6 DEF Inv, TypeOK, AllVisible
<1> QED  BY <1>4, <1>7, <1>8, <1>9, <1>10, <1>11 DEF Inv

(* The packets that make a lock.                                           *)
LEMMA LockPacketsInv ==
    ASSUME Inv, NEW l \in Lock
    PROVE  /\ \A k \in Key, access \in Modes : PLocateObject(l, k, access) => Inv'
           /\ \A m \in Lock : PCopyDir(l, m) => Inv'
           /\ \A k \in Key :
                 PFindInput(l, k) \/ PFindOutput(l, k) \/ PCreateDir(l, k) => Inv'
<1>1. ASSUME NEW k \in Key, NEW access \in Modes, PLocateObject(l, k, access)
      PROVE  Inv'
  BY <1>1, CreateLockInv, ModesAssumption
     DEF PLocateObject, Found, AccessMode, Inv, TypeOK
<1>2. ASSUME NEW m \in Lock, PCopyDir(l, m) PROVE Inv'
  <2>1. fl_Key[m] \in Key /\ fl_Access[m] \in AccessMode
    BY DEF Inv, TypeOK
  <2>2. m \in current => fl_Key[m] \in exists
    BY DEF Inv, OpenNotDeleted
  <2>3. /\ CreateLock(l, fl_Key[m], fl_Access[m], "none")
        /\ exists' = exists
        /\ current' = IF m \in current THEN current \cup {l} ELSE current
    BY <1>2 DEF PCopyDir
  <2>4. exists \subseteq exists' /\ exists' \subseteq Key
    BY <2>3 DEF Inv, TypeOK
  <2>5. \/ current' = current \cup {l} /\ fl_Key[m] \in exists'
        \/ current' = current
    BY <2>2, <2>3
  <2> HIDE DEF Key
  <2> QED  BY <2>1, <2>3, <2>4, <2>5, CreateLockInv
<1>3. ASSUME NEW k \in Key, PFindInput(l, k) PROVE Inv'
  BY <1>3, CreateLockInv DEF PFindInput, Found, AccessMode, Inv, TypeOK
<1>4. ASSUME NEW k \in Key, PFindOutput(l, k) PROVE Inv'
  BY <1>4, CreateLockInv DEF PFindOutput, Found, AccessMode, Inv, TypeOK
<1>5. ASSUME NEW k \in Key, PCreateDir(l, k) PROVE Inv'
  BY <1>5, CreateLockInv DEF PCreateDir, Found, AccessMode, Inv, TypeOK
<1> QED  BY <1>1, <1>2, <1>3, <1>4, <1>5

(* A lock that is given back leaves the list, or was not in it.            *)
LEMMA FreeLockInv ==
    ASSUME Inv, NEW l \in Lock, PFreeLock(l)
    PROVE  Inv'
<1>1. /\ l \in held /\ VolNode
      /\ list' = IF l \in Elems(list) THEN Without(list, l) ELSE list
      /\ held' = held \ {l} /\ current' = current \ {l}
      /\ mode' = [mode EXCEPT ![l] = "none"]
      /\ UNCHANGED <<fl_Key, fl_Access, exists, VolNode, inhibited, loose>>
  BY DEF PFreeLock, FreeLock
<1>2. Listing(list', Elems(list) \ {l}, Lock)
  <2>1. CASE l \in Elems(list)
    BY <1>1, <2>1, ListListed, ListingWithout
  <2>2. CASE l \notin Elems(list)
    <3>1. Elems(list) \ {l} = Elems(list)
      BY <2>2
    <3> QED  BY <1>1, <2>2, <3>1, ListListed
  <2> QED  BY <2>1, <2>2
<1>3. Elems(list') = Elems(list) \ {l} /\ list' \in Seq(Lock) /\ NoRepeats(list')
  BY <1>2 DEF Listing
<1>4. TypeOK'
  BY <1>1, <1>3 DEF Inv, TypeOK
<1>5. ListIsHeld'
  BY <1>1, <1>3 DEF Inv, ListIsHeld
<1>6. ExclusiveAlone' /\ AllVisible'
  BY <1>1, <1>3 DEF Inv, ExclusiveAlone, AllVisible
<1>7. OpenNotDeleted'
  BY <1>1 DEF Inv, OpenNotDeleted
<1>8. NoListWithoutVolume'
  BY <1>1 DEF Inv, NoListWithoutVolume
<1> QED  BY <1>4, <1>5, <1>6, <1>7, <1>8 DEF Inv

(* examine_common() moves a lock to a file that exists.                    *)
LEMMA ExamineInv ==
    ASSUME Inv, NEW l \in Lock, PExamineObject(l)
    PROVE  Inv'
<1>1. /\ fl_Key[l] \in Link /\ Points[fl_Key[l]] \in exists
      /\ fl_Key' = [fl_Key EXCEPT ![l] = Points[fl_Key[l]]]
      /\ loose' = TRUE
      /\ UNCHANGED <<list, fl_Access, held, mode, exists, VolNode, inhibited,
                     current>>
  BY DEF PExamineObject
<1>2. TypeOK'
  BY <1>1 DEF Inv, TypeOK
<1>3. ListIsHeld' /\ NoListWithoutVolume'
  BY <1>1 DEF Inv, ListIsHeld, NoListWithoutVolume
<1>4. ExclusiveAlone' /\ AllVisible'
  BY <1>1 DEF ExclusiveAlone, AllVisible
<1>5. OpenNotDeleted'
  BY <1>1 DEF Inv, TypeOK, OpenNotDeleted
<1> QED  BY <1>2, <1>3, <1>4, <1>5 DEF Inv

(* Every lock on an object of the volume is listed, so no such object is   *)
(* deleted.                                                                *)
LEMMA DeleteInv ==
    ASSUME Inv, NEW k \in Key, PDeleteObject(k)
    PROVE  Inv'
<1>1. /\ Matching(k) = {} /\ exists' = exists \ {k}
      /\ UNCHANGED <<list, fl_Key, fl_Access, held, mode, VolNode, inhibited,
                     current, loose>>
  BY DEF PDeleteObject
<1>2. \A l \in Elems(list) : fl_Key[l] # k
  BY <1>1 DEF Matching, Elems
<1>3. OpenNotDeleted'
  BY <1>1, <1>2 DEF Inv, ListIsHeld, OpenNotDeleted
<1>4. TypeOK' /\ ListIsHeld' /\ ExclusiveAlone' /\ NoListWithoutVolume' /\ AllVisible'
  BY <1>1 DEF Inv, TypeOK, ListIsHeld, ExclusiveAlone, NoListWithoutVolume,
              AllVisible
<1> QED  BY <1>3, <1>4 DEF Inv

(* The volume node takes the list with it.                                 *)
LEMMA RemoveVolNodeInv ==
    ASSUME Inv, RemoveVolNode, close_files,
           VolNode' \in BOOLEAN, inhibited' \in Nat, VolNode' <=> inhibited' = 0,
           UNCHANGED <<fl_Key, fl_Access, held, exists, loose>>
    PROVE  Inv'
<1>1. list' = <<>> /\ current' = {} /\ Elems(list') = {}
  BY DEF RemoveVolNode, Elems
<1>2. mode' \in [Lock -> {"none", "read", "write"}]
  BY DEF close_files, Inv, TypeOK
<1>3. TypeOK'
  BY <1>1, <1>2 DEF Inv, TypeOK
<1>4. ListIsHeld'
  BY <1>1 DEF ListIsHeld, NoRepeats, Elems
<1> QED
  BY <1>1, <1>3, <1>4 DEF Inv, ExclusiveAlone, OpenNotDeleted,
                          NoListWithoutVolume, AllVisible

LEMMA VolumeInv ==
    ASSUME Inv
    PROVE  /\ PInhibit => Inv'
           /\ Uninhibit => Inv'
           /\ PDiskChange => Inv'
           /\ \A l \in Lock : FreeRefused(l) => Inv'
<1>1. ASSUME PInhibit PROVE Inv'
  <2>1. CASE inhibited = 0
    <3>1. /\ RemoveVolNode /\ close_files
          /\ VolNode' = FALSE /\ inhibited' = inhibited + 1
          /\ UNCHANGED <<fl_Key, fl_Access, held, exists, loose>>
      BY <1>1, <2>1 DEF PInhibit
    <3>2. inhibited' \in Nat /\ inhibited' # 0
      BY <2>1, <3>1
    <3> QED  BY <3>1, <3>2, RemoveVolNodeInv
  <2>2. CASE inhibited # 0
    BY <1>1, <2>2 DEF PInhibit, Inv, TypeOK, ListIsHeld, ExclusiveAlone,
                      OpenNotDeleted, NoListWithoutVolume, AllVisible
  <2> QED  BY <2>1, <2>2
<1>2. ASSUME Uninhibit PROVE Inv'
  <2>1. inhibited \in Nat /\ inhibited > 0 /\ list = <<>>
    BY <1>2 DEF Uninhibit, Inv, TypeOK, NoListWithoutVolume
  <2>2. /\ inhibited' = inhibited - 1 /\ VolNode' = (inhibited = 1)
        /\ UNCHANGED <<list, fl_Key, fl_Access, held, mode, exists, current,
                       loose>>
    BY <1>2 DEF Uninhibit
  <2>3. inhibited' \in Nat /\ VolNode' \in BOOLEAN /\ (VolNode' <=> inhibited' = 0)
    <3>1. inhibited' \in Nat /\ (inhibited = 1 <=> inhibited' = 0)
      BY <2>1, <2>2
    <3>2. VolNode' \in BOOLEAN /\ (VolNode' <=> inhibited = 1)
      BY <2>2, Zenon
    <3> QED  BY <3>1, <3>2
  <2>4. TypeOK' /\ NoListWithoutVolume'
    BY <2>1, <2>2, <2>3 DEF Inv, TypeOK, NoListWithoutVolume
  <2>5. ListIsHeld' /\ ExclusiveAlone' /\ OpenNotDeleted' /\ AllVisible'
    BY <2>2 DEF Inv, ListIsHeld, ExclusiveAlone, OpenNotDeleted, AllVisible
  <2> QED  BY <2>4, <2>5 DEF Inv
<1>3. ASSUME PDiskChange PROVE Inv'
  <2>1. VolNode \in BOOLEAN /\ inhibited \in Nat /\ (VolNode <=> inhibited = 0)
    BY DEF Inv, TypeOK, NoListWithoutVolume
  <2>2. /\ RemoveVolNode /\ close_files
        /\ VolNode' = VolNode /\ inhibited' = inhibited
        /\ UNCHANGED <<fl_Key, fl_Access, held, exists, loose>>
    BY <1>3 DEF PDiskChange
  <2> QED  BY <2>1, <2>2, RemoveVolNodeInv
<1>4. ASSUME NEW l \in Lock, FreeRefused(l) PROVE Inv'
  <2>1. list = <<>> /\ Elems(list) = {}
    BY <1>4 DEF FreeRefused, Inv, NoListWithoutVolume, Elems
  <2> QED
    BY <1>4, <2>1 DEF FreeRefused, Inv, TypeOK, ListIsHeld, ExclusiveAlone,
                      OpenNotDeleted, NoListWithoutVolume, AllVisible
<1> QED  BY <1>1, <1>2, <1>3, <1>4

LEMMA NextInv == Inv /\ Next => Inv'
<1> SUFFICES ASSUME Inv, Next PROVE Inv'
  OBVIOUS
<1>1. ASSUME NEW l \in Lock, PWrite(l) PROVE Inv'
  BY <1>1 DEF PWrite, Inv, TypeOK, ListIsHeld, ExclusiveAlone,
              OpenNotDeleted, NoListWithoutVolume, AllVisible
<1>2. CASE \E l \in Lock, k \in Key, access \in Modes :
              PLocateObject(l, k, access)
  BY <1>2, LockPacketsInv
<1>3. CASE \E l, m \in Lock : PCopyDir(l, m)
  BY <1>3, LockPacketsInv
<1>4. CASE \E l \in Lock, k \in Key :
              PFindInput(l, k) \/ PFindOutput(l, k) \/ PCreateDir(l, k)
  BY <1>4, LockPacketsInv
<1>5. CASE \E l \in Lock : PWrite(l) \/ PFreeLock(l) \/ PExamineObject(l)
  BY <1>1, <1>5, FreeLockInv, ExamineInv
<1>6. CASE \E k \in Key : PDeleteObject(k)
  BY <1>6, DeleteInv
<1>7. CASE PInhibit \/ Uninhibit \/ PDiskChange \/ \E l \in Lock : FreeRefused(l)
  BY <1>7, VolumeInv
<1> QED  BY <1>2, <1>3, <1>4, <1>5, <1>6, <1>7 DEF Next

LEMMA InitInv == Init => Inv
<1> SUFFICES ASSUME Init PROVE Inv
  OBVIOUS
<1>1. Elems(list) = {} /\ NoRepeats(list)
  BY DEF Init, Elems, NoRepeats
<1>2. TypeOK
  <2>1. fl_Key \in [Lock -> Key] /\ fl_Access \in [Lock -> AccessMode]
    BY DEF Init, Key, AccessMode
  <2>2. mode \in [Lock -> {"none", "read", "write"}] /\ exists \subseteq Key
    BY DEF Init
  <2>3. VolNode \in BOOLEAN /\ loose \in BOOLEAN
    BY DEF Init
  <2>4. list \in Seq(Lock) /\ held \subseteq Lock /\ current \subseteq Lock
        /\ inhibited \in Nat
    BY DEF Init
  <2> QED  BY <2>1, <2>2, <2>3, <2>4 DEF TypeOK
<1> QED
  BY <1>1, <1>2 DEF Init, Inv, ListIsHeld, ExclusiveAlone, OpenNotDeleted,
                    NoListWithoutVolume, AllVisible

LEMMA StutterInv == Inv /\ UNCHANGED vars => Inv'
  BY DEF vars, Inv, TypeOK, ListIsHeld, ExclusiveAlone, OpenNotDeleted,
         NoListWithoutVolume, AllVisible

(* The three properties, the types, and what links them: the list is empty *)
(* without a volume node, and without invisible or moved locks all that    *)
(* clients hold are in the list (CreateLock(), FreeLock(), PInhibit()).    *)
THEOREM Invariance == Spec => []Inv
<1>1. Inv /\ [Next]_vars => Inv'
  BY NextInv, StutterInv
<1> QED  BY <1>1, InitInv, PTL DEF Spec

(* Whatever happens to the volume and whichever packets are refused, the   *)
(* list has every lock on the volume as mounted now, once, and none that   *)
(* nobody has (system.c:200-204, 319-322, packets.c:1698-1710).            *)
THEOREM ListAlwaysHeld == Spec => []ListIsHeld
  BY Invariance, PTL DEF Inv

(* An exclusive lock is alone on its file, as long as no client asks for   *)
(* invisible locks and none is moved: comparing with the newest lock on    *)
(* the file is enough for any number of locks (system.c:265-302).          *)
THEOREM ExclusiveAlwaysAlone == Spec => []ExclusiveAlone
  BY Invariance, PTL DEF Inv

(* While the volume stays mounted, the inode of a lock that was found on   *)
(* it is in use: PDeleteObject() sees every such lock, however it came     *)
(* about (packets.c:1127-1137).                                            *)
THEOREM OpenNeverDeleted == Spec => []OpenNotDeleted
  BY Invariance, PTL DEF Inv
=============================================================================
