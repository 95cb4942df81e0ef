---------------------------- MODULE NamesProofs ----------------------------
(***************************************************************************)
(* Proofs about Names, for any number of groups, inodes, names and locks,  *)
(* and any sizes of directory blocks and frags: the entries of a directory *)
(* always tile its blocks, and a client who lists one while it changes is  *)
(* not led astray; links, counts and the places of locks are exact.        *)
(***************************************************************************)
EXTENDS Names, ListProofs, FiniteSetTheorems

Record == [ino : Inum, name : AnyName, reclen : Nat]

Block(o) == o \div DIRBLKSIZ

(* The entries of d follow each other from 0 to N, each within one block   *)
(* and with room for its name; N is 0 in a directory still without any.    *)
Tiled(d, N) ==
    /\ N \in Nat /\ N % DIRBLKSIZ = 0
    /\ DOMAIN d \subseteq 0..(N - 1) /\ (N > 0 => 0 \in DOMAIN d)
    /\ d \in [DOMAIN d -> Record]
    /\ \A o \in DOMAIN d :
          /\ UFS_DIRSIZ(d[o].name) <= d[o].reclen
          /\ Block(o) = Block(o + d[o].reclen - 1)
          /\ o + d[o].reclen \in DOMAIN d \cup {N}
          /\ \A q \in DOMAIN d : q > o => q >= o + d[o].reclen

(* The first two entries, which no packet names, and the others, which     *)
(* have names that clients give.                                           *)
Dots(d) ==
    /\ 0 \in DOMAIN d /\ 3 \in DOMAIN d
    /\ d[0].name = Dot /\ d[0].reclen = 3 /\ d[3].name = DotDot
    /\ \A o \in DOMAIN d \ {0, 3} : d[o].ino # 0 => d[o].name \in Name

DirOK(d) == Tiled(d, Size(d)) /\ Dots(d)

-----------------------------------------------------------------------------
(* Arithmetic of blocks.                                                   *)
LEMMA Divides ==
    ASSUME NEW x \in Nat, NEW D \in Nat, D > 0
    PROVE  /\ x \div D \in Nat /\ x % D \in 0..(D - 1)
           /\ x = D * (x \div D) + (x % D)
  OBVIOUS

LEMMA DivMonotone ==
    ASSUME NEW x \in Nat, NEW y \in Nat, x <= y, NEW D \in Nat, D > 0
    PROVE  x \div D <= y \div D
  OBVIOUS

LEMMA DivBelow ==
    ASSUME NEW x \in Nat, NEW D \in Nat, D > 0
    PROVE  x \div D <= x
<1>1. PICK k \in Nat : k = x \div D /\ x >= D * k
  BY Divides
<1>2. D * k >= k
  OBVIOUS
<1> QED  BY <1>1, <1>2

LEMMA DivMod ==
    ASSUME NEW k \in Nat, NEW r \in Nat, NEW D \in Nat, r < D
    PROVE  (D * k + r) \div D = k /\ (D * k + r) % D = r
  OBVIOUS

LEMMA NextMultiple ==
    ASSUME NEW x \in Nat, NEW y \in Nat, x < y, NEW D \in Nat
    PROVE  D * x + D <= D * y
  OBVIOUS

LEMMA InProduct ==
    ASSUME NEW n \in Nat, NEW m \in Nat, NEW g \in 0..(n - 1),
           NEW k \in 0..(m - 1)
    PROVE  g * m + k \in 0..(n * m - 1)
  OBVIOUS

LEMMA BlockSize == DIRBLKSIZ \in Nat /\ DIRBLKSIZ > 6
  BY BlockAssumption

(* What lies between two offsets of a block is in it.                      *)
LEMMA BlockBetween ==
    ASSUME NEW a \in Nat, NEW b \in Nat, NEW c \in Nat, a <= b, b <= c,
           Block(a) = Block(c)
    PROVE  Block(b) = Block(a)
<1>1. a \div DIRBLKSIZ <= b \div DIRBLKSIZ /\ b \div DIRBLKSIZ <= c \div DIRBLKSIZ
  BY BlockSize, DivMonotone
<1>2. a \div DIRBLKSIZ \in Nat /\ b \div DIRBLKSIZ \in Nat
  BY BlockSize, Divides
<1> QED  BY <1>1, <1>2 DEF Block

(* A block from its start.                                                 *)
LEMMA BlockStart ==
    ASSUME NEW a \in Nat, a % DIRBLKSIZ = 0
    PROVE  /\ \A r \in 0..(DIRBLKSIZ - 1) : Block(a + r) = Block(a)
           /\ (a + DIRBLKSIZ) % DIRBLKSIZ = 0
           /\ \A q \in Nat : q < a => Block(q) # Block(a)
           /\ \A b \in Nat : b % DIRBLKSIZ = 0 /\ a < b => a + DIRBLKSIZ <= b
<1>1. PICK D \in Nat : D = DIRBLKSIZ /\ D > 6
  BY BlockSize
<1>2. PICK x \in Nat : a = D * x /\ x = a \div D
  BY <1>1, Divides
<1>3. ASSUME NEW r \in 0..(D - 1)
      PROVE  (a + r) \div D = x
  BY <1>1, <1>2, DivMod
<1>4. (a + D) % D = 0
  <2>1. a + D = D * (x + 1) + 0
    BY <1>2
  <2>2. (D * (x + 1) + 0) % D = 0
    BY <1>1, DivMod
  <2> QED  BY <2>1, <2>2
<1>5. ASSUME NEW b \in Nat, b % D = 0, a < b
      PROVE  a + D <= b
  <2>1. PICK y \in Nat : b = D * y
    BY <1>1, <1>5, Divides
  <2>2. x < y
    BY <1>1, <1>2, <1>5, <2>1
  <2> QED  BY <1>2, <2>1, <2>2, NextMultiple
<1>6. ASSUME NEW q \in Nat, q < a
      PROVE  q \div D # x
  <2>1. q \div D \in Nat /\ q % D \in 0..(D - 1) /\ q = D * (q \div D) + (q % D)
    BY <1>1, Divides
  <2> QED  BY <1>2, <1>6, <2>1
<1> QED  BY <1>1, <1>2, <1>3, <1>4, <1>5, <1>6 DEF Block

(* The end of a frag is behind all that is in it, and the end of a block.  *)
LEMMA FragEnd ==
    ASSUME NEW s \in Nat
    PROVE  /\ (s \div (BlocksPerFrag * DIRBLKSIZ) + 1) * (BlocksPerFrag * DIRBLKSIZ) \in Nat
           /\ s < (s \div (BlocksPerFrag * DIRBLKSIZ) + 1) * (BlocksPerFrag * DIRBLKSIZ)
           /\ ((s \div (BlocksPerFrag * DIRBLKSIZ) + 1) * (BlocksPerFrag * DIRBLKSIZ)) % DIRBLKSIZ = 0
<1>1. PICK D \in Nat : D = DIRBLKSIZ /\ D > 6
  BY BlockSize
<1>2. PICK B \in Nat : B = BlocksPerFrag /\ B > 0
  BY BlockAssumption
<1>3. PICK F \in Nat : F = B * D /\ F > 0
  BY <1>1, <1>2
<1>4. PICK k \in Nat : k = s \div F /\ s < F * k + F
  <2>1. s \div F \in Nat /\ s % F \in 0..(F - 1) /\ s = F * (s \div F) + (s % F)
    BY <1>3, Divides
  <2> QED  BY <2>1
<1>5. (k + 1) * F \in Nat /\ (k + 1) * F = F * k + F
  BY <1>3, <1>4
<1>6. (k + 1) * F = D * ((k + 1) * B) + 0
  BY <1>1, <1>2, <1>3, <1>4
<1>7. ((k + 1) * F) % D = 0
  <2>1. (k + 1) * B \in Nat
    BY <1>2, <1>4
  <2>2. (D * ((k + 1) * B) + 0) % D = 0
    BY <1>1, <2>1, DivMod
  <2> QED  BY <1>6, <2>2
<1>8. (s \div (BlocksPerFrag * DIRBLKSIZ) + 1) * (BlocksPerFrag * DIRBLKSIZ) = (k + 1) * F
  BY <1>1, <1>2, <1>3, <1>4
<1> QED  BY <1>1, <1>4, <1>5, <1>7, <1>8

-----------------------------------------------------------------------------
(* The least and the greatest of a set of naturals.                        *)
LEMMA LeastIs ==
    ASSUME NEW S, S \subseteq Nat, S # {}
    PROVE  Least(S) \in S /\ \A y \in S : Least(S) <= y
  BY LeastNatural DEF Least

LEMMA MostIs ==
    ASSUME NEW N \in Nat, NEW S, S \subseteq 0..N, S # {}
    PROVE  Most(S) \in S /\ \A y \in S : y <= Most(S)
<1> DEFINE T == {N - x : x \in S}
<1>1. T \subseteq Nat /\ T # {}
  OBVIOUS
<1>2. \E t \in T : \A u \in T : t <= u
  <2> HIDE DEF T
  <2> QED  BY <1>1, LeastNatural
<1>3. PICK x \in S : \A y \in S : N - x <= N - y
  BY <1>2
<1>4. \A y \in S : x >= y
  BY <1>3
<1>5. Most(S) \in S /\ \A y \in S : Most(S) >= y
  BY <1>4 DEF Most
<1> QED  BY <1>5

LEMMA ZeroInum == 0 \in Inum
<1>1. IsFiniteSet(Group) /\ Group # {} /\ ipg \in Nat /\ ipg > 3
  BY GroupAssumption
<1>2. ncg \in Nat /\ ncg # 0
  BY <1>1, FS_CardinalityType, FS_EmptySet DEF ncg
<1>3. 0 * ipg + 0 \in 0..(ncg * ipg - 1)
  BY <1>1, <1>2, InProduct
<1> QED  BY <1>1, <1>3 DEF Inum

-----------------------------------------------------------------------------
(* What a name needs fits into any block, and dir_create() asks for enough *)
(* although it forgets the zero byte.                                      *)
LEMMA NameFits ==
    ASSUME NEW n \in AnyName
    PROVE  /\ UFS_DIRSIZ(n) \in Nat /\ UFS_DIRSIZ(n) >= 3
           /\ UFS_DIRSIZ(n) <= DIRBLKSIZ
           /\ Needed(n) \in Nat /\ UFS_DIRSIZ(n) <= Needed(n) + 1
           /\ UFS_DIRSIZ(Dot) = 3 /\ UFS_DIRSIZ(DotDot) = 3
           /\ UFS_DIRSIZ(NoName) = 3 /\ Needed(DotDot) = 3
<1>1. /\ namlen[n] \in Nat /\ namlen[Dot] = 1 /\ namlen[DotDot] = 2
      /\ namlen[NoName] = 0
  BY NameAssumption
<1>2. /\ UFS_DIRSIZ(Dot) = 3 /\ UFS_DIRSIZ(DotDot) = 3
      /\ UFS_DIRSIZ(NoName) = 3 /\ Needed(DotDot) = 3
  BY <1>1 DEF UFS_DIRSIZ, Needed
<1>3. UFS_DIRSIZ(n) \in Nat /\ UFS_DIRSIZ(n) >= 3
  BY <1>1 DEF UFS_DIRSIZ
<1>4. Needed(n) \in Nat /\ UFS_DIRSIZ(n) <= Needed(n) + 1
  BY <1>1 DEF UFS_DIRSIZ, Needed
<1>5. UFS_DIRSIZ(n) <= DIRBLKSIZ
  BY <1>2, BlockSize, RoomAssumption DEF AnyName
<1> QED  BY <1>2, <1>3, <1>4, <1>5

LEMMA NamesApart ==
    Dot # DotDot /\ Dot \notin Name /\ DotDot \notin Name /\ NoName \notin Name
<1>1. Dot # DotDot
  <2>1. SUFFICES ASSUME Dot = DotDot PROVE FALSE
    OBVIOUS
  <2>2. {Dot, DotDot, NoName} = {Dot, NoName}
    BY <2>1
  <2>3. CASE Dot = NoName
    <3>1. {Dot, DotDot, NoName} = {Dot}
      BY <2>1, <2>3
    <3> QED  BY <3>1, FS_Singleton, NameAssumption
  <2>4. CASE Dot # NoName
    <3>1. Cardinality({Dot}) = 1 /\ IsFiniteSet({Dot})
      BY FS_Singleton
    <3>2. Cardinality({Dot} \cup {NoName}) = 1 + 1
      BY <2>4, <3>1, FS_AddElement
    <3>3. {Dot} \cup {NoName} = {Dot, DotDot, NoName}
      BY <2>2
    <3> QED  BY <3>2, <3>3, NameAssumption
  <2> QED  BY <2>3, <2>4
<1> QED  BY <1>1, NameAssumption

(* The facts of a tiled directory about one of its entries.                *)
LEMMA EntryFacts ==
    ASSUME NEW d, NEW N, Tiled(d, N), NEW o \in DOMAIN d
    PROVE  /\ o \in Nat /\ N \in Nat /\ o < N
           /\ d[o] \in Record /\ d[o].ino \in Inum /\ d[o].name \in AnyName
           /\ d[o].reclen \in Nat /\ d[o].reclen >= 3
           /\ o + d[o].reclen <= N
<1>1. o \in 0..(N - 1) /\ N \in Nat /\ d[o] \in Record
  BY DEF Tiled
<1>2. d[o].ino \in Inum /\ d[o].name \in AnyName /\ d[o].reclen \in Nat
  BY <1>1 DEF Record
<1>3. UFS_DIRSIZ(d[o].name) <= d[o].reclen /\ UFS_DIRSIZ(d[o].name) >= 3
      /\ UFS_DIRSIZ(d[o].name) \in Nat
  BY <1>2, NameFits DEF Tiled
<1>4. o + d[o].reclen \in 0..(N - 1) \cup {N}
  BY DEF Tiled
<1> QED  BY <1>1, <1>2, <1>3, <1>4

(* Size() is where the tiling ends.                                        *)
LEMMA SizeIs ==
    ASSUME NEW d, NEW N, Tiled(d, N)
    PROVE  Size(d) = N
<1>1. N \in Nat /\ DOMAIN d \subseteq 0..(N - 1) /\ (N > 0 => 0 \in DOMAIN d)
  BY DEF Tiled
<1>2. CASE DOMAIN d = {}
  BY <1>1, <1>2 DEF Size
<1>3. CASE DOMAIN d # {}
  <2>1. DOMAIN d \subseteq 0..N
    BY <1>1
  <2>2. Most(DOMAIN d) \in DOMAIN d /\ \A q \in DOMAIN d : q <= Most(DOMAIN d)
    BY <1>1, <1>3, <2>1, MostIs
  <2>3. PICK o \in DOMAIN d : o = Most(DOMAIN d)
    BY <2>2
  <2>4. o \in Nat /\ d[o].reclen \in Nat /\ d[o].reclen >= 3
    BY EntryFacts
  <2>5. o + d[o].reclen \in DOMAIN d \cup {N}
    BY DEF Tiled
  <2>6. o + d[o].reclen = N
    BY <2>2, <2>3, <2>4, <2>5
  <2> QED  BY <1>3, <2>3, <2>6 DEF Size
<1> QED  BY <1>2, <1>3

-----------------------------------------------------------------------------
(* An entry with room behind its name is split.                            *)
Split(d, o, e) ==
    Put([d EXCEPT ![o].reclen = UFS_DIRSIZ(d[o].name)],
        o + UFS_DIRSIZ(d[o].name), e)

(* What a creation does to a directory: e is put at offset at, and the     *)
(* other entries stay where they are.                                      *)
Grown(d, w, at, n, i) ==
    /\ at \in DOMAIN w /\ at \notin DOMAIN d
    /\ w[at].name = n /\ w[at].ino = i
    /\ at \in Nat /\ (at = Size(d) => at % DIRBLKSIZ = 0)
    /\ \A q \in DOMAIN d : q \in DOMAIN w /\ w[q].ino = d[q].ino
                                          /\ w[q].name = d[q].name
    /\ \A q \in DOMAIN w \ (DOMAIN d \cup {at}) : w[q].ino = 0
    /\ Size(d) \in DOMAIN w \cup {Size(w)}

LEMMA SplitTiled ==
    ASSUME NEW d, NEW N, Tiled(d, N), NEW n \in AnyName, NEW i \in Inum,
           NEW o \in Roomy(d, n), NEW e,
           e = [ino |-> i, name |-> n,
                reclen |-> d[o].reclen - UFS_DIRSIZ(d[o].name)]
    PROVE  /\ Tiled(Split(d, o, e), N)
           /\ Grown(d, Split(d, o, e), o + UFS_DIRSIZ(d[o].name), n, i)
           /\ \A q \in DOMAIN d \ {o} : Split(d, o, e)[q] = d[q]
           /\ Split(d, o, e)[o].name = d[o].name
           /\ Split(d, o, e)[o].reclen = UFS_DIRSIZ(d[o].name)
<1>1. o \in DOMAIN d /\ d[o].reclen - UFS_DIRSIZ(d[o].name) > Needed(n)
  BY DEF Roomy
<1>2. /\ o \in Nat /\ N \in Nat /\ d[o] \in Record /\ d[o].name \in AnyName
      /\ d[o].reclen \in Nat /\ o + d[o].reclen <= N
  BY <1>1, EntryFacts
<1>3. PICK r \in Nat : r = d[o].reclen
  BY <1>2
<1>4. PICK u \in Nat : u = UFS_DIRSIZ(d[o].name) /\ u >= 3
  BY <1>2, NameFits
<1>5. r - u >= UFS_DIRSIZ(n) /\ UFS_DIRSIZ(n) \in Nat /\ UFS_DIRSIZ(n) >= 3
  BY <1>1, <1>3, <1>4, NameFits
<1>6. PICK at \in Nat : at = o + u
  BY <1>2
<1> DEFINE w == Split(d, o, e)
<1>7. /\ DOMAIN w = DOMAIN d \cup {at}
      /\ w[at] = [ino |-> i, name |-> n, reclen |-> r - u]
      /\ \A q \in DOMAIN d : q # at =>
            w[q] = IF q = o THEN [d[o] EXCEPT !.reclen = u] ELSE d[q]
      /\ w = [q \in DOMAIN w |-> w[q]]
  BY <1>1, <1>3, <1>4, <1>6 DEF Split, Put
<1> HIDE DEF w
<1>8. \A q \in DOMAIN d : /\ q \in Nat /\ q \in 0..(N - 1) /\ d[q] \in Record
                          /\ d[q].reclen \in Nat
                          /\ (q > o => q >= o + r)
  BY <1>1, <1>3, EntryFacts DEF Tiled
<1>9. at \notin DOMAIN d /\ at # o /\ at > o /\ at < o + r /\ at \in 0..(N - 1)
  BY <1>2, <1>3, <1>4, <1>5, <1>6, <1>8
<1>10. w[o] = [ino |-> d[o].ino, name |-> d[o].name, reclen |-> u]
  BY <1>1, <1>2, <1>7, <1>9 DEF Record
<1>11. /\ \A q \in DOMAIN d \ {o} : w[q] = d[q]
       /\ \A q \in DOMAIN d : q \in DOMAIN w /\ w[q].ino = d[q].ino
                                             /\ w[q].name = d[q].name
  BY <1>7, <1>9, <1>10
<1>12. \A q \in DOMAIN w : w[q] \in Record
  <2>1. w[at] \in Record
    BY <1>3, <1>4, <1>5, <1>7 DEF Record
  <2>2. w[o] \in Record
    BY <1>2, <1>10 DEF Record
  <2> QED  BY <1>7, <1>8, <1>11, <2>1, <2>2
<1>13. /\ DOMAIN w \subseteq 0..(N - 1) /\ N % DIRBLKSIZ = 0
       /\ (N > 0 => 0 \in DOMAIN w)
  BY <1>7, <1>9 DEF Tiled
<1>14. Block(o) = Block(o + r - 1) /\ o + r \in DOMAIN d \cup {N}
  BY <1>1, <1>3 DEF Tiled
<1>15. /\ UFS_DIRSIZ(w[o].name) <= w[o].reclen
       /\ Block(o) = Block(o + w[o].reclen - 1)
       /\ o + w[o].reclen \in DOMAIN w \cup {N}
       /\ \A q \in DOMAIN w : q > o => q >= o + w[o].reclen
  <2>1. Block(o + u - 1) = Block(o)
    BY <1>2, <1>3, <1>4, <1>5, <1>14, BlockBetween
  <2>2. /\ w[o].name = d[o].name /\ w[o].reclen = u
    BY <1>10
  <2>3. \A q \in DOMAIN w : q > o => q >= o + u
    BY <1>2, <1>3, <1>6, <1>7, <1>8, <1>9
  <2> QED  BY <1>4, <1>6, <1>7, <2>1, <2>2, <2>3
<1>16. /\ UFS_DIRSIZ(w[at].name) <= w[at].reclen
       /\ Block(at) = Block(at + w[at].reclen - 1)
       /\ at + w[at].reclen \in DOMAIN w \cup {N}
       /\ \A q \in DOMAIN w : q > at => q >= at + w[at].reclen
  <2>1. at + (r - u) = o + r /\ at + (r - u) - 1 = o + r - 1
    BY <1>2, <1>3, <1>4, <1>6
  <2>2. Block(at) = Block(o)
    BY <1>2, <1>3, <1>5, <1>9, <1>14, BlockBetween
  <2>3. \A q \in DOMAIN w : q > at => q >= o + r
    BY <1>2, <1>3, <1>7, <1>8, <1>9
  <2> QED  BY <1>5, <1>7, <1>14, <2>1, <2>2, <2>3
<1>17. ASSUME NEW q \in DOMAIN d \ {o}
       PROVE  /\ UFS_DIRSIZ(w[q].name) <= w[q].reclen
              /\ Block(q) = Block(q + w[q].reclen - 1)
              /\ q + w[q].reclen \in DOMAIN w \cup {N}
              /\ \A x \in DOMAIN w : x > q => x >= q + w[q].reclen
  <2>1. w[q] = d[q]
    BY <1>11
  <2>2. /\ UFS_DIRSIZ(d[q].name) <= d[q].reclen
        /\ Block(q) = Block(q + d[q].reclen - 1)
        /\ q + d[q].reclen \in DOMAIN d \cup {N}
        /\ \A x \in DOMAIN d : x > q => x >= q + d[q].reclen
    BY DEF Tiled
  <2>3. at > q => at >= q + d[q].reclen
    <3>1. CASE o > q
      BY <1>1, <1>2, <1>8, <1>9, <2>2, <3>1
    <3>2. CASE q > o
      BY <1>2, <1>3, <1>8, <1>9, <3>2
    <3> QED  BY <1>2, <1>8, <3>1, <3>2
  <2> QED  BY <1>7, <2>1, <2>2, <2>3
<1>18. Tiled(w, N)
  BY <1>2, <1>7, <1>12, <1>13, <1>15, <1>16, <1>17 DEF Tiled
<1>19. Size(d) = N /\ Size(w) = N
  BY <1>18, SizeIs
<1>20. Grown(d, w, at, n, i)
  BY <1>6, <1>7, <1>9, <1>11, <1>19 DEF Grown
<1> QED  BY <1>4, <1>6, <1>10, <1>11, <1>18, <1>20 DEF w

-----------------------------------------------------------------------------
(* dir_fragfill() adds empty blocks.                                       *)
LEMMA FillTiled ==
    ASSUME NEW d, NEW N, Tiled(d, N)
    PROVE  \E E \in Nat :
              /\ Tiled(Fill(d), E) /\ N < E
              /\ N \in DOMAIN Fill(d) /\ Fill(d)[N].reclen = DIRBLKSIZ
              /\ \A q \in DOMAIN d : q \in DOMAIN Fill(d) /\ Fill(d)[q] = d[q]
              /\ \A q \in DOMAIN Fill(d) \ DOMAIN d : Fill(d)[q].ino = 0
<1>1. N \in Nat /\ N % DIRBLKSIZ = 0 /\ Size(d) = N
  BY SizeIs DEF Tiled
<1> DEFINE F == BlocksPerFrag * DIRBLKSIZ
<1>2. PICK E \in Nat : E = (N \div F + 1) * F /\ N < E /\ E % DIRBLKSIZ = 0
  BY <1>1, FragEnd
<1>3. PICK D \in Nat : D = DIRBLKSIZ /\ D > 6
  BY BlockSize
<1>4. PICK new : new = {q \in N..(E - 1) : q % D = 0}
  OBVIOUS
<1>5. PICK z : z = [ino |-> 0, name |-> NoName, reclen |-> D]
  OBVIOUS
<1>6. Fill(d) = [o \in DOMAIN d \cup new |-> IF o \in DOMAIN d THEN d[o] ELSE z]
  BY <1>1, <1>2, <1>3, <1>4, <1>5 DEF Fill
<1>7. PICK w : w = Fill(d)
  OBVIOUS
<1>8. /\ \A q \in DOMAIN d : q \in 0..(N - 1) /\ d[q] \in Record
      /\ N > 0 => 0 \in DOMAIN d
  BY DEF Tiled
<1>9. \A q \in new : q \notin DOMAIN d /\ q \in N..(E - 1) /\ q % D = 0
                     /\ q \in Nat
  BY <1>1, <1>2, <1>4, <1>8
<1>10. /\ DOMAIN w = DOMAIN d \cup new /\ w = [q \in DOMAIN w |-> w[q]]
       /\ \A q \in DOMAIN d : w[q] = d[q]
       /\ \A q \in new : w[q] = z
  BY <1>6, <1>7, <1>9
<1>11. N \in new
  BY <1>1, <1>2, <1>3, <1>4
<1>12. z \in Record
  <2>1. 0 \in Inum
    BY ZeroInum
  <2>2. NoName \in AnyName
    BY DEF AnyName
  <2> QED  BY <1>3, <1>5, <2>1, <2>2 DEF Record
<1>13. ASSUME NEW q \in new
       PROVE  /\ UFS_DIRSIZ(w[q].name) <= w[q].reclen
              /\ Block(q) = Block(q + w[q].reclen - 1)
              /\ q + w[q].reclen \in DOMAIN w \cup {E}
              /\ \A x \in DOMAIN w : x > q => x >= q + w[q].reclen
  <2>1. w[q].name = NoName /\ w[q].reclen = D
    BY <1>5, <1>10
  <2>2. UFS_DIRSIZ(NoName) <= D
    BY <1>3, NameFits DEF AnyName
  <2>3. PICK x \in Nat : x = q /\ x % D = 0 /\ N <= x /\ x < E
    BY <1>1, <1>2, <1>9
  <2>4. /\ \A r \in 0..(D - 1) : Block(x + r) = Block(x)
        /\ (x + D) % D = 0
        /\ \A b \in Nat : b % D = 0 /\ x < b => x + D <= b
    BY <1>3, <2>3, BlockStart
  <2>5. Block(x) = Block(x + D - 1)
    <3>1. Block(x + (D - 1)) = Block(x)
      BY <1>3, <2>4
    <3>2. x + (D - 1) = x + D - 1
      BY <1>3
    <3> QED  BY <3>1, <3>2
  <2>6. x + D \in new \cup {E}
    <3>1. x + D <= E
      BY <1>2, <1>3, <2>3, <2>4
    <3> QED  BY <1>1, <1>2, <1>3, <1>4, <2>3, <2>4, <3>1
  <2>7. \A y \in DOMAIN w : y > x => y >= x + D
    <3>1. \A y \in DOMAIN d : y < x
      BY <1>1, <1>8, <2>3
    <3>2. \A y \in new : y > x => y >= x + D
      BY <1>3, <1>9, <2>3, <2>4
    <3>3. \A y \in DOMAIN d : ~(y > x)
      BY <1>1, <1>8, <3>1
    <3> QED  BY <1>10, <3>2, <3>3
  <2> QED  BY <1>10, <2>1, <2>2, <2>3, <2>5, <2>6, <2>7
<1>14. ASSUME NEW q \in DOMAIN d
       PROVE  /\ UFS_DIRSIZ(w[q].name) <= w[q].reclen
              /\ Block(q) = Block(q + w[q].reclen - 1)
              /\ q + w[q].reclen \in DOMAIN w \cup {E}
              /\ \A x \in DOMAIN w : x > q => x >= q + w[q].reclen
  <2>1. /\ w[q] = d[q]
        /\ UFS_DIRSIZ(d[q].name) <= d[q].reclen
        /\ Block(q) = Block(q + d[q].reclen - 1)
        /\ q + d[q].reclen \in DOMAIN d \cup {N}
        /\ \A x \in DOMAIN d : x > q => x >= q + d[q].reclen
    BY <1>10 DEF Tiled
  <2>2. q \in Nat /\ d[q].reclen \in Nat /\ q + d[q].reclen <= N
    BY EntryFacts
  <2>3. \A x \in new : x >= N
    BY <1>9, <1>1
  <2> QED  BY <1>1, <1>9, <1>10, <1>11, <2>1, <2>2, <2>3
<1>15. Tiled(w, E)
  <2>1. DOMAIN w \subseteq 0..(E - 1) /\ 0 \in DOMAIN w
    BY <1>1, <1>2, <1>8, <1>9, <1>10, <1>11
  <2>2. \A q \in DOMAIN w : w[q] \in Record
    BY <1>8, <1>10, <1>12
  <2> QED  BY <1>2, <1>10, <1>13, <1>14, <2>1, <2>2 DEF Tiled
<1>16. N \in DOMAIN w /\ w[N].reclen = DIRBLKSIZ
  BY <1>3, <1>5, <1>10, <1>11
<1>17. \A q \in DOMAIN w \ DOMAIN d : w[q].ino = 0
  BY <1>5, <1>10
<1> QED  BY <1>2, <1>7, <1>10, <1>15, <1>16, <1>17

(* The empty block at the old end becomes the new entry.                   *)
LEMMA AppendTiled ==
    ASSUME NEW d, NEW N, Tiled(d, N), NEW n \in AnyName, NEW i \in Inum,
           NEW e, e = [ino |-> i, name |-> n, reclen |-> DIRBLKSIZ]
    PROVE  /\ Tiled(Put(Fill(d), N, e), Size(Put(Fill(d), N, e)))
           /\ Grown(d, Put(Fill(d), N, e), N, n, i)
           /\ \A q \in DOMAIN d : Put(Fill(d), N, e)[q] = d[q]
           /\ Put(Fill(d), N, e)[N] = e
<1>1. PICK E \in Nat :
         /\ Tiled(Fill(d), E) /\ N < E
         /\ N \in DOMAIN Fill(d) /\ Fill(d)[N].reclen = DIRBLKSIZ
         /\ \A q \in DOMAIN d : q \in DOMAIN Fill(d) /\ Fill(d)[q] = d[q]
         /\ \A q \in DOMAIN Fill(d) \ DOMAIN d : Fill(d)[q].ino = 0
  BY FillTiled
<1>2. PICK f : f = Fill(d)
  OBVIOUS
<1>3. PICK w : w = Put(f, N, e)
  OBVIOUS
<1>4. /\ DOMAIN w = DOMAIN f /\ w[N] = e /\ w = [q \in DOMAIN w |-> w[q]]
      /\ \A q \in DOMAIN f : q # N => w[q] = f[q]
  BY <1>1, <1>2, <1>3 DEF Put
<1>5. \A q \in DOMAIN f : w[q].reclen = f[q].reclen
  BY <1>1, <1>2, <1>4
<1>6. \A q \in DOMAIN f : w[q] \in Record /\ UFS_DIRSIZ(w[q].name) <= w[q].reclen
  <2>1. e \in Record
    BY BlockSize DEF Record
  <2>2. UFS_DIRSIZ(e.name) <= e.reclen
    BY NameFits
  <2> QED  BY <1>1, <1>2, <1>4, <2>1, <2>2 DEF Tiled
<1>7. Tiled(w, E)
  BY <1>1, <1>2, <1>4, <1>5, <1>6 DEF Tiled
<1>8. Size(w) = E /\ Size(d) = N
  BY <1>7, SizeIs
<1>9. N \notin DOMAIN d /\ N \in Nat /\ N % DIRBLKSIZ = 0
  BY DEF Tiled
<1>10. \A q \in DOMAIN d : q \in DOMAIN w /\ w[q] = d[q]
  BY <1>1, <1>2, <1>4, <1>9
<1>11. Grown(d, w, N, n, i)
  <2>1. \A q \in DOMAIN w \ (DOMAIN d \cup {N}) : w[q].ino = 0
    BY <1>1, <1>2, <1>4
  <2> QED  BY <1>1, <1>2, <1>4, <1>8, <1>9, <1>10, <2>1 DEF Grown
<1> QED  BY <1>2, <1>3, <1>4, <1>7, <1>8, <1>10, <1>11

-----------------------------------------------------------------------------
(* What a deletion does to a directory: the entry at offset o is gone, or  *)
(* names nothing any more, and the others stay where they are.             *)
Cut(d, w, o) ==
    /\ Size(w) = Size(d) /\ DOMAIN w \subseteq DOMAIN d
    /\ o % DIRBLKSIZ = 0 => o \in DOMAIN w
    /\ \A q \in DOMAIN d \ {o} : q \in DOMAIN w /\ w[q].ino = d[q].ino
                                                /\ w[q].name = d[q].name

Gone(d, w, o) == Cut(d, w, o) /\ (o \in DOMAIN w => w[o].ino = 0)

(* An entry gets another inode, or none: at the start of its block it      *)
(* becomes an empty one.                                                   *)
Renumbered(d, o, k) == [d EXCEPT ![o].ino = k]

LEMMA RenumberTiled ==
    ASSUME NEW d, NEW N, Tiled(d, N), NEW o \in DOMAIN d, NEW k \in Inum
    PROVE  /\ Tiled(Renumbered(d, o, k), N) /\ Cut(d, Renumbered(d, o, k), o)
           /\ DOMAIN Renumbered(d, o, k) = DOMAIN d
           /\ Renumbered(d, o, k)[o].ino = k
           /\ \A q \in DOMAIN d : /\ Renumbered(d, o, k)[q].name = d[q].name
                                  /\ Renumbered(d, o, k)[q].reclen = d[q].reclen
<1>1. PICK w : w = Renumbered(d, o, k)
  OBVIOUS
<1>2. \A q \in DOMAIN d : d[q] \in Record
  BY EntryFacts
<1>3. /\ DOMAIN w = DOMAIN d /\ w = [q \in DOMAIN w |-> w[q]]
      /\ \A q \in DOMAIN d \ {o} : w[q] = d[q]
      /\ w[o] = [ino |-> k, name |-> d[o].name, reclen |-> d[o].reclen]
  BY <1>1, <1>2 DEF Renumbered, Record
<1>4. \A q \in DOMAIN d : w[q].name = d[q].name /\ w[q].reclen = d[q].reclen
  BY <1>3
<1>5. \A q \in DOMAIN d : w[q] \in Record
  BY <1>2, <1>3 DEF Record
<1>6. Tiled(w, N)
  BY <1>3, <1>4, <1>5 DEF Tiled
<1>7. Size(w) = N /\ Size(d) = N
  BY <1>6, SizeIs
<1>8. Cut(d, w, o)
  BY <1>3, <1>7 DEF Cut
<1> QED  BY <1>1, <1>3, <1>4, <1>6, <1>8

(* Any other entry is merged into the one before it in its block.          *)
Merged(d, o) ==
    Restrict([d EXCEPT ![Most(Before(d, o))].reclen = @ + d[o].reclen],
             DOMAIN d \ {o})

LEMMA MergeTiled ==
    ASSUME NEW d, NEW N, Tiled(d, N), NEW o \in DOMAIN d, Before(d, o) # {}
    PROVE  /\ Tiled(Merged(d, o), N) /\ Gone(d, Merged(d, o), o)
           /\ Most(Before(d, o)) \in DOMAIN d \ {o}
           /\ Most(Before(d, o)) + d[Most(Before(d, o))].reclen = o
           /\ \A q \in DOMAIN d \ {o, Most(Before(d, o))} : Merged(d, o)[q] = d[q]
<1>1. PICK l : l = Most(Before(d, o))
  OBVIOUS
<1>2. /\ \A q \in DOMAIN d : /\ q \in Nat /\ q < N /\ d[q] \in Record
                             /\ d[q].reclen \in Nat /\ d[q].reclen >= 3
                             /\ q + d[q].reclen <= N
      /\ N \in Nat
  BY EntryFacts
<1>3. \A q \in DOMAIN d :
         /\ UFS_DIRSIZ(d[q].name) <= d[q].reclen
         /\ Block(q) = Block(q + d[q].reclen - 1)
         /\ q + d[q].reclen \in DOMAIN d \cup {N}
         /\ \A x \in DOMAIN d : x > q => x >= q + d[q].reclen
  BY DEF Tiled
<1>4. l \in Before(d, o) /\ \A q \in Before(d, o) : q <= l
  <2>1. Before(d, o) \subseteq 0..N
    BY <1>2 DEF Before
  <2> QED  BY <1>1, <1>2, <2>1, MostIs
<1>5. l \in DOMAIN d /\ l < o /\ Block(l) = Block(o)
  BY <1>4 DEF Before, Block
<1>6. l + d[l].reclen = o
  <2>1. PICK x \in Nat : x = l + d[l].reclen
    BY <1>2, <1>5
  <2>2. l < x /\ x <= o /\ x \in DOMAIN d
    BY <1>2, <1>3, <1>5, <2>1
  <2>3. Block(x) = Block(o)
    BY <1>2, <1>5, <2>2, BlockBetween
  <2>4. ~(x < o)
    BY <1>2, <1>4, <2>2, <2>3 DEF Before, Block
  <2> QED  BY <1>2, <2>1, <2>2, <2>4
<1>7. PICK w : w = Merged(d, o)
  OBVIOUS
<1>8. /\ DOMAIN w = DOMAIN d \ {o} /\ w = [q \in DOMAIN w |-> w[q]]
      /\ \A q \in DOMAIN d \ {o, l} : w[q] = d[q]
      /\ w[l] = [d[l] EXCEPT !.reclen = d[l].reclen + d[o].reclen]
  BY <1>1, <1>2, <1>5, <1>7 DEF Merged, Restrict
<1>9. w[l] = [ino |-> d[l].ino, name |-> d[l].name,
              reclen |-> d[l].reclen + d[o].reclen]
  BY <1>2, <1>5, <1>8 DEF Record
<1>10. l + w[l].reclen = o + d[o].reclen /\ w[l].reclen \in Nat
  BY <1>2, <1>5, <1>6, <1>9
<1>11. \A q \in DOMAIN w : w[q] \in Record
  BY <1>2, <1>5, <1>8, <1>9 DEF Record
<1>12. /\ UFS_DIRSIZ(w[l].name) <= w[l].reclen
       /\ Block(l) = Block(l + w[l].reclen - 1)
       /\ l + w[l].reclen \in DOMAIN w \cup {N}
       /\ \A q \in DOMAIN w : q > l => q >= l + w[l].reclen
  <2>1. UFS_DIRSIZ(d[l].name) <= d[l].reclen + d[o].reclen
    <3>1. UFS_DIRSIZ(d[l].name) \in Nat
      BY <1>2, <1>5, NameFits DEF Record
    <3> QED  BY <1>2, <1>3, <1>5, <3>1
  <2>2. \A q \in DOMAIN w : q > l => q >= o + d[o].reclen
    <3>1. SUFFICES ASSUME NEW q \in DOMAIN w, q > l
                   PROVE  q >= o + d[o].reclen
      OBVIOUS
    <3>2. q \in DOMAIN d /\ q # o /\ q >= o
      BY <1>3, <1>5, <1>6, <1>8, <3>1
    <3> QED  BY <1>2, <1>3, <3>2
  <2>3. o + d[o].reclen \in DOMAIN w \cup {N}
    BY <1>2, <1>3, <1>8
  <2>4. PICK z : z = o + d[o].reclen /\ z = l + w[l].reclen
    BY <1>10
  <2>5. Block(o) = Block(z - 1)
    <3>1. Block(o) = Block(o + d[o].reclen - 1)
      BY <1>3
    <3> QED  BY <1>2, <2>4, <3>1
  <2>6. UFS_DIRSIZ(w[l].name) <= w[l].reclen
    BY <1>9, <2>1
  <2>7. Block(l) = Block(l + w[l].reclen - 1)
    BY <1>2, <1>5, <1>10, <2>4, <2>5
  <2>8. l + w[l].reclen \in DOMAIN w \cup {N}
    BY <2>3, <2>4
  <2>9. \A q \in DOMAIN w : q > l => q >= l + w[l].reclen
    BY <2>2, <2>4
  <2> QED  BY <2>6, <2>7, <2>8, <2>9
<1>13. ASSUME NEW q \in DOMAIN d \ {o, l}
       PROVE  /\ UFS_DIRSIZ(w[q].name) <= w[q].reclen
              /\ Block(q) = Block(q + w[q].reclen - 1)
              /\ q + w[q].reclen \in DOMAIN w \cup {N}
              /\ \A x \in DOMAIN w : x > q => x >= q + w[q].reclen
  <2>1. w[q] = d[q]
    BY <1>8
  <2>2. q + d[q].reclen # o
    <3>1. CASE q < l
      BY <1>2, <1>3, <1>5, <3>1
    <3>2. CASE q > l
      BY <1>2, <1>3, <1>5, <1>6, <3>2
    <3> QED  BY <1>2, <1>5, <3>1, <3>2
  <2> QED  BY <1>3, <1>8, <2>1, <2>2
<1>14. Tiled(w, N)
  <2>1. N % DIRBLKSIZ = 0 /\ DOMAIN w \subseteq 0..(N - 1)
    BY <1>8 DEF Tiled
  <2>2. N > 0 => 0 \in DOMAIN w
    BY <1>2, <1>5, <1>8 DEF Tiled
  <2> QED  BY <1>2, <1>8, <1>11, <1>12, <1>13, <2>1, <2>2 DEF Tiled
<1>15. Size(w) = N /\ Size(d) = N
  BY <1>14, SizeIs
<1>16. o % DIRBLKSIZ # 0
  BY <1>2, <1>5, BlockStart
<1>17. Cut(d, w, o)
  <2>1. w[l].ino = d[l].ino /\ w[l].name = d[l].name
    BY <1>9
  <2>2. \A q \in DOMAIN d \ {o} : q \in DOMAIN w /\ w[q].ino = d[q].ino
                                               /\ w[q].name = d[q].name
    BY <1>8, <2>1
  <2>3. Size(w) = Size(d)
    BY <1>15
  <2>4. DOMAIN w \subseteq DOMAIN d
    BY <1>8
  <2> QED  BY <1>16, <2>2, <2>3, <2>4, Zenon DEF Cut
<1>18. Tiled(Merged(d, o), N) /\ Gone(d, Merged(d, o), o)
  BY <1>7, <1>8, <1>14, <1>17 DEF Gone
<1>19. l \in DOMAIN d \ {o}
  BY <1>2, <1>5
<1>20. \A q \in DOMAIN d \ {o, l} : Merged(d, o)[q] = d[q]
  BY <1>7, <1>8
<1> QED  BY <1>1, <1>6, <1>18, <1>19, <1>20

-----------------------------------------------------------------------------
(* The directories with "." and "..".                                      *)
LEMMA SplitDir ==
    ASSUME NEW d, DirOK(d), NEW n \in Name, NEW i \in Inum,
           NEW o \in Roomy(d, n), NEW e,
           e = [ino |-> i, name |-> n,
                reclen |-> d[o].reclen - UFS_DIRSIZ(d[o].name)]
    PROVE  /\ DirOK(Split(d, o, e))
           /\ Grown(d, Split(d, o, e), o + UFS_DIRSIZ(d[o].name), n, i)
<1>1. PICK w : w = Split(d, o, e)
  OBVIOUS
<1>2. /\ Tiled(w, Size(d)) /\ Grown(d, w, o + UFS_DIRSIZ(d[o].name), n, i)
      /\ \A q \in DOMAIN d \ {o} : w[q] = d[q]
  BY <1>1, SplitTiled DEF DirOK, AnyName
<1>3. Size(w) = Size(d)
  BY <1>2, SizeIs
<1>4. o # 0
  <2>1. SUFFICES ASSUME o = 0 PROVE FALSE
    OBVIOUS
  <2>2. d[0].reclen = 3 /\ UFS_DIRSIZ(d[0].name) = 3 /\ Needed(n) \in Nat
    BY NameFits DEF DirOK, Dots, AnyName
  <2> QED  BY <2>1, <2>2 DEF Roomy
<1>5. Dots(w)
  BY <1>2, <1>4 DEF DirOK, Dots, Grown
<1> QED  BY <1>1, <1>2, <1>3, <1>5 DEF DirOK

LEMMA AppendDir ==
    ASSUME NEW d, DirOK(d), NEW n \in Name, NEW i \in Inum,
           NEW e, e = [ino |-> i, name |-> n, reclen |-> DIRBLKSIZ]
    PROVE  /\ DirOK(Put(Fill(d), Size(d), e))
           /\ Grown(d, Put(Fill(d), Size(d), e), Size(d), n, i)
<1>1. PICK w : w = Put(Fill(d), Size(d), e)
  OBVIOUS
<1>2. /\ Tiled(w, Size(w)) /\ Grown(d, w, Size(d), n, i)
      /\ \A q \in DOMAIN d : w[q] = d[q]
  BY <1>1, AppendTiled DEF DirOK, AnyName
<1>3. Dots(w)
  BY <1>2 DEF DirOK, Dots, Grown
<1> QED  BY <1>1, <1>2, <1>3 DEF DirOK

LEMMA RenumberDir ==
    ASSUME NEW d, DirOK(d), NEW o \in DOMAIN d, NEW k \in Inum
    PROVE  /\ (k # 0 => d[o].ino # 0) => DirOK(Renumbered(d, o, k))
           /\ Cut(d, Renumbered(d, o, k), o)
           /\ DOMAIN Renumbered(d, o, k) = DOMAIN d
           /\ Renumbered(d, o, k)[o].ino = k
<1>1. Tiled(d, Size(d)) /\ Dots(d)
  BY DEF DirOK
<1>2. PICK w : w = Renumbered(d, o, k)
  OBVIOUS
<1>3. /\ Tiled(w, Size(d)) /\ Cut(d, w, o) /\ DOMAIN w = DOMAIN d
      /\ w[o].ino = k
      /\ \A q \in DOMAIN d : w[q].name = d[q].name /\ w[q].reclen = d[q].reclen
  BY <1>1, <1>2, RenumberTiled
<1>4. Size(w) = Size(d)
  BY <1>3, SizeIs
<1>5. ASSUME k # 0 => d[o].ino # 0 PROVE Dots(w)
  BY <1>1, <1>3, <1>5 DEF Dots, Cut
<1> QED  BY <1>1, <1>2, <1>3, <1>4, <1>5 DEF DirOK

LEMMA CutDir ==
    ASSUME NEW d, DirOK(d), NEW o \in DOMAIN d \ {0, 3}
    PROVE  /\ DirOK(Renumbered(d, o, 0)) /\ Gone(d, Renumbered(d, o, 0), o)
           /\ Before(d, o) # {} => DirOK(Merged(d, o)) /\ Gone(d, Merged(d, o), o)
<1>1. Tiled(d, Size(d)) /\ Dots(d)
  BY DEF DirOK
<1>2. DirOK(Renumbered(d, o, 0)) /\ Gone(d, Renumbered(d, o, 0), o)
  BY RenumberDir, ZeroInum DEF Gone
<1>3. ASSUME Before(d, o) # {}
      PROVE  DirOK(Merged(d, o)) /\ Gone(d, Merged(d, o), o)
  <2>1. PICK w : w = Merged(d, o)
    OBVIOUS
  <2>2. PICK l : l = Most(Before(d, o))
    OBVIOUS
  <2>3. /\ Tiled(w, Size(d)) /\ Gone(d, w, o)
        /\ l + d[l].reclen = o /\ l \in DOMAIN d
        /\ \A q \in DOMAIN d \ {o, l} : w[q] = d[q]
    BY <1>1, <1>3, <2>1, <2>2, MergeTiled
  <2>4. Size(w) = Size(d)
    BY <2>3, SizeIs
  <2>5. l # 0
    BY <1>1, <2>3 DEF Dots
  <2>6. Dots(w)
    BY <1>1, <2>3, <2>5 DEF Dots, Gone, Cut
  <2> QED  BY <2>1, <2>3, <2>4, <2>6 DEF DirOK
<1> QED  BY <1>2, <1>3

-----------------------------------------------------------------------------
(* A volume, and what holds of each of its inodes.                         *)
Shape(v) ==
    /\ v = [ct |-> v.ct, mode |-> v.mode, nlink |-> v.nlink, used |-> v.used,
            cg |-> v.cg, ronly |-> v.ronly]
    /\ DOMAIN v.ct = Inum /\ v.ct = [i \in Inum |-> v.ct[i]]
    /\ v.mode \in [Inum -> {"none", "dir", "file", "link"}]
    /\ v.used \subseteq Inum
    /\ v.cg \in [Group -> [nifree : Nat, ndir : Int, irotor : Nat]]
    /\ v.mode[0] # "dir"

InodeOK(v, i) ==
    IF v.mode[i] = "dir" THEN i \in v.used /\ DirOK(v.ct[i]) ELSE v.ct[i] = <<>>

VolOK(v) == Shape(v) /\ \A i \in Inum : InodeOK(v, i)

WithDir(v, p, w) == [v EXCEPT !.ct[p] = w]

(* x is v but for the entries of p, which are w.                           *)
DirSet(v, x, p, w) ==
    /\ Shape(x)
    /\ x.ct[p] = w /\ \A j \in Inum \ {p} : x.ct[j] = v.ct[j]
    /\ x.mode = v.mode /\ x.nlink = v.nlink /\ x.used = v.used /\ x.cg = v.cg

LEMMA WithDirIs ==
    ASSUME NEW v, Shape(v), NEW p \in Inum, NEW w
    PROVE  DirSet(v, WithDir(v, p, w), p, w)
<1>1. PICK x : x = WithDir(v, p, w)
  OBVIOUS
<1>2. x = [ct |-> [v.ct EXCEPT ![p] = w], mode |-> v.mode, nlink |-> v.nlink,
           used |-> v.used, cg |-> v.cg, ronly |-> v.ronly]
  BY <1>1 DEF WithDir, Shape
<1>3. /\ x.ct = [v.ct EXCEPT ![p] = w] /\ x.mode = v.mode /\ x.used = v.used
      /\ x.cg = v.cg /\ x.nlink = v.nlink /\ x.ronly = v.ronly
  BY <1>2
<1>4. /\ x.ct[p] = w /\ \A j \in Inum \ {p} : x.ct[j] = v.ct[j]
      /\ DOMAIN x.ct = Inum /\ x.ct = [i \in Inum |-> x.ct[i]]
  BY <1>3 DEF Shape
<1>5. Shape(x)
  BY <1>2, <1>3, <1>4 DEF Shape
<1> QED  BY <1>1, <1>3, <1>4, <1>5 DEF DirSet

LEMMA DirSetOK ==
    ASSUME NEW v, VolOK(v), NEW p \in Inum, v.mode[p] = "dir",
           NEW w, DirOK(w), NEW x, DirSet(v, x, p, w)
    PROVE  VolOK(x)
<1>1. \A j \in Inum : InodeOK(x, j)
  BY DEF VolOK, InodeOK, DirSet
<1> QED  BY <1>1 DEF VolOK, DirSet

-----------------------------------------------------------------------------
(* dir_create() in a directory in order.                                   *)
LEMMA CreateIs ==
    ASSUME NEW v, Shape(v), NEW p \in Inum, v.mode[p] = "dir", DirOK(v.ct[p]),
           NEW n \in Name, NEW i \in Inum, NEW more
    PROVE  \/ dir_create(v, p, n, i, more) = [ok |-> FALSE, v |-> v, at |-> 0]
           \/ \E w, at : /\ DirOK(w) /\ Grown(v.ct[p], w, at, n, i)
                         /\ dir_create(v, p, n, i, more)
                               = [ok |-> TRUE, v |-> WithDir(v, p, w), at |-> at]
<1>1. PICK d : d = v.ct[p]
  OBVIOUS
<1>2. CASE Roomy(d, n) # {}
  <2>1. Roomy(d, n) \subseteq Nat
    BY <1>1 DEF Roomy, DirOK, Tiled
  <2>2. PICK o \in Roomy(d, n) : o = Least(Roomy(d, n))
    BY <1>2, <2>1, LeastIs
  <2>3. PICK e : e = [ino |-> i, name |-> n,
                      reclen |-> d[o].reclen - UFS_DIRSIZ(d[o].name)]
    OBVIOUS
  <2>4. PICK w : w = Split(d, o, e)
    OBVIOUS
  <2>5. DirOK(w) /\ Grown(d, w, o + UFS_DIRSIZ(d[o].name), n, i)
    BY <1>1, <2>3, <2>4, SplitDir
  <2>6. dir_create(v, p, n, i, more)
            = [ok |-> TRUE, v |-> WithDir(v, p, w),
               at |-> o + UFS_DIRSIZ(d[o].name)]
    BY <1>1, <1>2, <2>2, <2>3, <2>4 DEF dir_create, Split, WithDir
  <2> QED  BY <1>1, <2>5, <2>6
<1>3. CASE Roomy(d, n) = {}
  <2>1. PICK e : e = [ino |-> i, name |-> n, reclen |-> DIRBLKSIZ]
    OBVIOUS
  <2>2. PICK w : w = Put(Fill(d), Size(d), e)
    OBVIOUS
  <2>3. DirOK(w) /\ Grown(d, w, Size(d), n, i)
    BY <1>1, <2>1, <2>2, AppendDir
  <2>4. \/ dir_create(v, p, n, i, more) = [ok |-> FALSE, v |-> v, at |-> 0]
        \/ dir_create(v, p, n, i, more)
               = [ok |-> TRUE, v |-> WithDir(v, p, w), at |-> Size(d)]
    BY <1>1, <1>3, <2>1, <2>2 DEF dir_create, WithDir
  <2> QED  BY <1>1, <2>3, <2>4
<1> QED  BY <1>2, <1>3

(* dir_offset_delete() of an entry that is not one of the first two.       *)
LEMMA DeleteIs ==
    ASSUME NEW v, Shape(v), NEW p \in Inum, DirOK(v.ct[p]),
           NEW o \in DOMAIN v.ct[p] \ {0, 3}, NEW check \in BOOLEAN
    PROVE  \/ check /\ dir_offset_delete(v, p, o, check) = [inum |-> 0, v |-> v]
           \/ \E w : /\ DirOK(w) /\ Gone(v.ct[p], w, o)
                     /\ dir_offset_delete(v, p, o, check)
                           = [inum |-> v.ct[p][o].ino, v |-> WithDir(v, p, w)]
<1>1. PICK d : d = v.ct[p]
  OBVIOUS
<1>2. PICK r : r = dir_offset_delete(v, p, o, check)
  OBVIOUS
<1>3. CASE check /\ dir_is_not_empty(v, d[o].ino)
  BY <1>1, <1>3 DEF dir_offset_delete
<1>4. CASE ~(check /\ dir_is_not_empty(v, d[o].ino)) /\ Before(d, o) = {}
  <2>1. DirOK(Renumbered(d, o, 0)) /\ Gone(d, Renumbered(d, o, 0), o)
    BY <1>1, <1>4, CutDir
  <2>2. r.inum = d[o].ino /\ r = [inum |-> r.inum, v |-> r.v]
        /\ r.v = [v EXCEPT !.ct[p][o].ino = 0]
    BY <1>1, <1>2, <1>4 DEF dir_offset_delete
  <2>3. [v EXCEPT !.ct[p][o].ino = 0] = WithDir(v, p, Renumbered(d, o, 0))
    BY <1>1 DEF WithDir, Renumbered
  <2> QED  BY <1>1, <1>2, <2>1, <2>2, <2>3
<1>5. CASE ~(check /\ dir_is_not_empty(v, d[o].ino)) /\ Before(d, o) # {}
  <2>1. DirOK(Merged(d, o)) /\ Gone(d, Merged(d, o), o)
    BY <1>1, <1>5, CutDir
  <2>2. r = [inum |-> d[o].ino, v |-> WithDir(v, p, Merged(d, o))]
    BY <1>1, <1>2, <1>5 DEF dir_offset_delete, WithDir, Merged
  <2> QED  BY <1>1, <1>2, <2>1, <2>2
<1> QED  BY <1>3, <1>4, <1>5

-----------------------------------------------------------------------------
(* What a search by name comes to.                                         *)
LEMMA SearchIn ==
    ASSUME NEW v, VolOK(v), NEW p \in Inum, NEW n
    PROVE  /\ dir_name_search(v, p, n) = -1
              \/ dir_name_search(v, p, n) \in DOMAIN v.ct[p]
           /\ v.mode[p] = "dir" /\ n \in Name /\ dir_name_search(v, p, n) # -1
                 => dir_name_search(v, p, n) \notin {0, 3}
           /\ InumAt(v, p, dir_name_search(v, p, n)) \in Inum
           /\ Lookup(v, p, n) \in Inum
<1>1. PICK d : d = v.ct[p]
  OBVIOUS
<1>2. PICK o : o = dir_name_search(v, p, n)
  OBVIOUS
<1>3. PICK exact : exact = {q \in Live(d) : d[q].name = n}
  OBVIOUS
<1>4. PICK alike : alike = {q \in DOMAIN d : n \in Name /\ d[q].name \in Name
                                             /\ case[d[q].name] = case[n]}
  OBVIOUS
<1>5. PICK last : last = {q \in alike : \A x \in alike : Frag(x) <= Frag(q)}
  OBVIOUS
<1>6. o = -1 \/ (exact # {} /\ o = Least(exact))
             \/ (o = Least(last) /\ alike # {})
  BY <1>1, <1>2, <1>3, <1>4, <1>5 DEF dir_name_search
<1>7. CASE v.mode[p] = "dir"
  <2>1. Tiled(d, Size(d)) /\ Dots(d)
    BY <1>1, <1>7 DEF VolOK, InodeOK, DirOK
  <2>2. DOMAIN d \subseteq Nat
    BY <2>1 DEF Tiled
  <2>3. exact # {} => Least(exact) \in exact
    <3>1. exact \subseteq Nat
      BY <1>3, <2>2 DEF Live
    <3> QED  BY <3>1, LeastIs
  <2>4. alike # {} => Least(last) \in alike
    <3>1. alike \subseteq DOMAIN d
      BY <1>4
    <3>2. SUFFICES ASSUME alike # {} PROVE Least(last) \in alike
      OBVIOUS
    <3>3. last # {}
      <4>1. \A q \in alike : Frag(q) \in 0..Size(d)
        <5>1. SUFFICES ASSUME NEW q \in alike PROVE Frag(q) \in 0..Size(d)
          OBVIOUS
        <5>2. q \in Nat /\ Size(d) \in Nat /\ q < Size(d)
          BY <2>1, <3>1, EntryFacts
        <5>3. PICK F \in Nat : F = BlocksPerFrag * DIRBLKSIZ /\ F > 0
          BY BlockAssumption
        <5>4. q \div F \in Nat /\ q \div F <= q
            BY <5>2, <5>3, Divides, DivBelow
        <5> QED  BY <5>2, <5>3, <5>4 DEF Frag
      <4>2. PICK T : T = {Frag(q) : q \in alike}
        OBVIOUS
      <4>3. T \subseteq 0..Size(d) /\ T # {}
        BY <3>2, <4>1, <4>2
      <4>4. Size(d) \in Nat
        BY <2>1 DEF Tiled
      <4>5. Most(T) \in T /\ \A y \in T : y <= Most(T)
        BY <4>3, <4>4, MostIs
      <4>6. PICK q \in alike : Most(T) = Frag(q)
        BY <4>2, <4>5
      <4>7. \A x \in alike : Frag(x) <= Frag(q)
        BY <4>2, <4>5, <4>6
      <4> QED  BY <1>5, <4>7
    <3>4. last \subseteq Nat /\ last \subseteq alike
      BY <1>5, <2>2, <3>1
    <3>5. Least(last) \in last
      BY <3>3, <3>4, LeastIs
    <3> QED  BY <3>4, <3>5
  <2>5. o = -1 \/ (o \in DOMAIN d /\ (d[o].name = n \/ d[o].name \in Name))
    BY <1>3, <1>4, <1>6, <2>3, <2>4 DEF Live
  <2>6. n \in Name /\ o # -1 => o \notin {0, 3}
    BY <2>1, <2>5, NamesApart DEF Dots
  <2>7. InumAt(v, p, o) \in Inum
    BY <1>1, <2>1, <2>5, ZeroInum, EntryFacts DEF InumAt
  <2> QED  BY <1>1, <1>2, <2>5, <2>6, <2>7 DEF Lookup
<1>8. CASE v.mode[p] # "dir"
  <2>1. DOMAIN d = {}
    BY <1>1, <1>8 DEF VolOK, InodeOK
  <2>2. exact = {} /\ alike = {}
    BY <1>3, <1>4, <2>1 DEF Live
  <2>3. o = -1
    BY <1>6, <2>2
  <2> QED  BY <1>2, <1>8, <2>3, ZeroInum DEF Lookup, InumAt
<1> QED  BY <1>7, <1>8

-----------------------------------------------------------------------------
(* inum_new() finds an inode that is not in use, or none.                  *)
LEMMA FoundIs ==
    ASSUME NEW v, NEW g \in Group, FreeIn(v, g) # {}
    PROVE  /\ Found(v, g) \in Nat
           /\ g * ipg + Found(v, g) \in Inum \ v.used
           /\ g * ipg + Found(v, g) > ROOTINO
           /\ itog(g * ipg + Found(v, g)) = g
<1>1. /\ ipg \in Nat /\ ipg > 3 /\ Group = 0..(ncg - 1) /\ ncg \in Nat
  <2>1. IsFiniteSet(Group) /\ ipg \in Nat /\ ipg > 3 /\ Group = 0..(ncg - 1)
    BY GroupAssumption
  <2> QED  BY <2>1, FS_CardinalityType DEF ncg
<1>2. PICK A : A = {k \in FreeIn(v, g) : k >= v.cg[g].irotor}
  OBVIOUS
<1>3. FreeIn(v, g) \subseteq Nat /\ A \subseteq Nat
  <2>1. PICK m \in Nat : m = IF g = 0 THEN 3 ELSE 0
    OBVIOUS
  <2>2. FreeIn(v, g) \subseteq m..(ipg - 1)
    BY <2>1 DEF FreeIn
  <2> QED  BY <1>1, <1>2, <2>1, <2>2
<1>4. Found(v, g) \in FreeIn(v, g)
  <2>1. CASE A # {}
    <3>1. Least(A) \in A
      BY <1>3, <2>1, LeastIs
    <3> QED  BY <1>2, <2>1, <3>1 DEF Found
  <2>2. CASE A = {}
    <3>1. Least(FreeIn(v, g)) \in FreeIn(v, g)
      BY <1>3, LeastIs
    <3> QED  BY <1>2, <2>2, <3>1 DEF Found
  <2> QED  BY <2>1, <2>2
<1>5. PICK k : k = Found(v, g)
  OBVIOUS
<1>6. /\ k \in 0..(ipg - 1) /\ g * ipg + k \notin v.used
      /\ g = 0 => k >= 3
  BY <1>1, <1>4, <1>5 DEF FreeIn
<1>7. g * ipg + k \in 0..(ncg * ipg - 1)
  BY <1>1, <1>6, InProduct
<1>8. g * ipg + k > 2
  <2>1. g \in Nat /\ k \in Nat
    BY <1>1, <1>6
  <2>2. CASE g = 0
    BY <1>1, <1>6, <2>1, <2>2
  <2>3. CASE g # 0
    <3>1. g * ipg >= ipg /\ g * ipg \in Nat
      BY <1>1, <2>1, <2>3
    <3> QED  BY <1>1, <2>1, <3>1
  <2> QED  BY <2>2, <2>3
<1>9. (g * ipg + k) \div ipg = g
  <2>1. g \in Nat /\ k \in Nat /\ k < ipg /\ g * ipg = ipg * g
    BY <1>1, <1>6
  <2>2. (ipg * g + k) \div ipg = g
    BY <1>1, <2>1, DivMod
  <2> QED  BY <2>1, <2>2
<1> QED  BY <1>5, <1>6, <1>7, <1>8, <1>9 DEF Inum, ROOTINO, itog

(* An inode is taken from its group, and k more directories are counted.   *)
Counts(v, x, i, k) ==
    \E c \in [nifree : Nat, ndir : Int, irotor : Nat] :
        /\ itog(i) \in Group
        /\ x.cg = [v.cg EXCEPT ![itog(i)] = c]
        /\ c.nifree = v.cg[itog(i)].nifree - 1
        /\ c.ndir = v.cg[itog(i)].ndir + k

Numbered(v, r, k) ==
    /\ VolOK(r.v) /\ r.v.ct = v.ct /\ r.v.mode = v.mode /\ r.v.nlink = v.nlink
    /\ r.got = 0 => r.v.used = v.used /\ r.v.cg = v.cg
    /\ r.got # 0 => /\ r.got \in Inum \ v.used /\ r.got > ROOTINO
                    /\ r.v.used = v.used \cup {r.got}
                    /\ Counts(v, r.v, r.got, k)

LEMMA NewIs ==
    ASSUME NEW v, VolOK(v), NEW p, NEW isdir \in BOOLEAN, NEW roomy,
           roomy \subseteq Group, NEW n, n = IF isdir THEN 1 ELSE 0
    PROVE  Numbered(v, inum_new(v, p, isdir, roomy), n)
<1>1. /\ Group = 0..(ncg - 1) /\ ncg \in Nat /\ Group \subseteq Nat
      /\ Group \subseteq 0..ncg
  <2>1. IsFiniteSet(Group) /\ Group = 0..(ncg - 1)
    BY GroupAssumption
  <2>2. ncg \in Nat
    BY <2>1, FS_CardinalityType DEF ncg
  <2> QED  BY <2>1, <2>2
<1>2. \A g \in Group : v.cg[g].nifree \in Nat
  BY DEF VolOK, Shape
<1>3. PICK r : r = inum_new(v, p, isdir, roomy)
  OBVIOUS
<1>4. PICK gs : gs = (IF isdir THEN GroupForDir(v, roomy) ELSE GroupForFile(v, p))
  OBVIOUS
<1>5. \/ r = NoInode(v) \/ r = NoInode([v EXCEPT !.ronly = TRUE])
      \/ /\ ~\A g \in Group : v.cg[g].nifree = 0
         /\ gs # {} /\ FreeIn(v, Least(gs)) # {} /\ r = Take(v, Least(gs), isdir)
  BY <1>3, <1>4 DEF inum_new
<1>6. CASE r = NoInode(v)
  BY <1>3, <1>6 DEF NoInode, Numbered
<1>7. CASE r = NoInode([v EXCEPT !.ronly = TRUE])
  <2>1. PICK w : w = [v EXCEPT !.ronly = TRUE]
    OBVIOUS
  <2>2. r.got = 0 /\ r.v = w
    BY <1>7, <2>1 DEF NoInode
  <2>3. w = [ct |-> v.ct, mode |-> v.mode, nlink |-> v.nlink, used |-> v.used,
             cg |-> v.cg, ronly |-> TRUE]
    BY <2>1 DEF VolOK, Shape
  <2>4. /\ Shape(w) /\ w.ct = v.ct /\ w.mode = v.mode /\ w.used = v.used
        /\ w.nlink = v.nlink /\ w.cg = v.cg
    BY <2>3 DEF VolOK, Shape
  <2>5. VolOK(w)
    BY <2>4 DEF VolOK, InodeOK
  <2> QED  BY <1>3, <2>2, <2>4, <2>5 DEF Numbered
<1>8. ASSUME ~\A g \in Group : v.cg[g].nifree = 0, gs # {},
             FreeIn(v, Least(gs)) # {}, r = Take(v, Least(gs), isdir)
      PROVE  Numbered(v, r, n)
  <2>1. gs \subseteq {h \in Group : v.cg[h].nifree > 0}
    <3>1. CASE isdir
      BY <1>4, <3>1 DEF GroupForDir
    <3>2. CASE ~isdir
      <4>1. PICK some : some = {h \in Group : v.cg[h].nifree > 0}
        OBVIOUS
      <4>2. some # {} /\ some \subseteq Group
        BY <1>2, <1>8, <4>1
      <4>3. PICK up : up = {h \in some : h >= itog(p)}
        OBVIOUS
      <4>4. gs = IF up # {} THEN {Least(up)} ELSE {Most(some)}
        BY <1>4, <3>2, <4>1, <4>3 DEF GroupForFile
      <4>5. up # {} => Least(up) \in up
        <5>1. up \subseteq Nat
          BY <1>1, <4>2, <4>3
        <5> QED  BY <5>1, LeastIs
      <4>6. Most(some) \in some
        <5>1. some \subseteq 0..ncg
          BY <1>1, <4>2
        <5> QED  BY <1>1, <4>2, <5>1, MostIs
      <4> QED  BY <4>1, <4>3, <4>4, <4>5, <4>6
    <3> QED  BY <3>1, <3>2
  <2>2. PICK g \in gs : g = Least(gs)
    <3>1. gs \subseteq Nat
      BY <1>1, <2>1
    <3> QED  BY <1>8, <3>1, LeastIs
  <2>3. g \in Group /\ v.cg[g].nifree > 0
    BY <2>1
  <2>4. PICK k : k = Found(v, g)
    OBVIOUS
  <2>5. /\ k \in Nat /\ g * ipg + k \in Inum \ v.used
        /\ g * ipg + k > ROOTINO /\ itog(g * ipg + k) = g
    BY <1>8, <2>2, <2>3, <2>4, FoundIs
  <2>6. PICK i : i = g * ipg + k
    OBVIOUS
  <2>7. PICK c : c = [nifree |-> v.cg[g].nifree - 1,
                      ndir |-> IF isdir THEN v.cg[g].ndir + 1 ELSE v.cg[g].ndir,
                      irotor |-> k]
    OBVIOUS
  <2>8. r = [got |-> i, v |-> [v EXCEPT !.used = v.used \cup {i}, !.cg[g] = c]]
    BY <1>8, <2>2, <2>4, <2>6, <2>7 DEF Take
  <2>9. PICK w : w = r.v
    OBVIOUS
  <2>10. w = [ct |-> v.ct, mode |-> v.mode, nlink |-> v.nlink,
              used |-> v.used \cup {i}, cg |-> [v.cg EXCEPT ![g] = c],
              ronly |-> v.ronly]
    BY <2>8, <2>9 DEF VolOK, Shape
  <2>11. c \in [nifree : Nat, ndir : Int, irotor : Nat]
    BY <2>3, <2>5, <2>7 DEF VolOK, Shape
  <2>12. /\ w.ct = v.ct /\ w.mode = v.mode /\ w.used = v.used \cup {i}
         /\ w.nlink = v.nlink /\ w.cg = [v.cg EXCEPT ![g] = c]
    BY <2>10
  <2>13. Shape(w)
    <3>1. w.cg \in [Group -> [nifree : Nat, ndir : Int, irotor : Nat]]
      BY <2>11, <2>12 DEF VolOK, Shape
    <3> QED  BY <2>5, <2>6, <2>10, <2>12, <3>1 DEF VolOK, Shape
  <2>14. VolOK(w)
    BY <2>12, <2>13 DEF VolOK, InodeOK
  <2>15. r.got = i /\ i # 0
    BY <2>5, <2>6, <2>8 DEF ROOTINO
  <2>16. Counts(v, w, i, n)
    <3>1. c.nifree = v.cg[g].nifree - 1 /\ c.ndir = v.cg[g].ndir + n
      <4>1. v.cg[g].ndir \in Int
        BY <2>3 DEF VolOK, Shape
      <4>2. c.nifree = v.cg[g].nifree - 1
            /\ c.ndir = IF isdir THEN v.cg[g].ndir + 1 ELSE v.cg[g].ndir
        BY <2>7
      <4> QED  BY <4>1, <4>2
    <3> QED  BY <2>3, <2>5, <2>6, <2>11, <2>12, <3>1 DEF Counts
  <2> QED  BY <2>5, <2>6, <2>9, <2>12, <2>14, <2>15, <2>16 DEF Numbered
<1> QED  BY <1>3, <1>5, <1>6, <1>7, <1>8

-----------------------------------------------------------------------------
(* What the routines of fs/dir.c and fs/inode.c make of a volume v: x.     *)

Created(v, x, p, at, n, i) ==
    \E w : DirOK(w) /\ Grown(v.ct[p], w, at, n, i) /\ DirSet(v, x, p, w)

Deleted(v, x, p, o) ==
    \E w : DirOK(w) /\ Gone(v.ct[p], w, o) /\ DirSet(v, x, p, w)

(* Only inode i has changed: its type, its entries or whether it is in use.*)
Aside(v, x, i) ==
    /\ Shape(x) /\ x.ct[i] = <<>>
    /\ \A j \in Inum \ {i} : /\ x.ct[j] = v.ct[j] /\ x.mode[j] = v.mode[j]
                             /\ j \in x.used <=> j \in v.used

(* Only counts of links have changed.                                      *)
Counted(v, x) ==
    /\ Shape(x) /\ x.ct = v.ct /\ x.mode = v.mode
    /\ x.used = v.used /\ x.cg = v.cg

LEMMA Creates ==
    ASSUME NEW v, Shape(v), NEW p \in Inum, v.mode[p] = "dir", DirOK(v.ct[p]),
           NEW n \in Name, NEW i \in Inum, NEW more
    PROVE  LET r == dir_create(v, p, n, i, more)
           IN  \/ r.ok = FALSE /\ r.v = v
               \/ r.ok = TRUE /\ Created(v, r.v, p, r.at, n, i)
<1>1. CASE dir_create(v, p, n, i, more) = [ok |-> FALSE, v |-> v, at |-> 0]
  BY <1>1
<1>2. ASSUME NEW w, NEW at, DirOK(w), Grown(v.ct[p], w, at, n, i),
             dir_create(v, p, n, i, more)
                 = [ok |-> TRUE, v |-> WithDir(v, p, w), at |-> at]
      PROVE  LET r == dir_create(v, p, n, i, more)
             IN  r.ok = TRUE /\ Created(v, r.v, p, r.at, n, i)
  <2>1. DirSet(v, WithDir(v, p, w), p, w)
    BY WithDirIs
  <2>2. Created(v, WithDir(v, p, w), p, at, n, i)
    BY <1>2, <2>1 DEF Created
  <2> QED  BY <1>2, <2>2
<1> QED  BY <1>1, <1>2, CreateIs

LEMMA Deletes ==
    ASSUME NEW v, Shape(v), NEW p \in Inum, DirOK(v.ct[p]),
           NEW o \in DOMAIN v.ct[p] \ {0, 3}, NEW check \in BOOLEAN
    PROVE  LET r == dir_offset_delete(v, p, o, check)
           IN  \/ check /\ r.inum = 0 /\ r.v = v
               \/ r.inum = v.ct[p][o].ino /\ Deleted(v, r.v, p, o)
<1>1. CASE check /\ dir_offset_delete(v, p, o, check) = [inum |-> 0, v |-> v]
  <2>1. PICK r : r = dir_offset_delete(v, p, o, check)
    OBVIOUS
  <2>2. check
    BY <1>1
  <2>3. r = [inum |-> 0, v |-> v]
    BY <1>1, <2>1, Zenon
  <2>4. r.inum = 0 /\ r.v = v
    BY <2>3
  <2> QED  BY <2>1, <2>2, <2>4, Zenon
<1>2. ASSUME NEW w, DirOK(w), Gone(v.ct[p], w, o),
             dir_offset_delete(v, p, o, check)
                 = [inum |-> v.ct[p][o].ino, v |-> WithDir(v, p, w)]
      PROVE  LET r == dir_offset_delete(v, p, o, check)
             IN  r.inum = v.ct[p][o].ino /\ Deleted(v, r.v, p, o)
  <2>1. DirSet(v, WithDir(v, p, w), p, w)
    BY WithDirIs
  <2>2. Deleted(v, WithDir(v, p, w), p, o)
    BY <1>2, <2>1 DEF Deleted
  <2> QED  BY <1>2, <2>2
<1> QED  BY <1>1, <1>2, DeleteIs

LEMMA SaneIs ==
    ASSUME NEW v, Shape(v), NEW i \in Inum \ {0}, NEW type,
           type \in {"dir", "file", "link"}
    PROVE  /\ Aside(v, inum_sane(v, i, type), i)
           /\ inum_sane(v, i, type).mode[i] = type
           /\ inum_sane(v, i, type).used = v.used
<1>1. PICK x : x = inum_sane(v, i, type)
  OBVIOUS
<1>2. PICK k : k = (IF type = "dir" THEN 2 ELSE 1)
  OBVIOUS
<1>3. x = [ct |-> [v.ct EXCEPT ![i] = <<>>],
           mode |-> [v.mode EXCEPT ![i] = type],
           nlink |-> [v.nlink EXCEPT ![i] = k],
           used |-> v.used, cg |-> v.cg, ronly |-> v.ronly]
  BY <1>1, <1>2 DEF inum_sane, Shape
<1>4. /\ x.ct = [v.ct EXCEPT ![i] = <<>>]
      /\ x.mode = [v.mode EXCEPT ![i] = type]
      /\ x.used = v.used /\ x.cg = v.cg
      /\ x = [ct |-> x.ct, mode |-> x.mode, nlink |-> x.nlink,
              used |-> x.used, cg |-> x.cg, ronly |-> x.ronly]
  BY <1>3
<1>5. /\ DOMAIN x.ct = Inum /\ x.ct = [j \in Inum |-> x.ct[j]]
      /\ x.ct[i] = <<>> /\ \A j \in Inum \ {i} : x.ct[j] = v.ct[j]
  BY <1>4 DEF Shape
<1>6. /\ x.mode \in [Inum -> {"none", "dir", "file", "link"}]
      /\ x.mode[i] = type /\ \A j \in Inum \ {i} : x.mode[j] = v.mode[j]
  BY <1>4 DEF Shape
<1>7. Shape(x)
  BY <1>4, <1>5, <1>6, ZeroInum DEF Shape
<1> QED  BY <1>1, <1>4, <1>5, <1>6, <1>7 DEF Aside

LEMMA FreeIs ==
    ASSUME NEW v, Shape(v), NEW i \in Inum
    PROVE  /\ Aside(v, inum_free(v, i), i)
           /\ inum_free(v, i).mode[i] = "none"
<1>1. PICK x : x = inum_free(v, i)
  OBVIOUS
<1>2. PICK g : g = itog(i)
  OBVIOUS
<1>3. PICK c : c = [nifree |-> v.cg[g].nifree + 1,
                    ndir   |-> IF v.mode[i] = "dir" THEN v.cg[g].ndir - 1
                               ELSE v.cg[g].ndir,
                    irotor |-> i % ipg]
  OBVIOUS
<1>4. x = [ct |-> [v.ct EXCEPT ![i] = <<>>],
           mode |-> [v.mode EXCEPT ![i] = "none"],
           nlink |-> [v.nlink EXCEPT ![i] = 0],
           used |-> v.used \ {i}, cg |-> [v.cg EXCEPT ![g] = c],
           ronly |-> v.ronly]
  BY <1>1, <1>2, <1>3 DEF inum_free, Shape
<1>5. /\ x.ct = [v.ct EXCEPT ![i] = <<>>]
      /\ x.mode = [v.mode EXCEPT ![i] = "none"]
      /\ x.used = v.used \ {i} /\ x.cg = [v.cg EXCEPT ![g] = c]
      /\ x = [ct |-> x.ct, mode |-> x.mode, nlink |-> x.nlink,
              used |-> x.used, cg |-> x.cg, ronly |-> x.ronly]
  BY <1>4
<1>6. /\ DOMAIN x.ct = Inum /\ x.ct = [j \in Inum |-> x.ct[j]]
      /\ x.ct[i] = <<>> /\ \A j \in Inum \ {i} : x.ct[j] = v.ct[j]
  BY <1>5 DEF Shape
<1>7. /\ x.mode \in [Inum -> {"none", "dir", "file", "link"}]
      /\ x.mode[i] = "none" /\ \A j \in Inum \ {i} : x.mode[j] = v.mode[j]
  BY <1>5 DEF Shape
<1>8. x.cg \in [Group -> [nifree : Nat, ndir : Int, irotor : Nat]]
  <2>1. PICK R : R = [nifree : Nat, ndir : Int, irotor : Nat]
    OBVIOUS
  <2>2. v.cg \in [Group -> R]
    BY <2>1 DEF Shape
  <2>3. g \in Group => c \in R
    <3>1. SUFFICES ASSUME g \in Group PROVE c \in R
      OBVIOUS
    <3>2. v.cg[g] \in [nifree : Nat, ndir : Int, irotor : Nat]
      BY <2>1, <2>2, <3>1
    <3>3. i \in Nat /\ ipg \in Nat /\ ipg > 0
      BY GroupAssumption DEF Inum
    <3>4. i % ipg \in 0..(ipg - 1)
      BY <3>3, Divides
    <3>5. i % ipg \in Nat
      BY <3>3, <3>4
    <3> QED  BY <1>3, <2>1, <3>2, <3>5
  <2> QED  BY <1>5, <2>1, <2>2, <2>3
<1>9. x.used \subseteq Inum
  BY <1>5 DEF Shape
<1>10. Shape(x)
  BY <1>5, <1>6, <1>7, <1>8, <1>9, ZeroInum DEF Shape
<1> QED  BY <1>1, <1>5, <1>6, <1>7, <1>10 DEF Aside

LEMMA CountIs ==
    ASSUME NEW v, Shape(v), NEW z
    PROVE  Counted(v, [v EXCEPT !.nlink = z])
<1>1. PICK x : x = [v EXCEPT !.nlink = z]
  OBVIOUS
<1>2. x = [ct |-> v.ct, mode |-> v.mode, nlink |-> z, used |-> v.used,
           cg |-> v.cg, ronly |-> v.ronly]
  BY <1>1 DEF Shape
<1>3. /\ Shape(x) /\ x.ct = v.ct /\ x.mode = v.mode
      /\ x.used = v.used /\ x.cg = v.cg
  BY <1>2 DEF Shape
<1> QED  BY <1>1, <1>3 DEF Counted

LEMMA CountTwo ==
    ASSUME NEW v, Shape(v), NEW p, NEW q
    PROVE  Counted(v, [v EXCEPT !.nlink[p] = @ - 1, !.nlink[q] = @ + 1])
<1>1. PICK x : x = [v EXCEPT !.nlink[p] = @ - 1, !.nlink[q] = @ + 1]
  OBVIOUS
<1>2. x = [ct |-> v.ct, mode |-> v.mode, nlink |-> x.nlink, used |-> v.used,
           cg |-> v.cg, ronly |-> v.ronly]
  BY <1>1 DEF Shape
<1>3. /\ Shape(x) /\ x.ct = v.ct /\ x.mode = v.mode
      /\ x.used = v.used /\ x.cg = v.cg
  BY <1>2 DEF Shape
<1> QED  BY <1>1, <1>3 DEF Counted

-----------------------------------------------------------------------------
(* They keep a volume in order.                                            *)
LEMMA AsideOK ==
    ASSUME NEW v, NEW i \in Inum, \A j \in Inum \ {i} : InodeOK(v, j),
           NEW x, Aside(v, x, i), x.mode[i] # "dir"
    PROVE  VolOK(x)
<1>1. ASSUME NEW j \in Inum PROVE InodeOK(x, j)
  <2>1. CASE j = i
    BY <2>1 DEF Aside, InodeOK
  <2>2. CASE j # i
    BY <2>2 DEF Aside, InodeOK
  <2> QED  BY <2>1, <2>2
<1> QED  BY <1>1 DEF VolOK, Aside

LEMMA CountedOK ==
    ASSUME NEW v, VolOK(v), NEW x, Counted(v, x)
    PROVE  VolOK(x)
  BY DEF VolOK, InodeOK, Counted

LEMMA CreatedOK ==
    ASSUME NEW v, VolOK(v), NEW p \in Inum, v.mode[p] = "dir",
           NEW x, NEW at, NEW n, NEW i, Created(v, x, p, at, n, i)
    PROVE  VolOK(x) /\ x.mode = v.mode /\ x.used = v.used
  BY DirSetOK DEF Created, DirSet

LEMMA DeletedOK ==
    ASSUME NEW v, VolOK(v), NEW p \in Inum, v.mode[p] = "dir",
           NEW x, NEW o, Deleted(v, x, p, o)
    PROVE  VolOK(x) /\ x.mode = v.mode /\ x.used = v.used
  BY DirSetOK DEF Deleted, DirSet

-----------------------------------------------------------------------------
(* A client has listed d up to the offset off, and is to be shown due.     *)
Sees(d, off, due) ==
    /\ off \in DOMAIN d \cup {Size(d)}
    /\ due \subseteq Live(d) \ {0, 3}
    /\ \A q \in due : q >= off

(* Whatever a client sees of a directory goes on to be there.              *)
Keeps(v, x) ==
    \A j \in Inum : v.mode[j] = "dir" =>
        /\ x.mode[j] = "dir"
        /\ \A off, due : Sees(v.ct[j], off, due) => Sees(x.ct[j], off, due)

LEMMA SeesGrown ==
    ASSUME NEW d, NEW w, NEW at, NEW n, NEW i, Grown(d, w, at, n, i),
           NEW off, NEW due, Sees(d, off, due)
    PROVE  Sees(w, off, due)
<1>1. Live(d) \subseteq Live(w)
  BY DEF Grown, Live
<1>2. off \in DOMAIN w \cup {Size(w)}
  BY DEF Grown, Sees
<1> QED  BY <1>1, <1>2 DEF Sees

LEMMA SeesCut ==
    ASSUME NEW d, NEW w, NEW o, Cut(d, w, o),
           NEW off, off # o, NEW due, Sees(d, off, due)
    PROVE  Sees(w, off, due \ {o})
<1>1. Live(d) \ {o} \subseteq Live(w)
  BY DEF Cut, Live
<1>2. off \in DOMAIN w \cup {Size(w)}
  BY DEF Cut, Sees
<1> QED  BY <1>1, <1>2 DEF Sees

(* The entry that a failing packet has made is deleted again.              *)
LEMMA SeesUndone ==
    ASSUME NEW d, NEW w, NEW y, NEW at, NEW n, NEW i, Grown(d, w, at, n, i),
           Cut(w, y, at), NEW off, NEW due, Sees(d, off, due)
    PROVE  Sees(y, off, due)
<1>1. Live(d) \subseteq Live(y)
  BY DEF Grown, Cut, Live
<1>2. off \in DOMAIN y \cup {Size(y)}
  <2>1. CASE off \in DOMAIN d
    BY <2>1 DEF Grown, Cut
  <2>2. CASE off = Size(d) /\ off = at
    BY <2>2, Zenon DEF Grown, Cut
  <2>3. CASE off = Size(d) /\ off # at
    BY <2>3 DEF Grown, Cut
  <2> QED  BY <2>1, <2>2, <2>3 DEF Sees
<1> QED  BY <1>1, <1>2 DEF Sees

LEMMA SeesRenumbered ==
    ASSUME NEW d, DirOK(d), NEW o \in DOMAIN d, NEW k \in Inum, k # 0,
           NEW off, NEW due, Sees(d, off, due)
    PROVE  Sees(Renumbered(d, o, k), off, due)
<1>1. PICK w : w = Renumbered(d, o, k)
  OBVIOUS
<1>2. Cut(d, w, o) /\ DOMAIN w = DOMAIN d /\ w[o].ino = k
  BY <1>1, RenumberDir
<1>3. Live(d) \subseteq Live(w)
  BY <1>2 DEF Cut, Live
<1>4. off \in DOMAIN w \cup {Size(w)}
  BY <1>2 DEF Cut, Sees
<1> QED  BY <1>1, <1>3, <1>4 DEF Sees

LEMMA KeepsTrans ==
    ASSUME NEW v, NEW x, NEW y, Keeps(v, x), Keeps(x, y)
    PROVE  Keeps(v, y)
  BY DEF Keeps

LEMMA KeepsAside ==
    ASSUME NEW v, NEW x, NEW i \in Inum, v.mode[i] # "dir", Aside(v, x, i)
    PROVE  Keeps(v, x)
  BY DEF Keeps, Aside

LEMMA KeepsSame ==
    ASSUME NEW v, NEW x, x.ct = v.ct, x.mode = v.mode
    PROVE  Keeps(v, x)
  BY DEF Keeps

LEMMA KeepsCreated ==
    ASSUME NEW v, NEW p \in Inum, NEW x, NEW at, NEW n, NEW i,
           Created(v, x, p, at, n, i)
    PROVE  Keeps(v, x)
<1>1. PICK w : Grown(v.ct[p], w, at, n, i) /\ DirSet(v, x, p, w)
  BY DEF Created
<1>2. \A off, due : Sees(v.ct[p], off, due) => Sees(x.ct[p], off, due)
  BY <1>1, SeesGrown DEF DirSet
<1>3. x.mode = v.mode /\ \A j \in Inum \ {p} : x.ct[j] = v.ct[j]
  BY <1>1 DEF DirSet
<1> QED  BY <1>2, <1>3 DEF Keeps

(* dir_inum_change() in a directory.                                       *)
LEMMA ChangeOK ==
    ASSUME NEW v, VolOK(v), NEW i \in Inum, v.mode[i] = "dir", NEW from,
           from # 0, NEW to \in Inum, to # 0
    PROVE  LET x == dir_inum_change(v, i, from, to)
           IN  VolOK(x) /\ Keeps(v, x)
<1>1. PICK d : d = v.ct[i] /\ DirOK(d)
  BY DEF VolOK, InodeOK
<1>2. PICK here : here = {o \in DOMAIN d : d[o].ino = from}
  OBVIOUS
<1>3. PICK x : x = dir_inum_change(v, i, from, to)
  OBVIOUS
<1>4. CASE here = {}
  <2>1. x = v
    BY <1>1, <1>2, <1>3, <1>4 DEF dir_inum_change
  <2> QED  BY <1>3, <2>1, KeepsSame
<1>5. CASE here # {}
  <2>1. PICK o \in here : o = Least(here)
    <3>1. here \subseteq Nat
      BY <1>1, <1>2 DEF DirOK, Tiled
    <3> QED  BY <1>5, <3>1, LeastIs
  <2>2. o \in DOMAIN d /\ d[o].ino # 0
    BY <1>2
  <2>3. PICK w : w = Renumbered(d, o, to)
    OBVIOUS
  <2>4. x = WithDir(v, i, w)
    BY <1>1, <1>2, <1>3, <1>5, <2>1, <2>3
       DEF dir_inum_change, WithDir, Renumbered
  <2>5. DirOK(w)
    BY <1>1, <2>2, <2>3, RenumberDir
  <2>6. DirSet(v, x, i, w)
    <3>1. Shape(v)
      BY DEF VolOK
    <3> QED  BY <2>4, <3>1, WithDirIs
  <2>7. VolOK(x)
    BY <2>5, <2>6, DirSetOK
  <2>8. \A off, due : Sees(v.ct[i], off, due) => Sees(x.ct[i], off, due)
    BY <1>1, <2>2, <2>3, <2>6, SeesRenumbered DEF DirSet
  <2>9. x.mode = v.mode /\ \A j \in Inum \ {i} : x.ct[j] = v.ct[j]
    BY <2>6 DEF DirSet
  <2>10. Keeps(v, x)
    BY <2>8, <2>9 DEF Keeps
  <2> QED  BY <1>3, <2>7, <2>10
<1> QED  BY <1>4, <1>5

-----------------------------------------------------------------------------
(* The inductive invariant: every inode is in order, locks are on inodes,  *)
(* and the client who lists a directory has a lock on it and sees it.      *)

LocksOK(k) ==
    /\ k = [l \in Lock |-> k[l]]
    /\ \A l \in Lock : k[l] # Free => k[l].key \in Inum /\ k[l].pinum \in Inum

ScanOK(v, k, s) ==
    s # Free =>
        /\ s = [lock |-> s.lock, off |-> s.off, due |-> s.due]
        /\ s.lock \in Lock /\ k[s.lock] # Free /\ k[s.lock].key \in Inum
        /\ v.mode[k[s.lock].key] = "dir"
        /\ Sees(v.ct[k[s.lock].key], s.off, s.due)

Inv == VolOK(Volume) /\ LocksOK(lock) /\ ScanOK(Volume, lock, scan)

LEMMA VolumeIs ==
    /\ Volume.ct = ct /\ Volume.mode = mode /\ Volume.nlink = nlink
    /\ Volume.used = used /\ Volume.cg = cg /\ Volume.ronly = ronly
  BY DEF Volume

LEMMA BecomeIs ==
    ASSUME NEW v, Shape(v), Become(v)
    PROVE  Volume' = v
  BY DEF Shape, Become, Volume

LEMMA DirIs ==
    ASSUME Inv, NEW p \in Dirs
    PROVE  p \in Inum /\ p # 0 /\ Volume.mode[p] = "dir" /\ DirOK(Volume.ct[p])
           /\ p \in Volume.used /\ Shape(Volume)
  BY VolumeIs DEF Inv, VolOK, InodeOK, Shape, Dirs, IsDir

LEMMA InitInv == Init => Inv
<1> SUFFICES ASSUME Init PROVE Inv
  OBVIOUS
<1>1. ROOTINO \in Inum /\ 1 \in Inum /\ ipg \in Nat /\ ipg > 3
  <2>1. /\ IsFiniteSet(Group) /\ Group # {} /\ Group = 0..(ncg - 1)
        /\ ipg \in Nat /\ ipg > 3
    BY GroupAssumption
  <2>2. ncg \in Nat /\ ncg # 0
    BY <2>1, FS_CardinalityType, FS_EmptySet DEF ncg
  <2>3. 0 * ipg + 2 \in 0..(ncg * ipg - 1) /\ 0 * ipg + 1 \in 0..(ncg * ipg - 1)
    BY <2>1, <2>2, InProduct
  <2> QED  BY <2>1, <2>3 DEF Inum, ROOTINO
<1>2. DirOK(RootDir)
  <2>1. PICK D \in Nat : D = DIRBLKSIZ /\ D > 6
    BY BlockSize
  <2>2. PICK d : d = RootDir
    OBVIOUS
  <2>3. /\ DOMAIN d = {0, 3} /\ d = [o \in DOMAIN d |-> d[o]]
        /\ d[0] = [ino |-> ROOTINO, name |-> Dot, reclen |-> 3]
        /\ d[3] = [ino |-> ROOTINO, name |-> DotDot, reclen |-> D - 3]
    BY <2>1, <2>2 DEF RootDir
  <2>4. /\ d[0].name = Dot /\ d[0].reclen = 3
        /\ d[3].name = DotDot /\ d[3].reclen = D - 3
    BY <2>3
  <2>5. d[0] \in Record /\ d[3] \in Record
    BY <1>1, <2>1, <2>3 DEF Record, AnyName
  <2>6. /\ \A r \in 0..(D - 1) : Block(0 + r) = Block(0)
        /\ D % D = 0 /\ 0 % DIRBLKSIZ = 0
    <3>1. 0 % D = 0
      <4>1. (D * 0 + 0) % D = 0
        BY <2>1, DivMod
      <4> QED  BY <2>1, <4>1
    <3>2. (0 + DIRBLKSIZ) % DIRBLKSIZ = 0
          /\ \A r \in 0..(DIRBLKSIZ - 1) : Block(0 + r) = Block(0)
      BY <2>1, <3>1, BlockStart
    <3> QED  BY <2>1, <3>1, <3>2
  <2>7. Block(0) = Block(3 - 1) /\ Block(3) = Block(D - 1) /\ Block(3) = Block(0)
    BY <2>1, <2>6
  <2>8. UFS_DIRSIZ(Dot) = 3 /\ UFS_DIRSIZ(DotDot) = 3
    BY NameFits DEF AnyName
  <2>9. \A o \in DOMAIN d :
          /\ UFS_DIRSIZ(d[o].name) <= d[o].reclen
          /\ Block(o) = Block(o + d[o].reclen - 1)
          /\ o + d[o].reclen \in DOMAIN d \cup {D}
          /\ \A q \in DOMAIN d : q > o => q >= o + d[o].reclen
    <3>1. CASE TRUE
      <4>1. 3 + (D - 3) = D /\ 3 + (D - 3) - 1 = D - 1 /\ 0 + 3 = 3
            /\ 0 + 3 - 1 = 3 - 1 /\ 3 <= D - 3
        BY <2>1
      <4> QED  BY <2>1, <2>3, <2>4, <2>7, <2>8, <4>1
    <3> QED  BY <3>1
  <2>10. Tiled(d, D)
    BY <2>1, <2>3, <2>5, <2>6, <2>9 DEF Tiled
  <2>11. Size(d) = D
    BY <2>10, SizeIs
  <2> QED  BY <2>2, <2>3, <2>4, <2>10, <2>11 DEF DirOK, Dots
<1>3. /\ ct = [i \in Inum |-> IF i = ROOTINO THEN RootDir ELSE <<>>]
      /\ mode = [i \in Inum |-> IF i = ROOTINO THEN "dir" ELSE "none"]
      /\ used = {0, 1, ROOTINO}
  BY DEF Init
<1>4. cg \in [Group -> [nifree : Nat, ndir : Int, irotor : Nat]]
  BY <1>1 DEF Init
<1>5. Shape(Volume)
  <2>1. Volume = [ct |-> Volume.ct, mode |-> Volume.mode,
                  nlink |-> Volume.nlink, used |-> Volume.used,
                  cg |-> Volume.cg, ronly |-> Volume.ronly]
    BY DEF Volume
  <2>2. DOMAIN ct = Inum /\ ct = [i \in Inum |-> ct[i]]
    BY <1>3
  <2>3. mode \in [Inum -> {"none", "dir", "file", "link"}] /\ mode[0] # "dir"
    BY <1>3, ZeroInum DEF ROOTINO
  <2>4. used \subseteq Inum
    BY <1>1, <1>3, ZeroInum
  <2> QED  BY <1>4, <2>1, <2>2, <2>3, <2>4, VolumeIs DEF Shape
<1>6. \A i \in Inum : InodeOK(Volume, i)
  BY <1>2, <1>3, VolumeIs DEF InodeOK
<1>7. LocksOK(lock)
  BY DEF Init, LocksOK
<1>8. ScanOK(Volume, lock, scan)
  BY DEF Init, ScanOK
<1> QED  BY <1>5, <1>6, <1>7, <1>8 DEF Inv, VolOK

-----------------------------------------------------------------------------
(* What the invariant says of a client who lists a directory.              *)
LEMMA ScanKept ==
    ASSUME NEW v, NEW x, NEW k, NEW s, ScanOK(v, k, s), Keeps(v, x)
    PROVE  ScanOK(x, k, s)
  BY DEF ScanOK, Keeps

LEMMA VolStep ==
    ASSUME Inv, NEW x, VolOK(x), Keeps(Volume, x), Become(x),
           lock' = lock, scan' = scan
    PROVE  Inv'
<1>1. Volume' = x
  BY BecomeIs DEF VolOK
<1>2. LocksOK(lock) /\ ScanOK(x, lock, scan)
  BY ScanKept DEF Inv
<1> QED  BY <1>1, <1>2 DEF Inv

(* Locks come and go, and the client goes on.                              *)
LEMMA LockStep ==
    ASSUME Inv, NEW l \in Lock, NEW e,
           lock' = [lock EXCEPT ![l] = e],
           e # Free => e.key \in Inum /\ e.pinum \in Inum,
           scan' = IF scan # Free /\ scan.lock = l THEN Free ELSE scan,
           Volume' = Volume
    PROVE  Inv'
<1>1. LocksOK(lock')
  BY DEF Inv, LocksOK
<1>2. ScanOK(Volume, lock', scan')
  <2>1. SUFFICES ASSUME scan' # Free PROVE ScanOK(Volume, lock', scan')
    BY DEF ScanOK
  <2>2. scan # Free /\ scan' = scan /\ scan.lock # l
    BY <2>1
  <2>3. scan.lock \in Lock /\ lock'[scan.lock] = lock[scan.lock]
    BY <2>2 DEF Inv, ScanOK, LocksOK
  <2> QED  BY <2>2, <2>3 DEF Inv, ScanOK
<1> QED  BY <1>1, <1>2 DEF Inv

LEMMA VolSame ==
    ASSUME UNCHANGED vol
    PROVE  Volume' = Volume
  BY DEF vol, Volume

LEMMA NoScan ==
    ASSUME Inv, NEW l \in Lock, lock[l] = Free
    PROVE  scan = IF scan # Free /\ scan.lock = l THEN Free ELSE scan
  BY DEF Inv, ScanOK

LEMMA LocateInv ==
    ASSUME Inv, NEW l \in Lock, NEW p \in Dirs, NEW n,
           PLocateObject(l, p, n) \/ PLocateDots(l, p, n)
    PROVE  Inv'
<1>1. VolOK(Volume) /\ p \in Inum
  BY DirIs DEF Inv
<1>2. lock[l] = Free /\ scan' = scan /\ Volume' = Volume
  BY VolSame DEF PLocateObject, PLocateDots
<1>3. scan' = IF scan # Free /\ scan.lock = l THEN Free ELSE scan
  BY <1>2, NoScan
<1>4. CASE PLocateObject(l, p, n)
  <2>1. PICK i \in Inum : i = InumAt(Volume, p, dir_name_search(Volume, p, n))
    BY <1>1, SearchIn
  <2>2. PICK e : e = LockOn(i, p, dir_name_search(Volume, p, n), TRUE)
    OBVIOUS
  <2>3. lock' = [lock EXCEPT ![l] = e]
    BY <1>4, <2>1, <2>2 DEF PLocateObject
  <2>4. e.key \in Inum /\ e.pinum \in Inum
    BY <1>1, <2>2 DEF LockOn
  <2> QED  BY <1>2, <1>3, <2>3, <2>4, LockStep
<1>5. CASE PLocateDots(l, p, n)
  <2>1. PICK i \in Inum : i = IF n = DotDot THEN Lookup(Volume, p, DotDot) ELSE p
    BY <1>1, SearchIn
  <2>2. PICK q \in Inum : q = Lookup(Volume, i, DotDot)
    BY <1>1, SearchIn
  <2>3. PICK e : e = LockOn(i, q, dir_inum_search(Volume, q, i), FALSE)
    OBVIOUS
  <2>4. lock' = [lock EXCEPT ![l] = e]
    BY <1>5, <2>1, <2>2, <2>3 DEF PLocateDots
  <2>5. e.key \in Inum /\ e.pinum \in Inum
    BY <2>3 DEF LockOn
  <2> QED  BY <1>2, <1>3, <2>4, <2>5, LockStep
<1> QED  BY <1>4, <1>5

LEMMA PFreeLockInv ==
    ASSUME Inv, NEW l \in Lock, PFreeLock(l)
    PROVE  Inv'
<1>1. PICK e : e = Free
  OBVIOUS
<1>2. /\ lock' = [lock EXCEPT ![l] = e] /\ Volume' = Volume
      /\ scan' = IF scan # Free /\ scan.lock = l THEN Free ELSE scan
  BY <1>1, VolSame DEF PFreeLock
<1> QED  BY <1>1, <1>2, LockStep

LEMMA PParentInv ==
    ASSUME Inv, NEW l \in Lock, PParent(l)
    PROVE  Inv'
<1>1. VolOK(Volume) /\ Shape(Volume)
  BY DEF Inv, VolOK
<1>2. CASE IsDir(lock[l].pinum)
  <2>1. PICK p : p = lock[l].pinum /\ p \in Inum
    BY DEF Inv, LocksOK, PParent
  <2>2. PICK q \in Inum : q = Lookup(Volume, p, DotDot)
    BY <1>1, <2>1, SearchIn
  <2>3. PICK e : e = LockOn(p, q, dir_inum_search(Volume, q, p), FALSE)
    OBVIOUS
  <2>4. /\ lock' = [lock EXCEPT ![l] = e]
        /\ scan' = IF scan # Free /\ scan.lock = l THEN Free ELSE scan
        /\ UNCHANGED vol
    BY <1>2, <2>1, <2>2, <2>3 DEF PParent, vol
  <2>5. e.key \in Inum /\ e.pinum \in Inum
    BY <2>1, <2>3 DEF LockOn
  <2> QED  BY <2>4, <2>5, LockStep, VolSame
<1>3. CASE ~IsDir(lock[l].pinum)
  <2>1. /\ ct' = ct /\ mode' = mode /\ nlink' = nlink /\ used' = used
        /\ cg' = cg /\ ronly' = TRUE /\ lock' = lock /\ scan' = scan
    BY <1>3 DEF PParent
  <2>2. PICK x : x = [ct |-> ct, mode |-> mode, nlink |-> nlink,
                      used |-> used, cg |-> cg, ronly |-> TRUE]
    OBVIOUS
  <2>3. Counted(Volume, x)
    BY <1>1, <2>2, VolumeIs DEF Counted, Shape
  <2>4. VolOK(x)
    BY <1>1, <2>3, CountedOK
  <2>5. Keeps(Volume, x)
    BY <2>3, KeepsSame DEF Counted
  <2>6. Become(x)
    BY <2>1, <2>2 DEF Become
  <2> QED  BY <2>1, <2>4, <2>5, <2>6, VolStep
<1> QED  BY <1>2, <1>3

(* The listing begins with the first entry behind "." and "..".            *)
LEMMA PExamineObjectInv ==
    ASSUME Inv, NEW l \in Lock, PExamineObject(l)
    PROVE  Inv'
<1>1. PICK j : j = lock[l].key /\ j \in Inum /\ mode[j] = "dir"
  BY DEF Inv, LocksOK, PExamineObject, IsDir
<1>2. PICK d : d = ct[j]
  OBVIOUS
<1>3. DirOK(d)
  BY <1>1, <1>2, VolumeIs DEF Inv, VolOK, InodeOK
<1>4. PICK due : due = Live(d) \ {0, 3}
  OBVIOUS
<1>5. scan' = [lock |-> l, off |-> 0, due |-> due]
      /\ Volume' = Volume /\ lock' = lock /\ lock[l] # Free
  BY <1>1, <1>2, <1>3, <1>4, VolSame DEF PExamineObject, DirOK, Dots
<1>6. Sees(d, 0, due)
  <2>1. \A q \in due : q \in Nat
    BY <1>3, <1>4 DEF Live, DirOK, Tiled
  <2> QED  BY <1>3, <1>4, <2>1 DEF Sees, DirOK, Dots
<1>7. scan'.lock = l /\ scan'.off = 0 /\ scan'.due = due
  BY <1>5
<1>8. ScanOK(Volume, lock, scan')
  BY <1>1, <1>2, <1>5, <1>6, <1>7, VolumeIs DEF ScanOK
<1> QED  BY <1>5, <1>8 DEF Inv

(* The client is shown the next entry in use and goes on behind it.        *)
LEMMA PExamineNextInv ==
    ASSUME Inv, PExamineNext
    PROVE  Inv'
<1>1. /\ scan # Free /\ scan = [lock |-> scan.lock, off |-> scan.off, due |-> scan.due]
      /\ scan.lock \in Lock /\ lock[scan.lock] # Free
      /\ lock[scan.lock].key \in Inum /\ Volume.mode[lock[scan.lock].key] = "dir"
      /\ Sees(Volume.ct[lock[scan.lock].key], scan.off, scan.due)
  BY DEF Inv, ScanOK, PExamineNext
<1>2. PICK j \in Inum : j = lock[scan.lock].key
  BY <1>1
<1>3. PICK d : d = ct[j]
  OBVIOUS
<1>4. DirOK(d)
  BY <1>1, <1>2, <1>3, VolumeIs DEF Inv, VolOK, InodeOK
<1>5. PICK off : off = scan.off
  OBVIOUS
<1>6. PICK due : due = scan.due
  OBVIOUS
<1>7. Sees(d, off, due)
  BY <1>1, <1>2, <1>3, <1>5, <1>6, VolumeIs
<1>8. PICK start : start = IF off = 0 THEN SkipDots(d) ELSE off
  OBVIOUS
<1>9. PICK o : o = NextUsed(d, start)
  OBVIOUS
<1>10. /\ scan' = IF o = Size(d) THEN [scan EXCEPT !.off = o]
                  ELSE [scan EXCEPT !.off = o + d[o].reclen, !.due = @ \ {o}]
       /\ Volume' = Volume /\ lock' = lock
  BY <1>2, <1>3, <1>5, <1>8, <1>9, VolSame DEF PExamineNext, ListedDir
<1>11. Tiled(d, Size(d)) /\ Dots(d)
  BY <1>4 DEF DirOK
<1>12. /\ DOMAIN d \subseteq Nat /\ Live(d) \subseteq DOMAIN d
       /\ \A q \in DOMAIN d : /\ q \in Nat /\ q < Size(d)
                              /\ d[q].reclen \in Nat /\ d[q].reclen >= 3
                              /\ q + d[q].reclen \in DOMAIN d \cup {Size(d)}
       /\ \A q, x \in DOMAIN d : x > q => x >= q + d[q].reclen
       /\ Size(d) \in Nat
  BY <1>11, EntryFacts DEF Tiled, Live
<1>13. start \in Nat /\ \A q \in due : q \in Live(d) /\ q >= start
  <2>1. CASE off = 0
    <3>1. start = 3 + d[3].reclen
      BY <1>8, <1>11, <2>1 DEF SkipDots, Dots
    <3>2. \A q \in due : q \in Live(d) /\ q \in Nat /\ q # 0 /\ q # 3
      BY <1>7, <1>12 DEF Sees
    <3>3. \A q \in DOMAIN d : q > 0 => q >= 3
      BY <1>11, <1>12 DEF Dots
    <3>4. \A q \in DOMAIN d : q > 3 => q >= 3 + d[3].reclen
      BY <1>11, <1>12 DEF Dots
    <3>5. 3 \in DOMAIN d
      BY <1>11 DEF Dots
    <3> QED  BY <1>12, <3>1, <3>2, <3>3, <3>4, <3>5
  <2>2. CASE off # 0
    BY <1>7, <1>8, <1>12, <2>2 DEF Sees
  <2> QED  BY <2>1, <2>2
<1>14. PICK on : on = {q \in Live(d) : q >= start}
  OBVIOUS
<1>15. o = IF on = {} THEN Size(d) ELSE Least(on)
  BY <1>9, <1>14 DEF NextUsed
<1>16. CASE on = {}
  <2>1. o = Size(d) /\ due = {}
    BY <1>13, <1>14, <1>15, <1>16
  <2>2. scan' = [lock |-> scan.lock, off |-> o, due |-> due]
    BY <1>1, <1>6, <1>10, <2>1
  <2>3. scan'.lock = scan.lock /\ scan'.off = o /\ scan'.due = due
    BY <2>2
  <2>4. Sees(d, o, due)
    BY <2>1 DEF Sees
  <2>5. ScanOK(Volume, lock, scan')
    BY <1>1, <1>2, <1>3, <2>2, <2>3, <2>4, VolumeIs DEF ScanOK
  <2> QED  BY <1>10, <2>5 DEF Inv
<1>17. CASE on # {}
  <2>1. o \in on /\ \A q \in on : o <= q
    <3>1. on \subseteq Nat
      BY <1>12, <1>14
    <3> QED  BY <1>15, <1>17, <3>1, LeastIs
  <2>2. o \in Live(d) /\ o \in DOMAIN d /\ o \in Nat /\ o # Size(d)
    BY <1>12, <1>14, <2>1
  <2>3. scan' = [lock |-> scan.lock, off |-> o + d[o].reclen, due |-> due \ {o}]
    BY <1>1, <1>6, <1>10, <2>2
  <2>4. /\ scan'.lock = scan.lock /\ scan'.off = o + d[o].reclen
        /\ scan'.due = due \ {o}
    BY <2>3
  <2>5. Sees(d, o + d[o].reclen, due \ {o})
    <3>1. \A q \in due \ {o} : q \in DOMAIN d /\ q > o
      BY <1>12, <1>13, <1>14, <2>1, <2>2
    <3>2. \A q \in due \ {o} : q >= o + d[o].reclen
      BY <1>12, <2>2, <3>1
    <3>3. o + d[o].reclen \in DOMAIN d \cup {Size(d)}
      BY <1>12, <2>2
    <3> QED  BY <1>7, <3>2, <3>3 DEF Sees
  <2>6. ScanOK(Volume, lock, scan')
    BY <1>1, <1>2, <1>3, <2>3, <2>4, <2>5, VolumeIs DEF ScanOK
  <2> QED  BY <1>10, <2>6 DEF Inv
<1> QED  BY <1>16, <1>17

-----------------------------------------------------------------------------
LEMMA InAnyName == Name \subseteq AnyName /\ Dot \in AnyName /\ DotDot \in AnyName
  BY DEF AnyName

(* dir_create() in a directory of a volume in order.                       *)
Entered(v, r, p, n, i) ==
    /\ VolOK(r.v) /\ Keeps(v, r.v)
    /\ r.v.mode = v.mode /\ r.v.used = v.used
    /\ \/ r.ok = FALSE /\ r.v = v
       \/ r.ok = TRUE /\ Created(v, r.v, p, r.at, n, i)

LEMMA CreateStep ==
    ASSUME NEW v, VolOK(v), NEW p \in Inum, v.mode[p] = "dir",
           NEW n \in Name, NEW i \in Inum, NEW more
    PROVE  Entered(v, dir_create(v, p, n, i, more), p, n, i)
<1>1. PICK r : r = dir_create(v, p, n, i, more)
  OBVIOUS
<1>2. \/ r.ok = FALSE /\ r.v = v
      \/ r.ok = TRUE /\ Created(v, r.v, p, r.at, n, i)
  <2>1. Shape(v) /\ DirOK(v.ct[p]) /\ n \in AnyName
    BY InAnyName DEF VolOK, InodeOK
  <2> QED  BY <1>1, <2>1, Creates
<1>3. CASE r.ok = FALSE /\ r.v = v
  BY <1>1, <1>3, KeepsSame DEF Entered
<1>4. CASE r.ok = TRUE /\ Created(v, r.v, p, r.at, n, i)
  <2>1. VolOK(r.v) /\ r.v.mode = v.mode /\ r.v.used = v.used
    BY <1>4, CreatedOK
  <2>2. Keeps(v, r.v)
    BY <1>4, KeepsCreated
  <2> QED  BY <1>1, <1>4, <2>1, <2>2 DEF Entered
<1> QED  BY <1>2, <1>3, <1>4

LEMMA PCreateObjectInv ==
    ASSUME Inv, NEW p \in Dirs, NEW n \in Name, NEW type,
           type \in {"file", "link"}, NEW more, PCreateObject(p, n, type, more)
    PROVE  Inv'
<1>1. /\ p \in Inum /\ Volume.mode[p] = "dir" /\ VolOK(Volume)
      /\ p \in Volume.used
  BY DirIs DEF Inv
<1>2. PICK new : new = inum_new(Volume, p, FALSE, Group)
  OBVIOUS
<1>3. /\ VolOK(new.v) /\ new.v.ct = Volume.ct /\ new.v.mode = Volume.mode
      /\ new.got # 0 => new.got \in Inum \ Volume.used
                        /\ new.v.used = Volume.used \cup {new.got}
  <2>1. PICK isdir \in BOOLEAN : isdir = FALSE
    OBVIOUS
  <2>2. Numbered(Volume, inum_new(Volume, p, isdir, Group), IF isdir THEN 1 ELSE 0)
    BY <1>1, NewIs
  <2> QED  BY <1>2, <2>1, <2>2 DEF Numbered
<1>4. PICK made : made = dir_create(new.v, p, n, new.got, more)
  OBVIOUS
<1>5. PICK x : x = CASE new.got = 0 -> new.v
                     [] new.got # 0 /\ made.ok -> inum_sane(made.v, new.got, type)
                     [] OTHER -> inum_free(new.v, new.got)
  OBVIOUS
<1>6. CASE new.got = 0
  <2>1. x = new.v /\ Become(x)
    BY <1>2, <1>4, <1>5, <1>6 DEF PCreateObject
  <2>2. Keeps(Volume, x)
    BY <1>3, <2>1, KeepsSame
  <2> QED  BY <1>3, <2>1, <2>2, VolStep DEF PCreateObject
<1>7. CASE new.got # 0
  <2>1. PICK i \in Inum : i = new.got /\ i \notin Volume.used
                          /\ new.v.used = Volume.used \cup {i} /\ i # 0
    BY <1>3, <1>7
  <2>2. Keeps(Volume, new.v)
    BY <1>3, KeepsSame
  <2>3. new.v.mode[i] # "dir" /\ p # i
    BY <1>1, <1>3, <2>1 DEF VolOK, InodeOK
  <2>4. /\ VolOK(made.v) /\ Keeps(new.v, made.v)
        /\ made.v.mode = new.v.mode
        /\ \/ made.ok = FALSE /\ made.v = new.v
           \/ made.ok = TRUE
    <3>1. new.v.mode[p] = "dir"
      BY <1>1, <1>3
    <3>2. Entered(new.v, dir_create(new.v, p, n, i, more), p, n, i)
      BY <1>1, <1>3, <3>1, CreateStep
    <3> QED  BY <1>4, <2>1, <3>2 DEF Entered
  <2>5. PICK y : y = IF made.ok THEN inum_sane(made.v, i, type)
                     ELSE inum_free(made.v, i)
    OBVIOUS
  <2>6. Become(y)
    BY <1>2, <1>4, <1>7, <2>1, <2>4, <2>5 DEF PCreateObject
  <2>7. Aside(made.v, y, i) /\ y.mode[i] # "dir"
    <3>1. Shape(made.v) /\ i \in Inum \ {0}
      BY <2>1, <2>4 DEF VolOK
    <3>2. CASE made.ok = TRUE
      <4>1. y = inum_sane(made.v, i, type) /\ type \in {"dir", "file", "link"}
            /\ type # "dir"
        BY <2>5, <3>2
      <4> QED  BY <3>1, <4>1, SaneIs
    <3>3. CASE made.ok = FALSE
      BY <2>5, <3>1, <3>3, FreeIs
    <3> QED  BY <2>4, <3>2, <3>3
  <2>8. VolOK(y)
    BY <2>4, <2>7, AsideOK DEF VolOK
  <2>9. Keeps(Volume, y)
    <3>1. Keeps(made.v, y)
      BY <2>3, <2>4, <2>7, KeepsAside
    <3> QED  BY <2>2, <2>4, <3>1, KeepsTrans
  <2> QED  BY <2>6, <2>8, <2>9, VolStep DEF PCreateObject
<1> QED  BY <1>6, <1>7

LEMMA PMakeLinkInv ==
    ASSUME Inv, NEW l \in Lock, NEW p \in Dirs, NEW n \in Name, NEW more,
           PMakeLink(l, p, n, more)
    PROVE  Inv'
<1>1. p \in Inum /\ Volume.mode[p] = "dir" /\ VolOK(Volume)
  BY DirIs DEF Inv
<1>2. PICK i \in Inum : i = lock[l].key
  BY DEF PMakeLink, Inv, LocksOK
<1>3. PICK made : made = dir_create(Volume, p, n, i, more)
  OBVIOUS
<1>4. /\ VolOK(made.v) /\ Keeps(Volume, made.v)
      /\ made.ok = FALSE \/ made.ok = TRUE
  BY <1>1, <1>3, CreateStep DEF Entered
<1>5. PICK z : z = [made.v.nlink EXCEPT ![i] = @ + 1]
  OBVIOUS
<1>6. PICK y : y = [made.v EXCEPT !.nlink = z]
  OBVIOUS
<1>7. Become(made.v) \/ Become(y)
  BY <1>2, <1>3, <1>4, <1>5, <1>6 DEF PMakeLink
<1>8. VolOK(y) /\ Keeps(Volume, y)
  <2>1. Shape(made.v)
    BY <1>4 DEF VolOK
  <2>2. Counted(made.v, y)
    BY <1>6, <2>1, CountIs
  <2>3. VolOK(y) /\ Keeps(made.v, y)
    BY <1>4, <2>2, CountedOK, KeepsSame DEF Counted
  <2> QED  BY <1>4, <2>3, KeepsTrans
<1> QED  BY <1>4, <1>7, <1>8, VolStep DEF PMakeLink

-----------------------------------------------------------------------------
(* An entry is deleted from a directory that may be the one being listed.  *)
LEMMA ForgetOK ==
    ASSUME NEW v, VolOK(v), ScanOK(v, lock, scan), NEW p \in Inum, NEW o, NEW x,
           Deleted(v, x, p, o)
    PROVE  ScanOK(x, lock, Forget(p, o))
<1>1. PICK w : Cut(v.ct[p], w, o) /\ DirSet(v, x, p, w)
  BY DEF Deleted, Gone
<1>2. /\ x.ct[p] = w /\ \A j \in Inum \ {p} : x.ct[j] = v.ct[j]
      /\ x.mode = v.mode
  BY <1>1 DEF DirSet
<1>3. PICK s : s = Forget(p, o)
  OBVIOUS
<1>4. CASE scan = Free
  BY <1>3, <1>4 DEF Forget, ScanOK
<1>5. CASE scan # Free /\ ListedDir # p
  <2>1. s = scan
    BY <1>3, <1>5 DEF Forget
  <2> QED  BY <1>2, <1>3, <1>5, <2>1 DEF ScanOK, ListedDir
<1>6. CASE scan # Free /\ ListedDir = p /\ scan.off = o
  <2>1. s = Free
    BY <1>3, <1>6 DEF Forget
  <2> QED  BY <1>3, <2>1 DEF ScanOK
<1>7. CASE scan # Free /\ ListedDir = p /\ scan.off # o
  <2>1. s = [scan EXCEPT !.due = scan.due \ {o}]
    BY <1>3, <1>7 DEF Forget
  <2>2. scan = [lock |-> scan.lock, off |-> scan.off, due |-> scan.due]
        /\ Sees(v.ct[p], scan.off, scan.due)
    BY <1>7 DEF ScanOK, ListedDir
  <2>3. s = [lock |-> scan.lock, off |-> scan.off, due |-> scan.due \ {o}]
    BY <2>1, <2>2
  <2>4. s.lock = scan.lock /\ s.off = scan.off /\ s.due = scan.due \ {o}
    BY <2>3
  <2>5. Sees(w, scan.off, scan.due \ {o})
    BY <1>1, <1>7, <2>2, SeesCut
  <2>6. ScanOK(x, lock, s)
    BY <1>2, <1>7, <2>3, <2>4, <2>5 DEF ScanOK, ListedDir
  <2> QED  BY <1>3, <2>6
<1> QED  BY <1>4, <1>5, <1>6, <1>7

(* What PDeleteObject() does to the inode whose name is gone.              *)
LEMMA UnlinkedOK ==
    ASSUME NEW v, VolOK(v), NEW p, NEW i \in Inum
    PROVE  /\ VolOK(Unlinked(v, p, i))
           /\ \A j \in Inum \ {i} : /\ Unlinked(v, p, i).mode[j] = v.mode[j]
                                    /\ Unlinked(v, p, i).ct[j] = v.ct[j]
<1>1. PICK x : x = Unlinked(v, p, i)
  OBVIOUS
<1>2. PICK z : z = [v.nlink EXCEPT ![p] = @ - 1]
  OBVIOUS
<1>3. PICK w : w = IF v.mode[i] = "dir" THEN [v EXCEPT !.nlink = z] ELSE v
  OBVIOUS
<1>4. Shape(v)
  BY DEF VolOK
<1>5. VolOK(w) /\ w.ct = v.ct /\ w.mode = v.mode
  <2>1. Counted(v, [v EXCEPT !.nlink = z])
    BY <1>4, CountIs
  <2> QED  BY <1>3, <2>1, CountedOK DEF Counted
<1>6. PICK left : left = IF v.mode[i] = "dir" THEN v.nlink[i] - 2
                         ELSE v.nlink[i] - 1
  OBVIOUS
<1>7. PICK y : y = [w.nlink EXCEPT ![i] = left]
  OBVIOUS
<1>8. x = inum_free(w, i) \/ x = [w EXCEPT !.nlink = y]
  BY <1>1, <1>2, <1>3, <1>6, <1>7 DEF Unlinked
<1>9. CASE x = inum_free(w, i)
  <2>1. Aside(w, x, i) /\ x.mode[i] = "none"
    BY <1>5, <1>9, FreeIs DEF VolOK
  <2>2. VolOK(x)
    BY <1>5, <2>1, AsideOK DEF VolOK
  <2> QED  BY <1>1, <1>5, <2>1, <2>2 DEF Aside
<1>10. CASE x = [w EXCEPT !.nlink = y]
  <2>1. Shape(w)
    BY <1>5 DEF VolOK
  <2>2. Counted(w, x)
    BY <1>10, <2>1, CountIs
  <2> QED  BY <1>1, <1>5, <2>2, CountedOK DEF Counted
<1> QED  BY <1>8, <1>9, <1>10

LEMMA PDeleteObjectInv ==
    ASSUME Inv, NEW p \in Dirs, NEW n \in Name, PDeleteObject(p, n)
    PROVE  Inv'
<1>1. /\ p \in Inum /\ Volume.mode[p] = "dir" /\ VolOK(Volume)
      /\ DirOK(Volume.ct[p]) /\ Shape(Volume)
  BY DirIs DEF Inv
<1>2. PICK o : o = dir_name_search(Volume, p, n)
  OBVIOUS
<1>3. PICK i : i = InumAt(Volume, p, o)
  OBVIOUS
<1>4. PICK check \in BOOLEAN : check = TRUE
  OBVIOUS
<1>5. PICK gone : gone = dir_offset_delete(Volume, p, o, check)
  OBVIOUS
<1>6. PICK x : x = IF gone.inum = 0 THEN gone.v ELSE Unlinked(gone.v, p, i)
  OBVIOUS
<1>7. /\ i > ROOTINO /\ ~Locked(i) /\ Become(x)
      /\ scan' = IF gone.inum = 0 THEN scan ELSE Forget(p, o)
      /\ lock' = lock
  BY <1>2, <1>3, <1>4, <1>5, <1>6 DEF PDeleteObject
<1>8. i \in Inum /\ i # 0 /\ o # -1
  <2>1. i \in Inum
    BY <1>1, <1>2, <1>3, SearchIn
  <2> QED  BY <1>3, <1>7, <2>1 DEF InumAt, ROOTINO
<1>9. o \in DOMAIN Volume.ct[p] \ {0, 3} /\ i = Volume.ct[p][o].ino
  <2>1. o \in DOMAIN Volume.ct[p] /\ o \notin {0, 3}
    BY <1>1, <1>2, <1>8, SearchIn
  <2> QED  BY <1>3, <1>8, <2>1 DEF InumAt
<1>10. \/ gone.inum = 0 /\ gone.v = Volume
       \/ gone.inum = i /\ Deleted(Volume, gone.v, p, o)
  <2>1. LET r == dir_offset_delete(Volume, p, o, check)
        IN  \/ check /\ r.inum = 0 /\ r.v = Volume
            \/ r.inum = Volume.ct[p][o].ino /\ Deleted(Volume, r.v, p, o)
    BY <1>1, <1>9, Deletes
  <2> QED  BY <1>5, <1>9, <2>1, Zenon
<1>11. CASE gone.inum = 0
  <2>1. x = Volume /\ scan' = scan
    BY <1>6, <1>7, <1>8, <1>10, <1>11
  <2>2. Keeps(Volume, x)
    BY <2>1, KeepsSame
  <2> QED  BY <1>1, <1>7, <2>1, <2>2, VolStep
<1>12. CASE gone.inum # 0
  <2>1. Deleted(Volume, gone.v, p, o)
    BY <1>10, <1>12
  <2>2. x = Unlinked(gone.v, p, i) /\ scan' = Forget(p, o)
    BY <1>6, <1>7, <1>12
  <2>3. VolOK(gone.v)
    BY <1>1, <2>1, DeletedOK
  <2>4. /\ VolOK(x)
        /\ \A j \in Inum \ {i} : x.mode[j] = gone.v.mode[j] /\ x.ct[j] = gone.v.ct[j]
    BY <1>8, <2>2, <2>3, UnlinkedOK
  <2>5. ScanOK(Volume, lock, scan) /\ LocksOK(lock)
    BY DEF Inv
  <2>6. ScanOK(gone.v, lock, scan')
    BY <1>1, <2>1, <2>2, <2>5, ForgetOK
  <2>7. ScanOK(x, lock, scan')
    <3>1. SUFFICES ASSUME scan' # Free PROVE ScanOK(x, lock, scan')
      BY DEF ScanOK
    <3>2. PICK j \in Inum : j = lock[scan'.lock].key
      BY <2>6, <3>1 DEF ScanOK
    <3>3. j # i
      BY <1>7, <2>6, <3>1, <3>2 DEF ScanOK, Locked
    <3> QED  BY <2>4, <2>6, <3>1, <3>2, <3>3 DEF ScanOK
  <2>8. Volume' = x
    BY <1>7, <2>4, BecomeIs DEF VolOK
  <2> QED  BY <1>7, <2>4, <2>5, <2>7, <2>8 DEF Inv
<1> QED  BY <1>11, <1>12

(* An object is renamed: the new name is made, the old one is deleted, and *)
(* a directory that moves gets another "..".                               *)
LEMMA PRenameObjectInv ==
    ASSUME Inv, NEW p \in Dirs, NEW n \in Name, NEW q \in Dirs, NEW m \in Name,
           NEW more, PRenameObject(p, n, q, m, more)
    PROVE  Inv'
<1>1. /\ p \in Inum /\ p # 0 /\ Volume.mode[p] = "dir" /\ VolOK(Volume)
      /\ DirOK(Volume.ct[p]) /\ Shape(Volume)
      /\ q \in Inum /\ q # 0 /\ Volume.mode[q] = "dir"
  BY DirIs DEF Inv
<1>2. PICK o : o = dir_name_search(Volume, p, n)
  OBVIOUS
<1>3. PICK i : i = InumAt(Volume, p, o)
  OBVIOUS
<1>4. PICK over \in BOOLEAN : over <=> IsDir(i) /\ p # q
  OBVIOUS
<1>5. PICK made : made = dir_create(Volume, q, m, i, more)
  OBVIOUS
<1>6. PICK gone : gone = IF made.ok THEN dir_offset_delete(made.v, p, o, FALSE)
                         ELSE [inum |-> 0, v |-> made.v]
  OBVIOUS
<1>7. i # 0 /\ lock' = lock /\ Renamed(p, q, o, i, over, made, gone)
  BY <1>2, <1>3, <1>4, <1>5, <1>6, Zenon DEF PRenameObject
<1>12. PICK check \in BOOLEAN : check = FALSE
  OBVIOUS
<1>13. gone = IF made.ok THEN dir_offset_delete(made.v, p, o, check)
              ELSE [inum |-> 0, v |-> made.v]
  BY <1>6, <1>12, Zenon
<1>8. i \in Inum /\ o # -1
  <2>1. i \in Inum
    BY <1>1, <1>2, <1>3, SearchIn
  <2> QED  BY <1>3, <1>7, <2>1 DEF InumAt
<1>9. o \in DOMAIN Volume.ct[p] \ {0, 3} /\ i = Volume.ct[p][o].ino
  <2>1. o \in DOMAIN Volume.ct[p] /\ o \notin {0, 3}
    BY <1>1, <1>2, <1>3, <1>8, SearchIn
  <2> QED  BY <1>3, <1>7, <1>8, <2>1 DEF InumAt
<1>10. Entered(Volume, made, q, m, i)
  BY <1>1, <1>5, <1>8, CreateStep
<1>11. LocksOK(lock) /\ ScanOK(Volume, lock, scan)
  BY DEF Inv
<1>14. CASE made.ok = FALSE
  <2>1. made.v = Volume
    BY <1>10, <1>14 DEF Entered
  <2>2. gone.inum = 0
    BY <1>13, <1>14
  <2>3. Become(Volume) /\ scan' = scan
    BY <1>7, <1>14, <2>1, <2>2 DEF Renamed
  <2>4. Keeps(Volume, Volume)
    BY KeepsSame
  <2> QED  BY <1>1, <1>7, <2>3, <2>4, VolStep
<1>15. CASE made.ok = TRUE
  <2>1. /\ VolOK(made.v) /\ Keeps(Volume, made.v) /\ made.v.mode = Volume.mode
        /\ Created(Volume, made.v, q, made.at, m, i)
    BY <1>10, <1>15 DEF Entered
  <2>2. o \in DOMAIN made.v.ct[p] \ {0, 3} /\ made.v.ct[p][o].ino = i
    <3>1. PICK w : Grown(Volume.ct[q], w, made.at, m, i)
                   /\ DirSet(Volume, made.v, q, w)
      BY <2>1 DEF Created
    <3>2. CASE p = q
      BY <1>9, <3>1, <3>2 DEF Grown, DirSet
    <3>3. CASE p # q
      BY <1>1, <1>9, <3>1, <3>3 DEF DirSet
    <3> QED  BY <3>2, <3>3
  <2>3. gone = dir_offset_delete(made.v, p, o, check)
    BY <1>13, <1>15
  <2>4. gone.inum = i /\ Deleted(made.v, gone.v, p, o)
    <3>1. Shape(made.v) /\ DirOK(made.v.ct[p])
      BY <1>1, <2>1 DEF VolOK, InodeOK
    <3>2. LET r == dir_offset_delete(made.v, p, o, check)
          IN  \/ check /\ r.inum = 0 /\ r.v = made.v
              \/ r.inum = made.v.ct[p][o].ino /\ Deleted(made.v, r.v, p, o)
      BY <1>1, <2>2, <3>1, Deletes
    <3> QED  BY <1>12, <2>2, <2>3, <3>2, Zenon
  <2>5. VolOK(gone.v) /\ gone.v.mode = Volume.mode
    BY <1>1, <2>1, <2>4, DeletedOK
  <2>6. PICK s : s = Forget(p, o)
    OBVIOUS
  <2>7. ScanOK(gone.v, lock, s)
    <3>1. ScanOK(made.v, lock, scan)
      BY <1>11, <2>1, ScanKept
    <3> QED  BY <1>1, <2>1, <2>4, <2>6, <3>1, ForgetOK
  <2>8. scan' = s
    BY <1>7, <1>9, <2>4, <2>6, Zenon DEF Renamed
  <2>9. PICK c : c = dir_inum_change(gone.v, i, p, q)
    OBVIOUS
  <2>10. PICK y : y = [c EXCEPT !.nlink[p] = @ - 1, !.nlink[q] = @ + 1]
    OBVIOUS
  <2>11. CASE over
    <3>1. Become(y) /\ IsDir(i)
      BY <1>4, <1>7, <1>15, <2>4, <2>9, <2>10, <2>11 DEF Renamed
    <3>2. gone.v.mode[i] = "dir"
      BY <2>5, <3>1, VolumeIs DEF IsDir
    <3>3. VolOK(c) /\ Keeps(gone.v, c)
      BY <1>1, <1>8, <2>5, <2>9, <3>2, ChangeOK
    <3>4. Counted(c, y)
      BY <2>10, <3>3, CountTwo DEF VolOK
    <3>5. VolOK(y) /\ Keeps(gone.v, y)
      <4>1. VolOK(y) /\ Keeps(c, y)
        BY <3>3, <3>4, CountedOK, KeepsSame DEF Counted
      <4> QED  BY <3>3, <4>1, KeepsTrans
    <3>6. Volume' = y
      BY <3>1, <3>5, BecomeIs DEF VolOK
    <3>7. ScanOK(y, lock, s)
      BY <2>7, <3>5, ScanKept
    <3> QED  BY <1>7, <1>11, <2>8, <3>5, <3>6, <3>7 DEF Inv
  <2>12. CASE ~over
    <3>1. Become(gone.v)
      BY <1>4, <1>7, <1>15, <2>4, <2>12 DEF Renamed
    <3>2. Volume' = gone.v
      BY <2>5, <3>1, BecomeIs DEF VolOK
    <3> QED  BY <1>7, <1>11, <2>5, <2>7, <2>8, <3>2 DEF Inv
  <2> QED  BY <2>11, <2>12
<1> QED  BY <1>10, <1>14, <1>15 DEF Entered

-----------------------------------------------------------------------------
(* The first entries of a new directory.                                   *)
LEMMA EmptyTiled ==
    /\ Tiled(<<>>, 0) /\ Size(<<>>) = 0
    /\ \A n : Roomy(<<>>, n) = {}
<1>1. PICK d : d = <<>>
  OBVIOUS
<1>2. DOMAIN d = {} /\ d = [q \in DOMAIN d |-> d[q]]
  BY <1>1
<1>3. 0 % DIRBLKSIZ = 0
  BY BlockSize
<1>4. Tiled(d, 0)
  BY <1>2, <1>3 DEF Tiled
<1>5. Size(d) = 0
  BY <1>4, SizeIs
<1>6. \A n : Roomy(d, n) = {}
  BY <1>2 DEF Roomy
<1> QED  BY <1>1, <1>4, <1>5, <1>6

(* Behind "." there is room for "..".                                      *)
LEMMA DotsFit ==
    ASSUME NEW w, NEW N, Tiled(w, N), 0 \in DOMAIN w, NEW i \in Inum,
           w[0] = [ino |-> i, name |-> Dot, reclen |-> DIRBLKSIZ],
           \A q \in DOMAIN w \ {0} : w[q].ino = 0,
           NEW p \in Inum, NEW e,
           e = [ino |-> p, name |-> DotDot, reclen |-> DIRBLKSIZ - 3]
    PROVE  /\ Roomy(w, DotDot) # {} /\ Least(Roomy(w, DotDot)) = 0
           /\ DirOK(Split(w, 0, e)) /\ Grown(w, Split(w, 0, e), 3, DotDot, p)
<1>1. w[0].name = Dot /\ w[0].reclen = DIRBLKSIZ
  OBVIOUS
<1>2. 0 \in Roomy(w, DotDot)
  BY <1>1, BlockSize, NameFits, InAnyName DEF Roomy
<1>3. Roomy(w, DotDot) \subseteq Nat
  BY DEF Roomy, Tiled
<1>4. Least(Roomy(w, DotDot)) = 0
  BY <1>2, <1>3, LeastIs
<1>5. UFS_DIRSIZ(w[0].name) = 3
  BY <1>1, NameFits, InAnyName
<1>6. e = [ino |-> p, name |-> DotDot,
           reclen |-> w[0].reclen - UFS_DIRSIZ(w[0].name)]
  BY <1>1, <1>5
<1>7. PICK x : x = Split(w, 0, e)
  OBVIOUS
<1>8. /\ Tiled(x, N) /\ Grown(w, x, 0 + UFS_DIRSIZ(w[0].name), DotDot, p)
      /\ x[0].name = w[0].name /\ x[0].reclen = UFS_DIRSIZ(w[0].name)
  BY <1>2, <1>6, <1>7, InAnyName, SplitTiled
<1>9. Size(x) = N
  BY <1>8, SizeIs
<1>10. Dots(x)
  BY <1>1, <1>5, <1>8 DEF Dots, Grown
<1>11. 0 + UFS_DIRSIZ(w[0].name) = 3
  BY <1>5
<1> QED  BY <1>2, <1>4, <1>7, <1>8, <1>9, <1>10, <1>11 DEF DirOK

(* "." and ".." are made in a directory without entries, or neither is.    *)
FirstTwo(v, r, i, p) ==
    \/ r.ok = FALSE /\ r.v = v
    \/ /\ r.ok = TRUE /\ r.at = 3
       /\ \E w : /\ DirOK(w) /\ DirSet(v, r.v, i, w)
                 /\ w[0].ino = i /\ w[3].ino = p
                 /\ \A q \in DOMAIN w \ {0, 3} : w[q].ino = 0

LEMMA NoSpill == 0 % (BlocksPerFrag * DIRBLKSIZ) = 0
<1>1. PICK k \in Nat : k = BlocksPerFrag * DIRBLKSIZ /\ k > 0
  BY BlockAssumption
<1> QED  BY <1>1

LEMMA DotRefused ==
    ASSUME NEW v, NEW i, v.mode[i] = "dir", v.ct[i] = <<>>,
           NEW n, NEW j, NEW more, ~more
    PROVE  dir_create(v, i, n, j, more) = [ok |-> FALSE, v |-> v, at |-> 0]
<1>1. PICK d : d = <<>>
  OBVIOUS
<1>2. v.ct[i] = d /\ Roomy(d, n) = {} /\ Size(d) = 0
  BY <1>1, EmptyTiled
<1> QED  BY <1>2, NoSpill DEF dir_create

LEMMA DotMade ==
    ASSUME NEW v, NEW i, v.mode[i] = "dir", v.ct[i] = <<>>,
           NEW n, NEW j, NEW more, more
    PROVE  dir_create(v, i, n, j, more)
               = [ok |-> TRUE, at |-> 0,
                  v |-> WithDir(v, i, Put(Fill(<<>>), 0,
                            [ino |-> j, name |-> n, reclen |-> DIRBLKSIZ]))]
<1>1. PICK d : d = <<>>
  OBVIOUS
<1>2. v.ct[i] = d /\ Roomy(d, n) = {} /\ Size(d) = 0
  BY <1>1, EmptyTiled
<1>3. PICK w : w = Put(Fill(d), 0, [ino |-> j, name |-> n, reclen |-> DIRBLKSIZ])
  OBVIOUS
<1>4. dir_create(v, i, n, j, more)
          = [ok |-> TRUE, at |-> 0, v |-> WithDir(v, i, w)]
  BY <1>2, <1>3, NoSpill DEF dir_create, WithDir
<1> QED  BY <1>1, <1>3, <1>4

LEMMA DotsMade ==
    ASSUME NEW v, Shape(v), NEW i \in Inum, v.mode[i] = "dir", v.ct[i] = <<>>,
           NEW p \in Inum, NEW more \in BOOLEAN,
           NEW dot, dot = dir_create(v, i, Dot, i, more)
    PROVE  FirstTwo(v, dir_create(dot.v, i, DotDot, p, more), i, p)
<1>1. PICK dots : dots = dir_create(dot.v, i, DotDot, p, more)
  OBVIOUS
<1>2. CASE ~more
  <2>1. dot.v = v
    <3>1. dot = [ok |-> FALSE, v |-> v, at |-> 0]
      BY <1>2, DotRefused, Zenon
    <3> QED  BY <3>1
  <2>2. dots.ok = FALSE /\ dots.v = v
    <3>1. dots = [ok |-> FALSE, v |-> v, at |-> 0]
      BY <1>1, <1>2, <2>1, DotRefused, Zenon
    <3> QED  BY <3>1
  <2> QED  BY <1>1, <2>2 DEF FirstTwo
<1>3. CASE more
  <2>1. PICK d : d = <<>>
    OBVIOUS
  <2>2. PICK e : e = [ino |-> i, name |-> Dot, reclen |-> DIRBLKSIZ]
    OBVIOUS
  <2>3. PICK w : w = Put(Fill(d), 0, e)
    OBVIOUS
  <2>4. dot.v = WithDir(v, i, w)
    <3>1. dot = [ok |-> TRUE, at |-> 0,
                 v |-> WithDir(v, i, Put(Fill(<<>>), 0,
                           [ino |-> i, name |-> Dot, reclen |-> DIRBLKSIZ]))]
      BY <1>3, DotMade, Zenon
    <3>2. dot = [ok |-> TRUE, at |-> 0, v |-> WithDir(v, i, w)]
      BY <2>1, <2>2, <2>3, <3>1, Zenon
    <3> QED  BY <3>2
  <2>5. Tiled(w, Size(w)) /\ Grown(d, w, 0, Dot, i) /\ w[0] = e
    BY <2>1, <2>2, <2>3, AppendTiled, EmptyTiled, InAnyName
  <2>6. 0 \in DOMAIN w
    BY <2>5 DEF Grown
  <2>7. DirSet(v, dot.v, i, w)
    BY <2>4, WithDirIs
  <2>8. PICK f : f = [ino |-> p, name |-> DotDot, reclen |-> DIRBLKSIZ - 3]
    OBVIOUS
  <2>9. PICK x : x = Split(w, 0, f)
    OBVIOUS
  <2>10. /\ Roomy(w, DotDot) # {} /\ Least(Roomy(w, DotDot)) = 0
         /\ DirOK(x) /\ Grown(w, x, 3, DotDot, p)
    <3>1. \A q \in DOMAIN w \ {0} : w[q].ino = 0
      BY <2>1, <2>5 DEF Grown
    <3> QED  BY <2>2, <2>5, <2>6, <2>8, <2>9, <3>1, DotsFit
  <2>11. UFS_DIRSIZ(w[0].name) = 3 /\ w[0].reclen = DIRBLKSIZ
    BY <2>2, <2>5, NameFits, InAnyName
  <2>12. dot.v.mode[i] = "dir" /\ dot.v.ct[i] = w /\ Shape(dot.v)
    BY <2>7 DEF DirSet
  <2>13. dots = [ok |-> TRUE, at |-> 0 + 3, v |-> WithDir(dot.v, i, x)]
    BY <1>1, <2>8, <2>9, <2>10, <2>11, <2>12 DEF dir_create, Split, WithDir
  <2>14. dots.ok = TRUE /\ dots.at = 3 /\ dots.v = WithDir(dot.v, i, x)
    BY <2>13
  <2>15. DirSet(dot.v, dots.v, i, x)
    BY <2>12, <2>14, WithDirIs
  <2>16. DirSet(v, dots.v, i, x)
    BY <2>7, <2>15 DEF DirSet
  <2>17. x[0].ino = i /\ x[3].ino = p /\ \A q \in DOMAIN x \ {0, 3} : x[q].ino = 0
    <3>1. w[0].ino = i /\ \A q \in DOMAIN w \ {0} : w[q].ino = 0
      BY <2>1, <2>2, <2>5 DEF Grown
    <3> QED  BY <2>6, <2>10, <3>1 DEF Grown
  <2> QED  BY <1>1, <2>10, <2>14, <2>16, <2>17 DEF FirstTwo
<1> QED  BY <1>2, <1>3

-----------------------------------------------------------------------------
(* A directory is made: an inode, its name in p, and its first two entries.*)

LEMMA PCreateDirInv ==
    ASSUME Inv, NEW p \in Dirs, NEW n \in Name, NEW roomy \in SUBSET Group,
           NEW more1 \in BOOLEAN, NEW more2 \in BOOLEAN,
           PCreateDir(p, n, roomy, more1, more2)
    PROVE  Inv'
<1>1. /\ p \in Inum /\ Volume.mode[p] = "dir" /\ VolOK(Volume)
      /\ p \in Volume.used
  BY DirIs DEF Inv
<1>2. PICK new : new = inum_new(Volume, p, TRUE, roomy)
  OBVIOUS
<1>3. PICK made : made = dir_create(new.v, p, n, new.got, more1)
  OBVIOUS
<1>4. PICK dot : dot = dir_create(inum_sane(made.v, new.got, "dir"), new.got, Dot, new.got, more2)
  OBVIOUS
<1>5. PICK dots : dots = dir_create(dot.v, new.got, DotDot, p, more2)
  OBVIOUS
<1>6. PICK check \in BOOLEAN : check = FALSE
  OBVIOUS
<1>7. PICK x : x = NewDir(p, new, made, dots)
  OBVIOUS
<1>8. lock' = lock /\ scan' = scan /\ Become(x)
  BY <1>2, <1>3, <1>4, <1>5, <1>7, Zenon DEF PCreateDir
<1>9. /\ VolOK(new.v) /\ new.v.ct = Volume.ct /\ new.v.mode = Volume.mode
      /\ new.got # 0 => new.got \in Inum \ Volume.used
                        /\ new.v.used = Volume.used \cup {new.got}
  <2>1. PICK isdir \in BOOLEAN : isdir = TRUE
    OBVIOUS
  <2>2. Numbered(Volume, inum_new(Volume, p, isdir, roomy), IF isdir THEN 1 ELSE 0)
    BY <1>1, NewIs
  <2> QED  BY <1>2, <2>1, <2>2 DEF Numbered
<1>10. CASE new.got = 0
  <2>1. x = new.v
    BY <1>7, <1>10 DEF NewDir
  <2>2. Keeps(Volume, x)
    BY <1>9, <2>1, KeepsSame
  <2> QED  BY <1>8, <1>9, <2>1, <2>2, VolStep
<1>11. CASE new.got # 0
  <2>1. PICK i \in Inum : i = new.got /\ i \notin Volume.used
                          /\ new.v.used = Volume.used \cup {i} /\ i # 0
    BY <1>9, <1>11
  <2>2. Keeps(Volume, new.v)
    BY <1>9, KeepsSame
  <2>3. new.v.mode[i] # "dir" /\ p # i /\ new.v.mode[p] = "dir"
    BY <1>1, <1>9, <2>1 DEF VolOK, InodeOK
  <2>4. Entered(new.v, made, p, n, i)
    <3>1. Entered(new.v, dir_create(new.v, p, n, i, more1), p, n, i)
      BY <1>1, <1>9, <2>3, CreateStep
    <3> QED  BY <1>3, <2>1, <3>1
  <2>5. VolOK(made.v) /\ Shape(made.v) /\ made.v.mode[i] # "dir"
        /\ made.v.mode[p] = "dir" /\ Keeps(Volume, made.v)
    BY <2>2, <2>3, <2>4, KeepsTrans DEF Entered, VolOK
  <2>6. CASE made.ok = FALSE
    <3>1. x = inum_free(made.v, i)
      BY <1>7, <1>11, <2>1, <2>6 DEF NewDir
    <3>2. Aside(made.v, x, i) /\ x.mode[i] # "dir"
      BY <2>5, <3>1, FreeIs
    <3>3. VolOK(x)
      BY <2>5, <3>2, AsideOK DEF VolOK
    <3>4. Keeps(Volume, x)
      BY <2>5, <3>2, KeepsAside, KeepsTrans
    <3> QED  BY <1>8, <3>3, <3>4, VolStep
  <2>7. CASE made.ok = TRUE
    <3>1. Created(new.v, made.v, p, made.at, n, i)
      BY <2>4, <2>7 DEF Entered
    <3>2. PICK u : u = inum_sane(made.v, i, "dir")
      OBVIOUS
    <3>3. Aside(made.v, u, i) /\ u.mode[i] = "dir" /\ u.used = made.v.used
      BY <2>1, <2>5, <3>2, SaneIs
    <3>4. Shape(u) /\ u.ct[i] = <<>> /\ i \in u.used
      BY <2>1, <2>4, <3>3 DEF Aside, Entered
    <3>5. FirstTwo(u, dots, i, p)
      <4>1. dot = dir_create(u, i, Dot, i, more2)
        BY <1>4, <2>1, <3>2
      <4>2. dots = dir_create(dot.v, i, DotDot, p, more2)
        BY <1>5, <2>1
      <4>3. FirstTwo(u, dir_create(dot.v, i, DotDot, p, more2), i, p)
        BY <1>1, <3>3, <3>4, <4>1, DotsMade, Zenon
      <4> QED  BY <4>2, <4>3
    <3>6. CASE dots.ok = TRUE
      <4>1. PICK w : DirOK(w) /\ DirSet(u, dots.v, i, w) /\ dots.at = 3
        BY <3>5, <3>6 DEF FirstTwo
      <4>2. \A j \in Inum \ {i} : /\ dots.v.ct[j] = made.v.ct[j]
                                  /\ dots.v.mode[j] = made.v.mode[j]
                                  /\ j \in made.v.used => j \in dots.v.used
        BY <3>3, <4>1 DEF DirSet, Aside
      <4>3. dots.v.ct[i] = w /\ dots.v.mode[i] = "dir" /\ i \in dots.v.used
        BY <3>3, <3>4, <4>1 DEF DirSet
      <4>4. VolOK(dots.v)
        <5>1. Shape(dots.v)
          BY <4>1 DEF DirSet
        <5>2. ASSUME NEW j \in Inum \ {i}
              PROVE  InodeOK(dots.v, j)
          <6>1. InodeOK(made.v, j)
            BY <2>5 DEF VolOK
          <6> QED  BY <4>2, <6>1 DEF InodeOK
        <5>3. InodeOK(dots.v, i)
          BY <4>1, <4>3 DEF InodeOK
        <5> QED  BY <5>1, <5>2, <5>3 DEF VolOK
      <4>5. Keeps(made.v, dots.v)
        <5>1. SUFFICES ASSUME NEW j \in Inum, made.v.mode[j] = "dir"
                       PROVE  dots.v.mode[j] = "dir" /\ dots.v.ct[j] = made.v.ct[j]
          BY Zenon DEF Keeps
        <5>2. j # i
          BY <2>5, <5>1
        <5> QED  BY <4>2, <5>1, <5>2
      <4>6. x = [dots.v EXCEPT !.nlink[p] = @ + 1]
        <5>1. dots.at # 0
          BY <4>1
        <5> QED  BY <1>7, <1>11, <2>7, <3>6, <5>1, Zenon DEF NewDir
      <4>7. Counted(dots.v, x)
        <5>1. PICK z : z = [dots.v.nlink EXCEPT ![p] = @ + 1]
          OBVIOUS
        <5>2. x = [dots.v EXCEPT !.nlink = z]
          BY <4>6, <5>1
        <5> QED  BY <4>4, <5>2, CountIs DEF VolOK
      <4>8. VolOK(x) /\ Keeps(dots.v, x)
        BY <4>4, <4>7, CountedOK, KeepsSame DEF Counted
      <4>9. Keeps(Volume, x)
        BY <2>5, <4>5, <4>8, KeepsTrans
      <4> QED  BY <1>8, <4>8, <4>9, VolStep
    <3>7. CASE dots.ok = FALSE
      <4>1. dots.v = u
        BY <3>5, <3>7 DEF FirstTwo
      <4>2. PICK w : /\ DirOK(w) /\ Grown(new.v.ct[p], w, made.at, n, i)
                     /\ DirSet(new.v, made.v, p, w)
        BY <3>1 DEF Created
      <4>3. u.ct[p] = w /\ u.mode[p] = "dir"
        BY <1>1, <2>3, <2>5, <3>3, <4>2 DEF DirSet, Aside
      <4>4. made.at \in DOMAIN u.ct[p] \ {0, 3}
        <5>1. Dots(new.v.ct[p])
          BY <1>1, <1>9, <2>3 DEF VolOK, InodeOK, DirOK
        <5> QED  BY <4>2, <4>3, <5>1 DEF Grown, Dots
      <4>5. PICK t : t = dir_offset_delete(u, p, made.at, check)
        OBVIOUS
      <4>6. Deleted(u, t.v, p, made.at)
        <5>1. LET r == dir_offset_delete(u, p, made.at, check)
              IN  \/ check /\ r.inum = 0 /\ r.v = u
                  \/ r.inum = u.ct[p][made.at].ino /\ Deleted(u, r.v, p, made.at)
          BY <1>1, <3>4, <4>2, <4>3, <4>4, Deletes
        <5> QED  BY <1>6, <4>5, <5>1, Zenon
      <4>7. PICK d : DirOK(d) /\ Cut(w, d, made.at) /\ DirSet(u, t.v, p, d)
        BY <4>3, <4>6 DEF Deleted, Gone
      <4>8. x = inum_free(t.v, i)
        <5>1. t = dir_offset_delete(dots.v, p, made.at, FALSE)
          BY <1>6, <4>1, <4>5, Zenon
        <5> QED  BY <1>7, <1>11, <2>1, <2>7, <3>7, <5>1 DEF NewDir
      <4>9. Aside(t.v, x, i) /\ x.mode[i] # "dir"
        BY <4>7, <4>8, FreeIs DEF DirSet
      <4>10. \A j \in Inum \ {i, p} : /\ t.v.ct[j] = made.v.ct[j]
                                      /\ t.v.mode[j] = made.v.mode[j]
                                      /\ j \in made.v.used => j \in t.v.used
        BY <3>3, <4>7 DEF DirSet, Aside
      <4>11. t.v.ct[p] = d /\ t.v.mode[p] = "dir" /\ p \in t.v.used
        <5>1. p \in made.v.used
          BY <1>1, <2>5 DEF VolOK, InodeOK
        <5> QED  BY <1>1, <2>3, <3>3, <4>3, <4>7, <5>1 DEF DirSet, Aside
      <4>12. VolOK(x)
        <5>1. \A j \in Inum \ {i} : InodeOK(t.v, j)
          <6>1. InodeOK(t.v, p)
            BY <4>7, <4>11 DEF InodeOK
          <6>2. ASSUME NEW j \in Inum \ {i, p}
                PROVE  InodeOK(t.v, j)
            <7>1. InodeOK(made.v, j)
              BY <2>5 DEF VolOK
            <7> QED  BY <4>10, <7>1 DEF InodeOK
          <6> QED  BY <6>1, <6>2
        <5> QED  BY <4>9, <5>1, AsideOK
      <4>13. Keeps(new.v, x)
        <5>1. ASSUME NEW j \in Inum \ {i}
              PROVE  x.ct[j] = t.v.ct[j] /\ x.mode[j] = t.v.mode[j]
          BY <4>9 DEF Aside
        <5>2. \A off, due : Sees(new.v.ct[p], off, due) => Sees(d, off, due)
          BY <4>2, <4>7, SeesUndone
        <5>3. \A j \in Inum \ {i, p} : /\ x.ct[j] = new.v.ct[j]
                                       /\ x.mode[j] = new.v.mode[j]
          <6>1. SUFFICES ASSUME NEW j \in Inum \ {i, p}
                         PROVE  x.ct[j] = new.v.ct[j] /\ x.mode[j] = new.v.mode[j]
            OBVIOUS
          <6>2. made.v.ct[j] = new.v.ct[j] /\ made.v.mode = new.v.mode
            BY <4>2 DEF DirSet
          <6>3. t.v.ct[j] = made.v.ct[j] /\ t.v.mode[j] = made.v.mode[j]
            BY <4>10
          <6> QED  BY <5>1, <6>2, <6>3
        <5>4. x.ct[p] = d /\ x.mode[p] = "dir"
          BY <1>1, <2>3, <4>11, <5>1
        <5> QED  BY <2>3, <5>2, <5>3, <5>4 DEF Keeps
      <4>14. Keeps(Volume, x)
        BY <2>2, <4>13, KeepsTrans
      <4> QED  BY <1>8, <4>12, <4>14, VolStep
    <3> QED  BY <3>5, <3>6, <3>7 DEF FirstTwo
  <2> QED  BY <2>4, <2>6, <2>7 DEF Entered
<1> QED  BY <1>10, <1>11

-----------------------------------------------------------------------------
LEMMA NextInv ==
    ASSUME Inv, [Next]_vars
    PROVE  Inv'
<1>1. CASE UNCHANGED vars
  <2>1. Volume' = Volume
    BY <1>1, VolSame DEF vars, vol
  <2> QED  BY <1>1, <2>1 DEF vars, Inv
<1>2. CASE Lookups
  <2>1. ASSUME NEW l \in Lock, NEW p \in Dirs, NEW n \in AnyName,
               PLocateObject(l, p, n) \/ PLocateDots(l, p, n)
        PROVE  Inv'
    BY <2>1, LocateInv
  <2>2. ASSUME NEW l \in Lock, PFreeLock(l)
        PROVE  Inv'
    BY <2>2, PFreeLockInv
  <2>3. ASSUME NEW l \in Lock, PExamineObject(l)
        PROVE  Inv'
    BY <2>3, PExamineObjectInv
  <2>4. CASE PExamineNext
    BY <2>4, PExamineNextInv
  <2> QED  BY <1>2, <2>1, <2>2, <2>3, <2>4 DEF Lookups
<1>3. CASE Changes
  <2>1. PICK p \in Dirs, n \in Name : \E more \in More(p) :
           \/ PCreateObject(p, n, "file", more)
           \/ \E l \in Lock : PMakeLink(l, p, n, more)
           \/ \E q \in Dirs, m \in Name : PRenameObject(q, m, p, n, more)
    BY <1>3, Zenon DEF Changes
  <2>2. PICK more \in More(p) :
           \/ PCreateObject(p, n, "file", more)
           \/ \E l \in Lock : PMakeLink(l, p, n, more)
           \/ \E q \in Dirs, m \in Name : PRenameObject(q, m, p, n, more)
    BY <2>1
  <2>3. CASE PCreateObject(p, n, "file", more)
    <3>1. PICK type \in {"file", "link"} : type = "file"
      OBVIOUS
    <3>2. PCreateObject(p, n, type, more)
      BY <2>3, <3>1, Zenon
    <3> QED  BY <3>1, <3>2, PCreateObjectInv, Zenon
  <2>4. ASSUME NEW l \in Lock, PMakeLink(l, p, n, more)
        PROVE  Inv'
    BY <2>4, PMakeLinkInv, Zenon
  <2>5. ASSUME NEW q \in Dirs, NEW m \in Name, PRenameObject(q, m, p, n, more)
        PROVE  Inv'
    BY <2>5, PRenameObjectInv, Zenon
  <2> QED  BY <2>2, <2>3, <2>4, <2>5, Zenon
<1>4. ASSUME NEW p \in Dirs, NEW n \in Name, PDeleteObject(p, n)
      PROVE  Inv'
  BY <1>4, PDeleteObjectInv
<1>5. ASSUME NEW l \in Lock \ stray, PParent(l)
      PROVE  Inv'
  BY <1>5, PParentInv
<1>6. ASSUME NEW p \in Dirs, NEW n \in Name, NEW roomy \in SUBSET Group,
             NEW more1 \in More(p), NEW more2 \in BOOLEAN,
             PCreateDir(p, n, roomy, more1, more2)
      PROVE  Inv'
  <2>1. more1 \in BOOLEAN
    BY Zenon DEF More
  <2> QED  BY <1>6, <2>1, PCreateDirInv, Zenon
<1> QED  BY <1>1, <1>2, <1>3, <1>4, <1>5, <1>6, Zenon DEF Next

(* Every directory goes on to be tiled and to begin with "." and "..", the *)
(* locks are on inodes, and the client who lists a directory stands at the *)
(* start of one of its entries, with all that it is still to be shown      *)
(* ahead: through every creation, link, rename and deletion.               *)
THEOREM Invariance == Spec => []Inv
<1>1. Init => Inv
  BY InitInv
<1>2. Inv /\ [Next]_vars => Inv'
  BY NextInv
<1> QED  BY <1>1, <1>2, PTL DEF Spec

LEMMA InvSound == Inv => EntriesSound
<1> SUFFICES ASSUME Inv PROVE EntriesSound
  OBVIOUS
<1>1. EntriesTile
  <2>1. SUFFICES ASSUME NEW p \in Dirs
                 PROVE  /\ Size(ct[p]) % DIRBLKSIZ = 0
                        /\ \A o \in DOMAIN ct[p] :
                              /\ UFS_DIRSIZ(ct[p][o].name) <= ct[p][o].reclen
                              /\ o \div DIRBLKSIZ = (o + ct[p][o].reclen - 1) \div DIRBLKSIZ
                              /\ o + ct[p][o].reclen \in DOMAIN ct[p] \cup {Size(ct[p])}
    BY Zenon DEF EntriesTile
  <2>2. Tiled(ct[p], Size(ct[p]))
    BY DirIs, VolumeIs DEF DirOK
  <2> QED  BY <2>2 DEF Tiled, Block
<1>2. ScanExact
  <2>1. SUFFICES ASSUME scan # Free
                 PROVE  /\ scan.off \in DOMAIN ct[ListedDir] \cup {Size(ct[ListedDir])}
                        /\ \A o \in scan.due : o >= scan.off
    BY DEF ScanExact
  <2>2. Sees(ct[ListedDir], scan.off, scan.due)
    BY <2>1, VolumeIs DEF Inv, ScanOK, ListedDir
  <2> QED  BY <2>2 DEF Sees
<1> QED  BY <1>1, <1>2 DEF EntriesSound

(* The entries of every directory tile its blocks and have room for their  *)
(* names, and the FileInfoBlock of a client who lists a directory while    *)
(* others change it leads to an entry, none of which it has to be shown    *)
(* any more lies behind (dir_create(), dir_offset_delete(),                *)
(* PExamineNext()).                                                        *)
THEOREM EntriesAlwaysSound == Spec => []EntriesSound
BY Invariance, InvSound, PTL

-----------------------------------------------------------------------------
(* Links, counts and places: ic_nlink counts the names of an inode, an     *)
(* inode is in use exactly while it has a name, the counts of free inodes  *)
(* are exact, directories form a tree, and locks know where their objects  *)
(* are named.  The names of a volume are seen as the arcs of a graph from  *)
(* directories to inodes.                                                  *)

(* A graph: its directories D, and the arcs E, each of them a directory,   *)
(* an offset in it and the inode that the entry there names.               *)
Arc == Inum \X Nat \X (Inum \ {0})

To(E, i) == {t \in E : t[3] = i}

(* A set that the way up does not leave; where all such sets of directories*)
(* have the root, every way up comes to it.                                *)
Climbs(E, S)  == \A t \in E : t[1] \in S /\ t[2] = 3 => t[3] \in S
Reached(D, E) == \A S \in SUBSET D : S # {} /\ Climbs(E, S) => ROOTINO \in S

(* "." leads to the directory itself and ".." to a directory, and no other *)
(* entry to the root.  Any other directory has one name, where its ".."    *)
(* leads, and is not its own parent, nor is it above itself.               *)
Rooted(D, E) ==
    /\ D \subseteq Inum /\ E \subseteq Arc
    /\ ROOTINO \in D /\ <<ROOTINO, 3, ROOTINO>> \in E
    /\ \A t \in E : t[1] \in D /\ \A s \in E : s[1] = t[1] /\ s[2] = t[2] => s = t
    /\ \A i \in D : <<i, 0, i>> \in E /\ \E u \in D : <<i, 3, u>> \in E
    /\ \A t \in E : t[2] \notin {0, 3} /\ t[3] \in D =>
          /\ t[3] # ROOTINO /\ <<t[3], 3, t[1]>> \in E
          /\ \A s \in E : s[1] = t[1] /\ s[3] = t[3] /\ s[2] \notin {0, 3} => s = t
    /\ \A i \in D \ {ROOTINO} :
          <<i, 3, i>> \notin E /\ \E t \in E : t[2] \notin {0, 3} /\ t[3] = i
    /\ Reached(D, E)

(* L counts the arcs to every inode, and U are those with any.             *)
Tallied(E, L) ==
    /\ E \subseteq Arc /\ IsFiniteSet(E) /\ L \in [Inum -> Nat]
    /\ \A i \in Inum : L[i] = Cardinality(To(E, i))

Named(E, U) == \A i \in Inum : i > 1 => (i \in U <=> To(E, i) # {})

(* The counts C of free inodes and of directories, by group.               *)
Census(D, U, C) ==
    \A g \in Group :
        /\ C[g].nifree = Cardinality({i \in Inum : itog(i) = g /\ i \notin U})
        /\ C[g].ndir >= Cardinality({i \in D : itog(i) = g})

-----------------------------------------------------------------------------
(* One arc more or less.                                                   *)
LEMMA ToFinite ==
    ASSUME NEW E, IsFiniteSet(E), NEW i
    PROVE  /\ IsFiniteSet(To(E, i)) /\ Cardinality(To(E, i)) \in Nat
           /\ Cardinality(To(E, i)) = 0 <=> To(E, i) = {}
<1>1. To(E, i) \in SUBSET E
  BY DEF To
<1>2. IsFiniteSet(To(E, i))
  BY <1>1, FS_Subset
<1> QED  BY <1>2, FS_CardinalityType, FS_EmptySet

LEMMA TallyAdd ==
    ASSUME NEW E, NEW L, Tallied(E, L), NEW t \in Arc, t \notin E
    PROVE  Tallied(E \cup {t}, [L EXCEPT ![t[3]] = @ + 1])
<1>1. PICK F : F = E \cup {t}
  OBVIOUS
<1>2. PICK M : M = [L EXCEPT ![t[3]] = @ + 1]
  OBVIOUS
<1>3. t[3] \in Inum
  BY DEF Arc
<1>4. L \in [Inum -> Nat] /\ IsFiniteSet(E) /\ F \subseteq Arc
      /\ \A i \in Inum : L[i] = Cardinality(To(E, i))
  BY <1>1 DEF Tallied
<1>5. M \in [Inum -> Nat] /\ IsFiniteSet(F)
  BY <1>1, <1>2, <1>3, <1>4, FS_AddElement
<1>6. ASSUME NEW i \in Inum PROVE M[i] = Cardinality(To(F, i))
  <2>1. CASE i = t[3]
    <3>1. To(F, i) = To(E, i) \cup {t} /\ t \notin To(E, i)
      BY <1>1, <2>1 DEF To
    <3>2. Cardinality(To(F, i)) = Cardinality(To(E, i)) + 1
      BY <1>4, <3>1, ToFinite, FS_AddElement
    <3> QED  BY <1>2, <1>4, <2>1, <3>2
  <2>2. CASE i # t[3]
    <3>1. To(F, i) = To(E, i)
      BY <1>1, <2>2 DEF To
    <3> QED  BY <1>2, <1>4, <2>2, <3>1
  <2> QED  BY <2>1, <2>2
<1> QED  BY <1>1, <1>2, <1>4, <1>5, <1>6 DEF Tallied

LEMMA TallyDrop ==
    ASSUME NEW E, NEW L, Tallied(E, L), NEW t \in E
    PROVE  /\ Tallied(E \ {t}, [L EXCEPT ![t[3]] = @ - 1])
           /\ L[t[3]] > 0 /\ t[3] \in Inum
<1>1. PICK F : F = E \ {t}
  OBVIOUS
<1>2. PICK M : M = [L EXCEPT ![t[3]] = @ - 1]
  OBVIOUS
<1>3. t[3] \in Inum
  BY DEF Tallied, Arc
<1>4. L \in [Inum -> Nat] /\ IsFiniteSet(E) /\ F \subseteq Arc
      /\ \A i \in Inum : L[i] = Cardinality(To(E, i))
  BY <1>1 DEF Tallied
<1>5. L[t[3]] > 0
  <2>1. To(E, t[3]) # {}
    BY DEF To
  <2>2. Cardinality(To(E, t[3])) # 0 /\ Cardinality(To(E, t[3])) \in Nat
    BY <1>4, <2>1, ToFinite
  <2> QED  BY <1>3, <1>4, <2>2
<1>6. M \in [Inum -> Nat] /\ IsFiniteSet(F)
  BY <1>1, <1>2, <1>3, <1>4, <1>5, FS_RemoveElement
<1>7. ASSUME NEW i \in Inum PROVE M[i] = Cardinality(To(F, i))
  <2>1. CASE i = t[3]
    <3>1. To(F, i) = To(E, i) \ {t} /\ t \in To(E, i)
      BY <1>1, <2>1 DEF To
    <3>2. Cardinality(To(F, i)) = Cardinality(To(E, i)) - 1
      <4>1. PICK S : S = To(E, i) /\ IsFiniteSet(S) /\ t \in S
        BY <1>4, <3>1, ToFinite
      <4>2. Cardinality(S \ {t}) = Cardinality(S) - 1
        BY <4>1, FS_RemoveElement
      <4> QED  BY <3>1, <4>1, <4>2
    <3>3. M[i] = L[i] - 1
      BY <1>2, <1>4, <2>1
    <3> QED  BY <1>4, <3>2, <3>3
  <2>2. CASE i # t[3]
    <3>1. To(F, i) = To(E, i)
      BY <1>1, <2>2 DEF To
    <3> QED  BY <1>2, <1>4, <2>2, <3>1
  <2> QED  BY <2>1, <2>2
<1> QED  BY <1>1, <1>2, <1>3, <1>4, <1>5, <1>6, <1>7 DEF Tallied

-----------------------------------------------------------------------------
(* What the packets do to the graph.                                       *)
LEMMA ArcIs ==
    ASSUME NEW t \in Arc
    PROVE  /\ t = <<t[1], t[2], t[3]>> /\ t[1] \in Inum /\ t[2] \in Nat
           /\ t[3] \in Inum /\ t[3] # 0
  BY DEF Arc

LEMMA RootApart == ROOTINO = 2
  BY DEF ROOTINO

(* Another name for what is no directory.                                  *)
LEMMA RootedLink ==
    ASSUME NEW D, NEW E, Rooted(D, E), NEW p \in D, NEW o \in Nat \ {0, 3},
           NEW i \in Inum \ {0}, i \notin D,
           \A t \in E : ~(t[1] = p /\ t[2] = o)
    PROVE  Rooted(D, E \cup {<<p, o, i>>})
<1>1. PICK a : a = <<p, o, i>>
  OBVIOUS
<1>2. PICK F : F = E \cup {a}
  OBVIOUS
<1>3. a[1] = p /\ a[2] = o /\ a[3] = i /\ a \in Arc
  BY <1>1 DEF Rooted, Arc
<1>4. D \subseteq Inum /\ F \subseteq Arc /\ ROOTINO \in D /\ <<ROOTINO, 3, ROOTINO>> \in F
  BY <1>2, <1>3 DEF Rooted
<1>5. \A t \in F : t[1] \in D /\ \A s \in F : s[1] = t[1] /\ s[2] = t[2] => s = t
  BY <1>2, <1>3 DEF Rooted
<1>6. \A j \in D : <<j, 0, j>> \in F /\ \E u \in D : <<j, 3, u>> \in F
  BY <1>2 DEF Rooted
<1>7. \A t \in F : t[2] \notin {0, 3} /\ t[3] \in D =>
          /\ t[3] # ROOTINO /\ <<t[3], 3, t[1]>> \in F
          /\ \A s \in F : s[1] = t[1] /\ s[3] = t[3] /\ s[2] \notin {0, 3} => s = t
  BY <1>2, <1>3 DEF Rooted
<1>8. \A j \in D \ {ROOTINO} :
          <<j, 3, j>> \notin F /\ \E t \in F : t[2] \notin {0, 3} /\ t[3] = j
  <2>1. \A j \in D : <<j, 3, j>> # a
    BY <1>1
  <2> QED  BY <1>2, <2>1 DEF Rooted
<1>9. Reached(D, F)
  <2>1. \A S : Climbs(F, S) => Climbs(E, S)
    BY <1>2 DEF Climbs
  <2> QED  BY <2>1 DEF Rooted, Reached
<1>10. Rooted(D, F)
  BY <1>4, <1>5, <1>6, <1>7, <1>8, <1>9 DEF Rooted
<1> QED  BY <1>1, <1>2, <1>10

(* One name less of what is no directory.                                  *)
LEMMA RootedUnlink ==
    ASSUME NEW D, NEW E, Rooted(D, E), NEW a \in E, a[2] \notin {0, 3}, a[3] \notin D
    PROVE  Rooted(D, E \ {a})
<1>1. PICK F : F = E \ {a}
  OBVIOUS
<1>2. D \subseteq Inum /\ F \subseteq Arc /\ ROOTINO \in D
  BY <1>1 DEF Rooted
<1>3. \A t : t \in E /\ (t[2] \in {0, 3} \/ t[3] \in D) => t \in F
  BY <1>1
<1>4. <<ROOTINO, 3, ROOTINO>> \in F
  BY <1>3 DEF Rooted
<1>5. \A t \in F : t[1] \in D /\ \A s \in F : s[1] = t[1] /\ s[2] = t[2] => s = t
  BY <1>1 DEF Rooted
<1>6. \A j \in D : <<j, 0, j>> \in F /\ \E u \in D : <<j, 3, u>> \in F
  BY <1>3 DEF Rooted
<1>7. \A t \in F : t[2] \notin {0, 3} /\ t[3] \in D =>
          /\ t[3] # ROOTINO /\ <<t[3], 3, t[1]>> \in F
          /\ \A s \in F : s[1] = t[1] /\ s[3] = t[3] /\ s[2] \notin {0, 3} => s = t
  BY <1>1, <1>3 DEF Rooted
<1>8. \A j \in D \ {ROOTINO} :
          <<j, 3, j>> \notin F /\ \E t \in F : t[2] \notin {0, 3} /\ t[3] = j
  BY <1>1, <1>3 DEF Rooted
<1>9. Reached(D, F)
  <2>1. \A S : Climbs(F, S) => Climbs(E, S)
    BY <1>1 DEF Climbs
  <2> QED  BY <2>1 DEF Rooted, Reached
<1>10. Rooted(D, F)
  BY <1>2, <1>4, <1>5, <1>6, <1>7, <1>8, <1>9 DEF Rooted
<1> QED  BY <1>1, <1>10

(* A new directory i in p.                                                 *)
LEMMA RootedMkdir ==
    ASSUME NEW D, NEW E, Rooted(D, E), NEW p \in D, NEW o \in Nat \ {0, 3},
           NEW i \in Inum \ {0}, i \notin D, p # 0,
           \A t \in E : ~(t[1] = p /\ t[2] = o), To(E, i) = {}
    PROVE  Rooted(D \cup {i}, E \cup {<<p, o, i>>, <<i, 0, i>>, <<i, 3, p>>})
<1>1. PICK a : a = <<p, o, i>>
  OBVIOUS
<1>2. PICK b : b = <<i, 0, i>>
  OBVIOUS
<1>3. PICK c : c = <<i, 3, p>>
  OBVIOUS
<1>4. PICK F : F = E \cup {a, b, c}
  OBVIOUS
<1>5. PICK G : G = D \cup {i}
  OBVIOUS
<1>6. /\ a[1] = p /\ a[2] = o /\ a[3] = i /\ a \in Arc
      /\ b[1] = i /\ b[2] = 0 /\ b[3] = i /\ b \in Arc
      /\ c[1] = i /\ c[2] = 3 /\ c[3] = p /\ c \in Arc
  BY <1>1, <1>2, <1>3 DEF Rooted, Arc
<1>7. \A t \in E : t[1] # i /\ t[3] # i
  BY DEF Rooted, To
<1>8. G \subseteq Inum /\ F \subseteq Arc /\ ROOTINO \in G /\ <<ROOTINO, 3, ROOTINO>> \in F
  BY <1>4, <1>5, <1>6 DEF Rooted
<1>9. \A t \in F : t[1] \in G /\ \A s \in F : s[1] = t[1] /\ s[2] = t[2] => s = t
  BY <1>4, <1>5, <1>6, <1>7 DEF Rooted
<1>10. \A j \in G : <<j, 0, j>> \in F /\ \E u \in G : <<j, 3, u>> \in F
  BY <1>2, <1>3, <1>4, <1>5 DEF Rooted
<1>11. \A t \in F : t[2] \notin {0, 3} /\ t[3] \in G =>
          /\ t[3] # ROOTINO /\ <<t[3], 3, t[1]>> \in F
          /\ \A s \in F : s[1] = t[1] /\ s[3] = t[3] /\ s[2] \notin {0, 3} => s = t
  <2>1. i # ROOTINO
    BY DEF Rooted
  <2> QED  BY <1>3, <1>4, <1>5, <1>6, <1>7, <2>1 DEF Rooted
<1>12. \A j \in G \ {ROOTINO} :
          <<j, 3, j>> \notin F /\ \E t \in F : t[2] \notin {0, 3} /\ t[3] = j
  <2>1. ASSUME NEW j \in D \ {ROOTINO}
        PROVE  <<j, 3, j>> \notin F /\ \E t \in F : t[2] \notin {0, 3} /\ t[3] = j
    <3>1. <<j, 3, j>> \notin {a, b, c}
      BY <1>1, <1>2, <1>3
    <3> QED  BY <1>4, <3>1 DEF Rooted
  <2>2. <<i, 3, i>> \notin F /\ \E t \in F : t[2] \notin {0, 3} /\ t[3] = i
    <3>1. <<i, 3, i>> \notin {a, b, c} /\ <<i, 3, i>> \notin E
      BY <1>1, <1>2, <1>3, <1>7
    <3> QED  BY <1>4, <1>6, <3>1
  <2> QED  BY <1>5, <2>1, <2>2
<1>13. ASSUME NEW S \in SUBSET G, S # {}, Climbs(F, S)
       PROVE  ROOTINO \in S
  <2>1. PICK T : T = S \ {i}
    OBVIOUS
  <2>2. T \in SUBSET D /\ T # {}
    <3>1. i \in S => p \in S
      BY <1>4, <1>6, <1>13 DEF Climbs
    <3> QED  BY <1>5, <1>13, <2>1, <3>1
  <2>3. Climbs(E, T)
    BY <1>4, <1>7, <1>13, <2>1 DEF Climbs
  <2>4. ROOTINO \in T
    BY <2>2, <2>3 DEF Rooted, Reached
  <2> QED  BY <2>1, <2>4
<1>14. Rooted(G, F)
  BY <1>8, <1>9, <1>10, <1>11, <1>12, <1>13 DEF Rooted, Reached
<1> QED  BY <1>1, <1>2, <1>3, <1>4, <1>5, <1>14

(* The directory a[3], without entries but "." and "..", is deleted: its   *)
(* arcs are these two and its name, and only two lead to it.               *)
Emptied(E, i) == {t \in E : t[1] # i /\ t[3] # i}

LEMMA EmptyDir ==
    ASSUME NEW D, NEW E, Rooted(D, E), NEW a \in E, a[2] \notin {0, 3}, a[3] \in D,
           \A t \in E : t[1] = a[3] => t[2] \in {0, 3}
    PROVE  LET i == a[3]  p == a[1]
           IN  /\ <<i, 0, i>> \in E /\ <<i, 3, p>> \in E /\ i # p /\ i # ROOTINO
               /\ Emptied(E, i) = ((E \ {a}) \ {<<i, 0, i>>}) \ {<<i, 3, p>>}
               /\ To(E, i) = {<<i, 0, i>>, a}
<1>1. PICK i \in D : i = a[3]
  OBVIOUS
<1>2. PICK p \in D : p = a[1]
  BY DEF Rooted
<1>3. PICK b : b = <<i, 0, i>>
  OBVIOUS
<1>4. PICK c : c = <<i, 3, p>>
  OBVIOUS
<1>5. /\ b[1] = i /\ b[2] = 0 /\ b[3] = i /\ c[1] = i /\ c[2] = 3 /\ c[3] = p
      /\ b \in E /\ c \in E /\ i # ROOTINO
  BY <1>1, <1>2, <1>3, <1>4 DEF Rooted
<1>6. i # p
  BY <1>4, <1>5 DEF Rooted
<1>7. ASSUME NEW t \in E, t[1] = i
      PROVE  t = b \/ t = c
  BY <1>1, <1>5, <1>7 DEF Rooted
<1>8. ASSUME NEW t \in E, t[3] = i
      PROVE  t = b \/ t = a
  <2>1. CASE t[2] \notin {0, 3}
    <3>1. <<i, 3, t[1]>> \in E
      BY <1>1, <1>8, <2>1 DEF Rooted
    <3>2. <<i, 3, t[1]>> = c
      BY <1>5, <3>1 DEF Rooted
    <3>3. t[1] = p
      BY <1>4, <3>2
    <3>4. \A s \in E : s[1] = p /\ s[3] = i /\ s[2] \notin {0, 3} => s = a
      BY <1>1, <1>2 DEF Rooted
    <3> QED  BY <1>8, <2>1, <3>3, <3>4
  <2>2. CASE t[2] = 0
    <3>1. t[1] \in D /\ <<t[1], 0, t[1]>> \in E
      BY DEF Rooted
    <3>2. t = <<t[1], 0, t[1]>>
      BY <2>2, <3>1 DEF Rooted
    <3>3. t[1] = i
      BY <1>8, <3>2
    <3> QED  BY <1>3, <3>2, <3>3
  <2>3. CASE t[2] = 3
    <3>1. PICK j \in D : j = t[1] /\ t = <<j, 3, i>>
      BY <1>8, <2>3, ArcIs DEF Rooted
    <3>2. CASE j = ROOTINO
      <4>1. t = <<ROOTINO, 3, ROOTINO>>
        BY <3>1, <3>2 DEF Rooted
      <4> QED  BY <1>5, <1>8, <4>1
    <3>3. CASE j # ROOTINO
      <4>1. PICK s \in E : s[2] \notin {0, 3} /\ s[3] = j
        BY <3>3 DEF Rooted
      <4>2. <<j, 3, s[1]>> \in E
        BY <4>1 DEF Rooted
      <4>3. <<j, 3, s[1]>> = t
        BY <3>1, <4>2 DEF Rooted
      <4>4. s[1] = i
        BY <3>1, <4>3
      <4> QED  BY <1>1, <4>1, <4>4
    <3> QED  BY <3>2, <3>3
  <2> QED  BY <2>1, <2>2, <2>3
<1>9. Emptied(E, i) = ((E \ {a}) \ {b}) \ {c}
  BY <1>1, <1>5, <1>7, <1>8 DEF Emptied
<1>10. To(E, i) = {b, a}
  BY <1>1, <1>5, <1>8 DEF To
<1> QED  BY <1>1, <1>2, <1>3, <1>4, <1>5, <1>6, <1>9, <1>10

LEMMA RootedRmdir ==
    ASSUME NEW D, NEW E, Rooted(D, E), NEW i \in D, i # ROOTINO,
           \A t \in E : t[1] = i => t[2] \in {0, 3}
    PROVE  Rooted(D \ {i}, Emptied(E, i))
<1>1. PICK F : F = Emptied(E, i)
  OBVIOUS
<1>2. PICK G : G = D \ {i}
  OBVIOUS
<1>3. \A t : t \in F <=> t \in E /\ t[1] # i /\ t[3] # i
  BY <1>1 DEF Emptied
<1>4. G \subseteq Inum /\ F \subseteq Arc /\ ROOTINO \in G
  BY <1>2, <1>3 DEF Rooted
<1>5. <<ROOTINO, 3, ROOTINO>> \in F
  BY <1>3 DEF Rooted
<1>6. \A t \in F : t[1] \in G /\ \A s \in F : s[1] = t[1] /\ s[2] = t[2] => s = t
  BY <1>2, <1>3 DEF Rooted
<1>7. ASSUME NEW j \in G
      PROVE  \E u \in G : <<j, 3, u>> \in F
  <2>1. PICK u \in D : <<j, 3, u>> \in E
    BY <1>2 DEF Rooted
  <2>2. u # i
    <3>1. CASE j = ROOTINO
      <4>1. <<ROOTINO, 3, u>> = <<ROOTINO, 3, ROOTINO>>
        BY <2>1, <3>1 DEF Rooted
      <4> QED  BY <4>1
    <3>2. CASE j # ROOTINO
      <4>1. PICK s \in E : s[2] \notin {0, 3} /\ s[3] = j
        BY <1>2, <3>2 DEF Rooted
      <4>2. <<j, 3, s[1]>> \in E
        BY <1>2, <4>1 DEF Rooted
      <4>3. <<j, 3, s[1]>> = <<j, 3, u>>
        BY <2>1, <4>2 DEF Rooted
      <4>4. s[1] = u
        BY <4>3
      <4> QED  BY <4>1, <4>4
    <3> QED  BY <3>1, <3>2
  <2>3. <<j, 3, u>> \in F
    BY <1>2, <1>3, <2>1, <2>2
  <2> QED  BY <1>2, <2>2, <2>3
<1>8. \A j \in G : <<j, 0, j>> \in F
  BY <1>2, <1>3 DEF Rooted
<1>9. ASSUME NEW t \in F, t[2] \notin {0, 3}, t[3] \in G
      PROVE  /\ t[3] # ROOTINO /\ <<t[3], 3, t[1]>> \in F
             /\ \A s \in F : s[1] = t[1] /\ s[3] = t[3] /\ s[2] \notin {0, 3} => s = t
  <2>1. /\ t[3] # ROOTINO /\ <<t[3], 3, t[1]>> \in E
        /\ \A s \in E : s[1] = t[1] /\ s[3] = t[3] /\ s[2] \notin {0, 3} => s = t
    BY <1>2, <1>3, <1>9 DEF Rooted
  <2>2. <<t[3], 3, t[1]>> \in F
    BY <1>3, <1>9, <2>1
  <2> QED  BY <1>3, <2>1, <2>2
<1>10. ASSUME NEW j \in G \ {ROOTINO}
       PROVE  <<j, 3, j>> \notin F /\ \E t \in F : t[2] \notin {0, 3} /\ t[3] = j
  <2>1. PICK t \in E : t[2] \notin {0, 3} /\ t[3] = j
    BY <1>2 DEF Rooted
  <2>2. t \in F
    BY <1>2, <1>3, <2>1
  <2>3. <<j, 3, j>> \notin F
    BY <1>2, <1>3 DEF Rooted
  <2> QED  BY <2>1, <2>2, <2>3
<1>11. ASSUME NEW S \in SUBSET G, S # {}, Climbs(F, S)
       PROVE  ROOTINO \in S
  <2>1. ASSUME NEW t \in E, t[1] \in S, t[2] = 3
        PROVE  t \in F
    <3>1. PICK u \in G : <<t[1], 3, u>> \in F
      BY <1>7, <1>11, <2>1
    <3>2. PICK s : s = <<t[1], 3, u>>
      OBVIOUS
    <3>3. s \in F /\ s[1] = t[1] /\ s[2] = t[2]
      BY <2>1, <3>1, <3>2
    <3>4. s = t
      BY <1>3, <3>3 DEF Rooted
    <3> QED  BY <3>3, <3>4
  <2>2. Climbs(E, S)
    BY <1>11, <2>1 DEF Climbs
  <2> QED  BY <1>2, <1>11, <2>2 DEF Rooted, Reached
<1>12. Rooted(G, F)
  BY <1>4, <1>5, <1>6, <1>7, <1>8, <1>9, <1>10, <1>11 DEF Rooted, Reached
<1> QED  BY <1>1, <1>2, <1>12

(* A name moves within its directory, or is one of no directory.           *)
LEMMA RootedMove ==
    ASSUME NEW D, NEW E, Rooted(D, E), NEW a \in E, a[2] \notin {0, 3},
           NEW q \in D, NEW o \in Nat \ {0, 3},
           \A t \in E : ~(t[1] = q /\ t[2] = o),
           a[3] \in D => q = a[1]
    PROVE  Rooted(D, (E \cup {<<q, o, a[3]>>}) \ {a})
<1>1. PICK i \in Inum \ {0} : i = a[3]
  BY DEF Rooted, Arc
<1>2. CASE i \notin D
  <2>1. PICK F : F = E \cup {<<q, o, i>>}
    OBVIOUS
  <2>2. Rooted(D, F)
    BY <1>2, <2>1, RootedLink
  <2>3. Rooted(D, F \ {a})
    BY <1>1, <1>2, <2>1, <2>2, RootedUnlink
  <2> QED  BY <1>1, <2>1, <2>3
<1>3. CASE i \in D
  <2>1. PICK n : n = <<q, o, i>>
    OBVIOUS
  <2>2. PICK F : F = (E \cup {n}) \ {a}
    OBVIOUS
  <2>3. n[1] = q /\ n[2] = o /\ n[3] = i /\ n \in Arc /\ n \notin E /\ n # a
    BY <2>1 DEF Rooted, Arc
  <2>4. q = a[1] /\ i # ROOTINO /\ <<i, 3, q>> \in E
    BY <1>1, <1>3 DEF Rooted
  <2>5. \A t \in E : t # a => t \in F
    BY <2>2
  <2>6. \A t \in E : t[2] \in {0, 3} => t \in F
    BY <2>5
  <2>7. D \subseteq Inum /\ F \subseteq Arc /\ ROOTINO \in D /\ <<ROOTINO, 3, ROOTINO>> \in F
    BY <2>2, <2>3, <2>6 DEF Rooted
  <2>8. \A t \in F : t[1] \in D /\ \A s \in F : s[1] = t[1] /\ s[2] = t[2] => s = t
    BY <2>2, <2>3 DEF Rooted
  <2>9. \A j \in D : <<j, 0, j>> \in F /\ \E u \in D : <<j, 3, u>> \in F
    BY <2>6 DEF Rooted
  <2>10. ASSUME NEW s \in E, s[3] = i, s[2] \notin {0, 3}
         PROVE  s = a
    <3>1. <<i, 3, s[1]>> \in E
      BY <1>3, <2>10 DEF Rooted
    <3>2. <<i, 3, s[1]>> = <<i, 3, q>>
      BY <2>4, <3>1 DEF Rooted
    <3>3. s[1] = q
      BY <3>2
    <3>4. \A r \in E : r[1] = q /\ r[3] = i /\ r[2] \notin {0, 3} => r = a
      BY <1>1, <1>3, <2>4 DEF Rooted
    <3> QED  BY <2>10, <3>3, <3>4
  <2>11. ASSUME NEW t \in F, t[2] \notin {0, 3}, t[3] \in D
         PROVE  /\ t[3] # ROOTINO /\ <<t[3], 3, t[1]>> \in F
                /\ \A s \in F : s[1] = t[1] /\ s[3] = t[3] /\ s[2] \notin {0, 3} => s = t
    <3>1. CASE t = n
      <4>1. \A s \in F : s[3] = i /\ s[2] \notin {0, 3} => s = n
        BY <2>2, <2>10
      <4>2. <<i, 3, q>> \in F
        BY <2>4, <2>6
      <4> QED  BY <2>3, <2>4, <3>1, <4>1, <4>2
    <3>2. CASE t # n
      <4>1. t \in E /\ t # a
        BY <2>2, <3>2
      <4>2. t[3] # i
        BY <2>10, <2>11, <4>1
      <4>3. /\ t[3] # ROOTINO /\ <<t[3], 3, t[1]>> \in E
            /\ \A s \in E : s[1] = t[1] /\ s[3] = t[3] /\ s[2] \notin {0, 3} => s = t
        BY <2>11, <4>1 DEF Rooted
      <4>4. <<t[3], 3, t[1]>> \in F
        BY <2>6, <4>3
      <4> QED  BY <2>2, <2>3, <4>2, <4>3, <4>4
    <3> QED  BY <3>1, <3>2
  <2>12. ASSUME NEW j \in D \ {ROOTINO}
         PROVE  <<j, 3, j>> \notin F /\ \E t \in F : t[2] \notin {0, 3} /\ t[3] = j
    <3>1. <<j, 3, j>> \notin E /\ \E t \in E : t[2] \notin {0, 3} /\ t[3] = j
      BY DEF Rooted
    <3>2. <<j, 3, j>> # n
      BY <2>1
    <3>3. n \in F
      BY <2>2, <2>3
    <3> QED  BY <1>1, <2>2, <2>3, <2>5, <3>1, <3>2, <3>3
  <2>13. Reached(D, F)
    <3>1. \A S : Climbs(F, S) => Climbs(E, S)
      BY <2>6 DEF Climbs
    <3> QED  BY <3>1 DEF Rooted, Reached
  <2>14. Rooted(D, F)
    BY <2>7, <2>8, <2>9, <2>11, <2>12, <2>13 DEF Rooted
  <2> QED  BY <1>1, <2>1, <2>2, <2>14
<1> QED  BY <1>2, <1>3

(* A directory moves to another one, which is not below it: so does its    *)
(* "..".                                                                   *)
Over(E, a, q, o) ==
    (((E \cup {<<q, o, a[3]>>}) \ {a}) \ {<<a[3], 3, a[1]>>}) \cup {<<a[3], 3, q>>}

LEMMA RootedOver ==
    ASSUME NEW D, NEW E, Rooted(D, E), NEW a \in E, a[2] \notin {0, 3}, a[3] \in D,
           NEW q \in D, q # a[1], q # a[3], NEW o \in Nat \ {0, 3},
           \A t \in E : ~(t[1] = q /\ t[2] = o),
           NEW W \in SUBSET D, q \in W, a[3] \notin W, Climbs(E, W)
    PROVE  /\ <<a[3], 3, a[1]>> \in E /\ a[1] # a[3]
           /\ Rooted(D, Over(E, a, q, o))
<1>1. PICK i \in D : i = a[3]
  OBVIOUS
<1>2. PICK p \in D : p = a[1]
  BY DEF Rooted
<1>3. PICK n : n = <<q, o, i>>
  OBVIOUS
<1>4. PICK b : b = <<i, 3, p>>
  OBVIOUS
<1>5. PICK c : c = <<i, 3, q>>
  OBVIOUS
<1>6. PICK F : F = (((E \cup {n}) \ {a}) \ {b}) \cup {c}
  OBVIOUS
<1>7. i \in Inum \ {0} /\ p \in Inum \ {0} /\ q \in Inum \ {0}
  <2>1. <<p, 0, p>> \in Arc /\ <<q, 0, q>> \in Arc /\ <<i, 0, i>> \in Arc
    BY DEF Rooted
  <2> QED  BY <2>1 DEF Arc
<1>8. /\ n[1] = q /\ n[2] = o /\ n[3] = i /\ n \in Arc /\ n \notin E /\ n # a
      /\ b[1] = i /\ b[2] = 3 /\ b[3] = p /\ b \in E /\ b # a
      /\ c[1] = i /\ c[2] = 3 /\ c[3] = q /\ c \in Arc
      /\ i # ROOTINO
  <2>1. b \in E /\ i # ROOTINO
    BY <1>1, <1>2, <1>4 DEF Rooted
  <2> QED  BY <1>3, <1>4, <1>5, <1>7, <2>1 DEF Arc
<1>9. i # p
  BY <1>4, <1>8 DEF Rooted
<1>10. \A t \in E : t # a /\ t # b => t \in F
  BY <1>6
<1>11. \A t \in F : t = n \/ t = c \/ (t \in E /\ t # a /\ t # b)
  BY <1>6
<1>12. D \subseteq Inum /\ F \subseteq Arc /\ ROOTINO \in D
  BY <1>6, <1>8 DEF Rooted
<1>13. <<ROOTINO, 3, ROOTINO>> \in F
  <2>1. <<ROOTINO, 3, ROOTINO>> # b /\ <<ROOTINO, 3, ROOTINO>> # a
    BY <1>4, <1>8
  <2> QED  BY <1>10, <2>1 DEF Rooted
<1>14. \A t \in F : t[1] \in D
  BY <1>8, <1>11 DEF Rooted
<1>15. ASSUME NEW t \in F, NEW s \in F, s[1] = t[1], s[2] = t[2]
       PROVE  s = t
  <2>1. \A x \in E : x[1] = i /\ x[2] = 3 => x = b
    BY <1>8 DEF Rooted
  <2>2. \A x \in E, y \in E : x[1] = y[1] /\ x[2] = y[2] => x = y
    BY DEF Rooted
  <2>3. CASE t = n
    BY <1>8, <1>11, <1>15, <2>3
  <2>4. CASE t = c
    BY <1>8, <1>11, <1>15, <2>1, <2>4
  <2>5. CASE t \in E /\ t # b
    BY <1>8, <1>11, <1>15, <2>1, <2>2, <2>5
  <2> QED  BY <1>11, <2>3, <2>4, <2>5
<1>16. ASSUME NEW j \in D
       PROVE  <<j, 0, j>> \in F /\ \E u \in D : <<j, 3, u>> \in F
  <2>1. PICK u \in D : <<j, 3, u>> \in E /\ <<j, 0, j>> \in E
    BY DEF Rooted
  <2>2. <<j, 0, j>> # a /\ <<j, 0, j>> # b /\ <<j, 3, u>> # a
    BY <1>4, <1>8
  <2>3. CASE <<j, 3, u>> = b
    <3>1. j = i
      BY <1>4, <2>3
    <3> QED  BY <1>5, <1>6, <1>10, <2>1, <2>2, <3>1
  <2>4. CASE <<j, 3, u>> # b
    BY <1>10, <2>1, <2>2, <2>4
  <2> QED  BY <2>3, <2>4
<1>17. ASSUME NEW s \in E, s[3] = i, s[2] \notin {0, 3}
       PROVE  s = a
  <2>1. <<i, 3, s[1]>> \in E
    BY <1>17 DEF Rooted
  <2>2. <<i, 3, s[1]>> = b
    BY <1>8, <2>1 DEF Rooted
  <2>3. s[1] = p
    BY <1>4, <2>2
  <2>4. \A r \in E : r[1] = p /\ r[3] = i /\ r[2] \notin {0, 3} => r = a
    BY <1>1, <1>2 DEF Rooted
  <2> QED  BY <1>17, <2>3, <2>4
<1>18. ASSUME NEW t \in F, t[2] \notin {0, 3}, t[3] \in D
       PROVE  /\ t[3] # ROOTINO /\ <<t[3], 3, t[1]>> \in F
              /\ \A s \in F : s[1] = t[1] /\ s[3] = t[3] /\ s[2] \notin {0, 3} => s = t
  <2>1. CASE t = n
    <3>1. \A s \in F : s[3] = i /\ s[2] \notin {0, 3} => s = n
      BY <1>8, <1>11, <1>17
    <3>2. <<t[3], 3, t[1]>> \in F
      BY <1>5, <1>6, <1>8, <2>1
    <3> QED  BY <1>8, <2>1, <3>1, <3>2
  <2>2. CASE t # n
    <3>1. t \in E /\ t # a
      BY <1>8, <1>11, <1>18, <2>2
    <3>2. t[3] # i
      BY <1>17, <1>18, <3>1
    <3>3. /\ t[3] # ROOTINO /\ <<t[3], 3, t[1]>> \in E
          /\ \A s \in E : s[1] = t[1] /\ s[3] = t[3] /\ s[2] \notin {0, 3} => s = t
      BY <1>18, <3>1 DEF Rooted
    <3>4. <<t[3], 3, t[1]>> # a /\ <<t[3], 3, t[1]>> # b
      BY <1>4, <1>8, <3>2
    <3>5. <<t[3], 3, t[1]>> \in F
      BY <1>10, <3>3, <3>4
    <3> QED  BY <1>8, <1>11, <3>2, <3>3, <3>5
  <2> QED  BY <2>1, <2>2
<1>19. ASSUME NEW j \in D \ {ROOTINO}
       PROVE  <<j, 3, j>> \notin F /\ \E t \in F : t[2] \notin {0, 3} /\ t[3] = j
  <2>1. <<j, 3, j>> \notin E
    BY DEF Rooted
  <2>2. <<j, 3, j>> # n /\ <<j, 3, j>> # c
    BY <1>1, <1>3, <1>5
  <2>3. <<j, 3, j>> \notin F
    BY <1>11, <2>1, <2>2
  <2>4. CASE j = i
    <3>1. n \in F
      BY <1>6, <1>8
    <3> QED  BY <1>8, <2>3, <2>4, <3>1
  <2>5. CASE j # i
    <3>1. PICK t \in E : t[2] \notin {0, 3} /\ t[3] = j
      BY DEF Rooted
    <3>2. t \in F
      BY <1>1, <1>8, <1>10, <2>5, <3>1
    <3> QED  BY <2>3, <3>1, <3>2
  <2> QED  BY <2>4, <2>5
<1>20. ASSUME NEW S \in SUBSET D, S # {}, Climbs(F, S)
       PROVE  ROOTINO \in S
  <2>1. CASE i \notin S
    <3>1. Climbs(E, S)
      BY <1>8, <1>10, <1>20, <2>1 DEF Climbs
    <3> QED  BY <1>20, <3>1 DEF Rooted, Reached
  <2>2. CASE i \in S
    <3>1. q \in S
      BY <1>6, <1>8, <1>20, <2>2 DEF Climbs
    <3>2. PICK T : T = S \cap W
      OBVIOUS
    <3>3. Climbs(E, T)
      BY <1>1, <1>8, <1>10, <1>20, <3>2 DEF Climbs
    <3>4. T \in SUBSET D /\ T # {}
      BY <3>1, <3>2
    <3>5. ROOTINO \in T
      BY <3>3, <3>4 DEF Rooted, Reached
    <3> QED  BY <3>2, <3>5
  <2> QED  BY <2>1, <2>2
<1>21. Rooted(D, F)
  BY <1>12, <1>13, <1>14, <1>15, <1>16, <1>18, <1>19, <1>20 DEF Rooted, Reached
<1>22. F = Over(E, a, q, o)
  BY <1>1, <1>2, <1>3, <1>4, <1>5, <1>6 DEF Over
<1>23. <<a[3], 3, a[1]>> \in E /\ a[1] # a[3]
  BY <1>1, <1>2, <1>4, <1>8, <1>9
<1> QED  BY <1>21, <1>22, <1>23

-----------------------------------------------------------------------------
(* The counts by group.                                                    *)
LEMMA InumFinite == IsFiniteSet(Inum) /\ \A i \in Inum : itog(i) \in Group
<1>1. IsFiniteSet(Group) /\ Group = 0..(ncg - 1) /\ ipg \in Nat /\ ipg > 3 /\ ncg \in Nat
  <2>1. IsFiniteSet(Group) /\ Group = 0..(ncg - 1) /\ ipg \in Nat /\ ipg > 3
    BY GroupAssumption
  <2> QED  BY <2>1, FS_CardinalityType DEF ncg
<1>2. PICK N \in Nat : N = ncg * ipg
  BY <1>1
<1>3. IsFiniteSet(0..(N - 1))
  BY FS_Interval
<1>4. ASSUME NEW i \in 0..(N - 1)
      PROVE  itog(i) \in Group
  <2>1. /\ i \div ipg \in Nat /\ i % ipg \in 0..(ipg - 1)
        /\ i = ipg * (i \div ipg) + (i % ipg)
    BY <1>1, Divides
  <2>2. PICK g \in Nat : g = i \div ipg /\ ipg * g <= i
    BY <1>1, <2>1
  <2>3. ~(ncg <= g)
    <3>1. SUFFICES ASSUME ncg <= g PROVE FALSE
      OBVIOUS
    <3>2. ipg * ncg <= ipg * g
      BY <1>1, <3>1
    <3>3. ipg * ncg = N
      BY <1>1, <1>2
    <3> QED  BY <1>1, <2>2, <3>2, <3>3
  <2>4. g \in 0..(ncg - 1)
    BY <1>1, <2>3
  <2> QED  BY <1>1, <2>2, <2>4 DEF itog
<1> QED  BY <1>2, <1>3, <1>4 DEF Inum

CensusRecord == [nifree : Nat, ndir : Int, irotor : Nat]

LEMMA CensusTake ==
    ASSUME NEW D, NEW U, NEW C, Census(D, U, C), D \subseteq Inum,
           C \in [Group -> CensusRecord], NEW i \in Inum \ U, i \notin D,
           NEW k \in {0, 1}, NEW c,
           c.nifree = C[itog(i)].nifree - 1, c.ndir = C[itog(i)].ndir + k
    PROVE  /\ Census(D, U \cup {i}, [C EXCEPT ![itog(i)] = c])
           /\ k = 1 => Census(D \cup {i}, U \cup {i}, [C EXCEPT ![itog(i)] = c])
<1>1. PICK B : B = [C EXCEPT ![itog(i)] = c]
  OBVIOUS
<1>2. IsFiniteSet(Inum) /\ itog(i) \in Group
  BY InumFinite
<1>3. ASSUME NEW g \in Group
      PROVE  /\ B[g].nifree = Cardinality({j \in Inum : itog(j) = g /\ j \notin U \cup {i}})
             /\ B[g].ndir >= Cardinality({j \in D : itog(j) = g})
             /\ k = 1 => B[g].ndir >= Cardinality({j \in D \cup {i} : itog(j) = g})
  <2>1. PICK S : S = {j \in Inum : itog(j) = g /\ j \notin U}
    OBVIOUS
  <2>2. PICK T : T = {j \in D : itog(j) = g}
    OBVIOUS
  <2>3. IsFiniteSet(S) /\ IsFiniteSet(T)
    <3>1. S \in SUBSET Inum /\ T \in SUBSET Inum
      BY <2>1, <2>2
    <3> QED  BY <1>2, <3>1, FS_Subset
  <2>4. /\ Cardinality(S) \in Nat /\ Cardinality(T) \in Nat
        /\ C[g].nifree = Cardinality(S) /\ C[g].ndir >= Cardinality(T)
        /\ C[g].ndir \in Int
    BY <2>1, <2>2, <2>3, FS_CardinalityType DEF Census, CensusRecord
  <2>5. CASE g = itog(i)
    <3>1. B[g] = c
      BY <1>1, <2>5
    <3>2. {j \in Inum : itog(j) = g /\ j \notin U \cup {i}} = S \ {i} /\ i \in S
      BY <2>1, <2>5
    <3>3. Cardinality(S \ {i}) = Cardinality(S) - 1
      BY <2>3, <3>2, FS_RemoveElement
    <3>4. {j \in D \cup {i} : itog(j) = g} = T \cup {i} /\ i \notin T
      BY <2>2, <2>5
    <3>5. Cardinality(T \cup {i}) = Cardinality(T) + 1
      BY <2>3, <3>4, FS_AddElement
    <3>6. c.nifree = C[g].nifree - 1 /\ c.ndir = C[g].ndir + k
      BY <2>5
    <3>7. PICK s \in Nat, m \in Nat, d \in Int :
             s = Cardinality(S) /\ m = Cardinality(T) /\ d = C[g].ndir
      BY <2>4
    <3>8. /\ B[g].nifree = s - 1 /\ B[g].ndir = d + k /\ d >= m /\ C[g].nifree = s
      BY <2>4, <3>1, <3>6, <3>7
    <3>9. B[g].ndir >= m /\ (k = 1 => B[g].ndir >= m + 1)
      BY <3>7, <3>8
    <3>10. /\ B[g].nifree = Cardinality(S \ {i}) /\ B[g].ndir >= Cardinality(T)
           /\ k = 1 => B[g].ndir >= Cardinality(T \cup {i})
      BY <3>3, <3>5, <3>7, <3>8, <3>9
    <3> QED  BY <2>2, <3>2, <3>4, <3>10
  <2>6. CASE g # itog(i)
    <3>1. B[g] = C[g]
      BY <1>1, <2>6
    <3>2. /\ {j \in Inum : itog(j) = g /\ j \notin U \cup {i}} = S
          /\ {j \in D \cup {i} : itog(j) = g} = T
      BY <2>1, <2>2, <2>6
    <3> QED  BY <2>2, <2>4, <3>1, <3>2
  <2> QED  BY <2>5, <2>6
<1> QED  BY <1>1, <1>3 DEF Census

LEMMA CensusFree ==
    ASSUME NEW D, NEW U, NEW C, Census(D, U, C), D \subseteq Inum,
           C \in [Group -> CensusRecord], NEW i \in Inum, i \in U, NEW c,
           c.nifree = C[itog(i)].nifree + 1,
           c.ndir = IF i \in D THEN C[itog(i)].ndir - 1 ELSE C[itog(i)].ndir
    PROVE  Census(D \ {i}, U \ {i}, [C EXCEPT ![itog(i)] = c])
<1>1. PICK B : B = [C EXCEPT ![itog(i)] = c]
  OBVIOUS
<1>2. IsFiniteSet(Inum) /\ itog(i) \in Group
  BY InumFinite
<1>3. ASSUME NEW g \in Group
      PROVE  /\ B[g].nifree = Cardinality({j \in Inum : itog(j) = g /\ j \notin U \ {i}})
             /\ B[g].ndir >= Cardinality({j \in D \ {i} : itog(j) = g})
  <2>1. PICK S : S = {j \in Inum : itog(j) = g /\ j \notin U}
    OBVIOUS
  <2>2. PICK T : T = {j \in D : itog(j) = g}
    OBVIOUS
  <2>3. IsFiniteSet(S) /\ IsFiniteSet(T)
    <3>1. S \in SUBSET Inum /\ T \in SUBSET Inum
      BY <2>1, <2>2
    <3> QED  BY <1>2, <3>1, FS_Subset
  <2>4. /\ Cardinality(S) \in Nat /\ Cardinality(T) \in Nat
        /\ C[g].nifree = Cardinality(S) /\ C[g].ndir >= Cardinality(T)
        /\ C[g].ndir \in Int
    BY <2>1, <2>2, <2>3, FS_CardinalityType DEF Census, CensusRecord
  <2>5. CASE g = itog(i)
    <3>1. B[g] = c
      BY <1>1, <2>5
    <3>2. {j \in Inum : itog(j) = g /\ j \notin U \ {i}} = S \cup {i} /\ i \notin S
      BY <2>1, <2>5
    <3>3. Cardinality(S \cup {i}) = Cardinality(S) + 1
      BY <2>3, <3>2, FS_AddElement
    <3>4. {j \in D \ {i} : itog(j) = g} = T \ {i} /\ (i \in D <=> i \in T)
      BY <2>2, <2>5
    <3>5. Cardinality(T \ {i}) = IF i \in T THEN Cardinality(T) - 1 ELSE Cardinality(T)
      BY <2>3, FS_RemoveElement
    <3>6. c.nifree = C[g].nifree + 1
          /\ c.ndir = IF i \in D THEN C[g].ndir - 1 ELSE C[g].ndir
      BY <2>5
    <3>7. PICK s \in Nat, m \in Nat, d \in Int :
             s = Cardinality(S) /\ m = Cardinality(T) /\ d = C[g].ndir
      BY <2>4
    <3>8. /\ B[g].nifree = s + 1 /\ d >= m
          /\ B[g].ndir = IF i \in D THEN d - 1 ELSE d
      BY <2>4, <3>1, <3>6, <3>7
    <3>9. /\ B[g].nifree = Cardinality(S \cup {i})
          /\ B[g].ndir >= Cardinality(T \ {i})
      BY <3>3, <3>4, <3>5, <3>7, <3>8
    <3> QED  BY <3>2, <3>4, <3>9
  <2>6. CASE g # itog(i)
    <3>1. B[g] = C[g]
      BY <1>1, <2>6
    <3>2. /\ {j \in Inum : itog(j) = g /\ j \notin U \ {i}} = S
          /\ {j \in D \ {i} : itog(j) = g} = T
      BY <2>1, <2>2, <2>6
    <3> QED  BY <2>4, <3>1, <3>2
  <2> QED  BY <2>5, <2>6
<1> QED  BY <1>1, <1>3 DEF Census

-----------------------------------------------------------------------------
(* The graph of a volume, and what the routines do to it.                  *)
DirsOf(v) == {p \in Inum : v.mode[p] = "dir"}

Arcs(v) == {t \in Arc : /\ v.mode[t[1]] = "dir" /\ t[2] \in DOMAIN v.ct[t[1]]
                        /\ v.ct[t[1]][t[2]].ino = t[3]}

Exact(v) ==
    /\ Rooted(DirsOf(v), Arcs(v))
    /\ Tallied(Arcs(v), v.nlink)
    /\ Named(Arcs(v), v.used)
    /\ Census(DirsOf(v), v.used, v.cg)

LEMMA DirEntries ==
    ASSUME NEW d, DirOK(d)
    PROVE  /\ DOMAIN d \subseteq Nat /\ 0 \in DOMAIN d /\ 3 \in DOMAIN d
           /\ \A q \in DOMAIN d : q = 0 \/ q >= 3
           /\ \A q \in DOMAIN d : d[q].ino \in Inum
           /\ IsFiniteSet(DOMAIN d)
<1>1. Tiled(d, Size(d)) /\ Dots(d)
  BY DEF DirOK
<1>2. /\ Size(d) \in Nat /\ DOMAIN d \subseteq 0..(Size(d) - 1)
      /\ 0 \in DOMAIN d /\ 3 \in DOMAIN d /\ d[0].reclen = 3
      /\ \A q \in DOMAIN d : q > 0 => q >= 0 + d[0].reclen
  BY <1>1 DEF Tiled, Dots
<1>3. IsFiniteSet(DOMAIN d)
  <2>1. IsFiniteSet(0..(Size(d) - 1))
    BY <1>2, FS_Interval
  <2> QED  BY <1>2, <2>1, FS_Subset
<1>4. \A q \in DOMAIN d : d[q].ino \in Inum
  BY <1>1, EntryFacts
<1> QED  BY <1>2, <1>3, <1>4

LEMMA ArcAt ==
    ASSUME NEW v, NEW p \in Inum, v.mode[p] = "dir", DirOK(v.ct[p]),
           NEW o \in DOMAIN v.ct[p], v.ct[p][o].ino # 0
    PROVE  /\ <<p, o, v.ct[p][o].ino>> \in Arcs(v)
           /\ \A t \in Arcs(v) : t[1] = p /\ t[2] = o => t[3] = v.ct[p][o].ino
<1>1. o \in Nat /\ v.ct[p][o].ino \in Inum
  BY DirEntries
<1>2. PICK i \in Inum \ {0} : i = v.ct[p][o].ino
  BY <1>1
<1>3. PICK a : a = <<p, o, i>>
  OBVIOUS
<1>4. a \in Arc /\ a[1] = p /\ a[2] = o /\ a[3] = i
  BY <1>1, <1>3 DEF Arc
<1>5. a \in Arcs(v)
  BY <1>2, <1>4 DEF Arcs
<1> QED  BY <1>2, <1>3, <1>5 DEF Arcs

LEMMA SameArcs ==
    ASSUME NEW v, NEW x, x.ct = v.ct, x.mode = v.mode
    PROVE  Arcs(x) = Arcs(v) /\ DirsOf(x) = DirsOf(v)
  BY DEF Arcs, DirsOf

LEMMA DirSetDirs ==
    ASSUME NEW v, NEW x, NEW p, NEW w, DirSet(v, x, p, w)
    PROVE  /\ DirsOf(x) = DirsOf(v) /\ x.nlink = v.nlink
           /\ x.used = v.used /\ x.cg = v.cg
  BY DEF DirSet, DirsOf

LEMMA CreatedArcs ==
    ASSUME NEW v, VolOK(v), NEW p \in Inum, v.mode[p] = "dir", NEW x, NEW at,
           NEW n, NEW i \in Inum \ {0}, Created(v, x, p, at, n, i)
    PROVE  /\ Arcs(x) = Arcs(v) \cup {<<p, at, i>>}
           /\ at \in Nat \ {0, 3} /\ \A t \in Arcs(v) : ~(t[1] = p /\ t[2] = at)
           /\ DirsOf(x) = DirsOf(v) /\ x.nlink = v.nlink
           /\ x.used = v.used /\ x.cg = v.cg
<1>1. PICK w : DirOK(w) /\ Grown(v.ct[p], w, at, n, i) /\ DirSet(v, x, p, w)
  BY DEF Created
<1>2. PICK d : d = v.ct[p] /\ DirOK(d)
  BY DEF VolOK, InodeOK
<1>3. /\ at \in DOMAIN w /\ at \notin DOMAIN d /\ w[at].ino = i /\ at \in Nat
      /\ \A q \in DOMAIN d : q \in DOMAIN w /\ w[q].ino = d[q].ino
      /\ \A q \in DOMAIN w \ (DOMAIN d \cup {at}) : w[q].ino = 0
  BY <1>1, <1>2 DEF Grown
<1>4. at \notin {0, 3}
  BY <1>2, <1>3, DirEntries
<1>5. /\ x.ct[p] = w /\ \A j \in Inum \ {p} : x.ct[j] = v.ct[j]
      /\ x.mode = v.mode
  BY <1>1 DEF DirSet
<1>6. PICK a : a = <<p, at, i>>
  OBVIOUS
<1>7. a \in Arc /\ a[1] = p /\ a[2] = at /\ a[3] = i
  BY <1>3, <1>6 DEF Arc
<1>8. ASSUME NEW t \in Arc
      PROVE  t \in Arcs(x) <=> t \in Arcs(v) \/ t = a
  <2>1. t = <<t[1], t[2], t[3]>> /\ t[1] \in Inum /\ t[3] # 0
    BY ArcIs
  <2>2. CASE t[1] # p
    BY <1>5, <1>7, <2>1, <2>2 DEF Arcs
  <2>3. CASE t[1] = p /\ t[2] = at
    <3>1. t \in Arcs(x) <=> t[3] = i
      BY <1>3, <1>5, <2>3 DEF Arcs
    <3>2. t \notin Arcs(v)
      BY <1>2, <1>3, <2>3 DEF Arcs
    <3>3. t = a <=> t[3] = i
      BY <1>6, <1>7, <2>1, <2>3
    <3> QED  BY <3>1, <3>2, <3>3
  <2>4. CASE t[1] = p /\ t[2] # at
    BY <1>2, <1>3, <1>5, <1>7, <2>1, <2>4 DEF Arcs
  <2> QED  BY <2>2, <2>3, <2>4
<1>9. Arcs(x) = Arcs(v) \cup {a}
  BY <1>7, <1>8 DEF Arcs
<1>10. \A t \in Arcs(v) : ~(t[1] = p /\ t[2] = at)
  BY <1>2, <1>3 DEF Arcs
<1> QED  BY <1>1, <1>3, <1>4, <1>6, <1>9, <1>10, DirSetDirs

LEMMA DeletedArcs ==
    ASSUME NEW v, NEW p \in Inum, v.mode[p] = "dir", DirOK(v.ct[p]), NEW x,
           NEW o \in DOMAIN v.ct[p], v.ct[p][o].ino # 0, Deleted(v, x, p, o)
    PROVE  /\ Arcs(x) = Arcs(v) \ {<<p, o, v.ct[p][o].ino>>}
           /\ DirsOf(x) = DirsOf(v) /\ x.nlink = v.nlink
           /\ x.used = v.used /\ x.cg = v.cg
<1>1. PICK w : DirOK(w) /\ Gone(v.ct[p], w, o) /\ DirSet(v, x, p, w)
  BY DEF Deleted
<1>2. PICK d : d = v.ct[p] /\ DirOK(d)
  OBVIOUS
<1>3. /\ DOMAIN w \subseteq DOMAIN d /\ (o \in DOMAIN w => w[o].ino = 0)
      /\ \A q \in DOMAIN d \ {o} : q \in DOMAIN w /\ w[q].ino = d[q].ino
  BY <1>1, <1>2 DEF Gone, Cut
<1>4. /\ x.ct[p] = w /\ \A j \in Inum \ {p} : x.ct[j] = v.ct[j]
      /\ x.mode = v.mode
  BY <1>1 DEF DirSet
<1>5. PICK i : i = v.ct[p][o].ino
  OBVIOUS
<1>6. PICK a : a = <<p, o, i>>
  OBVIOUS
<1>7. a \in Arcs(v) /\ a[1] = p /\ a[2] = o /\ a[3] = i
  BY <1>5, <1>6, ArcAt
<1>8. ASSUME NEW t \in Arc
      PROVE  t \in Arcs(x) <=> t \in Arcs(v) /\ t # a
  <2>1. t = <<t[1], t[2], t[3]>> /\ t[1] \in Inum /\ t[3] # 0
    BY ArcIs
  <2>2. CASE t[1] # p
    BY <1>4, <1>7, <2>1, <2>2 DEF Arcs
  <2>3. CASE t[1] = p /\ t[2] = o
    <3>1. t \notin Arcs(x)
      BY <1>3, <1>4, <2>1, <2>3 DEF Arcs
    <3>2. t \in Arcs(v) => t[3] = i
      BY <1>5, <2>3 DEF Arcs
    <3>3. t[3] = i => t = a
      BY <1>6, <2>1, <2>3
    <3> QED  BY <3>1, <3>2, <3>3
  <2>4. CASE t[1] = p /\ t[2] # o
    BY <1>2, <1>3, <1>4, <1>7, <2>1, <2>4 DEF Arcs
  <2> QED  BY <2>2, <2>3, <2>4
<1>9. Arcs(x) = Arcs(v) \ {a}
  BY <1>8 DEF Arcs
<1> QED  BY <1>1, <1>5, <1>6, <1>9, DirSetDirs

(* Inode i is made, or freed: no arc leaves it.                            *)
LEMMA AsideArcs ==
    ASSUME NEW v, NEW x, NEW i \in Inum, Aside(v, x, i)
    PROVE  /\ Arcs(x) = {t \in Arcs(v) : t[1] # i}
           /\ DirsOf(x) = IF x.mode[i] = "dir" THEN DirsOf(v) \cup {i}
                          ELSE DirsOf(v) \ {i}
<1>1. PICK d : d = <<>>
  OBVIOUS
<1>2. DOMAIN d = {} /\ x.ct[i] = d
      /\ \A j \in Inum \ {i} : x.ct[j] = v.ct[j] /\ x.mode[j] = v.mode[j]
  BY <1>1 DEF Aside
<1>3. ASSUME NEW t \in Arc
      PROVE  t \in Arcs(x) <=> t \in Arcs(v) /\ t[1] # i
  <2>1. t[1] \in Inum
    BY ArcIs
  <2> QED  BY <1>2, <2>1 DEF Arcs
<1>4. Arcs(x) = {t \in Arcs(v) : t[1] # i}
  BY <1>3 DEF Arcs
<1>5. DirsOf(x) = IF x.mode[i] = "dir" THEN DirsOf(v) \cup {i} ELSE DirsOf(v) \ {i}
  BY <1>2 DEF DirsOf
<1> QED  BY <1>4, <1>5

LEMMA SaneFields ==
    ASSUME NEW v, Shape(v), NEW i \in Inum, NEW type
    PROVE  LET x == inum_sane(v, i, type)
           IN  /\ x.nlink = [v.nlink EXCEPT ![i] = IF type = "dir" THEN 2 ELSE 1]
               /\ x.used = v.used /\ x.cg = v.cg
<1>1. PICK x : x = inum_sane(v, i, type)
  OBVIOUS
<1>2. PICK k : k = IF type = "dir" THEN 2 ELSE 1
  OBVIOUS
<1>3. x = [ct |-> [v.ct EXCEPT ![i] = <<>>],
           mode |-> [v.mode EXCEPT ![i] = type],
           nlink |-> [v.nlink EXCEPT ![i] = k],
           used |-> v.used, cg |-> v.cg, ronly |-> v.ronly]
  BY <1>1, <1>2 DEF inum_sane, Shape
<1> QED  BY <1>1, <1>2, <1>3

Freed(v, x, i) ==
    /\ x.nlink = [v.nlink EXCEPT ![i] = 0] /\ x.used = v.used \ {i}
    /\ \E c : /\ x.cg = [v.cg EXCEPT ![itog(i)] = c]
              /\ c.nifree = v.cg[itog(i)].nifree + 1
              /\ c.ndir = IF v.mode[i] = "dir" THEN v.cg[itog(i)].ndir - 1
                          ELSE v.cg[itog(i)].ndir

LEMMA FreeFields ==
    ASSUME NEW v, Shape(v), NEW i \in Inum
    PROVE  Freed(v, inum_free(v, i), i)
<1>1. PICK x : x = inum_free(v, i)
  OBVIOUS
<1>2. PICK g : g = itog(i)
  OBVIOUS
<1>3. PICK c : c = [nifree |-> v.cg[g].nifree + 1,
                    ndir   |-> IF v.mode[i] = "dir" THEN v.cg[g].ndir - 1
                               ELSE v.cg[g].ndir,
                    irotor |-> i % ipg]
  OBVIOUS
<1>4. x = [ct |-> [v.ct EXCEPT ![i] = <<>>],
           mode |-> [v.mode EXCEPT ![i] = "none"],
           nlink |-> [v.nlink EXCEPT ![i] = 0],
           used |-> v.used \ {i}, cg |-> [v.cg EXCEPT ![g] = c],
           ronly |-> v.ronly]
  BY <1>1, <1>2, <1>3 DEF inum_free, Shape
<1>5. /\ x.nlink = [v.nlink EXCEPT ![i] = 0] /\ x.used = v.used \ {i}
      /\ x.cg = [v.cg EXCEPT ![g] = c]
  BY <1>4
<1>6. c.nifree = v.cg[g].nifree + 1
      /\ c.ndir = IF v.mode[i] = "dir" THEN v.cg[g].ndir - 1 ELSE v.cg[g].ndir
  BY <1>3
<1> QED  BY <1>1, <1>2, <1>5, <1>6 DEF Freed

(* "." and ".." of a new directory.                                        *)
DotsIn(v, x, i, p) ==
    \E w : /\ DirOK(w) /\ DirSet(v, x, i, w) /\ w[0].ino = i /\ w[3].ino = p
           /\ \A q \in DOMAIN w \ {0, 3} : w[q].ino = 0

LEMMA TwoArcs ==
    ASSUME NEW v, Shape(v), NEW i \in Inum \ {0}, v.mode[i] = "dir", v.ct[i] = <<>>,
           NEW p \in Inum \ {0}, NEW x, DotsIn(v, x, i, p)
    PROVE  /\ Arcs(x) = Arcs(v) \cup {<<i, 0, i>>, <<i, 3, p>>}
           /\ DirsOf(x) = DirsOf(v) /\ x.nlink = v.nlink
           /\ x.used = v.used /\ x.cg = v.cg
<1>1. PICK w : /\ DirOK(w) /\ DirSet(v, x, i, w)
               /\ w[0].ino = i /\ w[3].ino = p
               /\ \A q \in DOMAIN w \ {0, 3} : w[q].ino = 0
  BY DEF DotsIn
<1>2. DirSet(v, x, i, w)
  BY <1>1
<1>3. /\ x.ct[i] = w /\ \A j \in Inum \ {i} : x.ct[j] = v.ct[j]
      /\ x.mode = v.mode
  BY <1>1, <1>2 DEF DirSet
<1>4. PICK b : b = <<i, 0, i>>
  OBVIOUS
<1>5. PICK c : c = <<i, 3, p>>
  OBVIOUS
<1>6. /\ b[1] = i /\ b[2] = 0 /\ b[3] = i /\ b \in Arc
      /\ c[1] = i /\ c[2] = 3 /\ c[3] = p /\ c \in Arc
  BY <1>4, <1>5 DEF Arc
<1>7. 0 \in DOMAIN w /\ 3 \in DOMAIN w
  BY <1>1, DirEntries
<1>8. ASSUME NEW t \in Arc
      PROVE  t \in Arcs(x) <=> t \in Arcs(v) \/ t = b \/ t = c
  <2>1. t = <<t[1], t[2], t[3]>> /\ t[1] \in Inum /\ t[3] # 0
    BY ArcIs
  <2>2. CASE t[1] # i
    BY <1>3, <1>6, <2>1, <2>2 DEF Arcs
  <2>3. CASE t[1] = i
    <3>1. t \notin Arcs(v)
      <4>1. PICK d : d = <<>>
        OBVIOUS
      <4>2. DOMAIN d = {} /\ v.ct[i] = d
        BY <4>1
      <4> QED  BY <2>3, <4>2 DEF Arcs
    <3>2. t \in Arcs(x) <=> t[2] \in DOMAIN w /\ w[t[2]].ino = t[3]
      BY <1>3, <2>3 DEF Arcs
    <3>3. CASE t[2] = 0
      BY <1>1, <1>4, <1>6, <1>7, <2>1, <2>3, <3>1, <3>2, <3>3
    <3>4. CASE t[2] = 3
      BY <1>1, <1>5, <1>6, <1>7, <2>1, <2>3, <3>1, <3>2, <3>4
    <3>5. CASE t[2] \notin {0, 3}
      BY <1>1, <1>6, <2>1, <3>1, <3>2, <3>5
    <3> QED  BY <3>3, <3>4, <3>5
  <2> QED  BY <2>2, <2>3
<1>9. Arcs(x) = Arcs(v) \cup {b, c}
  BY <1>6, <1>8 DEF Arcs
<1> QED  BY <1>1, <1>2, <1>4, <1>5, <1>9, DirSetDirs

(* dir_inum_change() of a directory finds its "..".                        *)
LEMMA ChangeArcs ==
    ASSUME NEW v, VolOK(v), NEW i \in Inum, v.mode[i] = "dir",
           NEW p \in Inum \ {0}, p # i, NEW q \in Inum \ {0},
           v.ct[i][0].ino = i, v.ct[i][3].ino = p,
           NEW x, x = dir_inum_change(v, i, p, q)
    PROVE  /\ Arcs(x) = (Arcs(v) \ {<<i, 3, p>>}) \cup {<<i, 3, q>>}
           /\ DirsOf(x) = DirsOf(v) /\ x.nlink = v.nlink
           /\ x.used = v.used /\ x.cg = v.cg
<1>1. PICK d : d = v.ct[i] /\ DirOK(d)
  BY DEF VolOK, InodeOK
<1>2. PICK here : here = {o \in DOMAIN d : d[o].ino = p}
  OBVIOUS
<1>3. /\ DOMAIN d \subseteq Nat /\ 3 \in DOMAIN d
      /\ \A o \in DOMAIN d : o = 0 \/ o >= 3
  BY <1>1, DirEntries
<1>4. here # {} /\ 3 \in here /\ here \subseteq Nat /\ \A o \in here : o >= 3
  BY <1>1, <1>2, <1>3
<1>5. PICK o \in here : o = Least(here) /\ \A y \in here : o <= y
  BY <1>4, LeastIs
<1>6. o = 3 /\ o \in DOMAIN d
  <2>1. o \in Nat /\ o <= 3 /\ o >= 3
    BY <1>4, <1>5
  <2> QED  BY <1>3, <2>1
<1>7. PICK w : w = Renumbered(d, o, q)
  OBVIOUS
<1>8. x = WithDir(v, i, w)
  BY <1>1, <1>2, <1>4, <1>5, <1>7 DEF dir_inum_change, WithDir, Renumbered
<1>9. DirSet(v, x, i, w)
  BY <1>8, WithDirIs DEF VolOK
<1>10. /\ DOMAIN w = DOMAIN d /\ w[3].ino = q
      /\ \A k \in DOMAIN d \ {3} : w[k].ino = d[k].ino
  <2>1. Cut(d, w, o) /\ DOMAIN w = DOMAIN d /\ w[o].ino = q
    <3>1. q \in Inum
      OBVIOUS
    <3>2. DirOK(d) /\ o \in DOMAIN d
      BY <1>1, <1>6
    <3>3. \A k \in Inum : /\ Cut(d, Renumbered(d, o, k), o)
                         /\ DOMAIN Renumbered(d, o, k) = DOMAIN d
                         /\ Renumbered(d, o, k)[o].ino = k
      <4>1. SUFFICES ASSUME NEW k \in Inum
            PROVE  /\ Cut(d, Renumbered(d, o, k), o)
                   /\ DOMAIN Renumbered(d, o, k) = DOMAIN d
                   /\ Renumbered(d, o, k)[o].ino = k
        OBVIOUS
      <4> QED  BY <3>2, RenumberDir
    <3> QED  BY <1>7, <3>1, <3>3, Zenon
  <2> QED  BY <1>6, <2>1 DEF Cut
<1>11. /\ x.ct[i] = w /\ \A j \in Inum \ {i} : x.ct[j] = v.ct[j]
       /\ x.mode = v.mode
  BY <1>9 DEF DirSet
<1>12. PICK b : b = <<i, 3, p>>
  OBVIOUS
<1>13. PICK c : c = <<i, 3, q>>
  OBVIOUS
<1>14. /\ b[1] = i /\ b[2] = 3 /\ b[3] = p /\ b \in Arc
       /\ c[1] = i /\ c[2] = 3 /\ c[3] = q /\ c \in Arc
  BY <1>12, <1>13 DEF Arc
<1>15. ASSUME NEW t \in Arc
       PROVE  t \in Arcs(x) <=> (t \in Arcs(v) /\ t # b) \/ t = c
  <2>1. t = <<t[1], t[2], t[3]>> /\ t[1] \in Inum /\ t[3] # 0
    BY ArcIs
  <2>2. CASE t[1] # i
    BY <1>11, <1>14, <2>1, <2>2 DEF Arcs
  <2>3. CASE t[1] = i /\ t[2] # 3
    BY <1>1, <1>10, <1>11, <1>14, <2>1, <2>3 DEF Arcs
  <2>4. CASE t[1] = i /\ t[2] = 3
    <3>1. t \in Arcs(x) <=> t[3] = q
      BY <1>3, <1>10, <1>11, <2>4 DEF Arcs
    <3>2. t = c <=> t[3] = q
      BY <1>13, <1>14, <2>1, <2>4
    <3>3. t \in Arcs(v) => t[3] = p
      BY <1>1, <2>4 DEF Arcs
    <3>4. t[3] = p => t = b
      BY <1>12, <2>1, <2>4
    <3> QED  BY <3>1, <3>2, <3>3, <3>4
  <2> QED  BY <2>2, <2>3, <2>4
<1>16. Arcs(x) = (Arcs(v) \ {b}) \cup {c}
  BY <1>14, <1>15 DEF Arcs
<1> QED  BY <1>9, <1>12, <1>13, <1>16, DirSetDirs

-----------------------------------------------------------------------------
(* A directory with two entries has only "." and "..".                     *)
LEMMA OnlyDots ==
    ASSUME NEW d, DirOK(d), d[0].ino # 0, d[3].ino # 0,
           ~(Cardinality(Live(d)) > 2)
    PROVE  Live(d) = {0, 3}
<1>1. PICK S : S = Live(d)
  OBVIOUS
<1>2. 0 \in S /\ 3 \in S /\ IsFiniteSet(S)
  <2>1. 0 \in DOMAIN d /\ 3 \in DOMAIN d /\ IsFiniteSet(DOMAIN d)
    BY DirEntries
  <2>2. S \in SUBSET DOMAIN d
    BY <1>1 DEF Live
  <2>3. IsFiniteSet(S)
    BY <2>1, <2>2, FS_Subset
  <2> QED  BY <1>1, <2>1, <2>3 DEF Live
<1>3. PICK n \in Nat : n = Cardinality(S)
  BY <1>2, FS_CardinalityType
<1>4. PICK T : T = S \ {0} /\ IsFiniteSet(T) /\ Cardinality(T) = n - 1
  <2>1. IsFiniteSet(S \ {0}) /\ Cardinality(S \ {0}) = Cardinality(S) - 1
    BY <1>2, FS_RemoveElement
  <2> QED  BY <1>3, <2>1
<1>5. PICK U : U = T \ {3} /\ IsFiniteSet(U) /\ Cardinality(U) = n - 2
  <2>1. 3 \in T
    BY <1>2, <1>4
  <2>2. IsFiniteSet(T \ {3}) /\ Cardinality(T \ {3}) = Cardinality(T) - 1
    BY <1>4, <2>1, FS_RemoveElement
  <2> QED  BY <1>3, <1>4, <2>2
<1>6. Cardinality(U) \in Nat
  BY <1>5, FS_CardinalityType
<1>7. ~(n > 2)
  BY <1>1, <1>3
<1>8. Cardinality(U) = 0
  BY <1>3, <1>5, <1>6, <1>7
<1>9. U = {}
  BY <1>5, <1>8, FS_EmptySet
<1> QED  BY <1>1, <1>2, <1>4, <1>5, <1>9

LEMMA OnlyDotArcs ==
    ASSUME NEW v, VolOK(v), Rooted(DirsOf(v), Arcs(v)), NEW i \in Inum,
           v.mode[i] = "dir", ~dir_is_not_empty(v, i)
    PROVE  \A t \in Arcs(v) : t[1] = i => t[2] \in {0, 3}
<1>1. PICK d : d = v.ct[i] /\ DirOK(d)
  BY DEF VolOK, InodeOK
<1>2. ~(Cardinality(Live(d)) > 2)
  BY <1>1 DEF dir_is_not_empty
<1>3. i \in DirsOf(v)
  BY DEF DirsOf
<1>4. PICK u \in DirsOf(v) : <<i, 0, i>> \in Arcs(v) /\ <<i, 3, u>> \in Arcs(v)
  BY <1>3 DEF Rooted
<1>5. PICK b : b = <<i, 0, i>>
  OBVIOUS
<1>6. PICK c : c = <<i, 3, u>>
  OBVIOUS
<1>7. /\ b[1] = i /\ b[2] = 0 /\ b[3] # 0 /\ b \in Arcs(v)
      /\ c[1] = i /\ c[2] = 3 /\ c[3] # 0 /\ c \in Arcs(v)
  <2>1. b \in Arcs(v) /\ c \in Arcs(v)
    BY <1>4, <1>5, <1>6
  <2> QED  BY <1>5, <1>6, <2>1, ArcIs DEF Arcs
<1>8. d[0].ino # 0 /\ d[3].ino # 0
  BY <1>1, <1>7 DEF Arcs
<1>9. Live(d) = {0, 3}
  BY <1>1, <1>2, <1>8, OnlyDots
<1>10. ASSUME NEW t \in Arcs(v), t[1] = i
       PROVE  t[2] \in Live(d)
  <2>1. t[3] # 0
    BY ArcIs DEF Arcs
  <2> QED  BY <1>1, <1>10, <2>1 DEF Arcs, Live
<1> QED  BY <1>9, <1>10

(* dir_offset_delete() with its check deletes no name of a directory that  *)
(* has others in it.                                                       *)
LEMMA DeletedEmpty ==
    ASSUME NEW v, NEW p, NEW o, o # 0, NEW check \in BOOLEAN, check = TRUE,
           dir_offset_delete(v, p, o, check).inum # 0
    PROVE  ~dir_is_not_empty(v, v.ct[p][o].ino)
<1>1. SUFFICES ASSUME dir_is_not_empty(v, v.ct[p][o].ino) PROVE FALSE
  OBVIOUS
<1>2. dir_offset_delete(v, p, o, check) = [inum |-> 0, v |-> v]
  BY <1>1 DEF dir_offset_delete
<1> QED  BY <1>2

-----------------------------------------------------------------------------
(* Inodes in use are those with a name, when there is one more or less.    *)
LEMMA NamedAdd ==
    ASSUME NEW E, NEW U, Named(E, U), NEW t, NEW V,
           \A j \in Inum : j > 1 => (j \in V <=> j \in U \/ j = t[3])
    PROVE  Named(E \cup {t}, V)
  BY DEF Named, To

LEMMA NamedDrop ==
    ASSUME NEW E, NEW U, Named(E, U), NEW t \in E, NEW V,
           \A j \in Inum : j > 1 =>
               (j \in V <=> j \in U /\ (j = t[3] => To(E \ {t}, j) # {}))
    PROVE  Named(E \ {t}, V)
<1>1. SUFFICES ASSUME NEW j \in Inum, j > 1
               PROVE  j \in V <=> To(E \ {t}, j) # {}
  BY DEF Named
<1>2. CASE j = t[3]
  <2>1. To(E, j) # {}
    BY <1>2 DEF To
  <2>2. j \in U
    BY <1>1, <2>1 DEF Named
  <2> QED  BY <1>1, <1>2, <2>2
<1>3. CASE j # t[3]
  <2>1. To(E \ {t}, j) = To(E, j)
    BY <1>3 DEF To
  <2> QED  BY <1>1, <1>3, <2>1 DEF Named
<1> QED  BY <1>2, <1>3

(* What an entry names is in use, and so is a directory.                   *)
LEMMA EntryUsed ==
    ASSUME NEW v, VolOK(v), Exact(v), NEW p \in Inum, v.mode[p] = "dir",
           NEW o \in DOMAIN v.ct[p], NEW i, i = v.ct[p][o].ino, i # 0
    PROVE  /\ i \in Inum /\ (i > 1 => i \in v.used)
           /\ \E a \in Arcs(v) : a[1] = p /\ a[2] = o /\ a[3] = i /\ a = <<p, o, i>>
<1>1. DirOK(v.ct[p])
  BY DEF VolOK, InodeOK
<1>2. i \in Inum
  BY <1>1, DirEntries
<1>3. PICK a : a = <<p, o, i>> /\ a \in Arcs(v)
  BY <1>1, ArcAt
<1>4. a[1] = p /\ a[2] = o /\ a[3] = i
  BY <1>3
<1>5. a \in To(Arcs(v), i)
  BY <1>3, <1>4 DEF To
<1>6. Named(Arcs(v), v.used)
  BY DEF Exact
<1>7. i > 1 => i \in v.used
  BY <1>2, <1>5, <1>6 DEF Named
<1> QED  BY <1>2, <1>3, <1>4, <1>7

LEMMA DirUsed ==
    ASSUME NEW v, VolOK(v), NEW i \in Inum, v.mode[i] = "dir"
    PROVE  i # 0 /\ i \in v.used
  BY DEF VolOK, InodeOK, Shape

(* ".." is found where newfs and PCreateDir() put it.                      *)
LEMMA DotDotIs ==
    ASSUME NEW v, VolOK(v), Exact(v), NEW p \in Inum, v.mode[p] = "dir",
           NEW i, i = Lookup(v, p, DotDot)
    PROVE  /\ i \in DirsOf(v)
           /\ \E c \in Arcs(v) : c[1] = p /\ c[2] = 3 /\ c[3] = i /\ c = <<p, 3, i>>
<1>1. PICK d : d = v.ct[p] /\ DirOK(d)
  BY DEF VolOK, InodeOK
<1>2. p \in DirsOf(v) /\ Rooted(DirsOf(v), Arcs(v))
  BY DEF DirsOf, Exact
<1>3. PICK u \in DirsOf(v) : <<p, 3, u>> \in Arcs(v)
  BY <1>2 DEF Rooted
<1>4. PICK c : c = <<p, 3, u>> /\ c \in Arcs(v)
  BY <1>3
<1>5. c[1] = p /\ c[2] = 3 /\ c[3] = u /\ c[3] # 0
  <2>1. c \in Arc
    BY <1>4 DEF Arcs
  <2> QED  BY <1>4, <2>1, ArcIs
<1>6. 3 \in DOMAIN d /\ d[3].ino = u /\ u # 0
  BY <1>1, <1>4, <1>5 DEF Arcs
<1>7. PICK exact : exact = {o \in Live(d) : d[o].name = DotDot}
  OBVIOUS
<1>8. exact = {3}
  <2>1. /\ d[0].name = Dot /\ d[3].name = DotDot
        /\ \A o \in DOMAIN d \ {0, 3} : d[o].ino # 0 => d[o].name \in Name
    BY <1>1 DEF DirOK, Dots
  <2>2. 3 \in exact
    BY <1>6, <1>7, <2>1 DEF Live
  <2>3. \A o \in exact : o = 3
    BY <1>7, <2>1, NamesApart DEF Live
  <2> QED  BY <2>2, <2>3
<1>9. PICK o \in exact : o = Least(exact)
  BY <1>8, LeastIs
<1>10. o = 3 /\ dir_name_search(v, p, DotDot) = o
  BY <1>1, <1>7, <1>8, <1>9 DEF dir_name_search
<1>11. i = u
  BY <1>1, <1>6, <1>10 DEF Lookup, InumAt
<1> QED  BY <1>3, <1>4, <1>5, <1>11

(* It leads to where the directory has its name.                           *)
LEMMA UpIs ==
    ASSUME NEW v, VolOK(v), Exact(v), NEW i \in Inum, v.mode[i] = "dir",
           NEW q, q = Lookup(v, i, DotDot)
    PROVE  /\ i = ROOTINO => q = ROOTINO
           /\ \A t \in Arcs(v) : t[2] \notin {0, 3} /\ t[3] = i => t[1] = q
           /\ i # ROOTINO => \E t \in Arcs(v) : t[2] \notin {0, 3} /\ t[3] = i /\ t[1] = q
<1>1. PICK E : E = Arcs(v)
  OBVIOUS
<1>2. PICK D : D = DirsOf(v)
  OBVIOUS
<1>3. Rooted(D, E) /\ i \in D
  BY <1>1, <1>2 DEF Exact, DirsOf
<1>4. PICK c \in E : c[1] = i /\ c[2] = 3 /\ c[3] = q /\ c = <<i, 3, q>>
  BY <1>1, DotDotIs
<1>5. ASSUME i = ROOTINO
      PROVE  q = ROOTINO
  <2>1. PICK r : r = <<ROOTINO, 3, ROOTINO>>
    OBVIOUS
  <2>2. r \in E /\ r[1] = ROOTINO /\ r[2] = 3 /\ r[3] = ROOTINO
    BY <1>3, <2>1 DEF Rooted
  <2>3. c = r
    BY <1>3, <1>4, <1>5, <2>2 DEF Rooted
  <2> QED  BY <1>4, <2>2, <2>3
<1>6. ASSUME NEW t \in E, t[2] \notin {0, 3}, t[3] = i
      PROVE  t[1] = q
  <2>1. <<i, 3, t[1]>> \in E
    BY <1>3, <1>6 DEF Rooted
  <2>2. <<i, 3, t[1]>> = c
    BY <1>3, <1>4, <2>1 DEF Rooted
  <2> QED  BY <1>4, <2>2
<1>7. i # ROOTINO => \E t \in E : t[2] \notin {0, 3} /\ t[3] = i
  BY <1>3 DEF Rooted
<1> QED  BY <1>1, <1>5, <1>6, <1>7

LEMMA DotDotUsed ==
    ASSUME NEW v, VolOK(v), Exact(v), NEW p \in Inum, v.mode[p] = "dir",
           NEW i, i = Lookup(v, p, DotDot)
    PROVE  i \in Inum /\ i # 0 /\ (i > 1 => i \in v.used)
<1>1. i \in Inum /\ v.mode[i] = "dir"
  BY DotDotIs DEF DirsOf
<1> QED  BY <1>1, DirUsed

(* What dir_rename() goes by when it follows "..".                         *)
LEMMA AboveIs ==
    ASSUME NEW v, VolOK(v), Exact(v), NEW q, NEW i \in Inum
    PROVE  i \in Above(v, q) <=>
              \A S \in SUBSET DirsOf(v) : q \in S /\ Climbs(Arcs(v), S) => i \in S
<1>1. PICK E : E = Arcs(v)
  OBVIOUS
<1>2. PICK D : D = DirsOf(v)
  OBVIOUS
<1>3. Rooted(D, E)
  BY <1>1, <1>2 DEF Exact
<1>4. ASSUME NEW S \in SUBSET D
      PROVE  Climbs(E, S) <=> {Lookup(v, j, DotDot) : j \in S \ {ROOTINO}} \subseteq S
  <2>1. ASSUME NEW j \in S
        PROVE  \E c \in E : /\ c[1] = j /\ c[2] = 3 /\ c[3] = Lookup(v, j, DotDot)
                            /\ \A t \in E : t[1] = j /\ t[2] = 3 => t = c
    <3>1. j \in Inum /\ v.mode[j] = "dir"
      BY <1>2 DEF DirsOf
    <3>2. PICK c \in E : c[1] = j /\ c[2] = 3 /\ c[3] = Lookup(v, j, DotDot)
      BY <1>1, <3>1, DotDotIs
    <3> QED  BY <1>3, <3>2 DEF Rooted
  <2>2. \A t \in E : t[1] = ROOTINO /\ t[2] = 3 => t[3] = ROOTINO
    <3>1. PICK r : r = <<ROOTINO, 3, ROOTINO>>
      OBVIOUS
    <3>2. r \in E /\ r[1] = ROOTINO /\ r[2] = 3 /\ r[3] = ROOTINO
      BY <1>3, <3>1 DEF Rooted
    <3>3. \A t \in E : t[1] = r[1] /\ t[2] = r[2] => t = r
      BY <1>3, <3>2 DEF Rooted
    <3> QED  BY <3>2, <3>3
  <2>3. ASSUME Climbs(E, S), NEW j \in S \ {ROOTINO}
        PROVE  Lookup(v, j, DotDot) \in S
    BY <2>1, <2>3 DEF Climbs
  <2>4. ASSUME {Lookup(v, j, DotDot) : j \in S \ {ROOTINO}} \subseteq S,
               NEW t \in E, t[1] \in S, t[2] = 3
        PROVE  t[3] \in S
    <3>1. CASE t[1] = ROOTINO
      BY <2>2, <2>4, <3>1
    <3>2. CASE t[1] # ROOTINO
      <4>1. PICK j \in S \ {ROOTINO} : j = t[1]
        BY <2>4, <3>2
      <4>2. t[3] = Lookup(v, j, DotDot)
        BY <2>1, <2>4, <4>1
      <4> QED  BY <2>4, <4>2
    <3> QED  BY <3>1, <3>2
  <2> QED  BY <2>3, <2>4 DEF Climbs
<1>5. D = {j \in Inum : v.mode[j] = "dir"}
  BY <1>2 DEF DirsOf
<1>6. i \in Above(v, q) <=>
         \A S \in SUBSET D :
            q \in S /\ {Lookup(v, j, DotDot) : j \in S \ {ROOTINO}} \subseteq S => i \in S
  BY <1>5 DEF Above
<1> QED  BY <1>1, <1>2, <1>4, <1>6

(* A step leaves a volume that is exact, if the volume it makes is.        *)
LEMMA BecomeExact ==
    ASSUME NEW x, Become(x), Exact(x)
    PROVE  Exact(Volume') /\ Arcs(Volume') = Arcs(x)
<1>1. PICK y : y = Volume'
  OBVIOUS
<1>2. /\ y.ct = x.ct /\ y.mode = x.mode /\ y.nlink = x.nlink
      /\ y.used = x.used /\ y.cg = x.cg
  BY <1>1 DEF Become, Volume
<1>3. Arcs(y) = Arcs(x) /\ DirsOf(y) = DirsOf(x)
  BY <1>2, SameArcs
<1> QED  BY <1>1, <1>2, <1>3 DEF Exact

(* fl_Key of a lock is never 0, and what it says is in use.                *)
KeyUsed(i, U) == i # 0 /\ (i > 1 => i \in U)

KeysOK(U, k) == \A l \in Lock : k[l] # Free => KeyUsed(k[l].key, U)

LEMMA KeysKept ==
    ASSUME NEW U, NEW V, NEW k, KeysOK(U, k),
           \A j \in U : j \in V \/ \A l \in Lock : k[l] # Free => k[l].key # j
    PROVE  KeysOK(V, k)
  BY DEF KeysOK, KeyUsed

LEMMA KeySet ==
    ASSUME NEW U, NEW k, LocksOK(k), KeysOK(U, k), NEW l \in Lock, NEW e,
           e # Free => KeyUsed(e.key, U)
    PROVE  KeysOK(U, [k EXCEPT ![l] = e])
<1>1. PICK h : h = [k EXCEPT ![l] = e]
  OBVIOUS
<1>2. h[l] = e /\ \A j \in Lock : j # l => h[j] = k[j]
  BY <1>1 DEF LocksOK
<1>3. KeysOK(U, h)
  BY <1>2 DEF KeysOK
<1> QED  BY <1>1, <1>3

(* A lock got by name knows the arc that it came by; one got by way of "." *)
(* or ".." knows the directory from which an arc leads to its object.      *)
HasPlace(E, e) ==
    \/ ~e.named /\ e.key = ROOTINO /\ e.pinum = ROOTINO
    \/ \E a \in E : /\ a[2] \notin {0, 3} /\ a[1] = e.pinum /\ a[3] = e.key
                    /\ e.named => a[2] = e.poffset

Placed(E, k, S) == \A l \in Lock \ S : k[l] # Free => HasPlace(E, k[l])

(* No name has gone but one of i.                                          *)
Kept(E, F, i) == \A t \in E : t[2] \notin {0, 3} /\ t[3] # i => t \in F

LEMMA PlacedKept ==
    ASSUME NEW E, NEW F, NEW k, NEW S, NEW T, NEW i, Placed(E, k, S), S \subseteq T,
           Kept(E, F, i), \A l \in Lock \ T : k[l] # Free => k[l].key # i
    PROVE  Placed(F, k, T)
<1>1. SUFFICES ASSUME NEW l \in Lock \ T, k[l] # Free PROVE HasPlace(F, k[l])
  BY DEF Placed
<1>2. PICK e : e = k[l]
  OBVIOUS
<1>3. HasPlace(E, e) /\ e.key # i
  BY <1>1, <1>2 DEF Placed
<1>4. HasPlace(F, e)
  BY <1>3 DEF HasPlace, Kept
<1> QED  BY <1>2, <1>4

LEMMA PlaceSet ==
    ASSUME NEW E, NEW k, LocksOK(k), NEW S, NEW T, Placed(E, k, S), NEW l \in Lock,
           S \ {l} \subseteq T, NEW e, e # Free => HasPlace(E, e)
    PROVE  Placed(E, [k EXCEPT ![l] = e], T)
<1>1. PICK h : h = [k EXCEPT ![l] = e]
  OBVIOUS
<1>2. h[l] = e /\ \A j \in Lock : j # l => h[j] = k[j]
  BY <1>1 DEF LocksOK
<1>3. Placed(E, h, T)
  BY <1>2 DEF Placed
<1> QED  BY <1>1, <1>3

LEMMA EntryPlace ==
    ASSUME NEW v, VolOK(v), Exact(v), NEW p \in Inum, v.mode[p] = "dir",
           NEW o \in DOMAIN v.ct[p] \ {0, 3}, NEW i, i = v.ct[p][o].ino, i # 0,
           NEW named
    PROVE  HasPlace(Arcs(v), LockOn(i, p, o, named))
<1>1. PICK a \in Arcs(v) : a[1] = p /\ a[2] = o /\ a[3] = i
  BY EntryUsed
<1>2. PICK e : e = LockOn(i, p, o, named)
  OBVIOUS
<1>3. e.key = i /\ e.pinum = p /\ e.poffset = o
  BY <1>2 DEF LockOn
<1>4. HasPlace(Arcs(v), e)
  BY <1>1, <1>3 DEF HasPlace
<1> QED  BY <1>2, <1>4

LEMMA UpPlace ==
    ASSUME NEW v, VolOK(v), Exact(v), NEW i \in Inum, v.mode[i] = "dir",
           NEW q, q = Lookup(v, i, DotDot), NEW o
    PROVE  HasPlace(Arcs(v), LockOn(i, q, o, FALSE))
<1>1. PICK named \in BOOLEAN : named = FALSE
  OBVIOUS
<1>2. PICK e : e = LockOn(i, q, o, named)
  OBVIOUS
<1>3. e.key = i /\ e.pinum = q /\ e.named = named
  BY <1>2 DEF LockOn
<1>4. ~e.named
  BY <1>1, <1>3
<1>5. HasPlace(Arcs(v), e)
  BY <1>3, <1>4, UpIs DEF HasPlace
<1> QED  BY <1>1, <1>2, <1>5, Zenon

-----------------------------------------------------------------------------
(* The strengthening of Inv: the graph of the names and what is counted,   *)
(* that what a lock is on is in use, so that PMakeLink() links nothing     *)
(* that is free, and that locks know where their objects are named.        *)
Links ==
    /\ Exact(Volume)
    /\ KeysOK(used, lock)
    /\ Placed(Arcs(Volume), lock, stray)

LEMMA GrownLinks ==
    ASSUME Links, NEW x, Become(x), Exact(x), used \subseteq x.used,
           Arcs(Volume) \subseteq Arcs(x), UNCHANGED <<lock, stray>>
    PROVE  Links'
<1>1. Exact(Volume') /\ Arcs(Volume') = Arcs(x) /\ used' = x.used
  BY BecomeExact DEF Become
<1>2. KeysOK(x.used, lock)
  BY KeysKept DEF Links
<1>3. Placed(Arcs(x), lock, stray)
  <2>1. PICK i : i = 0
    OBVIOUS
  <2>2. Kept(Arcs(Volume), Arcs(x), i)
    BY DEF Kept
  <2>3. \A l \in Lock \ stray : lock[l] # Free => lock[l].key # i
    BY <2>1 DEF Links, KeysOK, KeyUsed
  <2> QED  BY <2>2, <2>3, PlacedKept DEF Links
<1> QED  BY <1>1, <1>2, <1>3 DEF Links

LEMMA LocateLinks ==
    ASSUME Inv, Links, NEW l \in Lock, NEW p \in Dirs, NEW n,
           PLocateObject(l, p, n) \/ PLocateDots(l, p, n)
    PROVE  Links'
<1>1. /\ p \in Inum /\ p # 0 /\ Volume.mode[p] = "dir" /\ VolOK(Volume)
      /\ Exact(Volume) /\ p \in Volume.used
  BY DirIs DEF Inv, Links
<1>2. Volume' = Volume /\ used' = used /\ stray' = stray
  <2>1. UNCHANGED vol /\ stray' = stray
    BY DEF PLocateObject, PLocateDots
  <2> QED  BY <2>1, VolSame DEF vol
<1>3. /\ LocksOK(lock) /\ KeysOK(used, lock) /\ Volume.used = used
      /\ Placed(Arcs(Volume), lock, stray)
  BY VolumeIs DEF Inv, Links
<1>4. CASE PLocateObject(l, p, n)
  <2>1. PICK o : o = dir_name_search(Volume, p, n)
    OBVIOUS
  <2>2. PICK i : i = InumAt(Volume, p, o)
    OBVIOUS
  <2>3. PICK e : e = LockOn(i, p, o, TRUE)
    OBVIOUS
  <2>4. i # 0 /\ lock' = [lock EXCEPT ![l] = e] /\ n \in Name
    BY <1>4, <2>1, <2>2, <2>3 DEF PLocateObject
  <2>5. o \in DOMAIN Volume.ct[p] \ {0, 3} /\ i = Volume.ct[p][o].ino
    <3>1. o # -1
      BY <2>2, <2>4 DEF InumAt
    <3> QED  BY <1>1, <2>1, <2>2, <2>4, <3>1, SearchIn DEF InumAt
  <2>6. KeyUsed(i, used)
    BY <1>1, <1>3, <2>4, <2>5, EntryUsed DEF KeyUsed
  <2>7. e.key = i
    BY <2>3 DEF LockOn
  <2>8. KeysOK(used, [lock EXCEPT ![l] = e])
    BY <1>3, <2>6, <2>7, KeySet
  <2>9. HasPlace(Arcs(Volume), e)
    <3>1. PICK named \in BOOLEAN : named = TRUE
      OBVIOUS
    <3>2. e = LockOn(i, p, o, named)
      BY <2>3, <3>1, Zenon
    <3> QED  BY <1>1, <2>4, <2>5, <3>2, EntryPlace
  <2>10. Placed(Arcs(Volume), [lock EXCEPT ![l] = e], stray)
    BY <1>3, <2>9, PlaceSet
  <2> QED  BY <1>1, <1>2, <2>4, <2>8, <2>10 DEF Links
<1>5. CASE PLocateDots(l, p, n)
  <2>1. PICK i : i = IF n = DotDot THEN Lookup(Volume, p, DotDot) ELSE p
    OBVIOUS
  <2>2. PICK q : q = Lookup(Volume, i, DotDot)
    OBVIOUS
  <2>3. PICK e : e = LockOn(i, q, dir_inum_search(Volume, q, i), FALSE)
    OBVIOUS
  <2>4. lock' = [lock EXCEPT ![l] = e]
    BY <1>5, <2>1, <2>2, <2>3 DEF PLocateDots
  <2>5. KeyUsed(i, used)
    <3>1. KeyUsed(Lookup(Volume, p, DotDot), used)
      BY <1>1, <1>3, DotDotUsed DEF KeyUsed
    <3>2. KeyUsed(p, used)
      BY <1>1, <1>3 DEF KeyUsed
    <3> QED  BY <2>1, <3>1, <3>2
  <2>6. e.key = i
    BY <2>3 DEF LockOn
  <2>7. KeysOK(used, [lock EXCEPT ![l] = e])
    BY <1>3, <2>5, <2>6, KeySet
  <2>8. HasPlace(Arcs(Volume), e)
    <3>1. i \in Inum /\ Volume.mode[i] = "dir"
      BY <1>1, <2>1, DotDotIs DEF DirsOf
    <3> QED  BY <1>1, <2>2, <2>3, <3>1, UpPlace
  <2>9. Placed(Arcs(Volume), [lock EXCEPT ![l] = e], stray)
    BY <1>3, <2>8, PlaceSet
  <2> QED  BY <1>1, <1>2, <2>4, <2>7, <2>9 DEF Links
<1> QED  BY <1>4, <1>5

LEMMA PFreeLockLinks ==
    ASSUME Inv, Links, NEW l \in Lock, PFreeLock(l)
    PROVE  Links'
<1>1. Volume' = Volume /\ used' = used
  <2>1. UNCHANGED vol
    BY DEF PFreeLock
  <2> QED  BY <2>1, VolSame DEF vol
<1>2. KeysOK(used, [lock EXCEPT ![l] = Free])
  BY KeySet DEF Inv, Links
<1>3. Placed(Arcs(Volume), [lock EXCEPT ![l] = Free], stray \ {l})
  BY PlaceSet DEF Inv, Links
<1> QED  BY <1>1, <1>2, <1>3 DEF Links, PFreeLock

LEMMA SameLinks ==
    ASSUME Links, UNCHANGED <<ct, mode, nlink, used, cg, lock, stray>>
    PROVE  Links'
<1>1. PICK x : x = Volume
  OBVIOUS
<1>2. PICK y : y = Volume'
  OBVIOUS
<1>3. /\ y.ct = x.ct /\ y.mode = x.mode /\ y.nlink = x.nlink
      /\ y.used = x.used /\ y.cg = x.cg
  BY <1>1, <1>2 DEF Volume
<1>4. Arcs(y) = Arcs(x) /\ DirsOf(y) = DirsOf(x) /\ Exact(x)
  BY <1>1, <1>3, SameArcs DEF Links
<1>5. Exact(y)
  BY <1>3, <1>4 DEF Exact
<1>6. Placed(Arcs(y), lock, stray)
  BY <1>1, <1>4 DEF Links
<1> QED  BY <1>2, <1>5, <1>6 DEF Links

LEMMA PParentLinks ==
    ASSUME Inv, Links, NEW l \in Lock, PParent(l)
    PROVE  Links'
<1>1. CASE IsDir(lock[l].pinum)
  <2>1. PICK p : p = lock[l].pinum
    OBVIOUS
  <2>2. PICK q : q = Lookup(Volume, p, DotDot)
    OBVIOUS
  <2>3. PICK e : e = LockOn(p, q, dir_inum_search(Volume, q, p), FALSE)
    OBVIOUS
  <2>4. lock' = [lock EXCEPT ![l] = e] /\ UNCHANGED <<ct, mode, nlink, used, cg>>
        /\ ronly' = ronly /\ stray' = stray \ {l}
    BY <1>1, <2>1, <2>2, <2>3 DEF PParent
  <2>5. Volume' = Volume
    BY <2>4, VolSame DEF vol
  <2>6. p \in Inum /\ Volume.mode[p] = "dir" /\ VolOK(Volume) /\ Volume.used = used
    <3>1. p \in Inum
      BY <2>1 DEF PParent, Inv, LocksOK
    <3> QED  BY <1>1, <2>1, <3>1, VolumeIs DEF IsDir, Inv
  <2>7. KeyUsed(p, used) /\ e.key = p
    BY <2>3, <2>6, DirUsed DEF KeyUsed, LockOn
  <2>8. KeysOK(used, [lock EXCEPT ![l] = e])
    BY <2>7, KeySet DEF Inv, Links
  <2>9. HasPlace(Arcs(Volume), e)
    BY <2>2, <2>3, <2>6, UpPlace DEF Links
  <2>10. Placed(Arcs(Volume), [lock EXCEPT ![l] = e], stray \ {l})
    BY <2>9, PlaceSet DEF Inv, Links
  <2> QED  BY <2>4, <2>5, <2>8, <2>10 DEF Links
<1>2. CASE ~IsDir(lock[l].pinum)
  BY <1>2, SameLinks DEF PParent
<1> QED  BY <1>1, <1>2

-----------------------------------------------------------------------------
(* Another name for what is no directory.                                  *)
LEMMA LinkExact ==
    ASSUME NEW v, VolOK(v), Exact(v), NEW p \in Inum, v.mode[p] = "dir",
           NEW i \in Inum, i # 0, v.mode[i] # "dir", i > 1 => i \in v.used,
           NEW y, NEW at, NEW n, Created(v, y, p, at, n, i),
           NEW x, x.ct = y.ct, x.mode = y.mode, x.used = y.used, x.cg = y.cg,
           x.nlink = [y.nlink EXCEPT ![i] = @ + 1]
    PROVE  Exact(x) /\ Arcs(v) \subseteq Arcs(x)
<1>1. PICK D : D = DirsOf(v)
  OBVIOUS
<1>2. PICK E : E = Arcs(v)
  OBVIOUS
<1>3. PICK L : L = v.nlink
  OBVIOUS
<1>4. Rooted(D, E) /\ Tallied(E, L) /\ Named(E, v.used) /\ Census(D, v.used, v.cg)
  BY <1>1, <1>2, <1>3 DEF Exact
<1>5. PICK a : a = <<p, at, i>>
  OBVIOUS
<1>6. /\ Arcs(y) = E \cup {a}
      /\ at \in Nat \ {0, 3} /\ \A t \in E : ~(t[1] = p /\ t[2] = at)
      /\ DirsOf(y) = D /\ y.nlink = L /\ y.used = v.used /\ y.cg = v.cg
  <2>1. i \in Inum \ {0}
    OBVIOUS
  <2> QED  BY <2>1, <1>1, <1>2, <1>3, <1>5, CreatedArcs
<1>7. p \in D /\ i \notin D
  BY <1>1 DEF DirsOf
<1>8. a \in Arc /\ a[1] = p /\ a[2] = at /\ a[3] = i /\ a \notin E
  <2>1. a \in Arc /\ a[1] = p /\ a[2] = at /\ a[3] = i
    BY <1>5, <1>6 DEF Arc
  <2> QED  BY <1>6, <2>1
<1>9. Arcs(x) = E \cup {a} /\ DirsOf(x) = D
  BY <1>6, SameArcs
<1>10. Rooted(D, E \cup {a})
  BY <1>4, <1>5, <1>6, <1>7, RootedLink
<1>11. Tallied(E \cup {a}, [L EXCEPT ![i] = @ + 1])
  BY <1>4, <1>8, TallyAdd
<1>12. Named(E \cup {a}, v.used)
  BY <1>4, <1>8, NamedAdd
<1> QED  BY <1>2, <1>4, <1>6, <1>9, <1>10, <1>11, <1>12 DEF Exact

LEMMA PMakeLinkLinks ==
    ASSUME Inv, Links, NEW l \in Lock, NEW p \in Dirs, NEW n \in Name, NEW more,
           PMakeLink(l, p, n, more)
    PROVE  Links'
<1>1. p \in Inum /\ Volume.mode[p] = "dir" /\ VolOK(Volume) /\ Exact(Volume)
  BY DirIs DEF Inv, Links
<1>2. PICK i \in Inum : i = lock[l].key
  BY DEF PMakeLink, Inv, LocksOK
<1>3. i # 0 /\ Volume.mode[i] # "dir" /\ (i > 1 => i \in Volume.used)
  BY <1>2, VolumeIs DEF PMakeLink, Links, KeysOK, KeyUsed, IsDir
<1>4. PICK made : made = dir_create(Volume, p, n, i, more)
  OBVIOUS
<1>5. /\ VolOK(made.v) /\ made.v.used = Volume.used
      /\ \/ made.ok = FALSE /\ made.v = Volume
         \/ made.ok = TRUE /\ Created(Volume, made.v, p, made.at, n, i)
  <2>1. Entered(Volume, made, p, n, i)
    BY <1>1, <1>4, CreateStep
  <2> QED  BY <2>1 DEF Entered
<1>6. PICK z : z = [made.v.nlink EXCEPT ![i] = @ + 1]
  OBVIOUS
<1>7. PICK y : y = [made.v EXCEPT !.nlink = z]
  OBVIOUS
<1>8. CASE made.ok = FALSE
  <2>1. Become(Volume)
    BY <1>2, <1>4, <1>5, <1>8 DEF PMakeLink
  <2> QED  BY <1>1, <2>1, GrownLinks, VolumeIs DEF PMakeLink
<1>9. CASE made.ok = TRUE
  <2>1. Become(y)
    BY <1>2, <1>4, <1>6, <1>7, <1>9 DEF PMakeLink
  <2>2. Counted(made.v, y) /\ y.nlink = z
    <3>1. Shape(made.v)
      BY <1>5 DEF VolOK
    <3>2. y.nlink = z
      BY <1>7, <3>1 DEF Shape
    <3> QED  BY <1>7, <3>1, <3>2, CountIs
  <2>3. Created(Volume, made.v, p, made.at, n, i)
    BY <1>5, <1>9
  <2>4. Exact(y) /\ Arcs(Volume) \subseteq Arcs(y)
    BY <1>1, <1>3, <1>6, <2>2, <2>3, LinkExact DEF Counted
  <2>5. y.used = used
    BY <1>5, <2>2, VolumeIs DEF Counted
  <2> QED  BY <2>1, <2>4, <2>5, GrownLinks DEF PMakeLink
<1> QED  BY <1>5, <1>8, <1>9

-----------------------------------------------------------------------------
LEMMA InumNat ==
    ASSUME NEW i \in Inum
    PROVE  i \in Nat
<1>1. ncg \in Nat /\ ipg \in Nat
  BY GroupAssumption, FS_CardinalityType DEF ncg
<1>2. PICK m \in Int : m = ncg * ipg - 1
  BY <1>1
<1> QED  BY <1>2 DEF Inum

(* The inode that inum_new() finds has no name yet.                        *)
Fresh(v, w, i, k) ==
    /\ i \in Inum \ {0} /\ i > 1 /\ i \notin v.used /\ v.mode[i] # "dir"
    /\ To(Arcs(v), i) = {} /\ v.nlink[i] = 0
    /\ VolOK(w) /\ w.ct = v.ct /\ w.mode = v.mode /\ w.nlink = v.nlink
    /\ w.used = v.used \cup {i}
    /\ Census(DirsOf(v), v.used \cup {i}, w.cg)
    /\ k = 1 => Census(DirsOf(v) \cup {i}, v.used \cup {i}, w.cg)

LEMMA FreshIs ==
    ASSUME NEW v, VolOK(v), Exact(v), NEW k \in {0, 1}, NEW new,
           Numbered(v, new, k), new.got # 0
    PROVE  Fresh(v, new.v, new.got, k)
<1>1. PICK i \in Inum \ v.used : i = new.got /\ i > ROOTINO
  BY DEF Numbered
<1>2. i > 1 /\ i # 0
  <2>1. i \in Int
    BY <1>1, InumNat
  <2> QED  BY <1>1, <2>1, RootApart
<1>3. v.mode[i] # "dir" /\ i \notin DirsOf(v)
  BY <1>1 DEF VolOK, InodeOK, DirsOf
<1>4. To(Arcs(v), i) = {}
  BY <1>1, <1>2 DEF Exact, Named
<1>5. v.nlink[i] = 0
  <2>1. v.nlink[i] = Cardinality(To(Arcs(v), i))
    BY <1>1 DEF Exact, Tallied
  <2> QED  BY <1>4, <2>1, FS_EmptySet
<1>6. PICK c : /\ new.v.cg = [v.cg EXCEPT ![itog(i)] = c]
               /\ c.nifree = v.cg[itog(i)].nifree - 1
               /\ c.ndir = v.cg[itog(i)].ndir + k
  BY <1>1, <1>2 DEF Numbered, Counts
<1>7. /\ Census(DirsOf(v), v.used \cup {i}, new.v.cg)
      /\ k = 1 => Census(DirsOf(v) \cup {i}, v.used \cup {i}, new.v.cg)
  <2>1. v.cg \in [Group -> CensusRecord]
    BY DEF VolOK, Shape, CensusRecord
  <2>2. Census(DirsOf(v), v.used, v.cg) /\ DirsOf(v) \subseteq Inum
    BY DEF Exact, DirsOf
  <2>3. PICK D : D = DirsOf(v)
    OBVIOUS
  <2>4. PICK C : C = v.cg
    OBVIOUS
  <2>5. /\ Census(D, v.used, C) /\ D \subseteq Inum /\ C \in [Group -> CensusRecord]
        /\ c.nifree = C[itog(i)].nifree - 1 /\ c.ndir = C[itog(i)].ndir + k
        /\ i \in Inum \ v.used /\ i \notin D
    BY <1>1, <1>3, <1>6, <2>1, <2>2, <2>3, <2>4
  <2>6. /\ Census(D, v.used \cup {i}, [C EXCEPT ![itog(i)] = c])
        /\ k = 1 => Census(D \cup {i}, v.used \cup {i}, [C EXCEPT ![itog(i)] = c])
    BY <2>5, CensusTake
  <2> QED  BY <1>6, <2>3, <2>4, <2>6
<1>8. /\ VolOK(new.v) /\ new.v.ct = v.ct /\ new.v.mode = v.mode
      /\ new.v.nlink = v.nlink /\ new.v.used = v.used \cup {i}
  BY <1>1, <1>2 DEF Numbered
<1> QED  BY <1>1, <1>2, <1>3, <1>4, <1>5, <1>7, <1>8 DEF Fresh

(* Nothing has changed but that which is no part of the graph.             *)
LEMMA SameExact ==
    ASSUME NEW v, Exact(v), NEW x, Arcs(x) = Arcs(v), DirsOf(x) = DirsOf(v),
           x.nlink = v.nlink, x.used = v.used, Census(DirsOf(v), v.used, x.cg)
    PROVE  Exact(x)
  BY DEF Exact

(* An inode that was taken goes back, no name of it having been made.      *)
LEMMA BackExact ==
    ASSUME NEW v, VolOK(v), Exact(v), NEW k, NEW w, NEW i, Fresh(v, w, i, k),
           NEW y, Shape(y), y.used = w.used, y.cg = w.cg,
           \/ y.mode[i] # "dir" /\ DirsOf(y) = DirsOf(v)
           \/ y.mode[i] = "dir" /\ DirsOf(y) = DirsOf(v) \cup {i} /\ k = 1,
           {t \in Arcs(y) : t[1] # i} = Arcs(v),
           [y.nlink EXCEPT ![i] = 0] = v.nlink
    PROVE  /\ Exact(inum_free(y, i)) /\ inum_free(y, i).used = v.used
           /\ Arcs(inum_free(y, i)) = Arcs(v)
<1>1. PICK x : x = inum_free(y, i)
  OBVIOUS
<1>2. i \in Inum /\ i \notin v.used /\ v.mode[i] # "dir" /\ y.used = v.used \cup {i}
  BY DEF Fresh
<1>3. Aside(y, x, i) /\ x.mode[i] = "none"
  BY <1>1, <1>2, FreeIs
<1>4. Arcs(x) = Arcs(v) /\ DirsOf(x) = DirsOf(v)
  <2>1. i \notin DirsOf(v)
    BY <1>2 DEF DirsOf
  <2>2. Arcs(x) = {t \in Arcs(y) : t[1] # i} /\ DirsOf(x) = DirsOf(y) \ {i}
    BY <1>2, <1>3, AsideArcs
  <2> QED  BY <2>1, <2>2
<1>5. PICK c : /\ x.nlink = [y.nlink EXCEPT ![i] = 0] /\ x.used = y.used \ {i}
               /\ x.cg = [y.cg EXCEPT ![itog(i)] = c]
               /\ c.nifree = y.cg[itog(i)].nifree + 1
               /\ c.ndir = IF y.mode[i] = "dir" THEN y.cg[itog(i)].ndir - 1
                           ELSE y.cg[itog(i)].ndir
  <2>1. Freed(y, x, i)
    BY <1>1, <1>2, FreeFields
  <2> QED  BY <2>1 DEF Freed
<1>6. x.used = v.used
  BY <1>2, <1>5
<1>7. Census(DirsOf(v), v.used, x.cg)
  <2>1. PICK D : D = DirsOf(y)
    OBVIOUS
  <2>2. D \subseteq Inum /\ (i \in D <=> y.mode[i] = "dir") /\ D \ {i} = DirsOf(v)
    BY <1>2, <2>1 DEF DirsOf
  <2>3. Census(D, y.used, y.cg)
    BY <1>2, <2>1 DEF Fresh
  <2>4. y.cg \in [Group -> CensusRecord]
    BY DEF Shape, CensusRecord
  <2>5. i \in y.used
    BY <1>2
  <2>6. c.ndir = IF i \in D THEN y.cg[itog(i)].ndir - 1 ELSE y.cg[itog(i)].ndir
    BY <1>5, <2>2
  <2>7. Census(D \ {i}, y.used \ {i}, x.cg)
    BY <1>2, <1>5, <2>2, <2>3, <2>4, <2>5, <2>6, CensusFree
  <2> QED  BY <1>5, <1>6, <2>2, <2>7
<1>8. x.nlink = v.nlink
  BY <1>5
<1>9. Exact(x)
  BY <1>4, <1>6, <1>7, <1>8, SameExact
<1> QED  BY <1>1, <1>4, <1>6, <1>9

LEMMA FreshBack ==
    ASSUME NEW v, VolOK(v), Exact(v), NEW k, NEW w, NEW i, Fresh(v, w, i, k)
    PROVE  /\ Exact(inum_free(w, i)) /\ inum_free(w, i).used = v.used
           /\ Arcs(inum_free(w, i)) = Arcs(v)
<1>1. /\ Shape(w) /\ w.mode[i] # "dir" /\ i \in Inum /\ v.mode[i] # "dir"
      /\ w.nlink = v.nlink /\ v.nlink[i] = 0
  BY DEF Fresh, VolOK
<1>2. Arcs(w) = Arcs(v) /\ DirsOf(w) = DirsOf(v)
  BY SameArcs DEF Fresh
<1>3. {t \in Arcs(w) : t[1] # i} = Arcs(v)
  BY <1>1, <1>2 DEF Arcs
<1>4. [w.nlink EXCEPT ![i] = 0] = v.nlink
  <2>1. v.nlink \in [Inum -> Nat]
    BY DEF Exact, Tallied
  <2> QED  BY <1>1, <2>1
<1> QED  BY <1>1, <1>2, <1>3, <1>4, BackExact

LEMMA MadeExact ==
    ASSUME NEW v, VolOK(v), Exact(v), NEW p \in Inum, v.mode[p] = "dir",
           NEW w, NEW i, Fresh(v, w, i, 0), NEW y, NEW at, NEW n,
           Created(w, y, p, at, n, i), NEW type, type \in {"file", "link"}
    PROVE  /\ Exact(inum_sane(y, i, type))
           /\ inum_sane(y, i, type).used = v.used \cup {i}
           /\ Arcs(v) \subseteq Arcs(inum_sane(y, i, type))
<1>1. PICK D : D = DirsOf(v)
  OBVIOUS
<1>2. PICK E : E = Arcs(v)
  OBVIOUS
<1>3. PICK L : L = v.nlink
  OBVIOUS
<1>4. Rooted(D, E) /\ Tallied(E, L) /\ Named(E, v.used)
  BY <1>1, <1>2, <1>3 DEF Exact
<1>5. /\ i \in Inum \ {0} /\ i > 1 /\ i \notin v.used /\ i \notin D /\ L[i] = 0
      /\ VolOK(w) /\ w.mode[p] = "dir" /\ w.used = v.used \cup {i}
      /\ Arcs(w) = E /\ DirsOf(w) = D /\ w.nlink = L
      /\ Census(D, v.used \cup {i}, w.cg)
  BY <1>1, <1>2, <1>3, SameArcs DEF Fresh, DirsOf
<1>6. PICK a : a = <<p, at, i>>
  OBVIOUS
<1>7. /\ Arcs(y) = E \cup {a}
      /\ at \in Nat \ {0, 3} /\ \A t \in E : ~(t[1] = p /\ t[2] = at)
      /\ DirsOf(y) = D /\ y.nlink = L /\ y.used = w.used /\ y.cg = w.cg
  BY <1>5, <1>6, CreatedArcs
<1>8. p \in D
  BY <1>1 DEF DirsOf
<1>9. a \in Arc /\ a[1] = p /\ a[2] = at /\ a[3] = i /\ a \notin E
  <2>1. a \in Arc /\ a[1] = p /\ a[2] = at /\ a[3] = i
    BY <1>5, <1>6, <1>7 DEF Arc
  <2> QED  BY <1>7, <2>1
<1>10. PICK x : x = inum_sane(y, i, type)
  OBVIOUS
<1>11. Shape(y)
  BY DEF Created, DirSet
<1>12. Aside(y, x, i) /\ x.mode[i] # "dir"
  <2>1. type \in {"dir", "file", "link"} /\ type # "dir"
    OBVIOUS
  <2> QED  BY <1>5, <1>10, <1>11, <2>1, SaneIs
<1>13. /\ x.nlink = [L EXCEPT ![i] = 1] /\ x.used = w.used /\ x.cg = w.cg
  <2>1. type # "dir"
    OBVIOUS
  <2> QED  BY <1>5, <1>7, <1>10, <1>11, <2>1, SaneFields
<1>14. Arcs(x) = E \cup {a} /\ DirsOf(x) = D
  <2>1. /\ Arcs(x) = {t \in Arcs(y) : t[1] # i}
        /\ DirsOf(x) = DirsOf(y) \ {i}
    BY <1>5, <1>12, AsideArcs
  <2>2. \A t \in E \cup {a} : t[1] # i
    BY <1>4, <1>5, <1>8, <1>9 DEF Rooted
  <2> QED  BY <1>5, <1>7, <2>1, <2>2
<1>15. Rooted(D, E \cup {a})
  BY <1>4, <1>5, <1>6, <1>7, <1>8, RootedLink
<1>16. Tallied(E \cup {a}, x.nlink)
  <2>1. Tallied(E \cup {a}, [L EXCEPT ![i] = @ + 1])
    BY <1>4, <1>9, TallyAdd
  <2>2. [L EXCEPT ![i] = @ + 1] = [L EXCEPT ![i] = 1]
    BY <1>5
  <2> QED  BY <1>13, <2>1, <2>2
<1>17. Named(E \cup {a}, v.used \cup {i})
  BY <1>4, <1>9, NamedAdd
<1>18. Exact(x)
  BY <1>5, <1>13, <1>14, <1>15, <1>16, <1>17 DEF Exact
<1> QED  BY <1>2, <1>5, <1>10, <1>13, <1>14, <1>18

LEMMA PCreateObjectLinks ==
    ASSUME Inv, Links, NEW p \in Dirs, NEW n \in Name, NEW type,
           type \in {"file", "link"}, NEW more, PCreateObject(p, n, type, more)
    PROVE  Links'
<1>1. /\ p \in Inum /\ Volume.mode[p] = "dir" /\ VolOK(Volume)
      /\ Exact(Volume) /\ Volume.used = used
  BY DirIs, VolumeIs DEF Inv, Links
<1>2. SUFFICES \E x : /\ Become(x) /\ Exact(x) /\ used \subseteq x.used
                      /\ Arcs(Volume) \subseteq Arcs(x)
  <2>1. UNCHANGED <<lock, stray>>
    BY DEF PCreateObject
  <2> QED  BY <1>2, <2>1, GrownLinks
<1>3. PICK new : new = inum_new(Volume, p, FALSE, Group)
  OBVIOUS
<1>4. Numbered(Volume, new, 0)
  <2>1. PICK isdir \in BOOLEAN : isdir = FALSE
    OBVIOUS
  <2>2. PICK k : k = IF isdir THEN 1 ELSE 0
    OBVIOUS
  <2>3. Numbered(Volume, inum_new(Volume, p, isdir, Group), k)
    BY <1>1, <2>2, NewIs
  <2>4. k = 0
    BY <2>1, <2>2
  <2> QED  BY <1>3, <2>1, <2>3, <2>4
<1>5. PICK made : made = dir_create(new.v, p, n, new.got, more)
  OBVIOUS
<1>6. CASE new.got = 0
  <2>1. Become(new.v)
    BY <1>3, <1>5, <1>6 DEF PCreateObject
  <2>2. /\ new.v.ct = Volume.ct /\ new.v.mode = Volume.mode
        /\ new.v.nlink = Volume.nlink /\ new.v.used = Volume.used
        /\ new.v.cg = Volume.cg
    BY <1>4, <1>6 DEF Numbered
  <2>3. Exact(new.v) /\ Arcs(new.v) = Arcs(Volume)
    BY <1>1, <2>2, SameArcs, SameExact DEF Exact
  <2> QED  BY <1>1, <2>1, <2>2, <2>3
<1>7. CASE new.got # 0
  <2>1. PICK i : i = new.got
    OBVIOUS
  <2>2. Fresh(Volume, new.v, i, 0)
    BY <1>1, <1>4, <1>7, <2>1, FreshIs
  <2>3. /\ i \in Inum /\ VolOK(new.v) /\ new.v.mode[p] = "dir"
        /\ new.v.used = Volume.used \cup {i} /\ i \notin Volume.used
    BY <1>1, <2>2 DEF Fresh
  <2>4. \/ made.ok = FALSE /\ made.v = new.v
        \/ made.ok = TRUE /\ Created(new.v, made.v, p, made.at, n, i)
    <3>1. Entered(new.v, made, p, n, i)
      BY <1>1, <1>5, <2>1, <2>3, CreateStep
    <3> QED  BY <3>1 DEF Entered
  <2>5. CASE made.ok = TRUE
    <3>1. PICK x : x = inum_sane(made.v, i, type)
      OBVIOUS
    <3>2. Become(x)
      BY <1>3, <1>5, <1>7, <2>1, <2>5, <3>1 DEF PCreateObject
    <3>3. Exact(x) /\ x.used = Volume.used \cup {i} /\ Arcs(Volume) \subseteq Arcs(x)
      BY <1>1, <2>2, <2>4, <2>5, <3>1, MadeExact
    <3> QED  BY <1>1, <3>2, <3>3
  <2>6. CASE made.ok = FALSE
    <3>1. PICK x : x = inum_free(new.v, i)
      OBVIOUS
    <3>2. made.v = new.v
      BY <2>4, <2>6
    <3>3. Become(x)
      BY <1>3, <1>5, <1>7, <2>1, <2>6, <3>1, <3>2 DEF PCreateObject
    <3>4. Exact(x) /\ x.used = Volume.used /\ Arcs(x) = Arcs(Volume)
      BY <1>1, <2>2, <3>1, FreshBack
    <3> QED  BY <1>1, <3>3, <3>4
  <2> QED  BY <2>4, <2>5, <2>6
<1> QED  BY <1>6, <1>7

-----------------------------------------------------------------------------
(* The name of a new directory is made, and inum_sane() has seen it: all   *)
(* but its first entries, and the count of its parent's.                   *)
Begun(v, w, i, p, at, u) ==
    LET a == <<p, at, i>>
    IN  /\ Shape(u) /\ u.mode[i] = "dir" /\ u.ct[i] = <<>>
        /\ u.mode[p] = "dir" /\ DirOK(u.ct[p]) /\ at \in DOMAIN u.ct[p]
        /\ u.ct[p][at].ino = i
        /\ at \in Nat \ {0, 3} /\ \A t \in Arcs(v) : ~(t[1] = p /\ t[2] = at)
        /\ Arcs(u) = Arcs(v) \cup {a} /\ DirsOf(u) = DirsOf(v) \cup {i}
        /\ u.nlink = [v.nlink EXCEPT ![i] = 2]
        /\ u.used = w.used /\ u.cg = w.cg

LEMMA BegunIs ==
    ASSUME NEW v, VolOK(v), Exact(v), NEW p \in Inum, v.mode[p] = "dir",
           NEW k, NEW w, NEW i, Fresh(v, w, i, k), NEW y, NEW at, NEW n,
           Created(w, y, p, at, n, i)
    PROVE  Begun(v, w, i, p, at, inum_sane(y, i, "dir"))
<1>1. PICK D : D = DirsOf(v)
  OBVIOUS
<1>2. PICK E : E = Arcs(v)
  OBVIOUS
<1>3. PICK L : L = v.nlink
  OBVIOUS
<1>4. Rooted(D, E)
  BY <1>1, <1>2 DEF Exact
<1>5. /\ i \in Inum \ {0} /\ i \notin D
      /\ VolOK(w) /\ w.mode[p] = "dir"
      /\ Arcs(w) = E /\ DirsOf(w) = D /\ w.nlink = L
  BY <1>1, <1>2, <1>3, SameArcs DEF Fresh, DirsOf
<1>6. PICK a : a = <<p, at, i>>
  OBVIOUS
<1>7. /\ Arcs(y) = E \cup {a}
      /\ at \in Nat \ {0, 3} /\ \A t \in E : ~(t[1] = p /\ t[2] = at)
      /\ DirsOf(y) = D /\ y.nlink = L /\ y.used = w.used /\ y.cg = w.cg
  BY <1>5, <1>6, CreatedArcs
<1>8. p \in D /\ a[1] = p /\ p # i
  BY <1>1, <1>5, <1>6 DEF DirsOf
<1>9. PICK x : x = inum_sane(y, i, "dir")
  OBVIOUS
<1>10. Shape(y)
  BY DEF Created, DirSet
<1>11. Aside(y, x, i) /\ x.mode[i] = "dir"
  BY <1>5, <1>9, <1>10, SaneIs
<1>12. x.nlink = [L EXCEPT ![i] = 2] /\ x.used = w.used /\ x.cg = w.cg
  BY <1>5, <1>7, <1>9, <1>10, SaneFields
<1>13. Arcs(x) = E \cup {a} /\ DirsOf(x) = D \cup {i}
  <2>1. /\ Arcs(x) = {t \in Arcs(y) : t[1] # i}
        /\ DirsOf(x) = DirsOf(y) \cup {i}
    BY <1>5, <1>11, AsideArcs
  <2>2. \A t \in E \cup {a} : t[1] # i
    BY <1>4, <1>5, <1>8 DEF Rooted
  <2> QED  BY <1>7, <2>1, <2>2
<1>14. Shape(x) /\ x.ct[i] = <<>> /\ x.ct[p] = y.ct[p] /\ x.mode[p] = y.mode[p]
  BY <1>8, <1>11 DEF Aside
<1>15. DirOK(y.ct[p]) /\ at \in DOMAIN y.ct[p] /\ y.ct[p][at].ino = i /\ y.mode[p] = "dir"
  <2>1. PICK d : DirOK(d) /\ Grown(w.ct[p], d, at, n, i) /\ DirSet(w, y, p, d)
    BY DEF Created
  <2> QED  BY <1>5, <2>1 DEF Grown, DirSet
<1>16. Begun(v, w, i, p, at, x)
  BY <1>1, <1>2, <1>3, <1>6, <1>7, <1>11, <1>12, <1>13, <1>14, <1>15 DEF Begun
<1> QED  BY <1>9, <1>16

(* Only a count of links has gone up.                                      *)
OneMore(v, x, p) == Counted(v, x) /\ x.nlink = [v.nlink EXCEPT ![p] = @ + 1]

LEMMA MkdirExact ==
    ASSUME NEW v, VolOK(v), Exact(v), NEW p \in Inum, v.mode[p] = "dir",
           NEW w, NEW i, Fresh(v, w, i, 1), NEW at, NEW u,
           Begun(v, w, i, p, at, u), NEW y, DotsIn(u, y, i, p),
           NEW x, OneMore(y, x, p)
    PROVE  Exact(x) /\ x.used = v.used \cup {i} /\ Arcs(v) \subseteq Arcs(x)
<1>1. PICK D : D = DirsOf(v)
  OBVIOUS
<1>2. PICK E : E = Arcs(v)
  OBVIOUS
<1>3. PICK L : L = v.nlink
  OBVIOUS
<1>4. Rooted(D, E) /\ Tallied(E, L) /\ Named(E, v.used)
  BY <1>1, <1>2, <1>3 DEF Exact
<1>5. /\ i \in Inum \ {0} /\ i > 1 /\ i \notin v.used /\ i \notin D /\ L[i] = 0
      /\ To(E, i) = {} /\ w.used = v.used \cup {i}
      /\ Census(D \cup {i}, v.used \cup {i}, w.cg)
  BY <1>1, <1>2, <1>3 DEF Fresh, DirsOf
<1>6. p \in D /\ p # 0 /\ p \in v.used /\ p # i
  BY <1>1, <1>5, DirUsed DEF DirsOf
<1>7. PICK a : a = <<p, at, i>>
  OBVIOUS
<1>8. PICK b : b = <<i, 0, i>>
  OBVIOUS
<1>9. PICK c : c = <<i, 3, p>>
  OBVIOUS
<1>10. /\ at \in Nat \ {0, 3} /\ \A t \in E : ~(t[1] = p /\ t[2] = at)
       /\ Arcs(u) = E \cup {a} /\ DirsOf(u) = D \cup {i}
       /\ u.nlink = [L EXCEPT ![i] = 2] /\ u.used = w.used /\ u.cg = w.cg
       /\ Shape(u) /\ u.mode[i] = "dir" /\ u.ct[i] = <<>>
  BY <1>1, <1>2, <1>3, <1>7 DEF Begun
<1>11. /\ a[1] = p /\ a[2] = at /\ a[3] = i /\ a \in Arc
       /\ b[1] = i /\ b[2] = 0 /\ b[3] = i /\ b \in Arc
       /\ c[1] = i /\ c[2] = 3 /\ c[3] = p /\ c \in Arc
  BY <1>5, <1>6, <1>7, <1>8, <1>9, <1>10 DEF Arc
<1>12. /\ Arcs(y) = Arcs(u) \cup {b, c} /\ DirsOf(y) = DirsOf(u)
       /\ y.nlink = u.nlink /\ y.used = u.used /\ y.cg = u.cg
  <2>1. i \in Inum \ {0} /\ p \in Inum \ {0}
    BY <1>5, <1>6
  <2> QED  BY <1>8, <1>9, <1>10, <2>1, TwoArcs
<1>13. PICK E1 : E1 = E \cup {a}
  OBVIOUS
<1>14. PICK E2 : E2 = E1 \cup {b}
  OBVIOUS
<1>15. PICK E3 : E3 = E2 \cup {c}
  OBVIOUS
<1>16. /\ x.ct = y.ct /\ x.mode = y.mode /\ x.used = y.used
       /\ x.cg = y.cg /\ x.nlink = [y.nlink EXCEPT ![p] = @ + 1]
  BY DEF OneMore, Counted
<1>17. E3 = E \cup {a, b, c} /\ Arcs(x) = E3 /\ DirsOf(x) = D \cup {i}
  BY <1>10, <1>12, <1>13, <1>14, <1>15, <1>16, SameArcs
<1>18. a \notin E /\ b \notin E1 /\ c \notin E2
  <2>1. \A t \in E : t[1] # i
    BY <1>4, <1>5 DEF Rooted
  <2>2. a # b /\ a # c /\ b # c
    BY <1>6, <1>11
  <2> QED  BY <1>10, <1>11, <1>13, <1>14, <2>1, <2>2
<1>19. Rooted(D \cup {i}, E3)
  BY <1>4, <1>5, <1>6, <1>7, <1>8, <1>9, <1>10, <1>17, RootedMkdir
<1>20. Tallied(E3, x.nlink)
  <2>1. PICK L1 : L1 = [L EXCEPT ![a[3]] = @ + 1]
    OBVIOUS
  <2>2. PICK L2 : L2 = [L1 EXCEPT ![b[3]] = @ + 1]
    OBVIOUS
  <2>3. PICK L3 : L3 = [L2 EXCEPT ![c[3]] = @ + 1]
    OBVIOUS
  <2>4. Tallied(E1, L1)
    BY <1>4, <1>11, <1>13, <1>18, <2>1, TallyAdd
  <2>5. Tallied(E2, L2)
    BY <1>11, <1>14, <1>18, <2>2, <2>4, TallyAdd
  <2>6. Tallied(E3, L3)
    BY <1>11, <1>15, <1>18, <2>3, <2>5, TallyAdd
  <2>7. L2 = [L EXCEPT ![i] = 2]
    BY <1>4, <1>5, <1>11, <2>1, <2>2 DEF Tallied
  <2>8. x.nlink = L3
    BY <1>10, <1>11, <1>12, <1>16, <2>3, <2>7
  <2> QED  BY <2>6, <2>8
<1>21. Named(E3, v.used \cup {i})
  <2>1. Named(E1, v.used \cup {i})
    BY <1>4, <1>11, <1>13, NamedAdd
  <2>2. Named(E2, v.used \cup {i})
    BY <1>11, <1>14, <2>1, NamedAdd
  <2> QED  BY <1>6, <1>11, <1>15, <2>2, NamedAdd
<1>22. x.used = v.used \cup {i} /\ x.cg = w.cg
  BY <1>5, <1>10, <1>12, <1>16
<1> QED  BY <1>2, <1>5, <1>17, <1>19, <1>20, <1>21, <1>22 DEF Exact

LEMMA BegunBack ==
    ASSUME NEW v, VolOK(v), Exact(v), NEW p \in Inum, v.mode[p] = "dir",
           NEW w, NEW i, Fresh(v, w, i, 1), NEW at, NEW u,
           Begun(v, w, i, p, at, u), NEW y, Deleted(u, y, p, at)
    PROVE  /\ Exact(inum_free(y, i)) /\ inum_free(y, i).used = v.used
           /\ Arcs(inum_free(y, i)) = Arcs(v)
<1>1. PICK E : E = Arcs(v)
  OBVIOUS
<1>2. PICK a : a = <<p, at, i>>
  OBVIOUS
<1>3. /\ \A t \in E : ~(t[1] = p /\ t[2] = at)
      /\ Arcs(u) = E \cup {a} /\ DirsOf(u) = DirsOf(v) \cup {i}
      /\ u.nlink = [v.nlink EXCEPT ![i] = 2] /\ u.used = w.used /\ u.cg = w.cg
      /\ u.mode[p] = "dir" /\ DirOK(u.ct[p]) /\ at \in DOMAIN u.ct[p]
      /\ u.ct[p][at].ino = i /\ u.mode[i] = "dir"
  BY <1>1, <1>2 DEF Begun
<1>4. i \in Inum /\ i # 0 /\ i \notin DirsOf(v) /\ v.nlink[i] = 0
  BY DEF Fresh, DirsOf
<1>5. /\ Arcs(y) = Arcs(u) \ {a} /\ DirsOf(y) = DirsOf(u)
      /\ y.nlink = u.nlink /\ y.used = u.used /\ y.cg = u.cg
  BY <1>2, <1>3, <1>4, DeletedArcs
<1>6. Shape(y) /\ y.mode = u.mode
  BY DEF Deleted, DirSet
<1>7. a[1] = p /\ a[2] = at
  BY <1>2
<1>8. Arcs(y) = E
  BY <1>3, <1>5, <1>7
<1>9. {t \in Arcs(y) : t[1] # i} = Arcs(v)
  <2>1. \A t \in E : t[1] # i
    BY <1>1, <1>4 DEF Exact, Rooted
  <2> QED  BY <1>1, <1>8, <2>1
<1>10. [y.nlink EXCEPT ![i] = 0] = v.nlink
  <2>1. v.nlink \in [Inum -> Nat]
    BY DEF Exact, Tallied
  <2> QED  BY <1>3, <1>4, <1>5, <2>1
<1>11. y.mode[i] = "dir" /\ DirsOf(y) = DirsOf(v) \cup {i}
  BY <1>3, <1>5, <1>6
<1>12. y.used = w.used /\ y.cg = w.cg
  BY <1>3, <1>5
<1>13. PICK k : k = 1
  OBVIOUS
<1>14. Fresh(v, w, i, k)
  BY <1>13
<1> QED  BY <1>6, <1>9, <1>10, <1>11, <1>12, <1>13, <1>14, BackExact

LEMMA PCreateDirLinks ==
    ASSUME Inv, Links, NEW p \in Dirs, NEW n \in Name, NEW roomy \in SUBSET Group,
           NEW more1 \in BOOLEAN, NEW more2 \in BOOLEAN,
           PCreateDir(p, n, roomy, more1, more2)
    PROVE  Links'
<1>1. /\ p \in Inum /\ Volume.mode[p] = "dir" /\ VolOK(Volume)
      /\ Exact(Volume) /\ Volume.used = used
  BY DirIs, VolumeIs DEF Inv, Links
<1>2. SUFFICES \E x : /\ Become(x) /\ Exact(x) /\ used \subseteq x.used
                      /\ Arcs(Volume) \subseteq Arcs(x)
  <2>1. UNCHANGED <<lock, stray>>
    BY DEF PCreateDir
  <2> QED  BY <1>2, <2>1, GrownLinks
<1>3. PICK new : new = inum_new(Volume, p, TRUE, roomy)
  OBVIOUS
<1>4. PICK made : made = dir_create(new.v, p, n, new.got, more1)
  OBVIOUS
<1>5. PICK dot : dot = dir_create(inum_sane(made.v, new.got, "dir"), new.got, Dot, new.got, more2)
  OBVIOUS
<1>6. PICK dots : dots = dir_create(dot.v, new.got, DotDot, p, more2)
  OBVIOUS
<1>7. PICK check \in BOOLEAN : check = FALSE
  OBVIOUS
<1>8. PICK x : x = NewDir(p, new, made, dots)
  OBVIOUS
<1>9. Become(x)
  BY <1>3, <1>4, <1>5, <1>6, <1>8, Zenon DEF PCreateDir
<1>10. Numbered(Volume, new, 1)
  <2>1. PICK isdir \in BOOLEAN : isdir = TRUE
    OBVIOUS
  <2>2. PICK k : k = IF isdir THEN 1 ELSE 0
    OBVIOUS
  <2>3. Numbered(Volume, inum_new(Volume, p, isdir, roomy), k)
    BY <1>1, <2>2, NewIs
  <2>4. k = 1
    BY <2>1, <2>2
  <2> QED  BY <1>3, <2>1, <2>3, <2>4
<1>11. CASE new.got = 0
  <2>1. x = new.v
    BY <1>8, <1>11 DEF NewDir
  <2>2. /\ x.ct = Volume.ct /\ x.mode = Volume.mode
        /\ x.nlink = Volume.nlink /\ x.used = Volume.used
        /\ x.cg = Volume.cg
    BY <1>10, <1>11, <2>1 DEF Numbered
  <2>3. Exact(x) /\ Arcs(x) = Arcs(Volume)
    BY <1>1, <2>2, SameArcs, SameExact DEF Exact
  <2> QED  BY <1>1, <1>9, <2>2, <2>3
<1>12. CASE new.got # 0
  <2>1. PICK i : i = new.got
    OBVIOUS
  <2>2. PICK k \in {0, 1} : k = 1
    OBVIOUS
  <2>3. Fresh(Volume, new.v, i, k)
    BY <1>1, <1>10, <1>12, <2>1, <2>2, FreshIs
  <2>4. /\ i \in Inum \ {0} /\ VolOK(new.v) /\ new.v.mode[p] = "dir"
        /\ new.v.used = Volume.used \cup {i} /\ i \notin Volume.used
    BY <1>1, <2>3 DEF Fresh
  <2>5. \/ made.ok = FALSE /\ made.v = new.v
        \/ made.ok = TRUE /\ Created(new.v, made.v, p, made.at, n, i)
    <3>1. Entered(new.v, made, p, n, i)
      BY <1>1, <1>4, <2>1, <2>4, CreateStep
    <3> QED  BY <3>1 DEF Entered
  <2>6. CASE made.ok = FALSE
    <3>1. x = inum_free(new.v, i)
      BY <1>8, <1>12, <2>1, <2>5, <2>6 DEF NewDir
    <3>2. Exact(x) /\ x.used = Volume.used /\ Arcs(x) = Arcs(Volume)
      BY <1>1, <2>3, <3>1, FreshBack
    <3> QED  BY <1>1, <1>9, <3>2
  <2>7. CASE made.ok = TRUE
    <3>1. PICK u : u = inum_sane(made.v, i, "dir")
      OBVIOUS
    <3>2. Begun(Volume, new.v, i, p, made.at, u)
      BY <1>1, <2>3, <2>5, <2>7, <3>1, BegunIs
    <3>3. /\ Shape(u) /\ u.mode[i] = "dir" /\ u.ct[i] = <<>>
          /\ u.mode[p] = "dir" /\ DirOK(u.ct[p])
          /\ made.at \in DOMAIN u.ct[p] \ {0, 3} /\ u.ct[p][made.at].ino = i
      BY <3>2 DEF Begun
    <3>4. FirstTwo(u, dots, i, p)
      <4>1. dot = dir_create(u, i, Dot, i, more2)
        BY <1>5, <2>1, <3>1
      <4>2. dots = dir_create(dot.v, i, DotDot, p, more2)
        BY <1>6, <2>1
      <4>3. i \in Inum
        BY <2>4
      <4>4. FirstTwo(u, dir_create(dot.v, i, DotDot, p, more2), i, p)
        BY <1>1, <3>3, <4>1, <4>3, DotsMade, Zenon
      <4> QED  BY <4>2, <4>4
    <3>5. CASE dots.ok = TRUE
      <4>1. dots.at = 3
        BY <3>4, <3>5 DEF FirstTwo
      <4>2. x = [dots.v EXCEPT !.nlink[p] = @ + 1]
        <5>1. dots.at # 0
          BY <4>1
        <5> QED  BY <1>8, <1>12, <2>7, <3>5, <5>1, Zenon DEF NewDir
      <4>3. PICK z : z = [dots.v.nlink EXCEPT ![p] = @ + 1]
        OBVIOUS
      <4>4. x = [dots.v EXCEPT !.nlink = z]
        BY <4>2, <4>3
      <4>5. Shape(dots.v)
        BY <3>4, <3>5 DEF FirstTwo, DirSet
      <4>6. Counted(dots.v, x) /\ x.nlink = z
        <5>1. x.nlink = z
          BY <4>4, <4>5 DEF Shape
        <5> QED  BY <4>4, <4>5, <5>1, CountIs
      <4>7. Exact(x) /\ x.used = Volume.used \cup {i} /\ Arcs(Volume) \subseteq Arcs(x)
        <5>1. Fresh(Volume, new.v, i, 1)
          BY <2>2, <2>3
        <5>2. OneMore(dots.v, x, p)
          BY <4>3, <4>6 DEF OneMore
        <5>3. DotsIn(u, dots.v, i, p)
          BY <3>4, <3>5 DEF FirstTwo, DotsIn
        <5> QED  BY <1>1, <3>2, <5>1, <5>2, <5>3, MkdirExact
      <4> QED  BY <1>1, <1>9, <4>7
    <3>6. CASE dots.ok = FALSE
      <4>1. dots.v = u
        BY <3>4, <3>6 DEF FirstTwo
      <4>2. PICK t : t = dir_offset_delete(u, p, made.at, check)
        OBVIOUS
      <4>3. Deleted(u, t.v, p, made.at)
        <5>1. LET r == dir_offset_delete(u, p, made.at, check)
              IN  \/ check /\ r.inum = 0 /\ r.v = u
                  \/ r.inum = u.ct[p][made.at].ino /\ Deleted(u, r.v, p, made.at)
          BY <1>1, <3>3, Deletes
        <5> QED  BY <1>7, <4>2, <5>1, Zenon
      <4>4. x = inum_free(t.v, i)
        <5>1. t = dir_offset_delete(dots.v, p, made.at, FALSE)
          BY <1>7, <4>1, <4>2, Zenon
        <5> QED  BY <1>8, <1>12, <2>1, <2>7, <3>6, <5>1 DEF NewDir
      <4>5. Exact(x) /\ x.used = Volume.used /\ Arcs(x) = Arcs(Volume)
        BY <1>1, <2>2, <2>3, <3>2, <4>3, <4>4, BegunBack
      <4> QED  BY <1>1, <1>9, <4>5
    <3> QED  BY <3>4, <3>5, <3>6 DEF FirstTwo
  <2> QED  BY <2>5, <2>6, <2>7
<1> QED  BY <1>11, <1>12

-----------------------------------------------------------------------------
(* A name goes of what is no directory, and with the last one the inode.   *)
LEMMA UnlinkExact ==
    ASSUME NEW v, VolOK(v), Exact(v), NEW p \in Inum, v.mode[p] = "dir",
           NEW o \in DOMAIN v.ct[p] \ {0, 3}, NEW i, i = v.ct[p][o].ino, i > 1,
           i # 0, v.mode[i] # "dir", NEW y, Deleted(v, y, p, o)
    PROVE  /\ Exact(Unlinked(y, p, i))
           /\ v.used \ {i} \subseteq Unlinked(y, p, i).used
           /\ Kept(Arcs(v), Arcs(Unlinked(y, p, i)), i)
<1>1. PICK D : D = DirsOf(v)
  OBVIOUS
<1>2. PICK E : E = Arcs(v)
  OBVIOUS
<1>3. PICK L : L = v.nlink
  OBVIOUS
<1>4. Rooted(D, E) /\ Tallied(E, L) /\ Named(E, v.used) /\ Census(D, v.used, v.cg)
  BY <1>1, <1>2, <1>3 DEF Exact
<1>5. PICK a \in E : a = <<p, o, i>> /\ a[1] = p /\ a[2] = o /\ a[3] = i
  BY <1>2, EntryUsed
<1>6. i \in Inum /\ i \in v.used /\ i \notin D
  BY <1>1, EntryUsed DEF DirsOf
<1>7. PICK F : F = E \ {a}
  OBVIOUS
<1>8. /\ Arcs(y) = F /\ DirsOf(y) = D /\ y.nlink = L /\ y.used = v.used
      /\ y.cg = v.cg /\ y.mode = v.mode
  <2>1. DirOK(v.ct[p])
    BY DEF VolOK, InodeOK
  <2>2. y.mode = v.mode
    BY DEF Deleted, DirSet
  <2> QED  BY <1>1, <1>2, <1>3, <1>5, <1>7, <2>1, <2>2, DeletedArcs
<1>9. Shape(y)
  BY DEF Deleted, DirSet
<1>10. Rooted(D, F)
  BY <1>4, <1>5, <1>6, <1>7, RootedUnlink
<1>11. PICK M : M = [L EXCEPT ![a[3]] = @ - 1]
  OBVIOUS
<1>12. Tallied(F, M) /\ L[i] > 0
  BY <1>4, <1>5, <1>7, <1>11, TallyDrop
<1>13. L \in [Inum -> Nat] /\ M[i] = L[i] - 1 /\ M = [L EXCEPT ![i] = L[i] - 1]
  BY <1>4, <1>5, <1>6, <1>11 DEF Tallied
<1>14. M[i] = 0 <=> To(F, i) = {}
  BY <1>6, <1>12, ToFinite DEF Tallied
<1>15. PICK x : x = Unlinked(y, p, i)
  OBVIOUS
<1>16. PICK left : left = L[i] - 1
  OBVIOUS
<1>17. x = IF left < 1 THEN inum_free(y, i) ELSE [y EXCEPT !.nlink[i] = left]
  BY <1>8, <1>15, <1>16 DEF Unlinked
<1>18. Kept(E, F, i)
  BY <1>5, <1>7 DEF Kept
<1>19. CASE left < 1
  <2>1. x = inum_free(y, i)
    BY <1>17, <1>19
  <2>2. Aside(y, x, i) /\ x.mode[i] = "none" /\ Freed(y, x, i)
    BY <1>6, <1>9, <2>1, FreeIs, FreeFields
  <2>3. Arcs(x) = F /\ DirsOf(x) = D
    <3>1. \A t \in F : t[1] # i
      BY <1>6, <1>10 DEF Rooted
    <3>2. Arcs(x) = {t \in Arcs(y) : t[1] # i} /\ DirsOf(x) = DirsOf(y) \ {i}
      BY <1>6, <2>2, AsideArcs
    <3> QED  BY <1>6, <1>8, <3>1, <3>2
  <2>4. x.nlink = M /\ x.used = v.used \ {i}
    <3>1. L[i] \in Nat /\ left = 0
      BY <1>6, <1>12, <1>13, <1>16, <1>19
    <3> QED  BY <1>8, <1>13, <1>16, <2>2, <3>1 DEF Freed
  <2>5. Named(F, x.used)
    <3>1. To(F, i) = {}
      BY <1>6, <1>12, <1>13, <1>14, <1>16, <1>19
    <3>2. \A j \in Inum : j > 1 =>
             (j \in x.used <=> j \in v.used /\ (j = a[3] => To(E \ {a}, j) # {}))
      BY <1>5, <1>7, <2>4, <3>1
    <3> QED  BY <1>4, <1>7, <3>2, NamedDrop
  <2>6. Census(D, x.used, x.cg)
    <3>1. PICK c : /\ x.cg = [y.cg EXCEPT ![itog(i)] = c]
                   /\ c.nifree = y.cg[itog(i)].nifree + 1
                   /\ c.ndir = IF y.mode[i] = "dir" THEN y.cg[itog(i)].ndir - 1
                               ELSE y.cg[itog(i)].ndir
      BY <2>2 DEF Freed
    <3>2. /\ x.cg = [v.cg EXCEPT ![itog(i)] = c]
          /\ c.nifree = v.cg[itog(i)].nifree + 1
          /\ c.ndir = v.cg[itog(i)].ndir
      BY <1>8, <3>1
    <3>3. D \subseteq Inum /\ v.cg \in [Group -> CensusRecord]
      BY <1>1 DEF DirsOf, VolOK, Shape, CensusRecord
    <3>4. PICK C : C = v.cg
      OBVIOUS
    <3>5. c.ndir = IF i \in D THEN C[itog(i)].ndir - 1 ELSE C[itog(i)].ndir
      BY <1>6, <3>2, <3>4
    <3>6. Census(D \ {i}, v.used \ {i}, [C EXCEPT ![itog(i)] = c])
      BY <1>4, <1>6, <3>2, <3>3, <3>4, <3>5, CensusFree
    <3>7. D \ {i} = D
      BY <1>6
    <3> QED  BY <2>4, <3>2, <3>4, <3>6, <3>7
  <2>7. Exact(x)
    BY <1>10, <1>12, <2>3, <2>4, <2>5, <2>6 DEF Exact
  <2> QED  BY <1>2, <1>15, <1>18, <2>3, <2>4, <2>7
<1>20. CASE ~(left < 1)
  <2>1. PICK z : z = [y.nlink EXCEPT ![i] = left]
    OBVIOUS
  <2>2. x = [y EXCEPT !.nlink = z]
    BY <1>17, <1>20, <2>1
  <2>3. Counted(y, x) /\ x.nlink = M
    <3>1. x.nlink = z
      BY <1>9, <2>2 DEF Shape
    <3> QED  BY <1>8, <1>9, <1>13, <1>16, <2>1, <2>2, <3>1, CountIs
  <2>4. Arcs(x) = F /\ DirsOf(x) = D /\ x.used = v.used /\ x.cg = v.cg
    BY <1>8, <2>3, SameArcs DEF Counted
  <2>5. Named(F, v.used)
    <3>1. To(F, i) # {}
      BY <1>6, <1>12, <1>13, <1>14, <1>16, <1>20
    <3>2. \A j \in Inum : j > 1 =>
             (j \in v.used <=> j \in v.used /\ (j = a[3] => To(E \ {a}, j) # {}))
      BY <1>5, <1>7, <3>1
    <3> QED  BY <1>4, <1>7, <3>2, NamedDrop
  <2>6. Exact(x)
    BY <1>4, <1>10, <1>12, <2>3, <2>4, <2>5 DEF Exact
  <2> QED  BY <1>2, <1>15, <1>18, <2>4, <2>6
<1> QED  BY <1>19, <1>20

(* The name of an empty directory goes, and the directory with it.         *)
LEMMA RmdirExact ==
    ASSUME NEW v, VolOK(v), Exact(v), NEW p \in Inum, v.mode[p] = "dir",
           NEW o \in DOMAIN v.ct[p] \ {0, 3}, NEW i, i = v.ct[p][o].ino, i > 1,
           i # 0, v.mode[i] = "dir", ~dir_is_not_empty(v, i),
           NEW y, Deleted(v, y, p, o)
    PROVE  /\ Exact(Unlinked(y, p, i))
           /\ v.used \ {i} \subseteq Unlinked(y, p, i).used
           /\ Kept(Arcs(v), Arcs(Unlinked(y, p, i)), i)
<1>1. PICK D : D = DirsOf(v)
  OBVIOUS
<1>2. PICK E : E = Arcs(v)
  OBVIOUS
<1>3. PICK L : L = v.nlink
  OBVIOUS
<1>4. Rooted(D, E) /\ Tallied(E, L) /\ Named(E, v.used) /\ Census(D, v.used, v.cg)
  BY <1>1, <1>2, <1>3 DEF Exact
<1>5. PICK a \in E : a = <<p, o, i>> /\ a[1] = p /\ a[2] = o /\ a[3] = i
  BY <1>2, EntryUsed
<1>6. i \in Inum /\ i \in v.used /\ i \in D /\ p \in D
  BY <1>1, EntryUsed DEF DirsOf
<1>7. /\ Arcs(y) = E \ {a} /\ DirsOf(y) = D /\ y.nlink = L /\ y.used = v.used
      /\ y.cg = v.cg /\ y.mode = v.mode
  <2>1. DirOK(v.ct[p])
    BY DEF VolOK, InodeOK
  <2>2. y.mode = v.mode
    BY DEF Deleted, DirSet
  <2> QED  BY <1>1, <1>2, <1>3, <1>5, <2>1, <2>2, DeletedArcs
<1>8. Shape(y)
  BY DEF Deleted, DirSet
<1>9. PICK b : b = <<i, 0, i>>
  OBVIOUS
<1>10. PICK c : c = <<i, 3, p>>
  OBVIOUS
<1>11. /\ b[1] = i /\ b[2] = 0 /\ b[3] = i /\ c[1] = i /\ c[2] = 3 /\ c[3] = p
  BY <1>9, <1>10
<1>12. \A t \in E : t[1] = i => t[2] \in {0, 3}
  BY <1>1, <1>2, <1>4, <1>6, OnlyDotArcs
<1>13. /\ b \in E /\ c \in E /\ i # p /\ i # ROOTINO
       /\ Emptied(E, i) = ((E \ {a}) \ {b}) \ {c} /\ To(E, i) = {b, a}
  BY <1>4, <1>5, <1>6, <1>9, <1>10, <1>12, EmptyDir
<1>14. PICK F : F = Emptied(E, i)
  OBVIOUS
<1>15. Rooted(D \ {i}, F)
  BY <1>4, <1>6, <1>12, <1>13, <1>14, RootedRmdir
<1>16. L \in [Inum -> Nat] /\ L[i] = 2
  <2>1. L \in [Inum -> Nat] /\ L[i] = Cardinality({b, a})
    BY <1>4, <1>6, <1>13 DEF Tallied
  <2>2. a # b /\ {b, a} = {b} \cup {a}
    BY <1>5, <1>11, <1>13
  <2>3. IsFiniteSet({b}) /\ Cardinality({b}) = 1
    BY FS_Singleton
  <2>4. Cardinality({b} \cup {a}) = 2
    <3>1. PICK S : S = {b} /\ IsFiniteSet(S) /\ Cardinality(S) = 1 /\ a \notin S
      BY <2>2, <2>3
    <3>2. Cardinality(S \cup {a}) = Cardinality(S) + 1
      BY <3>1, FS_AddElement
    <3> QED  BY <3>1, <3>2
  <2> QED  BY <2>1, <2>2, <2>4
<1>17. PICK L1 : L1 = [L EXCEPT ![a[3]] = @ - 1]
  OBVIOUS
<1>18. PICK L2 : L2 = [L1 EXCEPT ![b[3]] = @ - 1]
  OBVIOUS
<1>19. PICK L3 : L3 = [L2 EXCEPT ![c[3]] = @ - 1]
  OBVIOUS
<1>20. Tallied(F, L3)
  <2>1. Tallied(E \ {a}, L1)
    BY <1>4, <1>5, <1>17, TallyDrop
  <2>2. b # a /\ c # a /\ c # b
    BY <1>5, <1>11, <1>13
  <2>3. Tallied((E \ {a}) \ {b}, L2)
    BY <1>13, <1>18, <2>1, <2>2, TallyDrop
  <2>4. c \in (E \ {a}) \ {b}
    BY <1>13, <2>2
  <2>5. Tallied(((E \ {a}) \ {b}) \ {c}, L3)
    BY <1>19, <2>3, <2>4, TallyDrop
  <2> QED  BY <1>13, <1>14, <2>5
<1>21. PICK z : z = [L EXCEPT ![p] = @ - 1]
  OBVIOUS
<1>22. L3 = [z EXCEPT ![i] = 0]
  BY <1>5, <1>6, <1>11, <1>13, <1>16, <1>17, <1>18, <1>19, <1>21
<1>23. PICK w : w = [y EXCEPT !.nlink = z]
  OBVIOUS
<1>24. Counted(y, w) /\ w.nlink = z
  <2>1. w.nlink = z
    BY <1>8, <1>23 DEF Shape
  <2> QED  BY <1>8, <1>23, <2>1, CountIs
<1>25. PICK x : x = Unlinked(y, p, i)
  OBVIOUS
<1>26. x = inum_free(w, i)
  <2>1. y.nlink[i] - 2 < 1 /\ y.mode[i] = "dir"
    BY <1>7, <1>16
  <2>2. w = [y EXCEPT !.nlink[p] = @ - 1]
    BY <1>7, <1>21, <1>23
  <2> QED  BY <1>25, <2>1, <2>2 DEF Unlinked
<1>27. Aside(w, x, i) /\ x.mode[i] = "none" /\ Freed(w, x, i)
  BY <1>6, <1>24, <1>26, FreeIs, FreeFields DEF Counted
<1>28. Arcs(x) = F /\ DirsOf(x) = D \ {i}
  <2>1. Arcs(x) = {t \in E \ {a} : t[1] # i} /\ DirsOf(x) = D \ {i}
    <3>1. Arcs(w) = E \ {a} /\ DirsOf(w) = D
      BY <1>7, <1>24, SameArcs DEF Counted
    <3> QED  BY <1>6, <1>27, <3>1, AsideArcs
  <2>2. \A t \in E : t # a /\ t[1] # i <=> t[1] # i /\ t[3] # i
    <3>1. \A t \in E : t[3] = i <=> t = b \/ t = a
      BY <1>5, <1>11, <1>13 DEF To
    <3> QED  BY <1>11, <3>1
  <2>3. {t \in E \ {a} : t[1] # i} = {t \in E : t[1] # i /\ t[3] # i}
    BY <2>2
  <2> QED  BY <1>14, <2>1, <2>3 DEF Emptied
<1>29. x.nlink = L3 /\ x.used = v.used \ {i}
  BY <1>7, <1>22, <1>24, <1>27 DEF Freed, Counted
<1>30. Named(F, v.used \ {i})
  <2>1. SUFFICES ASSUME NEW j \in Inum, j > 1
                 PROVE  j \in v.used \ {i} <=> To(F, j) # {}
    BY DEF Named
  <2>2. CASE j = i
    BY <1>14, <2>2 DEF To, Emptied
  <2>3. CASE j = p
    <3>1. PICK d : d = <<p, 0, p>>
      OBVIOUS
    <3>2. d \in E /\ d[1] = p /\ d[3] = p
      BY <1>4, <1>6, <3>1 DEF Rooted
    <3>3. d \in To(F, p)
      BY <1>13, <1>14, <3>2 DEF To, Emptied
    <3>4. p \in v.used
      BY DirUsed
    <3> QED  BY <1>13, <2>3, <3>3, <3>4
  <2>4. CASE j # i /\ j # p
    <3>1. To(F, j) = To(E, j)
      BY <1>5, <1>11, <1>13, <1>14, <2>4 DEF To
    <3> QED  BY <1>4, <2>1, <2>4, <3>1 DEF Named
  <2> QED  BY <2>2, <2>3, <2>4
<1>31. Census(D \ {i}, v.used \ {i}, x.cg)
  <2>1. PICK e : /\ x.cg = [w.cg EXCEPT ![itog(i)] = e]
                 /\ e.nifree = w.cg[itog(i)].nifree + 1
                 /\ e.ndir = IF w.mode[i] = "dir" THEN w.cg[itog(i)].ndir - 1
                             ELSE w.cg[itog(i)].ndir
    BY <1>27 DEF Freed
  <2>2. /\ x.cg = [v.cg EXCEPT ![itog(i)] = e]
        /\ e.nifree = v.cg[itog(i)].nifree + 1
        /\ e.ndir = v.cg[itog(i)].ndir - 1
    BY <1>7, <1>24, <2>1 DEF Counted
  <2>3. D \subseteq Inum /\ v.cg \in [Group -> CensusRecord]
    BY <1>1 DEF DirsOf, VolOK, Shape, CensusRecord
  <2>4. PICK C : C = v.cg
    OBVIOUS
  <2>5. e.ndir = IF i \in D THEN C[itog(i)].ndir - 1 ELSE C[itog(i)].ndir
    BY <1>6, <2>2, <2>4
  <2>6. Census(D \ {i}, v.used \ {i}, [C EXCEPT ![itog(i)] = e])
    BY <1>4, <1>6, <2>2, <2>3, <2>4, <2>5, CensusFree
  <2> QED  BY <2>2, <2>4, <2>6
<1>32. Exact(x)
  BY <1>15, <1>20, <1>28, <1>29, <1>30, <1>31 DEF Exact
<1>33. Kept(E, F, i)
  <2>1. \A t \in E : t[1] # i /\ t[3] # i => t \in F
    BY <1>14 DEF Emptied
  <2> QED  BY <1>12, <2>1 DEF Kept
<1> QED  BY <1>2, <1>25, <1>28, <1>29, <1>32, <1>33

LEMMA PDeleteObjectLinks ==
    ASSUME Inv, Links, NEW p \in Dirs, NEW n \in Name, PDeleteObject(p, n)
    PROVE  Links'
<1>1. /\ p \in Inum /\ Volume.mode[p] = "dir" /\ VolOK(Volume)
      /\ DirOK(Volume.ct[p]) /\ Shape(Volume) /\ Exact(Volume) /\ Volume.used = used
  BY DirIs, VolumeIs DEF Inv, Links
<1>2. PICK o : o = dir_name_search(Volume, p, n)
  OBVIOUS
<1>3. PICK i : i = InumAt(Volume, p, o)
  OBVIOUS
<1>4. PICK check \in BOOLEAN : check = TRUE
  OBVIOUS
<1>5. PICK gone : gone = dir_offset_delete(Volume, p, o, check)
  OBVIOUS
<1>6. PICK x : x = IF gone.inum = 0 THEN gone.v ELSE Unlinked(gone.v, p, i)
  OBVIOUS
<1>7. i > ROOTINO /\ ~Locked(i) /\ Become(x) /\ lock' = lock /\ stray' = stray
  BY <1>2, <1>3, <1>4, <1>5, <1>6 DEF PDeleteObject
<1>8. i \in Inum /\ i > 1 /\ i # 0 /\ o # -1
  <2>1. i \in Inum
    BY <1>1, <1>2, <1>3, SearchIn
  <2>2. i \in Nat
    BY <2>1, InumNat
  <2>3. i # 0 /\ i > 1
    BY <1>7, <2>2, RootApart
  <2> QED  BY <1>3, <2>1, <2>3 DEF InumAt
<1>9. o \in DOMAIN Volume.ct[p] \ {0, 3} /\ i = Volume.ct[p][o].ino
  <2>1. o \in DOMAIN Volume.ct[p] /\ o \notin {0, 3}
    BY <1>1, <1>2, <1>8, SearchIn
  <2> QED  BY <1>3, <1>8, <2>1 DEF InumAt
<1>10. \/ gone.inum = 0 /\ gone.v = Volume
       \/ gone.inum = i /\ Deleted(Volume, gone.v, p, o)
  <2>1. LET r == dir_offset_delete(Volume, p, o, check)
        IN  \/ check /\ r.inum = 0 /\ r.v = Volume
            \/ r.inum = Volume.ct[p][o].ino /\ Deleted(Volume, r.v, p, o)
    BY <1>1, <1>9, Deletes
  <2> QED  BY <1>5, <1>9, <2>1, Zenon
<1>11. CASE gone.inum = 0
  <2>1. x = Volume
    BY <1>6, <1>8, <1>10, <1>11
  <2> QED  BY <1>1, <1>7, <2>1, GrownLinks
<1>12. CASE gone.inum # 0
  <2>1. Deleted(Volume, gone.v, p, o) /\ x = Unlinked(gone.v, p, i)
    BY <1>6, <1>10, <1>12
  <2>2. Exact(x) /\ Volume.used \ {i} \subseteq x.used /\ Kept(Arcs(Volume), Arcs(x), i)
    <3>1. CASE Volume.mode[i] # "dir"
      BY <1>1, <1>8, <1>9, <2>1, <3>1, UnlinkExact
    <3>2. CASE Volume.mode[i] = "dir"
      <4>1. ~dir_is_not_empty(Volume, Volume.ct[p][o].ino)
        BY <1>4, <1>5, <1>9, <1>12, DeletedEmpty, Zenon
      <4> QED  BY <1>1, <1>8, <1>9, <2>1, <3>2, <4>1, RmdirExact
    <3> QED  BY <3>1, <3>2
  <2>3. KeysOK(x.used, lock)
    <3>1. KeysOK(used, lock)
      BY DEF Links
    <3>2. \A j \in used : j \in x.used \/ \A l \in Lock : lock[l] # Free => lock[l].key # j
      BY <1>1, <1>7, <2>2 DEF Locked
    <3> QED  BY <3>1, <3>2, KeysKept
  <2>4. Placed(Arcs(x), lock, stray)
    <3>1. \A l \in Lock \ stray : lock[l] # Free => lock[l].key # i
      BY <1>7 DEF Locked
    <3> QED  BY <2>2, <3>1, PlacedKept DEF Links
  <2>5. Exact(Volume') /\ Arcs(Volume') = Arcs(x) /\ used' = x.used
    BY <1>7, <2>2, BecomeExact DEF Become
  <2> QED  BY <1>7, <2>3, <2>4, <2>5 DEF Links
<1> QED  BY <1>11, <1>12

-----------------------------------------------------------------------------
(* A rename: i is named at an offset in q, and no longer at o in p.        *)
Moved(E, p, o, q, at, i) == (E \cup {<<q, at, i>>}) \ {<<p, o, i>>}

Relocated(v, z, p, o, q, at, n, i) ==
    /\ VolOK(v) /\ Exact(v)
    /\ p \in Inum /\ v.mode[p] = "dir" /\ q \in Inum /\ v.mode[q] = "dir"
    /\ o \in DOMAIN v.ct[p] \ {0, 3} /\ i = v.ct[p][o].ino /\ i # 0
    /\ \E y : Created(v, y, q, at, n, i) /\ Deleted(y, z, p, o)

LEMMA MovedArcs ==
    ASSUME NEW v, NEW z, NEW p, NEW o, NEW q, NEW at, NEW n, NEW i,
           Relocated(v, z, p, o, q, at, n, i)
    PROVE  /\ Arcs(z) = Moved(Arcs(v), p, o, q, at, i)
           /\ at \in Nat \ {0, 3} /\ \A t \in Arcs(v) : ~(t[1] = q /\ t[2] = at)
           /\ DirsOf(z) = DirsOf(v) /\ z.nlink = v.nlink
           /\ z.used = v.used /\ z.cg = v.cg
<1>1. PICK y : Created(v, y, q, at, n, i) /\ Deleted(y, z, p, o)
  BY DEF Relocated
<1> USE DEF Relocated
<1>2. i \in Inum \ {0}
  BY EntryUsed
<1>3. PICK E : E = Arcs(v)
  OBVIOUS
<1>4. PICK F : F = E \cup {<<q, at, i>>}
  OBVIOUS
<1>5. /\ Arcs(y) = F
      /\ at \in Nat \ {0, 3} /\ \A t \in E : ~(t[1] = q /\ t[2] = at)
      /\ DirsOf(y) = DirsOf(v) /\ y.nlink = v.nlink
      /\ y.used = v.used /\ y.cg = v.cg
  BY <1>1, <1>2, <1>3, <1>4, CreatedArcs
<1>6. VolOK(y) /\ y.mode = v.mode
  BY <1>1, <1>2, CreatedOK
<1>7. o \in DOMAIN y.ct[p] /\ y.ct[p][o].ino = i
  <2>1. PICK w : Grown(v.ct[q], w, at, n, i) /\ DirSet(v, y, q, w)
    BY <1>1 DEF Created
  <2>2. CASE p = q
    BY <2>1, <2>2 DEF Grown, DirSet
  <2>3. CASE p # q
    BY <2>1, <2>3 DEF DirSet
  <2> QED  BY <2>2, <2>3
<1>8. DirOK(y.ct[p]) /\ y.mode[p] = "dir"
  BY <1>6 DEF VolOK, InodeOK
<1>9. /\ Arcs(z) = F \ {<<p, o, i>>} /\ DirsOf(z) = DirsOf(y)
      /\ z.nlink = y.nlink /\ z.used = y.used /\ z.cg = y.cg
  BY <1>1, <1>2, <1>5, <1>7, <1>8, DeletedArcs
<1> QED  BY <1>3, <1>4, <1>5, <1>9 DEF Moved

LEMMA MovedCounts ==
    ASSUME NEW E, NEW L, Tallied(E, L), NEW U, Named(E, U),
           NEW p, NEW o, NEW i, <<p, o, i>> \in E,
           NEW q \in Inum, NEW at \in Nat, \A t \in E : ~(t[1] = q /\ t[2] = at)
    PROVE  Tallied(Moved(E, p, o, q, at, i), L) /\ Named(Moved(E, p, o, q, at, i), U)
<1>1. PICK a \in E : a = <<p, o, i>> /\ a[1] = p /\ a[2] = o /\ a[3] = i
  OBVIOUS
<1>2. i \in Inum \ {0}
  BY <1>1, ArcIs DEF Tallied
<1>3. PICK b : b = <<q, at, i>>
  OBVIOUS
<1>4. b \in Arc /\ b[1] = q /\ b[2] = at /\ b[3] = i /\ b \notin E
  <2>1. b \in Arc /\ b[1] = q /\ b[2] = at /\ b[3] = i
    BY <1>2, <1>3 DEF Arc
  <2> QED  BY <2>1
<1>5. PICK F : F = E \cup {b}
  OBVIOUS
<1>6. a \in F /\ Moved(E, p, o, q, at, i) = F \ {a}
  BY <1>1, <1>3, <1>5 DEF Moved
<1>7. PICK M : M = [L EXCEPT ![b[3]] = @ + 1]
  OBVIOUS
<1>8. PICK N : N = [M EXCEPT ![a[3]] = @ - 1]
  OBVIOUS
<1>9. Tallied(F, M)
  BY <1>4, <1>5, <1>7, TallyAdd
<1>10. Tallied(F \ {a}, N)
  BY <1>6, <1>8, <1>9, TallyDrop
<1>11. N = L
  <2>1. L \in [Inum -> Nat]
    BY DEF Tallied
  <2> QED  BY <1>1, <1>2, <1>4, <1>7, <1>8, <2>1
<1>12. Named(F \ {a}, U)
  <2>1. SUFFICES ASSUME NEW j \in Inum, j > 1
                 PROVE  j \in U <=> To(F \ {a}, j) # {}
    BY DEF Named
  <2>2. CASE j = i
    <3>1. a \in To(E, i) /\ b \in To(F \ {a}, i)
      BY <1>1, <1>4, <1>5 DEF To
    <3> QED  BY <2>1, <2>2, <3>1 DEF Named
  <2>3. CASE j # i
    <3>1. To(F \ {a}, j) = To(E, j)
      BY <1>1, <1>4, <1>5, <2>3 DEF To
    <3> QED  BY <2>1, <3>1 DEF Named
  <2> QED  BY <2>2, <2>3
<1> QED  BY <1>6, <1>10, <1>11, <1>12

(* A file comes to any directory, a directory stays where it is.           *)
LEMMA MoveExact ==
    ASSUME NEW v, NEW z, NEW p, NEW o, NEW q, NEW at, NEW n, NEW i,
           Relocated(v, z, p, o, q, at, n, i), v.mode[i] = "dir" => p = q
    PROVE  Exact(z) /\ Kept(Arcs(v), Arcs(z), i)
<1>1. PICK D : D = DirsOf(v)
  OBVIOUS
<1>2. PICK E : E = Arcs(v)
  OBVIOUS
<1>3. Rooted(D, E) /\ Tallied(E, v.nlink) /\ Named(E, v.used) /\ Census(D, v.used, v.cg)
  BY <1>1, <1>2 DEF Relocated, Exact
<1>4. /\ Arcs(z) = Moved(E, p, o, q, at, i)
      /\ at \in Nat \ {0, 3} /\ \A t \in E : ~(t[1] = q /\ t[2] = at)
      /\ DirsOf(z) = D /\ z.nlink = v.nlink /\ z.used = v.used /\ z.cg = v.cg
  BY <1>1, <1>2, MovedArcs
<1>5. PICK a \in E : a = <<p, o, i>> /\ a[1] = p /\ a[2] = o /\ a[3] = i
  <2>1. \E a \in Arcs(v) : a[1] = p /\ a[2] = o /\ a[3] = i /\ a = <<p, o, i>>
    BY EntryUsed DEF Relocated
  <2> QED  BY <1>2, <2>1
<1>6. q \in D /\ q \in Inum /\ o \notin {0, 3} /\ (i \in D => p = q)
  BY <1>1 DEF Relocated, DirsOf
<1>7. Rooted(D, Moved(E, p, o, q, at, i))
  <2>1. Rooted(D, (E \cup {<<q, at, a[3]>>}) \ {a})
    BY <1>3, <1>4, <1>5, <1>6, RootedMove
  <2> QED  BY <1>5, <2>1 DEF Moved
<1>8. Tallied(Moved(E, p, o, q, at, i), v.nlink) /\ Named(Moved(E, p, o, q, at, i), v.used)
  BY <1>3, <1>4, <1>5, <1>6, MovedCounts
<1>9. Kept(E, Moved(E, p, o, q, at, i), i)
  BY <1>5 DEF Kept, Moved
<1> QED  BY <1>2, <1>3, <1>4, <1>7, <1>8, <1>9 DEF Exact

(* A directory comes to another one, which its ".." then leads to.         *)
LEMMA MoveDirExact ==
    ASSUME NEW v, NEW z, NEW p, NEW o, NEW q, NEW at, NEW n, NEW i,
           Relocated(v, z, p, o, q, at, n, i), v.mode[i] = "dir", p # q, i # q,
           NEW x, Counted(dir_inum_change(z, i, p, q), x),
           x.nlink = [[v.nlink EXCEPT ![p] = @ - 1] EXCEPT ![q] = @ + 1],
           i \notin Above(v, q)
    PROVE  Exact(x) /\ x.used = v.used /\ Kept(Arcs(v), Arcs(x), i)
<1>1. PICK D : D = DirsOf(v)
  OBVIOUS
<1>2. PICK E : E = Arcs(v)
  OBVIOUS
<1>3. PICK L : L = v.nlink
  OBVIOUS
<1>4. Rooted(D, E) /\ Tallied(E, L) /\ Named(E, v.used) /\ Census(D, v.used, v.cg)
  BY <1>1, <1>2, <1>3 DEF Relocated, Exact
<1>5. PICK F : F = Moved(E, p, o, q, at, i)
  OBVIOUS
<1>6. /\ Arcs(z) = F
      /\ at \in Nat \ {0, 3} /\ \A t \in E : ~(t[1] = q /\ t[2] = at)
      /\ DirsOf(z) = D /\ z.nlink = L /\ z.used = v.used /\ z.cg = v.cg
  BY <1>1, <1>2, <1>3, <1>5, MovedArcs
<1>7. PICK a \in E : a = <<p, o, i>> /\ a[1] = p /\ a[2] = o /\ a[3] = i
  <2>1. \E a \in Arcs(v) : a[1] = p /\ a[2] = o /\ a[3] = i /\ a = <<p, o, i>>
    BY EntryUsed DEF Relocated
  <2> QED  BY <1>2, <2>1
<1>8. /\ i \in D /\ p \in D /\ q \in D /\ i \in Inum \ {0}
      /\ p \in Inum \ {0} /\ q \in Inum \ {0} /\ o \notin {0, 3}
  BY <1>1, EntryUsed, DirUsed DEF Relocated, DirsOf
<1>9. PICK b : b = <<q, at, i>>
  OBVIOUS
<1>10. PICK c : c = <<i, 3, p>>
  OBVIOUS
<1>11. PICK d : d = <<i, 3, q>>
  OBVIOUS
<1>12. PICK e : e = <<i, 0, i>>
  OBVIOUS
<1>13. /\ b[1] = q /\ b[2] = at /\ b[3] = i
       /\ c[1] = i /\ c[2] = 3 /\ c[3] = p
       /\ d[1] = i /\ d[2] = 3 /\ d[3] = q
       /\ e[1] = i /\ e[2] = 0 /\ e[3] = i
  BY <1>9, <1>10, <1>11, <1>12
<1>14. F = (E \cup {b}) \ {a}
  BY <1>5, <1>7, <1>9 DEF Moved
<1>15. c \in E /\ p # i /\ Rooted(D, (F \ {c}) \cup {d})
  <2>1. a[2] \notin {0, 3} /\ a[3] \in D /\ q # a[1] /\ q # a[3]
    BY <1>7, <1>8
  <2>2. PICK W \in SUBSET D : q \in W /\ a[3] \notin W /\ Climbs(E, W)
    BY <1>1, <1>2, <1>7, <1>8, AboveIs DEF Relocated
  <2>3. /\ <<a[3], 3, a[1]>> \in E /\ a[1] # a[3]
        /\ Rooted(D, Over(E, a, q, at))
    BY <1>4, <1>6, <1>8, <2>1, <2>2, RootedOver
  <2>4. Over(E, a, q, at) = (F \ {c}) \cup {d}
    BY <1>7, <1>9, <1>10, <1>11, <1>14 DEF Over
  <2> QED  BY <1>7, <1>10, <2>3, <2>4
<1>16. c \in F /\ e \in F /\ d \notin F /\ d \in Arc
  <2>1. e \in E
    BY <1>4, <1>8, <1>12 DEF Rooted
  <2>2. d \notin E
    <3>1. \A s \in E : s[1] = c[1] /\ s[2] = c[2] => s = c
      BY <1>4, <1>15 DEF Rooted
    <3> QED  BY <1>13, <3>1
  <2>3. d \in Arc
    BY <1>8, <1>11 DEF Arc
  <2>4. c # a /\ e # a /\ d # b
    BY <1>6, <1>7, <1>8, <1>13
  <2> QED  BY <1>14, <1>15, <2>1, <2>2, <2>3, <2>4
<1>17. PICK u : u = dir_inum_change(z, i, p, q)
  OBVIOUS
<1>18. VolOK(z) /\ z.mode[i] = "dir"
  <2>1. PICK y : Created(v, y, q, at, n, i) /\ Deleted(y, z, p, o)
    BY DEF Relocated
  <2>2. VolOK(y) /\ y.mode = v.mode
    BY <1>8, <2>1, CreatedOK DEF Relocated
  <2> QED  BY <1>8, <2>1, <2>2, DeletedOK DEF Relocated
<1>19. z.ct[i][0].ino = i /\ z.ct[i][3].ino = p
  BY <1>6, <1>16, <1>13 DEF Arcs
<1>20. /\ Arcs(u) = (F \ {c}) \cup {d} /\ DirsOf(u) = D /\ u.nlink = L
       /\ u.used = v.used /\ u.cg = v.cg
  <2>1. p \in Inum \ {0} /\ q \in Inum \ {0} /\ i \in Inum /\ p # i
    BY <1>8, <1>15
  <2>2. /\ Arcs(u) = (Arcs(z) \ {<<i, 3, p>>}) \cup {<<i, 3, q>>}
        /\ DirsOf(u) = DirsOf(z) /\ u.nlink = z.nlink
        /\ u.used = z.used /\ u.cg = z.cg
    BY <1>17, <1>18, <1>19, <2>1, ChangeArcs
  <2> QED  BY <1>6, <1>10, <1>11, <2>2
<1>21. Tallied(F, L) /\ Named(F, v.used)
  BY <1>4, <1>5, <1>6, <1>7, <1>8, MovedCounts
<1>22. Tallied((F \ {c}) \cup {d}, x.nlink)
  <2>1. PICK M : M = [L EXCEPT ![c[3]] = @ - 1]
    OBVIOUS
  <2>2. PICK N : N = [M EXCEPT ![d[3]] = @ + 1]
    OBVIOUS
  <2>3. Tallied(F \ {c}, M)
    BY <1>16, <1>21, <2>1, TallyDrop
  <2>4. Tallied((F \ {c}) \cup {d}, N)
    BY <1>16, <2>2, <2>3, TallyAdd
  <2>5. x.nlink = N
    BY <1>3, <1>13, <2>1, <2>2
  <2> QED  BY <2>4, <2>5
<1>23. Named((F \ {c}) \cup {d}, v.used)
  <2>1. To(F \ {c}, p) # {}
    <3>1. PICK f : f = <<p, 0, p>>
      OBVIOUS
    <3>2. f \in E /\ f[1] = p /\ f[2] = 0 /\ f[3] = p
      BY <1>4, <1>8, <3>1 DEF Rooted
    <3>3. f # a /\ f # c
      BY <1>7, <1>15, <1>13, <3>2
    <3>4. f \in To(F \ {c}, p)
      BY <1>14, <3>1, <3>2, <3>3 DEF To
    <3> QED  BY <3>4
  <2>2. Named(F \ {c}, v.used)
    <3>1. SUFFICES ASSUME NEW j \in Inum, j > 1
                   PROVE  j \in v.used <=> To(F \ {c}, j) # {}
      BY DEF Named
    <3>2. CASE j = p
      <4>1. To(F, j) # {}
        BY <2>1, <3>2 DEF To
      <4> QED  BY <1>21, <2>1, <3>1, <3>2, <4>1 DEF Named
    <3>3. CASE j # p
      <4>1. To(F \ {c}, j) = To(F, j)
        BY <1>13, <3>3 DEF To
      <4> QED  BY <1>21, <3>1, <4>1 DEF Named
    <3> QED  BY <3>2, <3>3
  <2>3. q \in v.used
    BY DirUsed DEF Relocated
  <2> QED  BY <1>13, <2>2, <2>3, NamedAdd
<1>24. /\ Arcs(x) = (F \ {c}) \cup {d} /\ DirsOf(x) = D
       /\ x.used = v.used /\ x.cg = v.cg
  BY <1>17, <1>20, SameArcs DEF Counted
<1>25. Kept(E, (F \ {c}) \cup {d}, i)
  BY <1>7, <1>13, <1>14 DEF Kept
<1> QED  BY <1>2, <1>4, <1>15, <1>22, <1>23, <1>24, <1>25 DEF Exact

LEMMA PRenameObjectLinks ==
    ASSUME Inv, Links, NEW p \in Dirs, NEW n \in Name, NEW q \in Dirs, NEW m \in Name,
           NEW more, PRenameObject(p, n, q, m, more)
    PROVE  Links'
<1>1. /\ p \in Inum /\ Volume.mode[p] = "dir" /\ VolOK(Volume) /\ Exact(Volume)
      /\ DirOK(Volume.ct[p]) /\ Shape(Volume)
      /\ q \in Inum /\ q # 0 /\ Volume.mode[q] = "dir"
  BY DirIs DEF Inv, Links
<1>2. PICK o : o = dir_name_search(Volume, p, n)
  OBVIOUS
<1>3. PICK i : i = InumAt(Volume, p, o)
  OBVIOUS
<1>4. PICK over \in BOOLEAN : over <=> IsDir(i) /\ p # q
  OBVIOUS
<1>5. PICK made : made = dir_create(Volume, q, m, i, more)
  OBVIOUS
<1>6. PICK gone : gone = IF made.ok THEN dir_offset_delete(made.v, p, o, FALSE)
                         ELSE [inum |-> 0, v |-> made.v]
  OBVIOUS
<1>7. /\ i # 0 /\ i # q /\ lock' = lock /\ (over => Movable(Volume, i, q))
      /\ Renamed(p, q, o, i, over, made, gone)
  BY <1>2, <1>3, <1>4, <1>5, <1>6, Zenon DEF PRenameObject
<1>8. PICK check \in BOOLEAN : check = FALSE
  OBVIOUS
<1>9. gone = IF made.ok THEN dir_offset_delete(made.v, p, o, check)
             ELSE [inum |-> 0, v |-> made.v]
  BY <1>6, <1>8, Zenon
<1>10. i \in Inum /\ o # -1
  <2>1. i \in Inum
    BY <1>1, <1>2, <1>3, SearchIn
  <2> QED  BY <1>3, <1>7, <2>1 DEF InumAt
<1>11. o \in DOMAIN Volume.ct[p] \ {0, 3} /\ i = Volume.ct[p][o].ino
  <2>1. o \in DOMAIN Volume.ct[p] /\ o \notin {0, 3}
    BY <1>1, <1>2, <1>3, <1>10, SearchIn
  <2> QED  BY <1>3, <1>7, <1>10, <2>1 DEF InumAt
<1>12. Entered(Volume, made, q, m, i)
  BY <1>1, <1>5, <1>10, CreateStep
<1>13. SUFFICES \E x : /\ Become(x) /\ Exact(x) /\ x.used = Volume.used
                       /\ Placed(Arcs(x), lock, stray')
  <2>1. ASSUME NEW x, Become(x), Exact(x), x.used = Volume.used,
               Placed(Arcs(x), lock, stray')
        PROVE  Links'
    <3>1. Exact(Volume') /\ Arcs(Volume') = Arcs(x)
      BY <2>1, BecomeExact
    <3>2. used' = used
      BY <2>1, VolumeIs DEF Become
    <3> QED  BY <1>7, <2>1, <3>1, <3>2 DEF Links
  <2> QED  BY <2>1
<1>14. CASE made.ok = FALSE
  <2>1. made.v = Volume
    BY <1>12, <1>14 DEF Entered
  <2>2. Become(Volume) /\ stray' = stray
    <3>1. gone.inum = 0
      BY <1>9, <1>14
    <3> QED  BY <1>7, <1>14, <2>1, <3>1 DEF Renamed
  <2> QED  BY <1>1, <2>2 DEF Links
<1>15. CASE made.ok = TRUE
  <2>1. /\ VolOK(made.v) /\ made.v.mode = Volume.mode
        /\ Created(Volume, made.v, q, made.at, m, i)
    BY <1>12, <1>15 DEF Entered
  <2>2. o \in DOMAIN made.v.ct[p] \ {0, 3} /\ made.v.ct[p][o].ino = i
    <3>1. PICK w : Grown(Volume.ct[q], w, made.at, m, i)
                   /\ DirSet(Volume, made.v, q, w)
      BY <2>1 DEF Created
    <3>2. CASE p = q
      BY <1>11, <3>1, <3>2 DEF Grown, DirSet
    <3>3. CASE p # q
      BY <1>1, <1>11, <3>1, <3>3 DEF DirSet
    <3> QED  BY <3>2, <3>3
  <2>3. gone = dir_offset_delete(made.v, p, o, check)
    BY <1>9, <1>15
  <2>4. gone.inum = i /\ Deleted(made.v, gone.v, p, o)
    <3>1. Shape(made.v) /\ DirOK(made.v.ct[p])
      BY <1>1, <2>1 DEF VolOK, InodeOK
    <3>2. LET r == dir_offset_delete(made.v, p, o, check)
          IN  \/ check /\ r.inum = 0 /\ r.v = made.v
              \/ r.inum = made.v.ct[p][o].ino /\ Deleted(made.v, r.v, p, o)
      BY <1>1, <2>2, <3>1, Deletes
    <3> QED  BY <1>8, <2>2, <2>3, <3>2, Zenon
  <2>5. VolOK(gone.v)
    BY <1>1, <2>1, <2>4, DeletedOK
  <2>6. PICK v : v = Volume
    OBVIOUS
  <2>7. PICK z : z = gone.v
    OBVIOUS
  <2>8. Relocated(v, z, p, o, q, made.at, m, i)
    BY <1>1, <1>7, <1>11, <2>1, <2>4, <2>6, <2>7 DEF Relocated
  <2>9. z.nlink = v.nlink /\ z.used = v.used
    BY <2>8, MovedArcs
  <2>10. PICK c : c = dir_inum_change(gone.v, i, p, q)
    OBVIOUS
  <2>11. PICK y : y = [c EXCEPT !.nlink[p] = @ - 1, !.nlink[q] = @ + 1]
    OBVIOUS
  <2>12. ASSUME NEW x, Kept(Arcs(Volume), Arcs(x), i)
        PROVE  Placed(Arcs(x), lock, stray')
    <3>1. stray' = stray \cup {l \in Lock : lock[l] # Free /\ lock[l].key = i}
      BY <1>7, <2>4 DEF Renamed
    <3>2. stray \subseteq stray'
      BY <3>1
    <3>3. \A l \in Lock \ stray' : lock[l] # Free => lock[l].key # i
      BY <3>1
    <3> QED  BY <2>12, <3>2, <3>3, PlacedKept DEF Links
  <2>13. CASE over
    <3>1. Become(y) /\ IsDir(i) /\ p # q
      BY <1>4, <1>7, <1>15, <2>4, <2>10, <2>11, <2>13 DEF Renamed
    <3>2. Shape(c) /\ c.nlink = z.nlink
      BY <2>5, <2>7, <2>10 DEF dir_inum_change, VolOK, Shape
    <3>3. Counted(c, y)
      BY <2>11, <3>2, CountTwo
    <3>4. y.nlink = [[c.nlink EXCEPT ![p] = @ - 1] EXCEPT ![q] = @ + 1]
      BY <2>11, <3>2 DEF Shape
    <3>5. y.nlink = [[v.nlink EXCEPT ![p] = @ - 1] EXCEPT ![q] = @ + 1]
      BY <2>9, <3>2, <3>4
    <3>6. v.mode[i] = "dir"
      BY <2>6, <3>1, VolumeIs DEF IsDir
    <3>7. Counted(dir_inum_change(z, i, p, q), y)
      BY <2>7, <2>10, <3>3
    <3>8. i \notin Above(v, q)
      BY <1>7, <2>6, <2>13 DEF Movable
    <3>9. Exact(y) /\ y.used = v.used /\ Kept(Arcs(v), Arcs(y), i)
      BY <1>7, <2>8, <3>1, <3>5, <3>6, <3>7, <3>8, MoveDirExact
    <3> QED  BY <2>6, <2>12, <3>1, <3>9
  <2>14. CASE ~over
    <3>1. Become(z)
      BY <1>4, <1>7, <1>15, <2>4, <2>7, <2>14 DEF Renamed
    <3>2. v.mode[i] = "dir" => p = q
      BY <1>4, <2>6, <2>14, VolumeIs DEF IsDir
    <3>3. Exact(z) /\ Kept(Arcs(v), Arcs(z), i)
      BY <2>8, <3>2, MoveExact
    <3> QED  BY <2>6, <2>9, <2>12, <3>1, <3>3
  <2> QED  BY <2>13, <2>14
<1> QED  BY <1>12, <1>14, <1>15 DEF Entered

-----------------------------------------------------------------------------
(* The volume that newfs makes.                                            *)
LEMMA InodesOf ==
    ASSUME NEW g \in Group
    PROVE  \E m \in Nat : /\ m = ipg * g
                          /\ {i \in Inum : itog(i) = g} = m..(m + ipg - 1)
<1>1. Group = 0..(ncg - 1) /\ ipg \in Nat /\ ipg > 3 /\ ncg \in Nat
  <2>1. IsFiniteSet(Group) /\ Group = 0..(ncg - 1) /\ ipg \in Nat /\ ipg > 3
    BY GroupAssumption
  <2> QED  BY <2>1, FS_CardinalityType DEF ncg
<1>2. g \in Nat /\ g \in 0..(ncg - 1)
  BY <1>1
<1>3. PICK m \in Nat : m = ipg * g /\ m = g * ipg
  BY <1>1, <1>2
<1>4. ASSUME NEW i \in Inum, itog(i) = g
      PROVE  i \in m..(m + ipg - 1)
  <2>1. i \in Nat
    BY InumNat
  <2>2. /\ i \div ipg \in Nat /\ i % ipg \in 0..(ipg - 1)
        /\ i = ipg * (i \div ipg) + (i % ipg)
    BY <1>1, <2>1, Divides
  <2>3. PICK r \in 0..(ipg - 1) : i = ipg * g + r
    BY <1>4, <2>2 DEF itog
  <2> QED  BY <1>1, <1>3, <2>3
<1>5. ASSUME NEW i \in m..(m + ipg - 1)
      PROVE  i \in Inum /\ itog(i) = g
  <2>1. PICK r \in 0..(ipg - 1) : i = m + r
    <3>1. i - m \in 0..(ipg - 1) /\ i = m + (i - m)
      BY <1>1, <1>3
    <3> QED  BY <3>1
  <2>2. g * ipg + r \in 0..(ncg * ipg - 1)
    BY <1>1, <1>2, InProduct
  <2>3. (ipg * g + r) \div ipg = g
    BY <1>1, <1>2, DivMod
  <2> QED  BY <1>3, <2>1, <2>2, <2>3 DEF Inum, itog
<1> QED  BY <1>3, <1>4, <1>5

LEMMA RootInum == ROOTINO \in Inum /\ itog(ROOTINO) = 0
<1>1. Group = 0..(ncg - 1) /\ Group # {} /\ ipg \in Nat /\ ipg > 3
  BY GroupAssumption
<1>2. PICK h \in Group : h = 0
  <2>1. ncg \in Nat /\ ncg # 0
    BY GroupAssumption, FS_CardinalityType, FS_EmptySet DEF ncg
  <2> QED  BY <1>1, <2>1
<1>3. PICK j \in Nat : j = ipg * h /\ {i \in Inum : itog(i) = h} = j..(j + ipg - 1)
  BY InodesOf
<1>4. j = 0
  BY <1>1, <1>2, <1>3
<1>5. 2 \in j..(j + ipg - 1)
  BY <1>1, <1>4
<1> QED  BY <1>2, <1>3, <1>5 DEF ROOTINO

LEMMA InitCensus ==
    ASSUME NEW U, U = {0, 1, ROOTINO}, NEW C,
           C = [g \in Group |->
                   IF g = 0 THEN [nifree |-> ipg - 3, ndir |-> 1, irotor |-> 0]
                   ELSE [nifree |-> ipg, ndir |-> 0, irotor |-> 0]]
    PROVE  Census({ROOTINO}, U, C)
<1>1. SUFFICES ASSUME NEW g \in Group
               PROVE  /\ C[g].nifree = Cardinality({i \in Inum : itog(i) = g /\ i \notin U})
                      /\ C[g].ndir >= Cardinality({i \in {ROOTINO} : itog(i) = g})
  BY DEF Census
<1>2. Group = 0..(ncg - 1) /\ ipg \in Nat /\ ipg > 3
  BY GroupAssumption
<1>3. PICK m \in Nat : m = ipg * g /\ {i \in Inum : itog(i) = g} = m..(m + ipg - 1)
  BY InodesOf
<1>4. PICK F : F = {i \in Inum : itog(i) = g /\ i \notin U}
  OBVIOUS
<1>5. PICK D : D = {i \in {ROOTINO} : itog(i) = g}
  OBVIOUS
<1>6. ROOTINO \in Inum /\ itog(ROOTINO) = 0
  BY RootInum
<1>7. CASE g = 0
  <2>1. F = 3..(ipg - 1)
    BY <1>2, <1>3, <1>4, <1>7 DEF ROOTINO
  <2>2. Cardinality(F) = ipg - 3
    BY <1>2, <2>1, FS_Interval
  <2>3. D = {ROOTINO}
    BY <1>5, <1>6, <1>7
  <2>4. Cardinality(D) = 1
    BY <2>3, FS_Singleton
  <2>5. C[g].nifree = ipg - 3 /\ C[g].ndir = 1
    BY <1>7
  <2> QED  BY <1>4, <1>5, <2>2, <2>4, <2>5
<1>8. CASE g # 0
  <2>1. m >= ipg
    <3>1. g \in Nat /\ g >= 1
      BY <1>2, <1>8
    <3> QED  BY <1>2, <1>3, <3>1
  <2>2. F = m..(m + ipg - 1)
    BY <1>2, <1>3, <1>4, <2>1 DEF ROOTINO
  <2>3. Cardinality(F) = ipg
    BY <1>2, <2>2, FS_Interval
  <2>4. D = {}
    BY <1>5, <1>6, <1>8
  <2>5. Cardinality(D) = 0
    BY <2>4, FS_EmptySet
  <2>6. C[g].nifree = ipg /\ C[g].ndir = 0
    BY <1>8
  <2> QED  BY <1>4, <1>5, <2>3, <2>5, <2>6
<1> QED  BY <1>7, <1>8

LEMMA InitLinks == Init => Links
<1> SUFFICES ASSUME Init PROVE Links
  OBVIOUS
<1>1. PICK v : v = Volume
  OBVIOUS
<1>2. VolOK(v)
  BY <1>1, InitInv DEF Inv
<1>3. ROOTINO \in Inum \ {0} /\ ROOTINO \in Nat
  BY RootInum DEF ROOTINO
<1>4. /\ v.ct[ROOTINO] = RootDir /\ v.mode[ROOTINO] = "dir"
      /\ \A i \in Inum \ {ROOTINO} : v.mode[i] # "dir"
      /\ v.nlink = [i \in Inum |-> IF i = ROOTINO THEN 2 ELSE 0]
      /\ v.used = {0, 1, ROOTINO}
  BY <1>1, <1>3, VolumeIs DEF Init
<1>5. DirsOf(v) = {ROOTINO}
  BY <1>3, <1>4 DEF DirsOf
<1>6. PICK a : a = <<ROOTINO, 0, ROOTINO>>
  OBVIOUS
<1>7. PICK b : b = <<ROOTINO, 3, ROOTINO>>
  OBVIOUS
<1>8. /\ a[1] = ROOTINO /\ a[2] = 0 /\ a[3] = ROOTINO /\ a \in Arc
      /\ b[1] = ROOTINO /\ b[2] = 3 /\ b[3] = ROOTINO /\ b \in Arc /\ a # b
  <2>1. /\ a[1] = ROOTINO /\ a[2] = 0 /\ a[3] = ROOTINO
        /\ b[1] = ROOTINO /\ b[2] = 3 /\ b[3] = ROOTINO
    BY <1>6, <1>7
  <2> QED  BY <1>3, <1>6, <1>7, <2>1 DEF Arc
<1>9. PICK E : E = {a, b}
  OBVIOUS
<1>10. Arcs(v) = E
  <2>1. PICK d : d = RootDir
    OBVIOUS
  <2>2. /\ DOMAIN d = {0, 3}
        /\ d[0] = [ino |-> ROOTINO, name |-> Dot, reclen |-> 3]
        /\ d[3] = [ino |-> ROOTINO, name |-> DotDot, reclen |-> DIRBLKSIZ - 3]
    BY <2>1 DEF RootDir
  <2>3. d[0].ino = ROOTINO /\ d[3].ino = ROOTINO
    BY <2>2
  <2>4. ASSUME NEW t \in Arcs(v)
        PROVE  t = a \/ t = b
    <3>1. t \in Arc /\ t[1] \in Inum /\ t = <<t[1], t[2], t[3]>>
      BY ArcIs DEF Arcs, Arc
    <3>2. t[1] = ROOTINO
      BY <1>4, <3>1 DEF Arcs
    <3>3. t[2] \in {0, 3} /\ t[3] = ROOTINO
      BY <1>4, <2>1, <2>2, <2>3, <3>2 DEF Arcs
    <3> QED  BY <1>6, <1>7, <3>1, <3>2, <3>3
  <2>5. a \in Arcs(v) /\ b \in Arcs(v)
    BY <1>4, <1>8, <2>1, <2>2, <2>3 DEF Arcs
  <2> QED  BY <1>9, <2>4, <2>5
<1>11. Rooted({ROOTINO}, E)
  <2>1. \A t \in E : t[1] = ROOTINO /\ t[3] = ROOTINO /\ t[2] \in {0, 3}
    BY <1>8, <1>9
  <2>2. \A s, t \in E : s[2] = t[2] => s = t
    BY <1>8, <1>9
  <2>3. Reached({ROOTINO}, E)
    BY DEF Reached
  <2> QED  BY <1>3, <1>6, <1>7, <1>8, <1>9, <2>1, <2>2, <2>3 DEF Rooted
<1>12. Tallied(E, v.nlink)
  <2>1. PICK L : L = [i \in Inum |-> 0]
    OBVIOUS
  <2>2. PICK M : M = [L EXCEPT ![a[3]] = @ + 1]
    OBVIOUS
  <2>3. PICK N : N = [M EXCEPT ![b[3]] = @ + 1]
    OBVIOUS
  <2>4. Tallied({}, L)
    <3>1. \A i : To({}, i) = {}
      BY DEF To
    <3> QED  BY <2>1, <3>1, FS_EmptySet DEF Tallied
  <2>5. Tallied({} \cup {a}, M)
    BY <1>8, <2>2, <2>4, TallyAdd
  <2>6. b \notin {} \cup {a}
    BY <1>8
  <2>7. Tallied(({} \cup {a}) \cup {b}, N)
    BY <1>8, <2>3, <2>5, <2>6, TallyAdd
  <2>8. ({} \cup {a}) \cup {b} = E
    BY <1>9
  <2>9. N = v.nlink
    BY <1>3, <1>4, <1>8, <2>1, <2>2, <2>3
  <2> QED  BY <2>7, <2>8, <2>9
<1>13. Named(E, v.used)
  <2>1. SUFFICES ASSUME NEW j \in Inum, j > 1
                 PROVE  j \in v.used <=> To(E, j) # {}
    BY DEF Named
  <2>2. CASE j = ROOTINO
    <3>1. a \in To(E, j)
      BY <1>8, <1>9, <2>2 DEF To
    <3> QED  BY <1>4, <2>2, <3>1
  <2>3. CASE j # ROOTINO
    <3>1. To(E, j) = {}
      BY <1>8, <1>9, <2>3 DEF To
    <3> QED  BY <1>4, <2>1, <2>3, <3>1
  <2> QED  BY <2>2, <2>3
<1>14. Census({ROOTINO}, v.used, v.cg)
  BY <1>1, <1>4, InitCensus, VolumeIs DEF Init
<1>15. KeysOK(used, lock) /\ \A E1, S : Placed(E1, lock, S)
  BY DEF Init, KeysOK, Placed
<1> QED  BY <1>1, <1>5, <1>10, <1>11, <1>12, <1>13, <1>14, <1>15 DEF Links, Exact

LEMMA NextLinks ==
    ASSUME Inv, Links, [Next]_vars
    PROVE  Links'
<1>1. CASE UNCHANGED vars
  BY <1>1, SameLinks DEF vars
<1>2. CASE Lookups
  <2>1. ASSUME NEW l \in Lock, NEW p \in Dirs, NEW n \in AnyName,
               PLocateObject(l, p, n) \/ PLocateDots(l, p, n)
        PROVE  Links'
    BY <2>1, LocateLinks
  <2>2. ASSUME NEW l \in Lock, PFreeLock(l)
        PROVE  Links'
    BY <2>2, PFreeLockLinks
  <2>3. ASSUME NEW l \in Lock, PExamineObject(l)
        PROVE  Links'
    BY <2>3, SameLinks DEF PExamineObject, vol
  <2>4. CASE PExamineNext
    BY <2>4, SameLinks DEF PExamineNext, vol
  <2> QED  BY <1>2, <2>1, <2>2, <2>3, <2>4 DEF Lookups
<1>3. CASE Changes
  <2>1. PICK p \in Dirs, n \in Name : \E more \in More(p) :
           \/ PCreateObject(p, n, "file", more)
           \/ \E l \in Lock : PMakeLink(l, p, n, more)
           \/ \E q \in Dirs, m \in Name : PRenameObject(q, m, p, n, more)
    BY <1>3, Zenon DEF Changes
  <2>2. PICK more \in More(p) :
           \/ PCreateObject(p, n, "file", more)
           \/ \E l \in Lock : PMakeLink(l, p, n, more)
           \/ \E q \in Dirs, m \in Name : PRenameObject(q, m, p, n, more)
    BY <2>1
  <2>3. CASE PCreateObject(p, n, "file", more)
    <3>1. PICK type \in {"file", "link"} : type = "file"
      OBVIOUS
    <3>2. PCreateObject(p, n, type, more)
      BY <2>3, <3>1, Zenon
    <3> QED  BY <3>1, <3>2, PCreateObjectLinks, Zenon
  <2>4. ASSUME NEW l \in Lock, PMakeLink(l, p, n, more)
        PROVE  Links'
    BY <2>4, PMakeLinkLinks, Zenon
  <2>5. ASSUME NEW q \in Dirs, NEW m \in Name, PRenameObject(q, m, p, n, more)
        PROVE  Links'
    BY <2>5, PRenameObjectLinks, Zenon
  <2> QED  BY <2>2, <2>3, <2>4, <2>5, Zenon
<1>4. ASSUME NEW p \in Dirs, NEW n \in Name, PDeleteObject(p, n)
      PROVE  Links'
  BY <1>4, PDeleteObjectLinks
<1>5. ASSUME NEW l \in Lock \ stray, PParent(l)
      PROVE  Links'
  BY <1>5, PParentLinks
<1>6. ASSUME NEW p \in Dirs, NEW n \in Name, NEW roomy \in SUBSET Group,
             NEW more1 \in More(p), NEW more2 \in BOOLEAN,
             PCreateDir(p, n, roomy, more1, more2)
      PROVE  Links'
  <2>1. more1 \in BOOLEAN
    BY Zenon DEF More
  <2> QED  BY <1>6, <2>1, PCreateDirLinks, Zenon
<1> QED  BY <1>1, <1>2, <1>3, <1>4, <1>5, <1>6, Zenon DEF Next

-----------------------------------------------------------------------------
(* The names of an inode, as LinksExact has them, are the arcs to it.      *)
LEMMA NamesAreArcs ==
    ASSUME Inv, Links, NEW i \in Inum, NEW names,
           names = {e \in Entries : ct[e[1]][e[2]].ino = i}
    PROVE  /\ IsFiniteSet(names)
           /\ Cardinality(names) = Cardinality(To(Arcs(Volume), i))
           /\ names = {} <=> To(Arcs(Volume), i) = {}
<1>1. PICK T : T = To(Arcs(Volume), i)
  OBVIOUS
<1>2. IsFiniteSet(T)
  BY <1>1, ToFinite DEF Links, Exact, Tallied
<1>3. ASSUME NEW e \in names
      PROVE  /\ e = <<e[1], e[2]>> /\ <<e[1], e[2], i>> \in T
  <2>1. PICK p \in Dirs : e \in {p} \X Live(ct[p])
    BY DEF Entries
  <2>2. e = <<e[1], e[2]>> /\ e[1] = p /\ e[2] \in Live(ct[p])
    BY <2>1
  <2>3. e[2] \in DOMAIN ct[p] /\ ct[p][e[2]].ino = i /\ i # 0
    BY <2>2 DEF Live
  <2>4. p \in Inum /\ Volume.mode[p] = "dir" /\ DirOK(Volume.ct[p]) /\ Volume.ct = ct
    BY DirIs, VolumeIs
  <2>5. e[2] \in Nat
    BY <2>3, <2>4, DirEntries
  <2>6. PICK t : t = <<e[1], e[2], i>>
    OBVIOUS
  <2>7. t[1] = e[1] /\ t[2] = e[2] /\ t[3] = i
    BY <2>6
  <2>8. t \in Arc
    BY <2>2, <2>3, <2>4, <2>5, <2>6 DEF Arc
  <2>9. t \in T
    BY <1>1, <2>2, <2>3, <2>4, <2>7, <2>8 DEF Arcs, To
  <2> QED  BY <2>2, <2>6, <2>9
<1>4. ASSUME NEW t \in T
      PROVE  <<t[1], t[2]>> \in names /\ t = <<t[1], t[2], i>>
  <2>1. t \in Arc /\ t[3] = i /\ Volume.mode[t[1]] = "dir"
        /\ t[2] \in DOMAIN Volume.ct[t[1]] /\ Volume.ct[t[1]][t[2]].ino = i
    BY <1>1 DEF To, Arcs
  <2>2. t = <<t[1], t[2], i>> /\ t[1] \in Inum /\ i # 0
    BY <2>1, ArcIs
  <2>3. t[1] \in Dirs /\ t[2] \in Live(ct[t[1]])
    BY <2>1, <2>2, VolumeIs DEF Dirs, IsDir, Live
  <2>4. PICK e : e = <<t[1], t[2]>>
    OBVIOUS
  <2>5. e[1] = t[1] /\ e[2] = t[2]
    BY <2>4
  <2>6. e \in Entries
    BY <2>3, <2>4 DEF Entries
  <2>7. e \in names
    BY <2>1, <2>5, <2>6, VolumeIs
  <2> QED  BY <2>2, <2>4, <2>7
<1>5. PICK f : f = [t \in T |-> <<t[1], t[2]>>]
  OBVIOUS
<1>6. f \in Bijection(T, names)
  <2>1. f \in [T -> names]
    BY <1>4, <1>5
  <2>2. \A s, t \in T : f[s] = f[t] => s = t
    <3>1. SUFFICES ASSUME NEW s \in T, NEW t \in T, f[s] = f[t] PROVE s = t
      OBVIOUS
    <3>2. <<s[1], s[2]>> = <<t[1], t[2]>>
      BY <1>5, <3>1
    <3>3. s[1] = t[1] /\ s[2] = t[2]
      BY <3>2
    <3> QED  BY <1>4, <3>3
  <2>3. \A e \in names : \E t \in T : f[t] = e
    <3>1. SUFFICES ASSUME NEW e \in names PROVE \E t \in T : f[t] = e
      OBVIOUS
    <3>2. PICK t \in T : t = <<e[1], e[2], i>>
      BY <1>3
    <3>3. t[1] = e[1] /\ t[2] = e[2]
      BY <3>2
    <3> QED  BY <1>3, <1>5, <3>3
  <2> QED  BY <2>1, <2>2, <2>3 DEF Bijection, Injection, Surjection, IsInjective
<1>7. IsFiniteSet(names) /\ Cardinality(names) = Cardinality(T)
  BY <1>2, <1>6, FS_Bijection DEF ExistsBijection
<1>8. names = {} <=> T = {}
  BY <1>3, <1>4
<1> QED  BY <1>1, <1>7, <1>8

(* The inductive invariant: beyond Inv, what the names and the counts are, *)
(* that the root is above every directory, that locks are on inodes in use *)
(* and know where their names are.                                         *)
THEOREM LinksInvariance == Spec => [](Inv /\ Links)
<1>1. Init => Inv /\ Links
  BY InitInv, InitLinks
<1>2. (Inv /\ Links) /\ [Next]_vars => (Inv /\ Links)'
  BY NextInv, NextLinks
<1> QED  BY <1>1, <1>2, PTL DEF Spec

LEMMA LinksSound == Inv /\ Links => InodesExact
<1> SUFFICES ASSUME Inv, Links PROVE InodesExact
  OBVIOUS
<1>1. LinksExact
  <2>1. SUFFICES ASSUME NEW i \in Inum, NEW names,
                        names = {e \in Entries : ct[e[1]][e[2]].ino = i}
                 PROVE  /\ nlink[i] = Cardinality(names)
                        /\ i > 1 => (i \in used <=> names # {})
    BY DEF LinksExact
  <2>2. /\ Cardinality(names) = Cardinality(To(Arcs(Volume), i))
        /\ names = {} <=> To(Arcs(Volume), i) = {}
    BY <2>1, NamesAreArcs
  <2> QED  BY <2>2, VolumeIs DEF Links, Exact, Tallied, Named
<1>2. InodesCounted
  <2>1. DirsOf(Volume) = Dirs
    BY VolumeIs DEF DirsOf, Dirs, IsDir
  <2>2. Census(Dirs, used, cg)
    BY <2>1, VolumeIs DEF Links, Exact
  <2> QED  BY <2>2 DEF Census, InodesCounted
<1> QED  BY <1>1, <1>2 DEF InodesExact

(* ic_nlink is the number of names of an inode, "." and ".." too; an inode *)
(* is in use exactly while it has a name; the free inodes of every group   *)
(* are counted, and no directory more than cs_ndir says: whatever is       *)
(* created, linked, renamed over directories and deleted, or given up half *)
(* way for want of room (inum_new(), inum_free(), dir_create(),            *)
(* PRenameObject()).                                                       *)
THEOREM InodesAlwaysExact == Spec => []InodesExact
BY LinksInvariance, LinksSound, PTL

-----------------------------------------------------------------------------
(* What dir_create() wrote is all but "." and "..".                        *)
LEMMA NamesAt ==
    ASSUME Inv, NEW p \in Dirs
    PROVE  \A o \in Live(ct[p]) : ct[p][o].name \in Name <=> o \notin {0, 3}
<1>1. PICK d : d = ct[p] /\ DirOK(d)
  BY DirIs, VolumeIs DEF Inv, VolOK, InodeOK
<1>2. /\ d[0].name = Dot /\ d[3].name = DotDot
      /\ \A o \in DOMAIN d \ {0, 3} : d[o].ino # 0 => d[o].name \in Name
  BY <1>1 DEF DirOK, Dots
<1> QED  BY <1>1, <1>2, NamesApart DEF Live

LEMMA LinksTree == Inv /\ Links => TreeHolds
<1> SUFFICES ASSUME Inv, Links, NEW i \in Dirs \ {ROOTINO}
             PROVE  /\ {p \in Dirs : \E o \in Live(ct[p]) : ct[p][o].ino = i /\ ct[p][o].name \in Name}
                           = {Lookup(Volume, i, DotDot)}
                    /\ ROOTINO \in Above(Volume, i)
  BY DEF TreeHolds
<1>1. PICK v : v = Volume /\ VolOK(v) /\ Exact(v)
  BY DEF Inv, Links
<1>2. PICK E : E = Arcs(v)
  OBVIOUS
<1>3. PICK D : D = DirsOf(v)
  OBVIOUS
<1>4. Rooted(D, E) /\ D = Dirs
  BY <1>1, <1>2, <1>3, VolumeIs DEF Exact, DirsOf, Dirs, IsDir
<1>5. PICK q : q = Lookup(v, i, DotDot)
  OBVIOUS
<1>6. i \in Inum /\ v.mode[i] = "dir" /\ i \in D
  BY <1>3, <1>4 DEF DirsOf
<1>8. q \in D
  BY <1>1, <1>3, <1>5, <1>6, DotDotIs
<1>9. \A t \in E : t[2] \notin {0, 3} /\ t[3] = i => t[1] = q
  BY <1>1, <1>2, <1>5, <1>6, UpIs
<1>10. PICK a \in E : a[2] \notin {0, 3} /\ a[3] = i
  BY <1>4, <1>6 DEF Rooted
<1>11. a[1] = q
  BY <1>9, <1>10
<1>12. \A p \in D : Live(ct[p]) \subseteq DOMAIN v.ct[p] /\ v.ct[p] = ct[p]
  BY <1>1, VolumeIs DEF Live
<1>13. ASSUME NEW p \in Dirs, NEW o \in Live(ct[p]), ct[p][o].ino = i, ct[p][o].name \in Name
       PROVE  p = q
  <2>1. o \in DOMAIN v.ct[p] /\ i = v.ct[p][o].ino /\ i # 0 /\ o \notin {0, 3}
    BY <1>4, <1>12, <1>13, NamesAt DEF Live
  <2>2. p \in Inum /\ v.mode[p] = "dir"
    BY <1>3, <1>4 DEF DirsOf
  <2>3. PICK t \in E : t[1] = p /\ t[2] = o /\ t[3] = i
    BY <1>1, <1>2, <2>1, <2>2, EntryUsed
  <2> QED  BY <1>9, <2>1, <2>3
<1>14. \E o \in Live(ct[q]) : ct[q][o].ino = i /\ ct[q][o].name \in Name
  <2>1. a \in Arc /\ a[2] \in DOMAIN ct[q] /\ ct[q][a[2]].ino = i
    BY <1>1, <1>2, <1>10, <1>11, VolumeIs DEF Arcs
  <2>2. a[2] \in Live(ct[q])
    BY <1>10, <2>1, ArcIs DEF Live
  <2> QED  BY <1>4, <1>8, <1>10, <2>1, <2>2, NamesAt
<1>15. {p \in Dirs : \E o \in Live(ct[p]) : ct[p][o].ino = i /\ ct[p][o].name \in Name} = {q}
  BY <1>4, <1>8, <1>13, <1>14
<1>16. ROOTINO \in Above(v, i)
  <2>1. \A S \in SUBSET D : i \in S /\ Climbs(E, S) => ROOTINO \in S
    BY <1>4 DEF Rooted, Reached
  <2> QED  BY <1>1, <1>2, <1>3, <2>1, RootInum, AboveIs
<1> QED  BY <1>1, <1>5, <1>15, <1>16

LEMMA LinksPlaces == Inv /\ Links => LockPlaced
<1> SUFFICES ASSUME Inv, Links, NEW l \in Lock \ stray, lock[l] # Free
             PROVE  /\ IsDir(lock[l].pinum)
                    /\ lock[l].named =>
                          /\ lock[l].poffset \in Live(ct[lock[l].pinum])
                          /\ ct[lock[l].pinum][lock[l].poffset].ino = lock[l].key
  BY DEF LockPlaced
<1>1. PICK e : e = lock[l] /\ HasPlace(Arcs(Volume), e)
  BY DEF Links, Placed
<1>2. \A p \in DirsOf(Volume) : IsDir(p)
  BY VolumeIs DEF DirsOf, IsDir
<1>3. CASE ~e.named /\ e.key = ROOTINO /\ e.pinum = ROOTINO
  <2>1. ROOTINO \in DirsOf(Volume)
    BY DEF Links, Exact, Rooted
  <2> QED  BY <1>1, <1>2, <1>3, <2>1
<1>4. ASSUME NEW a \in Arcs(Volume), a[1] = e.pinum, a[3] = e.key, e.named => a[2] = e.poffset
      PROVE  /\ IsDir(e.pinum)
             /\ e.named => e.poffset \in Live(ct[e.pinum]) /\ ct[e.pinum][e.poffset].ino = e.key
  <2>1. IsDir(e.pinum)
    BY <1>2, <1>4 DEF Links, Exact, Rooted
  <2>2. a \in Arc /\ a[2] \in DOMAIN ct[e.pinum] /\ ct[e.pinum][a[2]].ino = e.key
    BY <1>4, VolumeIs DEF Arcs
  <2>3. a[2] \in Live(ct[e.pinum])
    BY <1>4, <2>2, ArcIs DEF Live
  <2> QED  BY <1>4, <2>1, <2>2, <2>3
<1> QED  BY <1>1, <1>3, <1>4 DEF HasPlace

(* Every directory but the root has one name, where its ".." leads, and    *)
(* the root is above it: no rename makes a circle, the loop of             *)
(* dir_rename() sees every directory above the new place, and it ends.     *)
(* And fl_Pinum and fl_Poffset of a lock lead to its object's name, until  *)
(* that is renamed: entries that are made, deleted, split and joined       *)
(* around it do not move it (PLocateObject(), PParent(), PRenameObject(),  *)
(* PDeleteObject()).                                                       *)
THEOREM PlacesAlwaysHold == Spec => []PlacesHold
<1>1. Inv /\ Links => PlacesHold
  BY LinksTree, LinksPlaces DEF PlacesHold
<1> QED  BY <1>1, LinksInvariance, PTL
=============================================================================
