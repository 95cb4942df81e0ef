----------------------------- MODULE AllocProofs -----------------------------
(***************************************************************************)
(* The counts of free blocks, frags and clusters are those of the bitmap   *)
(* whatever is allocated and given back, for any sizes of blocks and       *)
(* groups, and the searches find what there is to find.                    *)
(***************************************************************************)
EXTENDS AllocCalls, FiniteSetTheorems, TLAPS

(* A set of naturals that is not empty has a least member.                 *)
LEMMA LeastIs ==
    ASSUME NEW T, T \subseteq Nat, T # {}
    PROVE  Least(T) \in T /\ \A y \in T : Least(T) <= y
<1> DEFINE R == OpToRel(<, Nat)
<1>1. PICK x \in T : \A y \in T : ~(<<y, x>> \in R)
  <2>1. IsWellFoundedOn(R, Nat)
    BY NatLessThanWellFounded, Zenon
  <2> HIDE DEF R
  <2> QED  BY <2>1, WFMin, Zenon
<1>2. \A y \in T : y < x => <<y, x>> \in R
  BY DEF OpToRel
<1> HIDE DEF R
<1>3. \A y \in T : ~(y < x)
  BY <1>1, <1>2, Zenon
<1>4. x \in Nat /\ \A y \in T : y \in Nat
  OBVIOUS
<1>5. \A y \in T : x <= y
  BY <1>3, <1>4
<1> QED  BY <1>5 DEF Least

(* And one that is bounded has a greatest.                                 *)
LEMMA MostIs ==
    ASSUME NEW T, NEW k \in Nat, T \subseteq 0..k, T # {}
    PROVE  Most(T) \in T /\ \A y \in T : y <= Most(T)
<1> DEFINE U == {u \in Nat : u <= k /\ k - u \in T}
<1>1. U # {}
  <2>1. PICK t \in T : TRUE
    OBVIOUS
  <2>2. t \in 0..k
    BY <2>1
  <2>3. k - t \in Nat /\ k - t <= k /\ k - (k - t) = t
    BY <2>2
  <2> QED  BY <2>1, <2>3
<1>2. PICK u \in U : \A y \in U : u <= y
  BY <1>1, LeastIs
<1>3. \A y \in T : y <= k - u
  <2> SUFFICES ASSUME NEW y \in T PROVE y <= k - u
    OBVIOUS
  <2>1. y \in 0..k
    OBVIOUS
  <2>2. k - y \in Nat /\ k - y <= k /\ k - (k - y) = y
    BY <2>1
  <2>3. u <= k - y
    BY <1>2, <2>2
  <2> QED  BY <1>2, <2>1, <2>3
<1>4. k - u \in T
  BY <1>2
<1> HIDE DEF U
<1> QED  BY <1>3, <1>4 DEF Most

-----------------------------------------------------------------------------
(* Addresses.                                                              *)

(* Dividing an address by what it is a multiple of, plus a rest.           *)
LEMMA DivMod ==
    ASSUME NEW k \in Nat, NEW r \in Nat, NEW D \in Nat, r < D
    PROVE  (D * k + r) \div D = k /\ (D * k + r) % D = r
  OBVIOUS

(* Quotient and remainder.                                                 *)
LEMMA Divides ==
    ASSUME NEW x \in Nat, NEW D \in Nat, D > 0
    PROVE  /\ x \div D \in Nat /\ x % D \in 0..(D - 1)
           /\ x = D * (x \div D) + (x % D)
  OBVIOUS

(* Where blocks start, and that they do not overlap.                       *)
LEMMA Geometry ==
    /\ FRAGS_PER_BLK \in Nat /\ FRAGS_PER_BLK > 0
    /\ \A x \in Nat : blknum(x) \in Nat /\ blknum(x) <= x /\ x < blknum(x) + FRAGS_PER_BLK
                      /\ blknum(x) % FRAGS_PER_BLK = 0 /\ x % FRAGS_PER_BLK = x - blknum(x)
    /\ \A b, c \in Nat : b % FRAGS_PER_BLK = 0 /\ c % FRAGS_PER_BLK = 0 /\ b < c
                            => b + FRAGS_PER_BLK <= c
<1>1. CASE FRAGS_PER_BLK = 1
  BY <1>1 DEF blknum
<1>2. CASE FRAGS_PER_BLK = 2
  BY <1>2 DEF blknum
<1>4. CASE FRAGS_PER_BLK = 4
  BY <1>4 DEF blknum
<1>8. CASE FRAGS_PER_BLK = 8
  BY <1>8 DEF blknum
<1> QED  BY <1>1, <1>2, <1>4, <1>8, GeometryAssumption

(* A frag lies in the block that starts at b if and only if that is its    *)
(* blknum().                                                               *)
LEMMA InBlock ==
    ASSUME NEW b \in Nat, b % FRAGS_PER_BLK = 0, NEW x \in Nat
    PROVE  x \in BlockAt(b) <=> blknum(x) = b
<1>1. x \in BlockAt(b) <=> b <= x /\ x < b + FRAGS_PER_BLK
  BY Geometry DEF BlockAt, FragsOf
<1>2. PICK c \in Nat : /\ c = blknum(x) /\ c <= x /\ x < c + FRAGS_PER_BLK
                       /\ (c < b => c + FRAGS_PER_BLK <= b)
                       /\ (b < c => b + FRAGS_PER_BLK <= c)
  BY Geometry
<1>3. FRAGS_PER_BLK \in Nat
  BY Geometry
<1> QED  BY <1>1, <1>2, <1>3

(* A group and an offset in it, and back.                                  *)
LEMMA InGroup ==
    ASSUME NEW g \in Group, NEW f \in Nat, f < fs_fpg
    PROVE  /\ cgbase(g) \in Nat /\ cgbase(g) + f \in Nat
           /\ dtog(cgbase(g) + f) = g /\ dtogd(cgbase(g) + f) = f
<1>1. g \in Nat /\ fs_fpg \in Nat
  BY GeometryAssumption DEF Group
<1>2. fs_fpg * g \in Nat
  BY <1>1
<1> QED  BY <1>1, <1>2, DivMod DEF cgbase, dtog, dtogd

(* The frags of a group that hold data.                                    *)
LEMMA DataIs ==
    ASSUME NEW g \in Group
    PROVE  /\ cg_ndblk[g] \in Nat /\ cg_ndblk[g] > 0 /\ cg_ndblk[g] <= fs_fpg /\ fs_fpg \in Nat
           /\ DataOf(g) \subseteq 0..(cg_ndblk[g] - 1)
           /\ IsFiniteSet(DataOf(g))
           /\ \A f \in DataOf(g) : cgbase(g) + f \in Nat \ Reserved /\ cgbase(g) + f # 0
<1>1. cg_ndblk[g] \in 1..fs_fpg /\ fs_fpg \in Nat
  BY GeometryAssumption
<1>2. DataOf(g) \subseteq 0..(cg_ndblk[g] - 1)
  BY DEF DataOf
<1>3. IsFiniteSet(0..(cg_ndblk[g] - 1))
  BY <1>1, FS_Interval
<1>4. IsFiniteSet(DataOf(g))
  BY <1>2, <1>3, FS_Subset
<1>5. ASSUME NEW f \in DataOf(g) PROVE cgbase(g) + f \in Nat \ Reserved /\ cgbase(g) + f # 0
  <2>1. f \in Nat /\ f < fs_fpg
    BY <1>1, <1>2
  <2>2. cgbase(g) + f \notin Reserved
    BY DEF DataOf, DataFrag
  <2> QED  BY <2>1, <2>2, InGroup, ReservedAssumption
<1> QED  BY <1>1, <1>2, <1>4, <1>5

(* A frag that holds data is at an offset of its group.                    *)
LEMMA DataFragIs ==
    ASSUME NEW e \in DataFrag
    PROVE  /\ e \in Nat /\ e \notin Reserved
           /\ dtog(e) \in Group /\ dtogd(e) \in DataOf(dtog(e))
           /\ e = cgbase(dtog(e)) + dtogd(e)
<1>1. PICK g \in Group : e \in FragsOf(cgbase(g), cg_ndblk[g])
  BY DEF DataFrag
<1>2. cg_ndblk[g] \in Nat /\ cg_ndblk[g] <= fs_fpg /\ fs_fpg \in Nat /\ fs_fpg > 0
  BY DataIs, GeometryAssumption
<1>3. cgbase(g) \in Nat
  BY <1>2, InGroup
<1>4. PICK f \in Nat : f < cg_ndblk[g] /\ e = cgbase(g) + f
  <2>1. e \in cgbase(g)..(cgbase(g) + cg_ndblk[g] - 1)
    BY <1>1 DEF FragsOf
  <2>2. e - cgbase(g) \in Nat /\ e - cgbase(g) < cg_ndblk[g] /\ e = cgbase(g) + (e - cgbase(g))
    BY <1>2, <1>3, <2>1
  <2> QED  BY <2>2
<1>5. e \in Nat /\ dtog(e) = g /\ dtogd(e) = f
  BY <1>2, <1>4, InGroup
<1>6. f \in DataOf(g)
  BY <1>2, <1>4 DEF DataOf
<1> QED  BY <1>4, <1>5, <1>6 DEF DataFrag

(* Frags of one block are frags of one group.                              *)
LEMMA SameGroup ==
    ASSUME NEW d \in Nat, NEW n \in Nat, n > 0, (d % FRAGS_PER_BLK) + n <= FRAGS_PER_BLK
    PROVE  /\ dtogd(d) \in Nat /\ dtogd(d) % FRAGS_PER_BLK = d % FRAGS_PER_BLK
           /\ dtogd(d) + n <= fs_fpg
           /\ blknum(dtogd(d)) + FRAGS_PER_BLK <= fs_fpg
           /\ \A i \in 0..(n - 1) : dtog(d + i) = dtog(d) /\ dtogd(d + i) = dtogd(d) + i
<1> DEFINE F == FRAGS_PER_BLK
           q == dtog(d)
           r == dtogd(d)
<1>0. F \in Nat /\ F > 0 /\ fs_fpg \in Nat /\ fs_fpg > 0 /\ fs_fpg % F = 0
  BY GeometryAssumption, Geometry
<1>1. q \in Nat /\ r \in 0..(fs_fpg - 1) /\ d = fs_fpg * q + r
  BY <1>0, Divides DEF dtog, dtogd
<1>2. PICK c \in Nat : fs_fpg = F * c
  <2> HIDE DEF F
  <2> QED  BY <1>0, Divides
<1>3. r \div F \in Nat /\ r % F \in 0..(F - 1) /\ r = F * (r \div F) + (r % F)
  <2> HIDE DEF F, r
  <2> QED  BY <1>0, <1>1, Divides
<1>4. r % F = d % F
  <2> DEFINE k == c * q + (r \div F)
             t == r % F
  <2>1. k \in Nat /\ t \in Nat /\ t < F
    <3>1. c * q \in Nat
      BY <1>1, <1>2
    <3> HIDE DEF F, r, q
    <3> QED  BY <1>0, <1>3, <3>1
  <2>2. d = F * k + t
    <3> HIDE DEF F, r, q
    <3> QED  BY <1>0, <1>1, <1>2, <1>3
  <2> HIDE DEF F, k, t
  <2>3. d % F = t
    BY <1>0, <2>1, <2>2, DivMod
  <2> QED  BY <2>3 DEF t
<1>5. blknum(r) + F <= fs_fpg /\ r = blknum(r) + (r % F)
  <2>1. blknum(r) \in Nat /\ blknum(r) % F = 0 /\ blknum(r) < fs_fpg /\ (r % F) = r - blknum(r)
    <3>1. r \in Nat /\ r < fs_fpg
      BY <1>0, <1>1
    <3>2. blknum(r) \in Nat /\ blknum(r) <= r
      BY <3>1, Geometry
    <3>3. blknum(r) % F = 0 /\ (r % F) = r - blknum(r)
      BY <3>1, Geometry
    <3> QED  BY <1>0, <3>1, <3>2, <3>3
  <2>2. blknum(r) + F <= fs_fpg
    BY <1>0, <2>1, Geometry
  <2> HIDE DEF F, r
  <2> QED  BY <1>0, <1>1, <2>1, <2>2
<1>6. r + n <= fs_fpg
  <2> HIDE DEF r, q
  <2> QED  BY <1>0, <1>1, <1>4, <1>5, Geometry
<1>7. ASSUME NEW i \in 0..(n - 1)
      PROVE  dtog(d + i) = q /\ dtogd(d + i) = r + i
  <2>1. r + i \in Nat /\ r + i < fs_fpg /\ d + i = fs_fpg * q + (r + i)
    <3> HIDE DEF r, q
    <3> QED  BY <1>0, <1>1, <1>6
  <2> HIDE DEF r, q
  <2>2. (d + i) \div fs_fpg = q /\ (d + i) % fs_fpg = r + i
    BY <1>0, <1>1, <2>1, DivMod
  <2> QED  BY <2>2 DEF dtog, dtogd
<1> QED  BY <1>1, <1>4, <1>5, <1>6, <1>7

-----------------------------------------------------------------------------
(* Counting.                                                               *)

(* Two finite sets that are the same without the members in C and D.       *)
LEMMA CountLocal ==
    ASSUME NEW X, NEW Y, NEW C, NEW D, IsFiniteSet(X), IsFiniteSet(Y),
           C \subseteq X, D \subseteq Y, X \ C = Y \ D, IsFiniteSet(C), IsFiniteSet(D)
    PROVE  /\ Cardinality(X) \in Nat /\ Cardinality(Y) \in Nat
           /\ Cardinality(C) \in Nat /\ Cardinality(D) \in Nat
           /\ Cardinality(Y) = Cardinality(X) - Cardinality(C) + Cardinality(D)
<1>1. X \cap C = C /\ Y \cap D = D
  OBVIOUS
<1>2. /\ Cardinality(X) \in Nat /\ Cardinality(Y) \in Nat
      /\ Cardinality(C) \in Nat /\ Cardinality(D) \in Nat
  BY FS_CardinalityType
<1>3. Cardinality(X \ C) = Cardinality(X) - Cardinality(X \cap C)
  BY FS_Difference, Zenon
<1>4. Cardinality(Y \ D) = Cardinality(Y) - Cardinality(Y \cap D)
  BY FS_Difference, Zenon
<1>5. Cardinality(X \ C) = Cardinality(Y \ D)
  OBVIOUS
<1>6. Cardinality(X \cap C) = Cardinality(C) /\ Cardinality(Y \cap D) = Cardinality(D)
  BY <1>1, Zenon
<1> QED  BY <1>2, <1>3, <1>4, <1>5, <1>6

(* Taking members out of a finite set.                                     *)
LEMMA CountLess ==
    ASSUME NEW X, IsFiniteSet(X), NEW S, S \subseteq X
    PROVE  /\ IsFiniteSet(S) /\ IsFiniteSet(X \ S)
           /\ Cardinality(X) \in Nat /\ Cardinality(S) \in Nat
           /\ Cardinality(X \ S) = Cardinality(X) - Cardinality(S)
<1>1. X \cap S = S
  OBVIOUS
<1>2. IsFiniteSet(S) /\ IsFiniteSet(X \ S)
  BY FS_Subset
<1>3. Cardinality(X) \in Nat /\ Cardinality(S) \in Nat
  BY <1>2, FS_CardinalityType
<1>4. Cardinality(X \ S) = Cardinality(X) - Cardinality(X \cap S)
  BY FS_Difference, Zenon
<1> QED  BY <1>1, <1>2, <1>3, <1>4

(* A set of at most two.                                                   *)
LEMMA CountTwo ==
    ASSUME NEW x, NEW y, x # y, NEW S, S \subseteq {x, y}
    PROVE  Cardinality(S) = (IF x \in S THEN 1 ELSE 0) + (IF y \in S THEN 1 ELSE 0)
<1>1. CASE x \in S /\ y \in S
  <2>1. S = {x} \cup {y} /\ y \notin {x}
    BY <1>1
  <2>2. IsFiniteSet({x}) /\ Cardinality({x}) = 1
    BY FS_Singleton
  <2>3. Cardinality(S) = 2
    BY <2>1, <2>2, FS_AddElement
  <2> QED  BY <1>1, <2>3
<1>2. CASE x \in S /\ y \notin S
  <2>1. S = {x}
    BY <1>2
  <2> QED  BY <1>2, <2>1, FS_Singleton
<1>3. CASE x \notin S /\ y \in S
  <2>1. S = {y}
    BY <1>3
  <2> QED  BY <1>3, <2>1, FS_Singleton
<1>4. CASE x \notin S /\ y \notin S
  <2>1. S = {}
    BY <1>4
  <2> QED  BY <1>4, <2>1, FS_EmptySet
<1> QED  BY <1>1, <1>2, <1>3, <1>4

-----------------------------------------------------------------------------
(* Runs of free frags.                                                     *)
LEMMA RunIs ==
    ASSUME NEW A, NEW b \in Nat, NEW n \in Nat, NEW x
    PROVE  x \in Runs(A, b, n) <=>
              /\ x \in Nat /\ b <= x /\ x + n <= b + FRAGS_PER_BLK
              /\ \A y \in Nat : x <= y /\ y < x + n => y \in A
              /\ x = b \/ x - 1 \notin A
              /\ x + n = b + FRAGS_PER_BLK \/ x + n \notin A
<1>1. FRAGS_PER_BLK \in Nat
  BY Geometry
<1>2. x \in b..(b + FRAGS_PER_BLK - n) <=> x \in Nat /\ b <= x /\ x + n <= b + FRAGS_PER_BLK
  BY <1>1
<1>3. x \in Nat => (FragsOf(x, n) \subseteq A <=> \A y \in Nat : x <= y /\ y < x + n => y \in A)
  BY DEF FragsOf
<1> QED  BY <1>2, <1>3 DEF Runs

(* Of the frags p to r - 1, all free, with no free frag of the block at    *)
(* either end, the frags f to e - 1 are taken.                             *)
Splits(A, B, b, p, f, e, r) ==
    /\ b <= p /\ p <= f /\ f < e /\ e <= r /\ r <= b + FRAGS_PER_BLK
    /\ \A y \in Nat : p <= y /\ y < r => y \in A
    /\ p = b \/ p - 1 \notin A
    /\ r = b + FRAGS_PER_BLK \/ r \notin A
    /\ \A y \in Nat : b <= y /\ y < b + FRAGS_PER_BLK => (y \in B <=> y \in A /\ ~(f <= y /\ y < e))

(* A run that starts elsewhere is not touched by the split.                *)
LEMMA OtherRuns ==
    ASSUME NEW A, NEW B, NEW b \in Nat, NEW p \in Nat, NEW f \in Nat, NEW e \in Nat, NEW r \in Nat,
           Splits(A, B, b, p, f, e, r), NEW n \in Nat, n > 0, NEW x \in Nat, x # p, x # e
    PROVE  x \in Runs(A, b, n) <=> x \in Runs(B, b, n)
<1>0. /\ b <= p /\ p <= f /\ f < e /\ e <= r /\ r <= b + FRAGS_PER_BLK /\ FRAGS_PER_BLK \in Nat
      /\ \A y \in Nat : p <= y /\ y < r => y \in A
      /\ p = b \/ p - 1 \notin A
      /\ r = b + FRAGS_PER_BLK \/ r \notin A
      /\ \A y \in Nat : b <= y /\ y < b + FRAGS_PER_BLK => (y \in B <=> y \in A /\ ~(f <= y /\ y < e))
  BY Geometry DEF Splits
<1> DEFINE Whole(Z) == /\ b <= x /\ x + n <= b + FRAGS_PER_BLK
                       /\ \A y \in Nat : x <= y /\ y < x + n => y \in Z
           Before(Z) == x = b \/ x - 1 \notin Z
           Behind(Z) == x + n = b + FRAGS_PER_BLK \/ x + n \notin Z
<1>r. \A Z : x \in Runs(Z, b, n) <=> Whole(Z) /\ Before(Z) /\ Behind(Z)
  BY RunIs
<1>1. CASE x < p
  <2>1. ASSUME NEW Z, Z = A \/ Z = B, x \in Runs(Z, b, n) PROVE x + n < p
    <3>1. /\ b <= x /\ x + n <= b + FRAGS_PER_BLK
          /\ \A y \in Nat : x <= y /\ y < x + n => y \in Z
          /\ x + n = b + FRAGS_PER_BLK \/ x + n \notin Z
      BY <2>1, <1>r
    <3>2. p - 1 \in Nat /\ p - 1 \notin A /\ p - 1 \notin Z
      BY <1>0, <1>1, <2>1, <3>1
    <3>3. x + n <= p - 1
      BY <1>1, <3>1, <3>2
    <3> QED  BY <3>2, <3>3
  <2>2. ASSUME x + n < p, b <= x PROVE x \in Runs(A, b, n) <=> x \in Runs(B, b, n)
    <3>1. \A y \in Nat : b <= y /\ y < p => (y \in A <=> y \in B)
      BY <1>0
    <3>2. x # b => x - 1 \in Nat /\ b <= x - 1 /\ x - 1 < p
      BY <1>1, <2>2
    <3>3. (x # b => (x - 1 \in A <=> x - 1 \in B)) /\ (x + n \in A <=> x + n \in B)
      BY <2>2, <3>1, <3>2
    <3>4. \A y \in Nat : x <= y /\ y < x + n => (y \in A <=> y \in B)
      BY <2>2, <3>1
    <3>5. (Whole(A) <=> Whole(B)) /\ (Before(A) <=> Before(B)) /\ (Behind(A) <=> Behind(B))
      BY <3>3, <3>4
    <3> HIDE DEF Whole, Before, Behind
    <3> QED  BY <1>r, <3>5
  <2>3. \A Z : x \in Runs(Z, b, n) => b <= x
    BY <1>r
  <2> QED  BY <2>1, <2>2, <2>3
<1>2. CASE p < x /\ x < r
  <2>1. x \notin Runs(A, b, n)
    <3>1. x - 1 \in Nat /\ x - 1 \in A /\ x # b
      BY <1>0, <1>2
    <3>2. x \in Runs(A, b, n) => Before(A)
      BY <1>r
    <3> QED  BY <3>1, <3>2
  <2>2. x \notin Runs(B, b, n)
    <3>1. x - 1 \in Nat /\ x # b /\ b <= x - 1 /\ x - 1 < b + FRAGS_PER_BLK /\ x - 1 \in A
      BY <1>0, <1>2
    <3>2. CASE f <= x /\ x < e
      <4>1. x \notin B
        BY <1>0, <1>2, <3>2
      <4>2. x \in Runs(B, b, n) => x \in B
        BY <1>r
      <4> QED  BY <4>1, <4>2
    <3>3. CASE ~(f <= x /\ x < e)
      <4>1. x - 1 \in B
        BY <1>0, <1>2, <3>1, <3>3
      <4>2. x \in Runs(B, b, n) => Before(B)
        BY <1>r
      <4> QED  BY <3>1, <4>1, <4>2
    <3> QED  BY <3>2, <3>3
  <2> QED  BY <2>1, <2>2
<1>3. CASE x >= r
  <2>1. \A y \in Nat : r <= y /\ y < b + FRAGS_PER_BLK => (y \in A <=> y \in B)
    BY <1>0
  <2>2. ASSUME NEW Z, Z = A \/ Z = B, x \in Runs(Z, b, n) PROVE r < x /\ x + n <= b + FRAGS_PER_BLK
    <3>1. x + n <= b + FRAGS_PER_BLK /\ x \in Z
      BY <2>2, <1>r
    <3>2. r # b + FRAGS_PER_BLK
      BY <1>3, <3>1, <1>0
    <3>3. r \notin Z
      BY <1>0, <2>1, <2>2, <3>2
    <3> QED  BY <1>3, <3>1, <3>3
  <2>3. ASSUME r < x, x + n <= b + FRAGS_PER_BLK PROVE x \in Runs(A, b, n) <=> x \in Runs(B, b, n)
    <3>1. x - 1 \in Nat /\ r <= x - 1 /\ x - 1 < b + FRAGS_PER_BLK
      BY <2>3, <1>0
    <3>2. (x - 1 \in A <=> x - 1 \in B)
      BY <2>1, <3>1
    <3>3. x + n # b + FRAGS_PER_BLK => (x + n \in A <=> x + n \in B)
      BY <2>1, <2>3, <1>0
    <3>4. \A y \in Nat : x <= y /\ y < x + n => (y \in A <=> y \in B)
      BY <2>1, <2>3, <1>0
    <3>5. (Whole(A) <=> Whole(B)) /\ (Before(A) <=> Before(B)) /\ (Behind(A) <=> Behind(B))
      BY <3>2, <3>3, <3>4
    <3> HIDE DEF Whole, Before, Behind
    <3> QED  BY <1>r, <3>5
  <2> QED  BY <2>2, <2>3
<1> QED  BY <1>1, <1>2, <1>3, <1>0

(* The runs that start where the split does, and behind it.                *)
LEMMA EndRuns ==
    ASSUME NEW A, NEW B, NEW b \in Nat, NEW p \in Nat, NEW f \in Nat, NEW e \in Nat, NEW r \in Nat,
           Splits(A, B, b, p, f, e, r), NEW n \in Nat, n > 0
    PROVE  /\ p \in Runs(A, b, n) <=> n = r - p
           /\ e \notin Runs(A, b, n)
           /\ p \in Runs(B, b, n) <=> n = f - p
           /\ e \in Runs(B, b, n) <=> n = r - e
<1>0. /\ b <= p /\ p <= f /\ f < e /\ e <= r /\ r <= b + FRAGS_PER_BLK /\ FRAGS_PER_BLK \in Nat
      /\ \A y \in Nat : p <= y /\ y < r => y \in A
      /\ p = b \/ p - 1 \notin A
      /\ r = b + FRAGS_PER_BLK \/ r \notin A
      /\ \A y \in Nat : b <= y /\ y < b + FRAGS_PER_BLK => (y \in B <=> y \in A /\ ~(f <= y /\ y < e))
  BY Geometry DEF Splits
(* A run that begins where Z is free from x up to z, and no further.       *)
<1>1. ASSUME NEW Z, NEW x \in Nat, NEW z \in Nat, b <= x, x <= z, z <= b + FRAGS_PER_BLK,
             x = b \/ x - 1 \notin Z, z = b + FRAGS_PER_BLK \/ z \notin Z,
             \A y \in Nat : x <= y /\ y < z => y \in Z
      PROVE  x \in Runs(Z, b, n) <=> n = z - x
  <2>1. x \in Runs(Z, b, n) <=> /\ x + n <= b + FRAGS_PER_BLK
                                /\ \A y \in Nat : x <= y /\ y < x + n => y \in Z
                                /\ x + n = b + FRAGS_PER_BLK \/ x + n \notin Z
    BY <1>1, RunIs
  <2>2. CASE x + n < z
    <3>1. x + n \in Z /\ x + n # b + FRAGS_PER_BLK
      BY <1>0, <1>1, <2>2
    <3> QED  BY <2>1, <2>2, <3>1
  <2>3. CASE x + n > z
    <3>1. ASSUME x + n <= b + FRAGS_PER_BLK PROVE z \notin Z
      BY <1>0, <1>1, <2>3, <3>1
    <3> QED  BY <1>1, <2>1, <2>3, <3>1
  <2>4. CASE x + n = z
    BY <1>1, <2>1, <2>4
  <2> QED  BY <2>2, <2>3, <2>4
<1>2. p \in Runs(A, b, n) <=> n = r - p
  BY <1>0, <1>1
<1>3. e \notin Runs(A, b, n)
  <2>1. e - 1 \in Nat /\ e - 1 \in A /\ e # b
    BY <1>0
  <2> QED  BY <2>1, RunIs
<1>4. p \in Runs(B, b, n) <=> n = f - p
  <2>1. p = b \/ p - 1 \notin B
    <3>1. CASE p # b
      <4>1. p - 1 \in Nat /\ b <= p - 1 /\ p - 1 < b + FRAGS_PER_BLK /\ p - 1 \notin A
        BY <1>0, <3>1
      <4> QED  BY <1>0, <4>1
    <3> QED  BY <3>1
  <2>2. f \notin B /\ f <= b + FRAGS_PER_BLK
    BY <1>0
  <2>3. \A y \in Nat : p <= y /\ y < f => y \in B
    BY <1>0
  <2> QED  BY <1>0, <1>1, <2>1, <2>2, <2>3
<1>5. e \in Runs(B, b, n) <=> n = r - e
  <2>1. e - 1 \in Nat /\ e - 1 \notin B
    BY <1>0
  <2>2. r = b + FRAGS_PER_BLK \/ r \notin B
    BY <1>0
  <2>3. \A y \in Nat : e <= y /\ y < r => y \in B
    BY <1>0
  <2> QED  BY <1>0, <1>1, <2>1, <2>2, <2>3
<1> QED  BY <1>2, <1>3, <1>4, <1>5

-----------------------------------------------------------------------------
(* A map of a group.                                                       *)
Bits(g, A) == A \subseteq 0..(cg_ndblk[g] - 1)

(* The frags f to e - 1 are taken from the map A of a group and leave B.   *)
(* They lie in block b, in a run of free frags that reaches from p to r.   *)
Parts(g, A, B, b, p, f, e, r) ==
    /\ Bits(g, A) /\ Bits(g, B) /\ B \subseteq A
    /\ b \in BlockStarts(g) /\ p \in Nat /\ f \in Nat /\ e \in Nat /\ r \in Nat
    /\ Splits(A, B, b, p, f, e, r)
    /\ \A y \in Nat : y \notin BlockAt(b) => (y \in A <=> y \in B)

(* A block of a group.                                                     *)
LEMMA StartIs ==
    ASSUME NEW g \in Group, NEW b \in BlockStarts(g)
    PROVE  b \in Nat /\ b < cg_ndblk[g] /\ b % FRAGS_PER_BLK = 0 /\ blknum(b) = b
<1>1. b \in Nat /\ b < cg_ndblk[g] /\ b % FRAGS_PER_BLK = 0
  BY DataIs DEF BlockStarts
<1>2. b \in BlockAt(b)
  BY <1>1, Geometry DEF BlockAt, FragsOf
<1> QED  BY <1>1, <1>2, InBlock

(* Two finite sets that agree but for two members.                         *)
LEMMA CountOnly ==
    ASSUME NEW X, NEW Y, NEW x, NEW y, x # y, IsFiniteSet(X), IsFiniteSet(Y),
           \A z : z # x /\ z # y => (z \in X <=> z \in Y)
    PROVE  /\ Cardinality(X) \in Nat /\ Cardinality(Y) \in Nat
           /\ Cardinality(Y) = Cardinality(X)
                 - (IF x \in X THEN 1 ELSE 0) - (IF y \in X THEN 1 ELSE 0)
                 + (IF x \in Y THEN 1 ELSE 0) + (IF y \in Y THEN 1 ELSE 0)
<1>1. PICK C, D : C = X \cap {x, y} /\ D = Y \cap {x, y}
  OBVIOUS
<1>2. X \ C = Y \ D /\ C \subseteq X /\ D \subseteq Y
  BY <1>1
<1>3. IsFiniteSet(C) /\ IsFiniteSet(D)
  BY <1>2, FS_Subset
<1>4. /\ Cardinality(X) \in Nat /\ Cardinality(Y) \in Nat
      /\ Cardinality(Y) = Cardinality(X) - Cardinality(C) + Cardinality(D)
  BY <1>2, <1>3, CountLocal
<1>5. C \subseteq {x, y} /\ (x \in C <=> x \in X) /\ (y \in C <=> y \in X)
  BY <1>1
<1>6. D \subseteq {x, y} /\ (x \in D <=> x \in Y) /\ (y \in D <=> y \in Y)
  BY <1>1
<1>7. /\ Cardinality(C) = (IF x \in C THEN 1 ELSE 0) + (IF y \in C THEN 1 ELSE 0)
      /\ Cardinality(D) = (IF x \in D THEN 1 ELSE 0) + (IF y \in D THEN 1 ELSE 0)
  BY <1>5, <1>6, CountTwo
<1> QED  BY <1>4, <1>5, <1>6, <1>7

(* The runs of all blocks, each known by where it begins.                  *)
RunsIn(g, A, n) == UNION {Runs(A, b, n) : b \in Broken(g, A)}

(* A run of a group is found in the block where it starts.                 *)
LEMMA RunsInIs ==
    ASSUME NEW g \in Group, NEW A, NEW n \in 1..(FRAGS_PER_BLK - 1), NEW x
    PROVE  x \in RunsIn(g, A, n) <=>
              x \in Nat /\ blknum(x) \in BlockStarts(g) /\ x \in Runs(A, blknum(x), n)
<1>0. FRAGS_PER_BLK \in Nat /\ n \in Nat /\ n > 0 /\ n < FRAGS_PER_BLK
  BY Geometry
<1>1. ASSUME NEW b \in BlockStarts(g), x \in Runs(A, b, n)
      PROVE  x \in Nat /\ blknum(x) = b
  <2>1. x \in Nat /\ b <= x /\ x + n <= b + FRAGS_PER_BLK /\ b \in Nat /\ b % FRAGS_PER_BLK = 0
    BY <1>0, <1>1, StartIs, RunIs
  <2>2. x \in BlockAt(b)
    BY <1>0, <2>1 DEF BlockAt, FragsOf
  <2> QED  BY <2>1, <2>2, InBlock
<1>2. ASSUME NEW b \in FreeBlocks(g, A) PROVE x \notin Runs(A, b, n)
  <2>1. b \in BlockStarts(g) /\ b \in Nat
    BY StartIs DEF FreeBlocks
  <2>2. \A y \in Nat : b <= y /\ y < b + FRAGS_PER_BLK => y \in A
    BY <1>0, <2>1 DEF FreeBlocks, block_avail, BlockAt, FragsOf
  <2>3. SUFFICES ASSUME x \in Runs(A, b, n) PROVE FALSE
    OBVIOUS
  <2>4. /\ x \in Nat /\ b <= x /\ x + n <= b + FRAGS_PER_BLK
        /\ x = b \/ x - 1 \notin A
        /\ x + n = b + FRAGS_PER_BLK \/ x + n \notin A
    BY <1>0, <2>1, <2>3, RunIs
  <2>5. x = b
    BY <1>0, <2>1, <2>2, <2>4
  <2> QED  BY <1>0, <2>1, <2>2, <2>4, <2>5
<1>3. x \in RunsIn(g, A, n) <=> \E b \in BlockStarts(g) : b \notin FreeBlocks(g, A) /\ x \in Runs(A, b, n)
  BY DEF RunsIn, Broken
<1> QED  BY <1>1, <1>2, <1>3

(* There are finitely many runs, so that they can be counted.              *)
LEMMA RunsInFinite ==
    ASSUME NEW g \in Group, NEW A, NEW n \in 1..(FRAGS_PER_BLK - 1)
    PROVE  IsFiniteSet(RunsIn(g, A, n)) /\ Cardinality(RunsIn(g, A, n)) \in Nat
<1>1. FRAGS_PER_BLK \in Nat /\ cg_ndblk[g] \in Nat
  BY Geometry, DataIs
<1>2. RunsIn(g, A, n) \subseteq 0..(cg_ndblk[g] + FRAGS_PER_BLK)
  <2> SUFFICES ASSUME NEW x \in RunsIn(g, A, n) PROVE x \in 0..(cg_ndblk[g] + FRAGS_PER_BLK)
    OBVIOUS
  <2>1. x \in Nat /\ blknum(x) \in BlockStarts(g)
    BY RunsInIs
  <2>2. blknum(x) \in Nat /\ blknum(x) < cg_ndblk[g] /\ x < blknum(x) + FRAGS_PER_BLK
    BY <2>1, StartIs, Geometry
  <2> QED  BY <1>1, <2>1, <2>2
<1>3. IsFiniteSet(0..(cg_ndblk[g] + FRAGS_PER_BLK))
  BY <1>1, FS_Interval
<1> QED  BY <1>2, <1>3, FS_Subset, FS_CardinalityType

(* One run goes, and up to two come instead.                               *)
LEMMA RunsSplit ==
    ASSUME NEW g \in Group, NEW A, NEW B, NEW b, NEW p, NEW f, NEW e, NEW r,
           Parts(g, A, B, b, p, f, e, r), NEW n \in 1..(FRAGS_PER_BLK - 1)
    PROVE  Cardinality(RunsIn(g, B, n)) =
              Cardinality(RunsIn(g, A, n)) - (IF n = r - p THEN 1 ELSE 0)
              + (IF n = f - p THEN 1 ELSE 0) + (IF n = r - e THEN 1 ELSE 0)
<1>0. /\ FRAGS_PER_BLK \in Nat /\ n \in Nat /\ n > 0 /\ n < FRAGS_PER_BLK
      /\ b \in BlockStarts(g) /\ b \in Nat /\ b % FRAGS_PER_BLK = 0 /\ b < cg_ndblk[g] /\ blknum(b) = b
      /\ p \in Nat /\ f \in Nat /\ e \in Nat /\ r \in Nat
      /\ Splits(A, B, b, p, f, e, r)
      /\ \A y \in Nat : y \notin BlockAt(b) => (y \in A <=> y \in B)
  BY Geometry, StartIs DEF Parts
<1>s. b <= p /\ p <= f /\ f < e /\ e <= r /\ r <= b + FRAGS_PER_BLK
  BY <1>0 DEF Splits
<1>1. PICK X, Y : X = RunsIn(g, A, n) /\ Y = RunsIn(g, B, n)
  OBVIOUS
<1>2. /\ \A x : x \in X <=> (x \in Nat /\ blknum(x) \in BlockStarts(g) /\ x \in Runs(A, blknum(x), n))
      /\ \A x : x \in Y <=> (x \in Nat /\ blknum(x) \in BlockStarts(g) /\ x \in Runs(B, blknum(x), n))
  BY <1>1, RunsInIs
<1>3. ASSUME NEW x \in Nat, blknum(x) # b
      PROVE  x \in X <=> x \in Y
  <2>1. SUFFICES ASSUME blknum(x) \in BlockStarts(g) 
                  PROVE  x \in Runs(A, blknum(x), n) <=> x \in Runs(B, blknum(x), n)
    BY <1>2
  <2>2. PICK c \in BlockStarts(g) : c = blknum(x) /\ c \in Nat /\ c % FRAGS_PER_BLK = 0 /\ c # b
    BY <1>3, <2>1, StartIs
  <2>3. ASSUME NEW y \in Nat, c <= y, y < c + FRAGS_PER_BLK PROVE y \in A <=> y \in B
    <3>1. y \in BlockAt(c)
      BY <1>0, <2>2, <2>3 DEF BlockAt, FragsOf
    <3>2. blknum(y) = c
      BY <2>2, <3>1, InBlock
    <3>3. y \notin BlockAt(b)
      BY <1>0, <2>2, <3>2, InBlock
    <3> QED  BY <1>0, <3>3
  <2>4. /\ x \in Runs(A, c, n) <=>
              /\ c <= x /\ x + n <= c + FRAGS_PER_BLK
              /\ \A y \in Nat : x <= y /\ y < x + n => y \in A
              /\ x = c \/ x - 1 \notin A
              /\ x + n = c + FRAGS_PER_BLK \/ x + n \notin A
        /\ x \in Runs(B, c, n) <=>
              /\ c <= x /\ x + n <= c + FRAGS_PER_BLK
              /\ \A y \in Nat : x <= y /\ y < x + n => y \in B
              /\ x = c \/ x - 1 \notin B
              /\ x + n = c + FRAGS_PER_BLK \/ x + n \notin B
    BY <1>0, <2>2, RunIs
  <2>5. CASE c <= x /\ x + n <= c + FRAGS_PER_BLK
    <3>1. x # c => x - 1 \in Nat /\ (x - 1 \in A <=> x - 1 \in B)
      BY <1>0, <2>2, <2>3, <2>5
    <3>2. x + n # c + FRAGS_PER_BLK => (x + n \in A <=> x + n \in B)
      BY <1>0, <2>2, <2>3, <2>5
    <3>3. \A y \in Nat : x <= y /\ y < x + n => (y \in A <=> y \in B)
      BY <1>0, <2>2, <2>3, <2>5
    <3> QED  BY <2>2, <2>4, <3>1, <3>2, <3>3
  <2> QED  BY <2>2, <2>4, <2>5
<1>4. ASSUME NEW x \in Nat, blknum(x) = b
      PROVE  (x \in X <=> x \in Runs(A, b, n)) /\ (x \in Y <=> x \in Runs(B, b, n))
  BY <1>0, <1>2, <1>4
<1>5. \A x : x # p /\ x # e => (x \in X <=> x \in Y)
  <2> SUFFICES ASSUME NEW x \in Nat, x # p, x # e PROVE x \in X <=> x \in Y
    BY <1>2
  <2>1. CASE blknum(x) = b
    BY <1>0, <1>4, <2>1, OtherRuns
  <2> QED  BY <1>3, <2>1
<1>6. IsFiniteSet(X) /\ IsFiniteSet(Y)
  BY <1>1, RunsInFinite
<1>7. /\ Cardinality(X) \in Nat
      /\ Cardinality(Y) = Cardinality(X)
                 - (IF p \in X THEN 1 ELSE 0) - (IF e \in X THEN 1 ELSE 0)
                 + (IF p \in Y THEN 1 ELSE 0) + (IF e \in Y THEN 1 ELSE 0)
  BY <1>0, <1>s, <1>5, <1>6, CountOnly
<1>8. (p \in X <=> n = r - p) /\ (p \in Y <=> n = f - p)
  <2>1. p \in BlockAt(b)
    BY <1>0, <1>s DEF BlockAt, FragsOf
  <2>2. blknum(p) = b
    BY <1>0, <2>1, InBlock
  <2> QED  BY <1>0, <1>4, <2>2, EndRuns
<1>9. CASE e < b + FRAGS_PER_BLK
  <2>1. e \in BlockAt(b)
    BY <1>0, <1>s, <1>9 DEF BlockAt, FragsOf
  <2>2. blknum(e) = b
    BY <1>0, <2>1, InBlock
  <2>3. e \notin X /\ (e \in Y <=> n = r - e)
    BY <1>0, <1>4, <2>2, EndRuns
  <2> QED  BY <1>0, <1>1, <1>7, <1>8, <2>3
<1>10. CASE e = b + FRAGS_PER_BLK
  <2>1. e \notin BlockAt(b)
    BY <1>0, <1>10 DEF BlockAt, FragsOf
  <2>2. blknum(e) # b
    BY <1>0, <2>1, InBlock
  <2>3. e \in X <=> e \in Y
    BY <1>0, <1>3, <2>2
  <2>4. n # r - e
    BY <1>0, <1>s, <1>10
  <2> QED  BY <1>0, <1>1, <1>7, <1>8, <2>3, <2>4
<1> QED  BY <1>0, <1>s, <1>9, <1>10

-----------------------------------------------------------------------------
(* What FreeBelow and FreeFrom measure is the rest of the run.             *)
LEMMA BelowIs ==
    ASSUME NEW A, NEW f \in Nat
    PROVE  LET low == FreeBelow(A, f)
           IN  /\ low \in Nat /\ low <= f - blknum(f)
               /\ \A y \in Nat : f - low <= y /\ y < f => y \in A
               /\ f - low = blknum(f) \/ f - low - 1 \notin A
<1> DEFINE T == {k \in 0..(f % FRAGS_PER_BLK) : FragsOf(f - k, k) \subseteq A}
           low == FreeBelow(A, f)
<1>1. PICK q \in Nat : q = f % FRAGS_PER_BLK /\ q = f - blknum(f)
  BY Geometry
<1>2. ASSUME NEW k \in Nat
      PROVE  k \in T <=> k <= q /\ \A y \in Nat : f - k <= y /\ y < f => y \in A
  <2>1. k <= q => f - k \in Nat
    BY <1>1, Geometry
  <2>2. k <= q => (FragsOf(f - k, k) \subseteq A <=> \A y \in Nat : f - k <= y /\ y < f => y \in A)
    BY <2>1 DEF FragsOf
  <2> QED  BY <1>1, <2>2
<1>3. T \subseteq 0..q /\ 0 \in T
  BY <1>1, <1>2
<1>4. low = Most(T)
  BY DEF FreeBelow
<1> HIDE DEF T, low
<1>5. low \in T /\ \A y \in T : y <= low
  BY <1>1, <1>3, <1>4, MostIs
<1>6. low \in Nat /\ low <= q /\ \A y \in Nat : f - low <= y /\ y < f => y \in A
  BY <1>2, <1>3, <1>5
<1>7. f - low = blknum(f) \/ f - low - 1 \notin A
  <2> SUFFICES ASSUME f - low # blknum(f), f - low - 1 \in A PROVE FALSE
    OBVIOUS
  <2>a. PICK c \in Nat : c = blknum(f)
    BY Geometry
  <2>0. low # q
    BY <1>1, <1>6, <2>a
  <2>1. low + 1 \in Nat /\ low + 1 <= q
    BY <1>6, <2>0
  <2>2. \A y \in Nat : f - (low + 1) <= y /\ y < f => y \in A
    <3> SUFFICES ASSUME NEW y \in Nat, f - (low + 1) <= y, y < f PROVE y \in A
      OBVIOUS
    <3>1. y = f - low - 1 \/ f - low <= y
      BY <1>6
    <3> QED  BY <1>6, <3>1
  <2>3. low + 1 \in T
    BY <1>2, <2>1, <2>2
  <2> QED  BY <1>5, <1>6, <2>3
<1> QED  BY <1>1, <1>6, <1>7 DEF low

(* What FreeFrom() counts.                                                 *)
LEMMA FromIs ==
    ASSUME NEW A, NEW b \in Nat, NEW e \in Nat, e <= b + FRAGS_PER_BLK
    PROVE  LET high == FreeFrom(A, e, b)
           IN  /\ high \in Nat /\ e + high <= b + FRAGS_PER_BLK
               /\ \A y \in Nat : e <= y /\ y < e + high => y \in A
               /\ e + high = b + FRAGS_PER_BLK \/ e + high \notin A
<1> DEFINE T == {k \in 0..(b + FRAGS_PER_BLK - e) : FragsOf(e, k) \subseteq A}
           high == FreeFrom(A, e, b)
<1>1. PICK q \in Nat : q = b + FRAGS_PER_BLK - e
  BY Geometry
<1>2. ASSUME NEW k \in Nat
      PROVE  k \in T <=> k <= q /\ \A y \in Nat : e <= y /\ y < e + k => y \in A
  <2>1. FragsOf(e, k) \subseteq A <=> \A y \in Nat : e <= y /\ y < e + k => y \in A
    BY DEF FragsOf
  <2> QED  BY <1>1, <2>1
<1>3. T \subseteq 0..q /\ 0 \in T
  BY <1>1, <1>2
<1>4. high = Most(T)
  BY DEF FreeFrom
<1> HIDE DEF T, high
<1>5. high \in T /\ \A y \in T : y <= high
  BY <1>1, <1>3, <1>4, MostIs
<1>6. high \in Nat /\ high <= q /\ \A y \in Nat : e <= y /\ y < e + high => y \in A
  BY <1>2, <1>3, <1>5
<1>7. e + high = b + FRAGS_PER_BLK \/ e + high \notin A
  <2> SUFFICES ASSUME e + high # b + FRAGS_PER_BLK, e + high \in A PROVE FALSE
    OBVIOUS
  <2>1. high + 1 \in Nat /\ high + 1 <= q
    BY <1>1, <1>6, Geometry
  <2>2. \A y \in Nat : e <= y /\ y < e + (high + 1) => y \in A
    <3> SUFFICES ASSUME NEW y \in Nat, e <= y, y < e + (high + 1) PROVE y \in A
      OBVIOUS
    <3>1. y = e + high \/ y < e + high
      BY <1>6
    <3> QED  BY <1>6, <3>1
  <2>3. high + 1 \in T
    BY <1>2, <2>1, <2>2
  <2> QED  BY <1>5, <1>6, <2>3
<1>8. e + high <= b + FRAGS_PER_BLK
  BY <1>1, <1>6, Geometry
<1> QED  BY <1>1, <1>6, <1>7, <1>8 DEF high

(* Frags that are free are taken.                                          *)
LEMMA PartsTake ==
    ASSUME NEW g \in Group, NEW A, Bits(g, A),
           NEW f \in Nat, NEW n \in Nat, n > 0, f + n <= blknum(f) + FRAGS_PER_BLK,
           FragsOf(f, n) \subseteq A
    PROVE  LET low  == FreeBelow(A, f)
               high == FreeFrom(A, f + n, blknum(f))
           IN  /\ low \in Nat /\ high \in Nat
               /\ Parts(g, A, A \ FragsOf(f, n), blknum(f), f - low, f, f + n, f + n + high)
<1>1. PICK b : b = blknum(f)
  OBVIOUS
<1>2. b \in Nat /\ b <= f /\ b % FRAGS_PER_BLK = 0 /\ FRAGS_PER_BLK \in Nat
  BY <1>1, Geometry
<1>3. \A y \in Nat : y \in FragsOf(f, n) <=> f <= y /\ y < f + n
  BY DEF FragsOf
<1>4. f \in A /\ cg_ndblk[g] \in Nat
  BY <1>3, DataIs
<1>5. b \in BlockStarts(g)
  BY <1>2, <1>4 DEF BlockStarts, Bits
<1>6. PICK low, high : low = FreeBelow(A, f) /\ high = FreeFrom(A, f + n, b)
  OBVIOUS
<1>7. /\ low \in Nat /\ low <= f - b
      /\ \A y \in Nat : f - low <= y /\ y < f => y \in A
      /\ f - low = b \/ f - low - 1 \notin A
  BY <1>1, <1>6, BelowIs
<1>8. /\ high \in Nat /\ f + n + high <= b + FRAGS_PER_BLK
      /\ \A y \in Nat : f + n <= y /\ y < f + n + high => y \in A
      /\ f + n + high = b + FRAGS_PER_BLK \/ f + n + high \notin A
  BY <1>1, <1>2, <1>6, FromIs
<1>9. \A y \in Nat : f - low <= y /\ y < f + n + high => y \in A
  BY <1>3, <1>7, <1>8
<1>10. Splits(A, A \ FragsOf(f, n), b, f - low, f, f + n, f + n + high)
  BY <1>2, <1>3, <1>7, <1>8, <1>9 DEF Splits
<1>11. \A y \in Nat : y \notin BlockAt(b) => y \notin FragsOf(f, n)
  BY <1>1, <1>2, <1>3 DEF BlockAt, FragsOf
<1>12. f - low \in Nat /\ f + n \in Nat /\ f + n + high \in Nat
  BY <1>2, <1>7, <1>8
<1>13. Parts(g, A, A \ FragsOf(f, n), b, f - low, f, f + n, f + n + high)
  BY <1>5, <1>10, <1>11, <1>12 DEF Parts, Bits
<1> QED  BY <1>1, <1>6, <1>7, <1>8, <1>13

(* Frags that are in use are given back.                                   *)
LEMMA PartsGive ==
    ASSUME NEW g \in Group, NEW B, Bits(g, B),
           NEW f \in Nat, NEW n \in Nat, n > 0, f + n <= blknum(f) + FRAGS_PER_BLK,
           FragsOf(f, n) \subseteq 0..(cg_ndblk[g] - 1), FragsOf(f, n) \cap B = {}
    PROVE  LET low  == FreeBelow(B, f)
               high == FreeFrom(B, f + n, blknum(f))
           IN  /\ low \in Nat /\ high \in Nat
               /\ Parts(g, B \cup FragsOf(f, n), B, blknum(f), f - low, f, f + n, f + n + high)
<1>1. PICK b, A : b = blknum(f) /\ A = B \cup FragsOf(f, n)
  OBVIOUS
<1>2. b \in Nat /\ b <= f /\ b % FRAGS_PER_BLK = 0 /\ FRAGS_PER_BLK \in Nat
  BY <1>1, Geometry
<1>3. \A y \in Nat : y \in FragsOf(f, n) <=> f <= y /\ y < f + n
  BY DEF FragsOf
<1>4. f \in 0..(cg_ndblk[g] - 1) /\ cg_ndblk[g] \in Nat
  BY <1>3, DataIs
<1>5. b \in BlockStarts(g)
  BY <1>2, <1>4 DEF BlockStarts
<1>6. PICK low, high : low = FreeBelow(B, f) /\ high = FreeFrom(B, f + n, b)
  OBVIOUS
<1>7. /\ low \in Nat /\ low <= f - b
      /\ \A y \in Nat : f - low <= y /\ y < f => y \in B
      /\ f - low = b \/ f - low - 1 \notin B
  BY <1>1, <1>6, BelowIs
<1>8. /\ high \in Nat /\ f + n + high <= b + FRAGS_PER_BLK
      /\ \A y \in Nat : f + n <= y /\ y < f + n + high => y \in B
      /\ f + n + high = b + FRAGS_PER_BLK \/ f + n + high \notin B
  BY <1>1, <1>2, <1>6, FromIs
<1>a. \A y \in Nat : y \in A <=> y \in B \/ (f <= y /\ y < f + n)
  BY <1>1, <1>3
<1>b. \A y \in Nat : f <= y /\ y < f + n => y \notin B
  BY <1>3
<1>9. \A y \in Nat : f - low <= y /\ y < f + n + high => y \in A
  BY <1>a, <1>7, <1>8
<1>c. f - low = b \/ f - low - 1 \notin A
  <2> SUFFICES ASSUME f - low # b PROVE f - low - 1 \notin A
    OBVIOUS
  <2>1. f - low - 1 \in Nat /\ ~(f <= f - low - 1)
    BY <1>2, <1>7
  <2> QED  BY <1>a, <1>7, <2>1
<1>d. f + n + high = b + FRAGS_PER_BLK \/ f + n + high \notin A
  <2>1. f + n + high \in Nat /\ ~(f + n + high < f + n)
    BY <1>8
  <2> QED  BY <1>a, <1>8, <2>1
<1>10. Splits(A, B, b, f - low, f, f + n, f + n + high)
  <2>1. b <= f - low /\ f - low <= f /\ f < f + n /\ f + n <= f + n + high
    BY <1>2, <1>7, <1>8
  <2> QED  BY <1>a, <1>b, <1>c, <1>d, <1>8, <1>9, <2>1 DEF Splits
<1>11. \A y \in Nat : y \notin BlockAt(b) => y \notin FragsOf(f, n)
  BY <1>1, <1>2, <1>3 DEF BlockAt, FragsOf
<1>12. f - low \in Nat /\ f + n \in Nat /\ f + n + high \in Nat
  BY <1>2, <1>7, <1>8
<1>13. Parts(g, A, B, b, f - low, f, f + n, f + n + high)
  <2>1. Bits(g, A) /\ B \subseteq A
    BY <1>1 DEF Bits
  <2>2. \A y \in Nat : y \notin BlockAt(b) => (y \in A <=> y \in B)
    BY <1>1, <1>11
  <2> QED  BY <1>5, <1>10, <1>12, <2>1, <2>2 DEF Parts
<1> QED  BY <1>1, <1>6, <1>7, <1>8, <1>13

(* A free block is taken.                                                  *)
LEMMA PartsBlock ==
    ASSUME NEW g \in Group, NEW A, Bits(g, A), NEW b \in FreeBlocks(g, A)
    PROVE  Parts(g, A, A \ BlockAt(b), b, b, b, b + FRAGS_PER_BLK, b + FRAGS_PER_BLK)
<1>1. b \in BlockStarts(g) /\ b \in Nat /\ BlockAt(b) \subseteq A /\ FRAGS_PER_BLK \in Nat /\ FRAGS_PER_BLK > 0
  BY StartIs, Geometry DEF FreeBlocks, block_avail
<1>2. \A y \in Nat : y \in BlockAt(b) <=> b <= y /\ y < b + FRAGS_PER_BLK
  BY <1>1 DEF BlockAt, FragsOf
<1>3. Splits(A, A \ BlockAt(b), b, b, b, b + FRAGS_PER_BLK, b + FRAGS_PER_BLK)
  BY <1>1, <1>2 DEF Splits
<1>4. b + FRAGS_PER_BLK \in Nat
  BY <1>1
<1>6. Bits(g, A \ BlockAt(b))
  BY DEF Bits
<1>5. \A y \in Nat : y \notin BlockAt(b) => (y \in A <=> y \in A \ BlockAt(b))
  OBVIOUS
<1> QED  BY <1>1, <1>3, <1>4, <1>5, <1>6 DEF Parts

-----------------------------------------------------------------------------
(* Free blocks, and the free frags outside of them.                        *)
LEMMA FreeBlocksFinite ==
    ASSUME NEW g \in Group, NEW A
    PROVE  /\ FreeBlocks(g, A) \subseteq 0..(cg_ndblk[g] - 1)
           /\ IsFiniteSet(FreeBlocks(g, A)) /\ Cardinality(FreeBlocks(g, A)) \in Nat
<1>1. FreeBlocks(g, A) \subseteq 0..(cg_ndblk[g] - 1) /\ cg_ndblk[g] \in Nat
  BY DataIs DEF FreeBlocks, BlockStarts
<1>2. IsFiniteSet(0..(cg_ndblk[g] - 1))
  BY <1>1, FS_Interval
<1> QED  BY <1>1, <1>2, FS_Subset, FS_CardinalityType

(* What the parts of a block are.                                          *)
LEMMA PartsIs ==
    ASSUME NEW g \in Group, NEW A, NEW B, NEW b, NEW p, NEW f, NEW e, NEW r,
           Parts(g, A, B, b, p, f, e, r)
    PROVE  /\ FRAGS_PER_BLK \in Nat /\ FRAGS_PER_BLK > 0
           /\ b \in BlockStarts(g) /\ b \in Nat /\ b % FRAGS_PER_BLK = 0
           /\ p \in Nat /\ f \in Nat /\ e \in Nat /\ r \in Nat
           /\ Bits(g, A) /\ Bits(g, B) /\ B \subseteq A
           /\ \A y \in Nat : y \notin BlockAt(b) => (y \in A <=> y \in B)
           /\ \A y \in Nat : y \in BlockAt(b) <=> b <= y /\ y < b + FRAGS_PER_BLK
           /\ \A y \in Nat : y \in BlockAt(b) <=> blknum(y) = b
<1>1. FRAGS_PER_BLK \in Nat /\ FRAGS_PER_BLK > 0
  BY Geometry
<1>2. /\ b \in BlockStarts(g)
      /\ p \in Nat /\ f \in Nat /\ e \in Nat /\ r \in Nat
      /\ Bits(g, A) /\ Bits(g, B) /\ B \subseteq A
      /\ \A y \in Nat : y \notin BlockAt(b) => (y \in A <=> y \in B)
  BY DEF Parts
<1>3. b \in Nat /\ b % FRAGS_PER_BLK = 0
  BY <1>2, StartIs
<1>4. \A y \in Nat : y \in BlockAt(b) <=> b <= y /\ y < b + FRAGS_PER_BLK
  BY <1>1, <1>3 DEF BlockAt, FragsOf
<1>5. \A y \in Nat : y \in BlockAt(b) <=> blknum(y) = b
  BY <1>3, InBlock
<1> QED  BY <1>1, <1>2, <1>3, <1>4, <1>5

(* A block is free before the split only if the whole of it is one run.    *)
LEMMA BlocksSplit ==
    ASSUME NEW g \in Group, NEW A, NEW B, NEW b, NEW p, NEW f, NEW e, NEW r,
           Parts(g, A, B, b, p, f, e, r)
    PROVE  /\ b \in FreeBlocks(g, A) <=> r - p = FRAGS_PER_BLK
           /\ b \notin FreeBlocks(g, B)
           /\ FreeBlocks(g, B) = FreeBlocks(g, A) \ {b}
           /\ Cardinality(FreeBlocks(g, B)) =
                 Cardinality(FreeBlocks(g, A)) - (IF r - p = FRAGS_PER_BLK THEN 1 ELSE 0)
<1>0. /\ FRAGS_PER_BLK \in Nat /\ FRAGS_PER_BLK > 0
      /\ b \in BlockStarts(g) /\ b \in Nat /\ b % FRAGS_PER_BLK = 0
      /\ p \in Nat /\ f \in Nat /\ e \in Nat /\ r \in Nat
      /\ \A y \in Nat : y \notin BlockAt(b) => (y \in A <=> y \in B)
      /\ \A y \in Nat : y \in BlockAt(b) <=> b <= y /\ y < b + FRAGS_PER_BLK
  BY PartsIs
<1>s. /\ b <= p /\ p <= f /\ f < e /\ e <= r /\ r <= b + FRAGS_PER_BLK
      /\ \A y \in Nat : p <= y /\ y < r => y \in A
      /\ p = b \/ p - 1 \notin A
      /\ r = b + FRAGS_PER_BLK \/ r \notin A
      /\ \A y \in Nat : b <= y /\ y < b + FRAGS_PER_BLK => (y \in B <=> y \in A /\ ~(f <= y /\ y < e))
  BY DEF Parts, Splits
<1>1. b \in FreeBlocks(g, A) <=> \A y \in Nat : b <= y /\ y < b + FRAGS_PER_BLK => y \in A
  <2>1. BlockAt(b) \subseteq Nat
    BY <1>0 DEF BlockAt, FragsOf
  <2> QED  BY <1>0, <2>1 DEF FreeBlocks, block_avail
<1>2. b \in FreeBlocks(g, A) <=> r - p = FRAGS_PER_BLK
  <2>1. CASE r - p = FRAGS_PER_BLK
    <3>1. p = b /\ r = b + FRAGS_PER_BLK
      BY <1>0, <1>s, <2>1
    <3> QED  BY <1>1, <1>s, <2>1, <3>1
  <2>2. CASE p # b
    <3>1. p - 1 \in Nat /\ b <= p - 1 /\ p - 1 < b + FRAGS_PER_BLK /\ p - 1 \notin A
      BY <1>0, <1>s, <2>2
    <3> QED  BY <1>0, <1>1, <1>s, <2>2, <3>1
  <2>3. CASE r # b + FRAGS_PER_BLK
    <3>1. b <= r /\ r < b + FRAGS_PER_BLK /\ r \notin A
      BY <1>0, <1>s, <2>3
    <3> QED  BY <1>0, <1>1, <1>s, <2>3, <3>1
  <2> QED  BY <1>0, <2>1, <2>2, <2>3
<1>3. b \notin FreeBlocks(g, B)
  <2>1. f \in BlockAt(b) /\ f \notin B
    BY <1>0, <1>s
  <2> QED  BY <2>1 DEF FreeBlocks, block_avail
<1>4. ASSUME NEW c \in BlockStarts(g), c # b
      PROVE  c \in FreeBlocks(g, A) <=> c \in FreeBlocks(g, B)
  <2>1. c \in Nat /\ c % FRAGS_PER_BLK = 0
    BY StartIs
  <2>2. BlockAt(c) \subseteq Nat
    BY <1>0, <2>1 DEF BlockAt, FragsOf
  <2>3. \A y \in BlockAt(c) : y \notin BlockAt(b)
    BY <1>0, <1>4, <2>1, <2>2, InBlock
  <2>4. \A y \in BlockAt(c) : y \in A <=> y \in B
    BY <1>0, <2>2, <2>3
  <2> QED  BY <2>4 DEF FreeBlocks, block_avail
<1>5. FreeBlocks(g, A) \subseteq BlockStarts(g) /\ FreeBlocks(g, B) \subseteq BlockStarts(g)
  BY DEF FreeBlocks
<1>6. FreeBlocks(g, B) = FreeBlocks(g, A) \ {b}
  BY <1>3, <1>4, <1>5
<1>7. Cardinality(FreeBlocks(g, B)) =
          Cardinality(FreeBlocks(g, A)) - (IF r - p = FRAGS_PER_BLK THEN 1 ELSE 0)
  <2>1. PICK X : X = FreeBlocks(g, A)
    OBVIOUS
  <2>2. IsFiniteSet(X) /\ Cardinality(X) \in Nat
    BY <2>1, FreeBlocksFinite
  <2>3. Cardinality(X \ {b}) = (IF b \in X THEN Cardinality(X) - 1 ELSE Cardinality(X))
    BY <2>2, FS_RemoveElement
  <2> QED  BY <1>2, <1>6, <2>1, <2>2, <2>3
<1> QED  BY <1>2, <1>3, <1>6, <1>7

(* The free frags that are in no free block.                               *)
LEMMA LooseIs ==
    ASSUME NEW g \in Group, NEW A, Bits(g, A)
    PROVE  /\ \A x : x \in Loose(g, A) <=> x \in A /\ blknum(x) \notin FreeBlocks(g, A)
           /\ Loose(g, A) \subseteq 0..(cg_ndblk[g] - 1) /\ Loose(g, A) \subseteq Nat
           /\ IsFiniteSet(Loose(g, A)) /\ Cardinality(Loose(g, A)) \in Nat
<1>1. ASSUME NEW x \in A
      PROVE  x \in UNION {BlockAt(b) : b \in FreeBlocks(g, A)} <=> blknum(x) \in FreeBlocks(g, A)
  <2>1. x \in Nat
    BY DEF Bits
  <2>2. \A b \in FreeBlocks(g, A) : b \in Nat /\ b % FRAGS_PER_BLK = 0
    BY StartIs DEF FreeBlocks
  <2>3. \A b \in FreeBlocks(g, A) : x \in BlockAt(b) <=> blknum(x) = b
    BY <2>1, <2>2, InBlock
  <2> QED  BY <2>3
<1>2. \A x : x \in Loose(g, A) <=> x \in A /\ blknum(x) \notin FreeBlocks(g, A)
  BY <1>1 DEF Loose
<1>3. Loose(g, A) \subseteq 0..(cg_ndblk[g] - 1) /\ cg_ndblk[g] \in Nat
  BY <1>2, DataIs DEF Bits
<1>4. IsFiniteSet(0..(cg_ndblk[g] - 1))
  BY <1>3, FS_Interval
<1> QED  BY <1>2, <1>3, <1>4, FS_Subset, FS_CardinalityType

(* How many more, or fewer, free frags are in no free block.               *)
LEMMA LooseSplit ==
    ASSUME NEW g \in Group, NEW A, NEW B, NEW b, NEW p, NEW f, NEW e, NEW r,
           Parts(g, A, B, b, p, f, e, r)
    PROVE  Cardinality(Loose(g, B)) =
              Cardinality(Loose(g, A)) + (IF r - p = FRAGS_PER_BLK THEN FRAGS_PER_BLK ELSE 0) - (e - f)
<1>0. /\ FRAGS_PER_BLK \in Nat /\ FRAGS_PER_BLK > 0
      /\ b \in Nat /\ b % FRAGS_PER_BLK = 0
      /\ p \in Nat /\ f \in Nat /\ e \in Nat /\ r \in Nat
      /\ Bits(g, A) /\ Bits(g, B) /\ B \subseteq A
      /\ \A y \in Nat : y \notin BlockAt(b) => (y \in A <=> y \in B)
      /\ \A y \in Nat : y \in BlockAt(b) <=> b <= y /\ y < b + FRAGS_PER_BLK
      /\ \A y \in Nat : y \in BlockAt(b) <=> blknum(y) = b
  BY PartsIs
<1>s. /\ b <= p /\ p <= f /\ f < e /\ e <= r /\ r <= b + FRAGS_PER_BLK
      /\ \A y \in Nat : p <= y /\ y < r => y \in A
      /\ \A y \in Nat : b <= y /\ y < b + FRAGS_PER_BLK => (y \in B <=> y \in A /\ ~(f <= y /\ y < e))
  BY DEF Parts, Splits
<1>1. PICK X, Y, S, Z : /\ X = Loose(g, A) /\ Y = Loose(g, B) /\ S = f..(e - 1)
                        /\ Z = b..(b + FRAGS_PER_BLK - 1)
  OBVIOUS
<1>2. /\ \A x : x \in X <=> x \in A /\ blknum(x) \notin FreeBlocks(g, A)
      /\ X \subseteq Nat
      /\ IsFiniteSet(X) /\ Cardinality(X) \in Nat
  BY <1>0, <1>1, LooseIs
<1>3. /\ \A x : x \in Y <=> x \in B /\ blknum(x) \notin FreeBlocks(g, B)
      /\ Y \subseteq Nat
      /\ IsFiniteSet(Y) /\ Cardinality(Y) \in Nat
  BY <1>0, <1>1, LooseIs
<1>4. /\ b \in FreeBlocks(g, A) <=> r - p = FRAGS_PER_BLK
      /\ FreeBlocks(g, B) = FreeBlocks(g, A) \ {b}
  BY BlocksSplit
<1>5. IsFiniteSet(S) /\ Cardinality(S) = e - f /\ S \subseteq Z
  <2>1. IsFiniteSet(S) /\ Cardinality(S) = (IF f > e - 1 THEN 0 ELSE e - 1 - f + 1)
    BY <1>0, <1>1, FS_Interval
  <2> QED  BY <1>0, <1>1, <1>s, <2>1
<1>6. IsFiniteSet(Z) /\ Cardinality(Z) = FRAGS_PER_BLK
  <2>1. b + FRAGS_PER_BLK - 1 \in Int
    BY <1>0
  <2>2. IsFiniteSet(Z) /\ Cardinality(Z) = (IF b > b + FRAGS_PER_BLK - 1 THEN 0 ELSE b + FRAGS_PER_BLK - 1 - b + 1)
    BY <1>0, <1>1, <2>1, FS_Interval
  <2> QED  BY <1>0, <2>2
<1>7. CASE r - p # FRAGS_PER_BLK
  <2>1. FreeBlocks(g, B) = FreeBlocks(g, A) /\ b \notin FreeBlocks(g, A)
    BY <1>4, <1>7
  <2>2. \A y \in Nat : y \in B <=> y \in A /\ y \notin S
    BY <1>0, <1>1, <1>s
  <2>3. S \subseteq X
    BY <1>0, <1>1, <1>2, <1>s, <2>1
  <2>4. Y = X \ S
    BY <1>2, <1>3, <2>1, <2>2
  <2>5. Cardinality(Y) = Cardinality(X) - Cardinality(S)
    BY <1>2, <2>3, <2>4, CountLess
  <2> QED  BY <1>0, <1>1, <1>2, <1>5, <1>7, <2>5
<1>8. CASE r - p = FRAGS_PER_BLK
  <2>1. b \in FreeBlocks(g, A) /\ p = b /\ r = b + FRAGS_PER_BLK
    BY <1>0, <1>4, <1>8, <1>s
  <2>2. PICK D : D = Z \ S
    OBVIOUS
  <2>3. IsFiniteSet(D) /\ Cardinality(D) = FRAGS_PER_BLK - (e - f)
    <3>1. Cardinality(D) = Cardinality(Z) - Cardinality(S)
      BY <1>5, <1>6, <2>2, CountLess
    <3> QED  BY <1>0, <1>5, <1>6, <2>2, <3>1, CountLess
  <2>4. \A y \in Nat : y \in D <=> blknum(y) = b /\ y \in B
    BY <1>0, <1>1, <1>s, <2>1, <2>2
  <2>5. D \subseteq Y
    <3>1. D \subseteq Nat
      BY <1>0, <1>1, <2>2
    <3> QED  BY <1>3, <1>4, <2>4, <3>1
  <2>6. \A x \in Nat : x \in X <=> x \in Y /\ x \notin D
    <3> SUFFICES ASSUME NEW x \in Nat PROVE x \in X <=> x \in Y /\ x \notin D
      OBVIOUS
    <3>1. CASE blknum(x) = b
      BY <1>2, <1>3, <2>1, <2>4, <3>1
    <3>2. CASE blknum(x) # b
      BY <1>0, <1>2, <1>3, <1>4, <2>4, <3>2
    <3> QED  BY <3>1, <3>2
  <2>7. X = Y \ D
    BY <1>2, <1>3, <2>6
  <2>8. Cardinality(X) = Cardinality(Y) - Cardinality(D)
    BY <1>3, <2>5, <2>7, CountLess
  <2> QED  BY <1>0, <1>1, <1>2, <1>3, <1>8, <2>3, <2>8
<1> QED  BY <1>7, <1>8

-----------------------------------------------------------------------------
(* Totals over all groups.                                                 *)
LEMMA TotalFinite ==
    ASSUME NEW P, \A h \in Group : P[h] \subseteq 0..fs_fpg
    PROVE  /\ IsFiniteSet(UNION {{h} \X P[h] : h \in Group})
           /\ Total(P) \in Nat
           /\ Total(P) = 0 <=> \A h \in Group : P[h] = {}
<1>1. PICK X : X = UNION {{h} \X P[h] : h \in Group}
  OBVIOUS
<1>2. X \subseteq Group \X (0..fs_fpg)
  <2> SUFFICES ASSUME NEW h \in Group, NEW z \in {h} \X P[h] PROVE z \in Group \X (0..fs_fpg)
    BY <1>1
  <2>1. z[1] = h /\ z[2] \in P[h] /\ z = <<z[1], z[2]>>
    OBVIOUS
  <2>2. z[2] \in 0..fs_fpg
    BY <2>1
  <2> QED  BY <2>1, <2>2
<1>3. IsFiniteSet(Group) /\ IsFiniteSet(0..fs_fpg)
  <2>1. 0 \in Int /\ fs_ncg - 1 \in Int /\ fs_fpg \in Int
    BY GeometryAssumption
  <2> QED  BY <2>1, FS_Interval DEF Group
<1>4. IsFiniteSet(Group \X (0..fs_fpg))
  BY <1>3, FS_Product
<1>5. IsFiniteSet(X) /\ Cardinality(X) \in Nat
  BY <1>2, <1>4, FS_Subset, FS_CardinalityType
<1>6. Cardinality(X) = 0 <=> X = {}
  BY <1>5, FS_EmptySet
<1>7. X = {} <=> \A h \in Group : P[h] = {}
  <2>1. ASSUME NEW h \in Group, NEW q \in P[h] PROVE <<h, q>> \in X
    <3>1. <<h, q>> \in {h} \X P[h]
      OBVIOUS
    <3> QED  BY <1>1, <3>1
  <2>2. ASSUME NEW z \in X PROVE \E h \in Group : \E q \in P[h] : TRUE
    <3>1. PICK h \in Group : z \in {h} \X P[h]
      BY <1>1
    <3>2. z[2] \in P[h]
      BY <3>1
    <3> QED  BY <3>2
  <2> QED  BY <2>1, <2>2
<1> QED  BY <1>1, <1>5, <1>6, <1>7 DEF Total

(* One group changes.                                                      *)
LEMMA TotalLocal ==
    ASSUME NEW P, NEW Q, NEW g \in Group,
           \A h \in Group : P[h] \subseteq 0..fs_fpg, \A h \in Group : Q[h] \subseteq 0..fs_fpg,
           \A h \in Group \ {g} : P[h] = Q[h]
    PROVE  Total(Q) = Total(P) - Cardinality(P[g]) + Cardinality(Q[g])
<1>1. PICK X, Y, C, D : /\ X = UNION {{h} \X P[h] : h \in Group}
                        /\ Y = UNION {{h} \X Q[h] : h \in Group}
                        /\ C = {g} \X P[g] /\ D = {g} \X Q[g]
  OBVIOUS
<1>2. IsFiniteSet(X) /\ IsFiniteSet(Y)
  BY <1>1, TotalFinite
<1>3. C \subseteq X /\ D \subseteq Y
  BY <1>1
<1>4. IsFiniteSet(C) /\ IsFiniteSet(D)
  BY <1>2, <1>3, FS_Subset
<1>5. X \ C = Y \ D
  <2>1. ASSUME NEW z PROVE z \in X \ C <=> \E h \in Group \ {g} : z \in {h} \X P[h]
    <3>1. ASSUME NEW h \in Group \ {g}, z \in {h} \X P[h] PROVE z \notin C
      <4>1. z[1] = h
        BY <3>1
      <4>2. z \in C => z[1] = g
        BY <1>1
      <4> QED  BY <4>1, <4>2
    <3>2. z \in X <=> \E h \in Group : z \in {h} \X P[h]
      BY <1>1
    <3>3. z \in C <=> z \in {g} \X P[g]
      BY <1>1
    <3> QED  BY <3>1, <3>2, <3>3
  <2>2. ASSUME NEW z PROVE z \in Y \ D <=> \E h \in Group \ {g} : z \in {h} \X Q[h]
    <3>1. ASSUME NEW h \in Group \ {g}, z \in {h} \X Q[h] PROVE z \notin D
      <4>1. z[1] = h
        BY <3>1
      <4>2. z \in D => z[1] = g
        BY <1>1
      <4> QED  BY <4>1, <4>2
    <3>2. z \in Y <=> \E h \in Group : z \in {h} \X Q[h]
      BY <1>1
    <3>3. z \in D <=> z \in {g} \X Q[g]
      BY <1>1
    <3> QED  BY <3>1, <3>2, <3>3
  <2>3. ASSUME NEW z PROVE z \in X \ C <=> z \in Y \ D
    BY <2>1, <2>2
  <2> QED  BY <2>3
<1>6. Cardinality(Y) = Cardinality(X) - Cardinality(C) + Cardinality(D)
  BY <1>2, <1>3, <1>4, <1>5, CountLocal
<1>7. ASSUME NEW S, S \subseteq 0..fs_fpg PROVE Cardinality({g} \X S) = Cardinality(S)
  <2>1. IsFiniteSet(0..fs_fpg)
    BY GeometryAssumption, FS_Interval
  <2>2. IsFiniteSet(S) /\ Cardinality(S) \in Nat
    BY <1>7, <2>1, FS_Subset, FS_CardinalityType
  <2>3. IsFiniteSet({g}) /\ Cardinality({g}) = 1
    BY FS_Singleton
  <2>4. Cardinality({g} \X S) = Cardinality({g}) * Cardinality(S)
    BY <2>2, <2>3, FS_Product
  <2> QED  BY <2>2, <2>3, <2>4
<1>8. Cardinality(C) = Cardinality(P[g]) /\ Cardinality(D) = Cardinality(Q[g])
  BY <1>1, <1>7
<1> QED  BY <1>1, <1>6, <1>8 DEF Total

-----------------------------------------------------------------------------
(* Clusters of free blocks.                                                *)
LEMMA RowIs ==
    ASSUME NEW K, NEW k \in Nat, NEW step \in {1, -1}
    PROVE  LET row == InARow(K, k, step)
           IN  /\ row \in 0..contigsumsize
               /\ \A i \in 1..row : k + step * i \in K
               /\ row = contigsumsize \/ k + step * (row + 1) \notin K
<1>0. contigsumsize \in Nat
  BY GeometryAssumption
<1>1. PICK T : T = {n \in 0..contigsumsize : \A i \in 1..n : k + step * i \in K}
  OBVIOUS
<1>2. T \subseteq 0..contigsumsize /\ 0 \in T
  <2>1. 1..0 = {}
    OBVIOUS
  <2>2. 0 \in 0..contigsumsize
    BY <1>0
  <2> QED  BY <1>1, <2>1, <2>2
<1>3. PICK row : row = Most(T) /\ row = InARow(K, k, step)
  BY <1>1 DEF InARow
<1>4. row \in T /\ \A y \in T : y <= row
  BY <1>0, <1>2, <1>3, MostIs
<1>5. row \in 0..contigsumsize /\ \A i \in 1..row : k + step * i \in K
  BY <1>1, <1>4
<1>6. row = contigsumsize \/ k + step * (row + 1) \notin K
  <2> SUFFICES ASSUME row # contigsumsize, k + step * (row + 1) \in K PROVE FALSE
    OBVIOUS
  <2>1. row + 1 \in 0..contigsumsize
    BY <1>0, <1>5
  <2>2. \A i \in 1..(row + 1) : i \in 1..row \/ i = row + 1
    BY <1>5
  <2>3. \A i \in 1..(row + 1) : k + step * i \in K
    BY <1>5, <2>2
  <2>4. row + 1 \in T
    BY <1>1, <2>1, <2>3
  <2> QED  BY <1>4, <1>5, <2>4
<1> QED  BY <1>3, <1>5, <1>6

(* The block itself is not looked at.                                      *)
LEMMA RowBeside ==
    ASSUME NEW K, NEW L, NEW k \in Nat, NEW step \in {1, -1}, K \ {k} = L \ {k}
    PROVE  InARow(K, k, step) = InARow(L, k, step)
<1>1. \A n \in 0..contigsumsize : \A i \in 1..n : k + step * i \in K <=> k + step * i \in L
  <2> SUFFICES ASSUME NEW n \in 0..contigsumsize, NEW i \in 1..n
               PROVE  k + step * i \in K <=> k + step * i \in L
    OBVIOUS
  <2>1. contigsumsize \in Nat /\ i \in Nat /\ i > 0
    BY GeometryAssumption
  <2>2. PICK x : x = k + step * i
    OBVIOUS
  <2>3. x # k
    BY <2>1, <2>2
  <2> QED  BY <2>2, <2>3
<1>2. {n \in 0..contigsumsize : \A i \in 1..n : k + step * i \in K}
      = {n \in 0..contigsumsize : \A i \in 1..n : k + step * i \in L}
  BY <1>1
<1> QED  BY <1>2 DEF InARow

(* Where the blocks in a row just below block k begin.                     *)
LEMMA RowBegins ==
    ASSUME NEW K, K \subseteq Nat, NEW k \in Nat
    PROVE  \E s \in Nat : /\ s <= k
                          /\ \A x \in Nat : s <= x /\ x < k => x \in K
                          /\ s - 1 \notin K
<1>1. PICK T : T = {s \in Nat : s <= k /\ \A x \in Nat : s <= x /\ x < k => x \in K}
  OBVIOUS
<1>2. k \in T /\ T \subseteq Nat
  BY <1>1
<1>3. PICK s \in T : \A y \in T : s <= y
  BY <1>2, LeastIs
<1>4. s \in Nat /\ s <= k /\ \A x \in Nat : s <= x /\ x < k => x \in K
  BY <1>1
<1>5. s - 1 \notin K
  <2> SUFFICES ASSUME s - 1 \in K PROVE FALSE
    OBVIOUS
  <2>1. s - 1 \in Nat
    OBVIOUS
  <2>2. \A x \in Nat : s - 1 <= x /\ x < k => x = s - 1 \/ s <= x
    BY <1>4
  <2>3. s - 1 \in T
    BY <1>1, <1>4, <2>1, <2>2
  <2> QED  BY <1>3, <1>4, <2>1, <2>3
<1> QED  BY <1>4, <1>5

(* A cluster of n blocks begins at x, told by its members.                 *)
AtCluster(K, n, x) ==
    /\ x \in Nat /\ x \in K /\ x - 1 \notin K
    /\ \A y \in Nat : x <= y /\ y < x + n => y \in K
    /\ n = contigsumsize \/ x + n \notin K

(* A cluster, member by member.                                            *)
LEMMA ClusterIs ==
    ASSUME NEW K, K \subseteq Nat, NEW n \in 1..contigsumsize, NEW x
    PROVE  x \in Clusters(K, n) <=> AtCluster(K, n, x)
<1>0. contigsumsize \in Nat /\ n \in Nat
  BY GeometryAssumption
<1>1. ASSUME x \in Nat
      PROVE  (\A i \in 0..(n - 1) : x + i \in K) <=> (\A y \in Nat : x <= y /\ y < x + n => y \in K)
  <2>1. ASSUME \A i \in 0..(n - 1) : x + i \in K, NEW y \in Nat, x <= y, y < x + n PROVE y \in K
    <3>1. y - x \in 0..(n - 1) /\ x + (y - x) = y
      BY <1>0, <1>1, <2>1
    <3> QED  BY <2>1, <3>1
  <2>2. ASSUME \A y \in Nat : x <= y /\ y < x + n => y \in K, NEW i \in 0..(n - 1) PROVE x + i \in K
    <3>1. x + i \in Nat /\ x <= x + i /\ x + i < x + n
      BY <1>0, <1>1
    <3> QED  BY <2>2, <3>1
  <2> QED  BY <2>1, <2>2
<1> QED  BY <1>1 DEF Clusters, AtCluster

(* The clusters below and above block k, as far as they are counted, become *)
(* one with it.                                                            *)
Joined(K, k, n) ==
    LET forw  == InARow(K, k, 1)
        back  == InARow(K, k, -1)
        whole == Lesser(back + forw + 1, contigsumsize)
    IN  /\ Cardinality(Clusters(K, n)) \in Nat
        /\ Cardinality(Clusters(K \cup {k}, n)) =
              Cardinality(Clusters(K, n)) + (IF n = whole THEN 1 ELSE 0)
              - (IF n = back THEN 1 ELSE 0) - (IF n = forw THEN 1 ELSE 0)

(* So it is when block k becomes free.                                     *)
LEMMA ClusterSplit ==
    ASSUME NEW K, K \subseteq Nat, IsFiniteSet(K), NEW k \in Nat, k \notin K,
           NEW n \in 1..contigsumsize
    PROVE  Joined(K, k, n)
<1> DEFINE top == contigsumsize
<1>0. top \in Nat /\ n \in Nat /\ n > 0 /\ n <= top
  BY GeometryAssumption
<1>1. PICK forw, back, whole : /\ forw = InARow(K, k, 1) /\ back = InARow(K, k, -1)
                               /\ whole = Lesser(back + forw + 1, top)
  OBVIOUS
<1>2. PICK s \in Nat : /\ s <= k
                       /\ \A x \in Nat : s <= x /\ x < k => x \in K
                       /\ s - 1 \notin K
  BY RowBegins
<1>3. /\ forw \in 0..top
      /\ \A i \in Nat : 1 <= i /\ i <= forw => k + i \in K
      /\ forw = top \/ k + (forw + 1) \notin K
  <2>1. /\ forw \in 0..top
        /\ \A i \in 1..forw : k + 1 * i \in K
        /\ forw = top \/ k + 1 * (forw + 1) \notin K
    BY <1>1, RowIs
  <2>2. \A i \in Nat : 1 * i = i
    OBVIOUS
  <2>3. 1 * (forw + 1) = forw + 1
    BY <2>1
  <2> QED  BY <2>1, <2>2, <2>3
<1>4. /\ back \in 0..top /\ back <= k - s
      /\ back = k - s \/ back = top
  <2>1. /\ back \in 0..top
        /\ \A i \in 1..back : k + (-1) * i \in K
        /\ back = top \/ k + (-1) * (back + 1) \notin K
    <3>1. -1 \in {1, -1}
      OBVIOUS
    <3>2. LET row == InARow(K, k, -1)
          IN  /\ row \in 0..contigsumsize
              /\ \A i \in 1..row : k + (-1) * i \in K
              /\ row = contigsumsize \/ k + (-1) * (row + 1) \notin K
      BY <3>1, RowIs
    <3> QED  BY <1>1, <3>2
  <2>2. PICK l \in Nat : l = k - s
    BY <1>2
  <2>3. back <= l
    <3> SUFFICES ASSUME back > l PROVE FALSE
      BY <2>1, <2>2
    <3>1. l + 1 \in 1..back /\ k + (-1) * (l + 1) = s - 1
      BY <1>2, <2>1, <2>2
    <3> QED  BY <1>2, <2>1, <3>1
  <2>4. back = l \/ back = top
    <3> SUFFICES ASSUME back < l PROVE back = top
      BY <2>1, <2>3
    <3>1. k + (-1) * (back + 1) = k - back - 1 /\ k - back - 1 \in Nat /\ s <= k - back - 1 /\ k - back - 1 < k
      BY <1>2, <2>1, <2>2
    <3> QED  BY <1>2, <2>1, <3>1
  <2> QED  BY <2>1, <2>2, <2>3, <2>4
<1>5. whole = (IF back + forw + 1 < top THEN back + forw + 1 ELSE top)
  BY <1>1 DEF Lesser
<1>6. PICK L, X, Y : L = K \cup {k} /\ X = Clusters(K, n) /\ Y = Clusters(L, n)
  OBVIOUS
<1>7. \A x : x \in X <=> (/\ x \in Nat /\ x \in K /\ x - 1 \notin K
                          /\ \A y \in Nat : x <= y /\ y < x + n => y \in K
                          /\ n = top \/ x + n \notin K)
  <2>1. \A x : x \in Clusters(K, n) <=> AtCluster(K, n, x)
    BY ClusterIs
  <2>2. \A x : x \in X <=> AtCluster(K, n, x)
    BY <1>6, <2>1
  <2> QED  BY <2>2 DEF AtCluster
<1>8. \A x : x \in Y <=> (/\ x \in Nat /\ x \in L /\ x - 1 \notin L
                          /\ \A y \in Nat : x <= y /\ y < x + n => y \in L
                          /\ n = top \/ x + n \notin L)
  <2>1. L \subseteq Nat
    BY <1>6
  <2>2. \A x : x \in Clusters(L, n) <=> AtCluster(L, n, x)
    BY <2>1, ClusterIs
  <2>3. \A x : x \in Y <=> AtCluster(L, n, x)
    BY <1>6, <2>2
  <2> QED  BY <2>3 DEF AtCluster
<1>9. \A x \in Nat : x \in L <=> x \in K \/ x = k
  BY <1>6
<1> HIDE DEF top
<1>10. ASSUME NEW x \in Nat, x # s, x # k + 1 PROVE x \in X <=> x \in Y
  <2>1. CASE x = k
    <3>1. k - 1 \in Nat /\ k - 1 \in K /\ k - 1 \in L
      BY <1>2, <1>9, <1>10, <2>1
    <3> QED  BY <1>7, <1>8, <2>1, <3>1
  <2>2. CASE x # k
    <3>1. (x \in K <=> x \in L) /\ (x - 1 \in K <=> x - 1 \in L)
      BY <1>6, <1>10, <2>2
    <3>2. ASSUME x \in K, x - 1 \notin K, x < k, \A y \in Nat : x <= y /\ y < k => y \in K
          PROVE  FALSE
      <4>1. CASE x < s
        <5>1. s - 1 \in Nat /\ x <= s - 1 /\ s - 1 < k
          BY <1>2, <3>2, <4>1
        <5> QED  BY <1>2, <3>2, <5>1
      <4>2. CASE s < x
        <5>1. x - 1 \in Nat /\ s <= x - 1 /\ x - 1 < k
          BY <1>2, <3>2, <4>2
        <5> QED  BY <1>2, <3>2, <5>1
      <4> QED  BY <1>10, <4>1, <4>2
    <3>3. ASSUME x \in X PROVE x \in Y
      <4>1. \A y \in Nat : x <= y /\ y < x + n => y \in L
        BY <1>7, <1>9, <3>3
      <4>2. n = top \/ x + n \notin L
        <5> SUFFICES ASSUME x + n = k, n # top PROVE FALSE
          BY <1>6, <1>7, <3>3
        <5> QED  BY <1>0, <1>7, <3>2, <3>3
      <4> QED  BY <1>7, <1>8, <3>1, <3>3, <4>1, <4>2
    <3>4. ASSUME x \in Y PROVE x \in X
      <4>1. ~(x <= k /\ k < x + n)
        <5> SUFFICES ASSUME x < k, k < x + n PROVE FALSE
          BY <2>2
        <5>1. \A y \in Nat : x <= y /\ y < k => y \in K
          BY <1>0, <1>8, <1>9, <3>4
        <5> QED  BY <1>8, <3>1, <3>2, <3>4, <5>1
      <4>2. \A y \in Nat : x <= y /\ y < x + n => y \in K
        BY <1>0, <1>8, <1>9, <3>4, <4>1
      <4>3. n = top \/ x + n \notin K
        BY <1>6, <1>8, <3>4
      <4> QED  BY <1>7, <1>8, <3>1, <3>4, <4>2, <4>3
    <3> QED  BY <3>3, <3>4
  <2> QED  BY <2>1, <2>2
<1>11. s \in X <=> n = back
  <2>1. CASE s = k
    BY <1>0, <1>4, <1>7, <2>1
  <2>2. CASE s < k
    <3>1. s \in K
      BY <1>2, <2>2
    <3>2. (\A y \in Nat : s <= y /\ y < s + n => y \in K) <=> n <= k - s
      <4>1. CASE n <= k - s
        BY <1>0, <1>2, <4>1
      <4>2. CASE n > k - s
        <5>1. s <= k /\ k < s + n
          BY <1>0, <1>2, <4>2
        <5> QED  BY <4>2, <5>1, <1>0, <1>2
      <4> QED  BY <1>0, <1>2, <4>1, <4>2
    <3>3. n <= k - s => (s + n \notin K <=> n = k - s)
      <4>1. CASE n < k - s
        <5>1. s + n \in Nat /\ s <= s + n /\ s + n < k
          BY <1>0, <1>2, <4>1
        <5> QED  BY <1>2, <4>1, <5>1
      <4>2. CASE n = k - s
        <5>1. s + n = k
          BY <1>0, <1>2, <4>2
        <5> QED  BY <4>2, <5>1
      <4> QED  BY <1>0, <1>2, <4>1, <4>2
    <3>4. s \in X <=> n <= k - s /\ (n = top \/ n = k - s)
      BY <1>2, <1>7, <3>1, <3>2, <3>3
    <3> QED  BY <1>0, <1>2, <1>4, <3>4
  <2> QED  BY <1>2, <2>1, <2>2
<1>12. k + 1 \in X <=> n = forw
  <2>1. k + 1 \in X <=> /\ \A y \in Nat : k + 1 <= y /\ y < k + 1 + n => y \in K
                        /\ n = top \/ k + 1 + n \notin K
    <3>1. (\A y \in Nat : k + 1 <= y /\ y < k + 1 + n => y \in K) => k + 1 \in K
      BY <1>0
    <3>2. k + 1 \in Nat /\ k + 1 - 1 = k
      OBVIOUS
    <3> QED  BY <1>7, <3>1, <3>2
  <2>2. (\A y \in Nat : k + 1 <= y /\ y < k + 1 + n => y \in K) <=> n <= forw
    <3>1. CASE n <= forw
      <4>1. ASSUME NEW y \in Nat, k + 1 <= y, y < k + 1 + n PROVE y \in K
        <5>1. y - k \in Nat /\ 1 <= y - k /\ y - k <= forw /\ k + (y - k) = y
          BY <1>0, <1>3, <3>1, <4>1
        <5> QED  BY <1>3, <5>1
      <4> QED  BY <3>1, <4>1
    <3>2. CASE n > forw
      <4>1. forw # top /\ k + (forw + 1) \in Nat /\ k + 1 <= k + (forw + 1) /\ k + (forw + 1) < k + 1 + n
        BY <1>0, <1>3, <3>2
      <4> QED  BY <1>0, <1>3, <3>2, <4>1
    <3> QED  BY <1>0, <1>3, <3>1, <3>2
  <2>3. n <= forw /\ n # top => (k + 1 + n \notin K <=> n = forw)
    <3>1. CASE n < forw
      <4>1. n + 1 \in Nat /\ 1 <= n + 1 /\ n + 1 <= forw /\ k + 1 + n = k + (n + 1)
        BY <1>0, <1>3, <3>1
      <4> QED  BY <1>3, <3>1, <4>1
    <3>2. CASE n = forw /\ n # top
      <4>1. k + 1 + n = k + (forw + 1)
        BY <1>0, <3>2
      <4> QED  BY <1>3, <3>2, <4>1
    <3> QED  BY <1>0, <1>3, <3>1, <3>2
  <2> QED  BY <1>0, <1>3, <2>1, <2>2, <2>3
<1>13. k + 1 \notin Y
  <2>1. k + 1 - 1 = k /\ k \in L
    BY <1>6
  <2> QED  BY <1>8, <2>1
<1>14. s \in Y <=> n = whole
  <2>0. PICK l \in Nat : l = k - s /\ k = s + l
    BY <1>2
  <2>1. s \in L /\ s - 1 \notin L
    BY <1>2, <1>6
  <2>2. ASSUME NEW j \in Nat PROVE s + j \in L <=> j <= l \/ k + (j - l) \in K
    <3>1. CASE j <= l
      <4>1. s + j \in Nat /\ s <= s + j /\ (s + j < k \/ s + j = k)
        BY <1>2, <2>0, <3>1
      <4> QED  BY <1>2, <1>9, <3>1, <4>1
    <3>2. CASE j > l
      <4>1. s + j \in Nat /\ s + j = k + (j - l) /\ s + j # k
        BY <1>2, <2>0, <3>2
      <4> QED  BY <1>9, <2>0, <3>2, <4>1
    <3> QED  BY <2>0, <3>1, <3>2
  <2>3. (\A y \in Nat : s <= y /\ y < s + n => y \in L) <=> n <= l + forw + 1
    <3>1. ASSUME n <= l + forw + 1, NEW y \in Nat, s <= y, y < s + n PROVE y \in L
      <4>1. PICK j \in Nat : j = y - s /\ y = s + j
        BY <1>2, <3>1
      <4>2. CASE j <= l
        BY <2>2, <4>1, <4>2
      <4>3. CASE j > l
        <5>1. j - l \in Nat /\ 1 <= j - l /\ j - l <= forw
          BY <1>0, <1>3, <1>2, <2>0, <3>1, <4>1, <4>3
        <5> QED  BY <1>3, <2>2, <4>1, <5>1
      <4> QED  BY <2>0, <4>1, <4>2, <4>3
    <3>2. ASSUME n > l + forw + 1, \A y \in Nat : s <= y /\ y < s + n => y \in L PROVE FALSE
      <4>1. PICK j \in Nat : j = l + forw + 1
        BY <1>3, <2>0
      <4>2. s + j \in Nat /\ s <= s + j /\ s + j < s + n
        BY <1>0, <1>2, <3>2, <4>1
      <4>3. s + j \in L /\ ~(j <= l) /\ j - l = forw + 1
        BY <1>3, <2>0, <3>2, <4>1, <4>2
      <4>4. k + (forw + 1) \in K
        BY <2>2, <4>3
      <4>5. forw = top
        BY <1>3, <4>4
      <4> QED  BY <1>0, <2>0, <3>2, <4>5
    <3>3. l + forw + 1 \in Nat
      BY <1>3, <2>0
    <3> QED  BY <1>0, <3>1, <3>2, <3>3
  <2>4. n <= l + forw + 1 /\ n # top => (s + n \notin L <=> n = l + forw + 1)
    <3>1. CASE n <= l
      <4>1. s + n \in L
        BY <1>0, <2>2, <3>1
      <4> QED  BY <1>0, <1>3, <2>0, <3>1, <4>1
    <3>2. CASE l < n /\ n < l + forw + 1
      <4>1. n - l \in Nat /\ 1 <= n - l /\ n - l <= forw
        BY <1>0, <1>3, <2>0, <3>2
      <4>2. s + n \in L
        BY <1>0, <1>3, <2>2, <4>1
      <4> QED  BY <3>2, <4>2, <1>0, <1>3, <2>0
    <3>3. CASE n = l + forw + 1 /\ n # top
      <4>1. ~(n <= l) /\ n - l = forw + 1 /\ forw # top
        BY <1>0, <1>3, <2>0, <3>3
      <4>2. s + n \notin L
        BY <1>0, <1>3, <2>2, <4>1
      <4> QED  BY <3>3, <4>2
    <3> QED  BY <1>0, <1>3, <2>0, <3>1, <3>2, <3>3
  <2>5. s \in Y <=> n <= l + forw + 1 /\ (n = top \/ n = l + forw + 1)
    BY <1>8, <2>1, <2>3, <2>4
  <2> QED  BY <1>0, <1>3, <1>4, <1>5, <2>0, <2>5
<1>15. IsFiniteSet(X) /\ IsFiniteSet(Y)
  <2>1. X \subseteq K /\ Y \subseteq L
    BY <1>7, <1>8
  <2>2. IsFiniteSet(L)
    BY <1>6, FS_AddElement
  <2> QED  BY <2>1, <2>2, FS_Subset
<1>16. \A x : x # s /\ x # k + 1 => (x \in X <=> x \in Y)
  BY <1>7, <1>8, <1>10
<1>17. s # k + 1
  BY <1>2
<1>18. /\ Cardinality(X) \in Nat
       /\ Cardinality(Y) = Cardinality(X)
              - (IF s \in X THEN 1 ELSE 0) - (IF k + 1 \in X THEN 1 ELSE 0)
              + (IF s \in Y THEN 1 ELSE 0) + (IF k + 1 \in Y THEN 1 ELSE 0)
  BY <1>15, <1>16, <1>17, CountOnly
<1>19. /\ Cardinality(X) \in Nat
       /\ Cardinality(Y) = Cardinality(X) + (IF n = whole THEN 1 ELSE 0)
              - (IF n = back THEN 1 ELSE 0) - (IF n = forw THEN 1 ELSE 0)
  BY <1>11, <1>12, <1>13, <1>14, <1>18
<1> QED  BY <1>1, <1>6, <1>19 DEF top, Joined

-----------------------------------------------------------------------------
(* The numbers of the free blocks, of which the clusters are made.         *)
Numbers(g, A) == {b \div FRAGS_PER_BLK : b \in FreeBlocks(g, A)}

(* The numbers of the free blocks.                                         *)
LEMMA NumbersFinite ==
    ASSUME NEW g \in Group, NEW A
    PROVE  Numbers(g, A) \subseteq Nat /\ IsFiniteSet(Numbers(g, A))
<1>1. cg_ndblk[g] \in Nat
  BY DataIs
<1>2. ASSUME NEW b \in FreeBlocks(g, A) PROVE b \div FRAGS_PER_BLK \in 0..cg_ndblk[g]
  <2>1. b \in Nat /\ b < cg_ndblk[g]
    BY StartIs DEF FreeBlocks
  <2>2. FRAGS_PER_BLK \in Nat /\ FRAGS_PER_BLK > 0
    BY Geometry
  <2>3. /\ b \div FRAGS_PER_BLK \in Nat /\ b % FRAGS_PER_BLK \in 0..(FRAGS_PER_BLK - 1)
        /\ b = FRAGS_PER_BLK * (b \div FRAGS_PER_BLK) + (b % FRAGS_PER_BLK)
    BY <2>1, <2>2, Divides
  <2>4. PICK q \in Nat, t \in Nat : q = b \div FRAGS_PER_BLK /\ t = b % FRAGS_PER_BLK
    BY <2>3
  <2>5. b = FRAGS_PER_BLK * q + t
    BY <2>3, <2>4
  <2>6. q <= FRAGS_PER_BLK * q
    BY <2>2
  <2>7. FRAGS_PER_BLK * q \in Nat
    BY <2>2
  <2>8. q <= b
    BY <2>1, <2>5, <2>6, <2>7
  <2> QED  BY <1>1, <2>1, <2>4, <2>8
<1>3. Numbers(g, A) \subseteq 0..cg_ndblk[g]
  BY <1>2 DEF Numbers
<1>4. IsFiniteSet(0..cg_ndblk[g])
  BY <1>1, FS_Interval
<1> QED  BY <1>1, <1>3, <1>4, FS_Subset

(* How the split changes the numbers of the free blocks.                   *)
LEMMA NumbersSplit ==
    ASSUME NEW g \in Group, NEW A, NEW B, NEW b, NEW p, NEW f, NEW e, NEW r,
           Parts(g, A, B, b, p, f, e, r)
    PROVE  /\ b \div FRAGS_PER_BLK \in Nat
           /\ r - p # FRAGS_PER_BLK => Numbers(g, B) = Numbers(g, A)
           /\ r - p = FRAGS_PER_BLK =>
                 /\ b \div FRAGS_PER_BLK \notin Numbers(g, B)
                 /\ Numbers(g, A) = Numbers(g, B) \cup {b \div FRAGS_PER_BLK}
                 /\ Numbers(g, B) = Numbers(g, A) \ {b \div FRAGS_PER_BLK}
<1>1. /\ b \in FreeBlocks(g, A) <=> r - p = FRAGS_PER_BLK
      /\ b \notin FreeBlocks(g, B)
      /\ FreeBlocks(g, B) = FreeBlocks(g, A) \ {b}
  BY BlocksSplit
<1>2. b \in BlockStarts(g) /\ FRAGS_PER_BLK \in Nat /\ FRAGS_PER_BLK > 0
  BY PartsIs
<1>3. ASSUME NEW c \in BlockStarts(g)
      PROVE  c \div FRAGS_PER_BLK \in Nat /\ c = FRAGS_PER_BLK * (c \div FRAGS_PER_BLK)
  <2>1. c \in Nat /\ c % FRAGS_PER_BLK = 0
    BY StartIs
  <2>2. c \div FRAGS_PER_BLK \in Nat /\ c = FRAGS_PER_BLK * (c \div FRAGS_PER_BLK) + (c % FRAGS_PER_BLK)
    BY <1>2, <2>1, Divides
  <2>3. FRAGS_PER_BLK * (c \div FRAGS_PER_BLK) \in Nat
    BY <1>2, <2>2
  <2> QED  BY <2>1, <2>2, <2>3
<1>4. PICK k \in Nat : k = b \div FRAGS_PER_BLK
  BY <1>2, <1>3
<1>5. ASSUME NEW c \in FreeBlocks(g, A), c \div FRAGS_PER_BLK = k PROVE c = b
  <2>1. c \in BlockStarts(g)
    BY DEF FreeBlocks
  <2> QED  BY <1>2, <1>3, <1>4, <1>5, <2>1
<1>6. CASE r - p # FRAGS_PER_BLK
  <2>1. FreeBlocks(g, B) = FreeBlocks(g, A)
    BY <1>1, <1>6
  <2> QED  BY <1>4, <1>6, <2>1 DEF Numbers
<1>7. CASE r - p = FRAGS_PER_BLK
  <2>1. k \in Numbers(g, A) /\ k \notin Numbers(g, B)
    BY <1>1, <1>4, <1>5, <1>7 DEF Numbers
  <2>2. ASSUME NEW x, x # k PROVE x \in Numbers(g, A) <=> x \in Numbers(g, B)
    BY <1>1, <1>4, <2>2 DEF Numbers
  <2>3. Numbers(g, A) = Numbers(g, B) \cup {k} /\ Numbers(g, B) = Numbers(g, A) \ {k}
    BY <2>1, <2>2
  <2> QED  BY <1>4, <1>7, <2>1, <2>3
<1> QED  BY <1>6, <1>7

-----------------------------------------------------------------------------
(* The fields of the maps, and what each routine does to them.             *)
CgShape == [free : SUBSET Nat, frsum : [1..(FRAGS_PER_BLK - 1) -> Int], nbfree : Int, nffree : Int,
            clusters : SUBSET Nat, clustersum : [1..contigsumsize -> Int]]
CsShape == [nbfree : Int, nffree : Int]
SbShape == [fs_cs : [Group -> CsShape], fs_cstotal : CsShape, fs_ronly : BOOLEAN]

Shape(u) == u \in [cg : [Group -> CgShape], sb : SbShape]

(* Of u, w differs in group g and in the counts, by nb blocks and nf frags.*)
Differs(u, w, g, A, nb, nf) ==
    /\ Shape(w)
    /\ \A h \in Group : h # g => w.cg[h] = u.cg[h] /\ w.sb.fs_cs[h] = u.sb.fs_cs[h]
    /\ w.sb.fs_ronly = u.sb.fs_ronly
    /\ w.cg[g].free = A
    /\ w.cg[g].nbfree = u.cg[g].nbfree + nb
    /\ w.cg[g].nffree = u.cg[g].nffree + nf
    /\ w.sb.fs_cs[g].nbfree = u.sb.fs_cs[g].nbfree + nb
    /\ w.sb.fs_cs[g].nffree = u.sb.fs_cs[g].nffree + nf
    /\ w.sb.fs_cstotal.nbfree = u.sb.fs_cstotal.nbfree + nb
    /\ w.sb.fs_cstotal.nffree = u.sb.fs_cstotal.nffree + nf

SameRuns(u, w, g)     == w.cg[g].frsum = u.cg[g].frsum
SameClusters(u, w, g) == /\ w.cg[g].clusters = u.cg[g].clusters
                         /\ w.cg[g].clustersum = u.cg[g].clustersum

(* A map is one when each of its parts is.                                 *)
LEMMA ShapeIs ==
    ASSUME NEW u
    PROVE  Shape(u) => /\ u.cg \in [Group -> CgShape]
                       /\ u.sb \in SbShape
                       /\ u.sb.fs_cs \in [Group -> CsShape]
                       /\ u.sb.fs_cstotal \in CsShape
                       /\ u.sb.fs_ronly \in BOOLEAN
                       /\ u = [cg |-> u.cg, sb |-> u.sb]
                       /\ \A g \in Group : u.cg[g] \in CgShape /\ u.sb.fs_cs[g] \in CsShape
<1>1. Shape(u) => u.cg \in [Group -> CgShape] /\ u.sb \in SbShape /\ u = [cg |-> u.cg, sb |-> u.sb]
  BY DEF Shape
<1>2. u.sb \in SbShape => /\ u.sb.fs_cs \in [Group -> CsShape]
                          /\ u.sb.fs_cstotal \in CsShape
                          /\ u.sb.fs_ronly \in BOOLEAN
  BY DEF SbShape
<1> QED  BY <1>1, <1>2

(* The fields of a group.                                                  *)
LEMMA CgIs ==
    ASSUME NEW c \in CgShape
    PROVE  /\ c.free \in SUBSET Nat /\ c.frsum \in [1..(FRAGS_PER_BLK - 1) -> Int]
           /\ c.nbfree \in Int /\ c.nffree \in Int
           /\ c.clusters \in SUBSET Nat /\ c.clustersum \in [1..contigsumsize -> Int]
  BY DEF CgShape

(* The maps with another group block and superblock.                       *)
Put(u, g, c, s) == [cg |-> [u.cg EXCEPT ![g] = c], sb |-> s]

(* Replacing one group, and the superblock.                                *)
LEMMA PutIs ==
    ASSUME NEW u, Shape(u), NEW g \in Group, NEW c \in CgShape, NEW s \in SbShape
    PROVE  /\ Shape(Put(u, g, c, s)) /\ Put(u, g, c, s).cg[g] = c /\ Put(u, g, c, s).sb = s
           /\ \A h \in Group : h # g => Put(u, g, c, s).cg[h] = u.cg[h]
<1>1. u.cg \in [Group -> CgShape]
  BY ShapeIs
<1>2. [u.cg EXCEPT ![g] = c] \in [Group -> CgShape]
  BY <1>1
<1>3. Shape(Put(u, g, c, s))
  BY <1>2 DEF Shape, Put
<1> QED  BY <1>1, <1>3 DEF Put

(* The counts.                                                             *)
LEMMA CountIs ==
    ASSUME NEW u, Shape(u), NEW g \in Group
    PROVE  /\ u.cg[g].nbfree \in Int /\ u.cg[g].nffree \in Int
           /\ u.sb.fs_cs[g].nbfree \in Int /\ u.sb.fs_cs[g].nffree \in Int
           /\ u.sb.fs_cstotal.nbfree \in Int /\ u.sb.fs_cstotal.nffree \in Int
<1>1. u.cg[g] \in CgShape /\ u.sb.fs_cs[g] \in CsShape /\ u.sb.fs_cstotal \in CsShape
  BY ShapeIs
<1>2. u.cg[g].nbfree \in Int /\ u.cg[g].nffree \in Int
  BY <1>1, CgIs
<1> QED  BY <1>1, <1>2 DEF CsShape

(* The maps with another bitmap of group g.                                *)
WithFree(u, g, A) == [u EXCEPT !.cg[g].free = A]

(* A change to the bitmap alone.                                           *)
LEMMA SetFree ==
    ASSUME NEW u, Shape(u), NEW g \in Group, NEW A \in SUBSET Nat, NEW w, w = WithFree(u, g, A)
    PROVE  Differs(u, w, g, A, 0, 0) /\ SameRuns(u, w, g) /\ SameClusters(u, w, g)
<1>1. PICK c, s : c = [u.cg[g] EXCEPT !.free = A] /\ s = u.sb
  OBVIOUS
<1>2. u.cg[g] \in CgShape /\ s \in SbShape /\ u = [cg |-> u.cg, sb |-> u.sb]
  BY <1>1, ShapeIs
<1>3. /\ c \in CgShape /\ c.free = A /\ c.nbfree = u.cg[g].nbfree /\ c.nffree = u.cg[g].nffree
      /\ c.frsum = u.cg[g].frsum /\ c.clusters = u.cg[g].clusters
      /\ c.clustersum = u.cg[g].clustersum
  BY <1>1, <1>2 DEF CgShape
<1>4. w = Put(u, g, c, s)
  BY <1>1, <1>2 DEF Put, WithFree
<1>5. /\ Shape(w) /\ w.cg[g] = c /\ w.sb = u.sb
      /\ \A h \in Group : h # g => w.cg[h] = u.cg[h]
  BY <1>1, <1>2, <1>3, <1>4, PutIs
<1> QED  BY <1>3, <1>5, CountIs DEF Differs, SameRuns, SameClusters

(* adjust_blks_free() changes three counts by the same.                    *)
LEMMA AdjustBlocks ==
    ASSUME NEW u, Shape(u), NEW g \in Group, NEW a \in Int, NEW w, w = adjust_blks_free(u, g, a)
    PROVE  Differs(u, w, g, u.cg[g].free, a, 0) /\ SameRuns(u, w, g) /\ SameClusters(u, w, g)
<1>1. PICK c, s : /\ c = [u.cg[g] EXCEPT !.nbfree = u.cg[g].nbfree + a]
                  /\ s = [u.sb EXCEPT !.fs_cs[g].nbfree = u.sb.fs_cs[g].nbfree + a,
                                      !.fs_cstotal.nbfree = u.sb.fs_cstotal.nbfree + a]
  OBVIOUS
<1>2. /\ u.cg[g] \in CgShape /\ u.sb \in SbShape /\ u = [cg |-> u.cg, sb |-> u.sb]
      /\ u.sb.fs_cs \in [Group -> CsShape] /\ u.sb.fs_cstotal \in CsShape /\ u.sb.fs_cs[g] \in CsShape
  BY ShapeIs
<1>i. /\ u.cg[g].nbfree + a \in Int /\ u.sb.fs_cs[g].nbfree + a \in Int
      /\ u.sb.fs_cstotal.nbfree + a \in Int
  BY CountIs
<1>3. /\ c \in CgShape /\ c.free = u.cg[g].free /\ c.nbfree = u.cg[g].nbfree + a
      /\ c.nffree = u.cg[g].nffree
      /\ c.frsum = u.cg[g].frsum /\ c.clusters = u.cg[g].clusters
      /\ c.clustersum = u.cg[g].clustersum
  BY <1>1, <1>2, <1>i DEF CgShape
<1>4. PICK y, z : /\ y = [u.sb.fs_cs[g] EXCEPT !.nbfree = u.sb.fs_cs[g].nbfree + a]
                  /\ z = [u.sb.fs_cstotal EXCEPT !.nbfree = u.sb.fs_cstotal.nbfree + a]
  OBVIOUS
<1>5. /\ y \in CsShape /\ y.nbfree = u.sb.fs_cs[g].nbfree + a /\ y.nffree = u.sb.fs_cs[g].nffree
      /\ z \in CsShape /\ z.nbfree = u.sb.fs_cstotal.nbfree + a /\ z.nffree = u.sb.fs_cstotal.nffree
  BY <1>2, <1>i, <1>4 DEF CsShape
<1>6. s = [u.sb EXCEPT !.fs_cs = [u.sb.fs_cs EXCEPT ![g] = y], !.fs_cstotal = z]
  BY <1>1, <1>4
<1>7. /\ s \in SbShape /\ s.fs_cs[g] = y /\ s.fs_cstotal = z /\ s.fs_ronly = u.sb.fs_ronly
      /\ \A h \in Group : h # g => s.fs_cs[h] = u.sb.fs_cs[h]
  <2>1. [u.sb.fs_cs EXCEPT ![g] = y] \in [Group -> CsShape]
    BY <1>2, <1>5
  <2>2. s \in SbShape /\ s.fs_cs = [u.sb.fs_cs EXCEPT ![g] = y] /\ s.fs_cstotal = z /\ s.fs_ronly = u.sb.fs_ronly
    BY <1>2, <1>5, <1>6, <2>1 DEF SbShape
  <2> QED  BY <1>2, <2>2
<1>8. w = Put(u, g, c, s)
  BY <1>1, <1>2 DEF Put, adjust_blks_free
<1>9. /\ Shape(w) /\ w.cg[g] = c /\ w.sb = s
      /\ \A h \in Group : h # g => w.cg[h] = u.cg[h]
  BY <1>3, <1>7, <1>8, PutIs
<1> QED  BY <1>3, <1>5, <1>7, <1>9, CountIs DEF Differs, SameRuns, SameClusters

(* adjust_frags_free() does, too.                                          *)
LEMMA AdjustFrags ==
    ASSUME NEW u, Shape(u), NEW g \in Group, NEW a \in Int, NEW w, w = adjust_frags_free(u, g, a)
    PROVE  Differs(u, w, g, u.cg[g].free, 0, a) /\ SameRuns(u, w, g) /\ SameClusters(u, w, g)
<1>1. PICK c, s : /\ c = [u.cg[g] EXCEPT !.nffree = u.cg[g].nffree + a]
                  /\ s = [u.sb EXCEPT !.fs_cs[g].nffree = u.sb.fs_cs[g].nffree + a,
                                      !.fs_cstotal.nffree = u.sb.fs_cstotal.nffree + a]
  OBVIOUS
<1>2. /\ u.cg[g] \in CgShape /\ u.sb \in SbShape /\ u = [cg |-> u.cg, sb |-> u.sb]
      /\ u.sb.fs_cs \in [Group -> CsShape] /\ u.sb.fs_cstotal \in CsShape /\ u.sb.fs_cs[g] \in CsShape
  BY ShapeIs
<1>i. /\ u.cg[g].nffree + a \in Int /\ u.sb.fs_cs[g].nffree + a \in Int
      /\ u.sb.fs_cstotal.nffree + a \in Int
  BY CountIs
<1>3. /\ c \in CgShape /\ c.free = u.cg[g].free /\ c.nffree = u.cg[g].nffree + a
      /\ c.nbfree = u.cg[g].nbfree
      /\ c.frsum = u.cg[g].frsum /\ c.clusters = u.cg[g].clusters
      /\ c.clustersum = u.cg[g].clustersum
  BY <1>1, <1>2, <1>i DEF CgShape
<1>4. PICK y, z : /\ y = [u.sb.fs_cs[g] EXCEPT !.nffree = u.sb.fs_cs[g].nffree + a]
                  /\ z = [u.sb.fs_cstotal EXCEPT !.nffree = u.sb.fs_cstotal.nffree + a]
  OBVIOUS
<1>5. /\ y \in CsShape /\ y.nffree = u.sb.fs_cs[g].nffree + a /\ y.nbfree = u.sb.fs_cs[g].nbfree
      /\ z \in CsShape /\ z.nffree = u.sb.fs_cstotal.nffree + a /\ z.nbfree = u.sb.fs_cstotal.nbfree
  BY <1>2, <1>i, <1>4 DEF CsShape
<1>6. s = [u.sb EXCEPT !.fs_cs = [u.sb.fs_cs EXCEPT ![g] = y], !.fs_cstotal = z]
  BY <1>1, <1>4
<1>7. /\ s \in SbShape /\ s.fs_cs[g] = y /\ s.fs_cstotal = z /\ s.fs_ronly = u.sb.fs_ronly
      /\ \A h \in Group : h # g => s.fs_cs[h] = u.sb.fs_cs[h]
  <2>1. [u.sb.fs_cs EXCEPT ![g] = y] \in [Group -> CsShape]
    BY <1>2, <1>5
  <2>2. s \in SbShape /\ s.fs_cs = [u.sb.fs_cs EXCEPT ![g] = y] /\ s.fs_cstotal = z /\ s.fs_ronly = u.sb.fs_ronly
    BY <1>2, <1>5, <1>6, <2>1 DEF SbShape
  <2> QED  BY <1>2, <2>2
<1>8. w = Put(u, g, c, s)
  BY <1>1, <1>2 DEF Put, adjust_frags_free
<1>9. /\ Shape(w) /\ w.cg[g] = c /\ w.sb = s
      /\ \A h \in Group : h # g => w.cg[h] = u.cg[h]
  BY <1>3, <1>7, <1>8, PutIs
<1> QED  BY <1>3, <1>5, <1>7, <1>9, CountIs DEF Differs, SameRuns, SameClusters

(* What is counted of the runs of count frags changes by a.                *)
RunMoved(u, w, g, count, a) ==
    \A n \in 1..(FRAGS_PER_BLK - 1) :
       w.cg[g].frsum[n] = u.cg[g].frsum[n] + (IF n = count THEN a ELSE 0)

(* adjust_frsum() changes one count of runs.                               *)
LEMMA AdjustRuns ==
    ASSUME NEW u, Shape(u), NEW g \in Group, NEW count \in 0..(FRAGS_PER_BLK - 1), NEW a \in Int,
           NEW w, w = adjust_frsum(u, g, count, a)
    PROVE  /\ Differs(u, w, g, u.cg[g].free, 0, 0) /\ SameClusters(u, w, g)
           /\ RunMoved(u, w, g, count, a)
<1>0. FRAGS_PER_BLK \in Nat /\ u.cg[g].frsum \in [1..(FRAGS_PER_BLK - 1) -> Int]
  BY ShapeIs, CgIs, Geometry
<1>1. CASE count = 0
  <2>1. w = u
    BY <1>1 DEF adjust_frsum
  <2>2. \A n \in 1..(FRAGS_PER_BLK - 1) :
           u.cg[g].frsum[n] = u.cg[g].frsum[n] + (IF n = count THEN a ELSE 0)
    BY <1>0, <1>1
  <2> QED  BY <2>1, <2>2, CountIs DEF Differs, SameClusters, RunMoved
<1>2. CASE count # 0
  <2>0. count \in 1..(FRAGS_PER_BLK - 1)
    BY <1>0, <1>2
  <2>1. PICK fr, c, s : /\ fr = [u.cg[g].frsum EXCEPT ![count] = u.cg[g].frsum[count] + a]
                        /\ c = [u.cg[g] EXCEPT !.frsum = fr] /\ s = u.sb
    OBVIOUS
  <2>2. u.cg[g] \in CgShape /\ s \in SbShape /\ u = [cg |-> u.cg, sb |-> u.sb]
    BY <2>1, ShapeIs
  <2>3. /\ fr \in [1..(FRAGS_PER_BLK - 1) -> Int]
        /\ \A n \in 1..(FRAGS_PER_BLK - 1) :
              fr[n] = u.cg[g].frsum[n] + (IF n = count THEN a ELSE 0)
    <3>1. PICK old : old = u.cg[g].frsum
      OBVIOUS
    <3>2. old \in [1..(FRAGS_PER_BLK - 1) -> Int] /\ fr = [old EXCEPT ![count] = old[count] + a]
      BY <1>0, <2>1, <3>1
    <3>3. old[count] + a \in Int /\ \A n \in 1..(FRAGS_PER_BLK - 1) : old[n] \in Int
      BY <2>0, <3>2
    <3>4. fr \in [1..(FRAGS_PER_BLK - 1) -> Int]
      BY <3>2, <3>3
    <3>5. \A n \in 1..(FRAGS_PER_BLK - 1) : fr[n] = old[n] + (IF n = count THEN a ELSE 0)
      BY <2>0, <3>2, <3>3
    <3> QED  BY <3>1, <3>4, <3>5
  <2>4. /\ c \in CgShape /\ c.free = u.cg[g].free /\ c.nbfree = u.cg[g].nbfree
        /\ c.nffree = u.cg[g].nffree /\ c.frsum = fr
        /\ c.clusters = u.cg[g].clusters /\ c.clustersum = u.cg[g].clustersum
    BY <2>1, <2>2, <2>3 DEF CgShape
  <2>5. w = Put(u, g, c, s)
    BY <1>2, <2>1, <2>2 DEF Put, adjust_frsum
  <2>6. /\ Shape(w) /\ w.cg[g] = c /\ w.sb = u.sb
        /\ \A h \in Group : h # g => w.cg[h] = u.cg[h]
    BY <2>1, <2>2, <2>4, <2>5, PutIs
  <2>7. w.cg[g].frsum = fr
    BY <2>4, <2>6
  <2>8. Differs(u, w, g, u.cg[g].free, 0, 0) /\ SameClusters(u, w, g)
    BY <2>4, <2>6, CountIs DEF Differs, SameClusters
  <2> QED  BY <2>3, <2>7, <2>8 DEF RunMoved
<1> QED  BY <1>1, <1>2

(* Several changes in a row.                                               *)
LEMMA DiffersAgain ==
    ASSUME NEW u, Shape(u), NEW v, NEW w, NEW g \in Group, NEW A, NEW B,
           NEW a \in Int, NEW c \in Int, NEW x \in Int, NEW y \in Int,
           Differs(u, v, g, A, a, x), Differs(v, w, g, B, c, y)
    PROVE  Differs(u, w, g, B, a + c, x + y)
<1>1. Shape(v) /\ Shape(w)
  BY DEF Differs
<1>2. \A h \in Group : h # g => w.cg[h] = u.cg[h] /\ w.sb.fs_cs[h] = u.sb.fs_cs[h]
  BY DEF Differs
<1>3. w.sb.fs_ronly = u.sb.fs_ronly /\ w.cg[g].free = B
  BY DEF Differs
<1>4. /\ u.cg[g].nbfree \in Int /\ u.cg[g].nffree \in Int
      /\ u.sb.fs_cs[g].nbfree \in Int /\ u.sb.fs_cs[g].nffree \in Int
      /\ u.sb.fs_cstotal.nbfree \in Int /\ u.sb.fs_cstotal.nffree \in Int
  BY CountIs
<1>5. /\ v.cg[g].nbfree = u.cg[g].nbfree + a
      /\ v.cg[g].nffree = u.cg[g].nffree + x
      /\ v.sb.fs_cs[g].nbfree = u.sb.fs_cs[g].nbfree + a
      /\ v.sb.fs_cs[g].nffree = u.sb.fs_cs[g].nffree + x
      /\ v.sb.fs_cstotal.nbfree = u.sb.fs_cstotal.nbfree + a
      /\ v.sb.fs_cstotal.nffree = u.sb.fs_cstotal.nffree + x
      /\ w.cg[g].nbfree = v.cg[g].nbfree + c
      /\ w.cg[g].nffree = v.cg[g].nffree + y
      /\ w.sb.fs_cs[g].nbfree = v.sb.fs_cs[g].nbfree + c
      /\ w.sb.fs_cs[g].nffree = v.sb.fs_cs[g].nffree + y
      /\ w.sb.fs_cstotal.nbfree = v.sb.fs_cstotal.nbfree + c
      /\ w.sb.fs_cstotal.nffree = v.sb.fs_cstotal.nffree + y
  BY DEF Differs
<1>6. /\ w.cg[g].nbfree = u.cg[g].nbfree + (a + c)
      /\ w.cg[g].nffree = u.cg[g].nffree + (x + y)
      /\ w.sb.fs_cs[g].nbfree = u.sb.fs_cs[g].nbfree + (a + c)
      /\ w.sb.fs_cs[g].nffree = u.sb.fs_cs[g].nffree + (x + y)
      /\ w.sb.fs_cstotal.nbfree = u.sb.fs_cstotal.nbfree + (a + c)
      /\ w.sb.fs_cstotal.nffree = u.sb.fs_cstotal.nffree + (x + y)
  BY <1>4, <1>5
<1> QED  BY <1>1, <1>2, <1>3, <1>6 DEF Differs

(* The account of clusters, which block k of group g joins (a = 1) or      *)
(* leaves (a = -1).                                                        *)
Accounts(u, w, g, k, a) ==
    LET K     == u.cg[g].clusters
        forw  == InARow(K, k, 1)
        back  == InARow(K, k, -1)
        whole == Lesser(back + forw + 1, contigsumsize)
    IN  /\ w.cg[g].clusters = (IF a > 0 THEN K \cup {k} ELSE K \ {k})
        /\ \A n \in 1..contigsumsize :
              w.cg[g].clustersum[n] = u.cg[g].clustersum[n] + (IF n = whole THEN a ELSE 0)
                                      - (IF n = back THEN a ELSE 0) - (IF n = forw THEN a ELSE 0)

(* The numbers of clusters t are those of sum but for one length.          *)
OneMore(sum, t, count, a) ==
    /\ t \in [1..contigsumsize -> Int]
    /\ \A n \in 1..contigsumsize : t[n] = sum[n] + (IF n = count THEN a ELSE 0)

(* A change to the number of clusters of one length.                       *)
LEMMA AddingIs ==
    ASSUME NEW sum \in [1..contigsumsize -> Int], NEW count \in 0..contigsumsize, NEW a \in Int,
           NEW t, t = Adding(sum, count, a)
    PROVE  OneMore(sum, t, count, a)
<1>0. contigsumsize \in Nat
  BY GeometryAssumption
<1>1. CASE count = 0
  <2>1. t = sum
    BY <1>1 DEF Adding
  <2>2. \A n \in 1..contigsumsize : n # count /\ sum[n] \in Int
    BY <1>0, <1>1
  <2>3. \A n \in 1..contigsumsize : t[n] = sum[n] + (IF n = count THEN a ELSE 0)
    BY <2>1, <2>2
  <2> QED  BY <2>1, <2>3 DEF OneMore
<1>2. CASE count # 0
  <2>1. t = [sum EXCEPT ![count] = sum[count] + a]
    BY <1>2 DEF Adding
  <2>2. count \in 1..contigsumsize /\ sum[count] + a \in Int
    BY <1>0, <1>2
  <2>3. t \in [1..contigsumsize -> Int]
    BY <2>1, <2>2
  <2>4. \A n \in 1..contigsumsize : sum[n] \in Int
    OBVIOUS
  <2>5. \A n \in 1..contigsumsize : t[n] = sum[n] + (IF n = count THEN a ELSE 0)
    BY <2>1, <2>2, <2>4
  <2> QED  BY <2>3, <2>5 DEF OneMore
<1> QED  BY <1>1, <1>2

(* ffs_clusteracct() changes what Accounts() says and nothing else.        *)
LEMMA AdjustClusters ==
    ASSUME NEW u, Shape(u), NEW g \in Group, NEW b \in Nat, NEW a \in {1, -1},
           NEW w, w = ffs_clusteracct(u, g, b, a)
    PROVE  /\ Differs(u, w, g, u.cg[g].free, 0, 0) /\ SameRuns(u, w, g)
           /\ contigsumsize = 0 => SameClusters(u, w, g)
           /\ contigsumsize # 0 => Accounts(u, w, g, b \div FRAGS_PER_BLK, a)
<1>0. contigsumsize \in Nat
  BY GeometryAssumption
<1>1. CASE contigsumsize = 0
  <2>1. w = u
    BY <1>1 DEF ffs_clusteracct
  <2> QED  BY <1>1, <2>1, CountIs DEF Differs, SameRuns, SameClusters
<1>2. CASE contigsumsize # 0
  <2>1. PICK k : k = b \div FRAGS_PER_BLK
    OBVIOUS
  <2>2. k \in Nat
    BY <2>1, Geometry, Divides
  <2>3. PICK K, L : /\ K = u.cg[g].clusters
                    /\ L = (IF a > 0 THEN K \cup {k} ELSE K \ {k})
    OBVIOUS
  <2>4. PICK forw, back, whole : /\ forw = InARow(L, k, 1) /\ back = InARow(L, k, -1)
                                 /\ whole = Lesser(back + forw + 1, contigsumsize)
    OBVIOUS
  <2>5. forw = InARow(K, k, 1) /\ back = InARow(K, k, -1)
    <3>1. K \ {k} = L \ {k}
      BY <2>3
    <3>2. InARow(K, k, 1) = InARow(L, k, 1)
      <4>1. 1 \in {1, -1}
        OBVIOUS
      <4> QED  BY <2>2, <3>1, <4>1, RowBeside
    <3>3. InARow(K, k, -1) = InARow(L, k, -1)
      <4>1. -1 \in {1, -1}
        OBVIOUS
      <4> QED  BY <2>2, <3>1, <4>1, RowBeside
    <3> QED  BY <2>4, <3>2, <3>3
  <2>6. forw \in 0..contigsumsize /\ back \in 0..contigsumsize
    <3>1. 1 \in {1, -1} /\ -1 \in {1, -1}
      OBVIOUS
    <3>2. InARow(L, k, 1) \in 0..contigsumsize
      BY <2>2, <3>1, RowIs
    <3>3. InARow(L, k, -1) \in 0..contigsumsize
      BY <2>2, <3>1, RowIs
    <3> QED  BY <2>4, <3>2, <3>3
  <2>7. whole \in 0..contigsumsize
    BY <1>0, <2>4, <2>6 DEF Lesser
  <2>8. u.cg[g] \in CgShape /\ u.sb \in SbShape /\ u = [cg |-> u.cg, sb |-> u.sb]
    BY ShapeIs
  <2>9. PICK cs : cs = u.cg[g].clustersum
    OBVIOUS
  <2>10. cs \in [1..contigsumsize -> Int] /\ K \in SUBSET Nat /\ L \in SUBSET Nat
    BY <2>2, <2>3, <2>8, <2>9, CgIs
  <2>11. a \in Int /\ -a \in Int
    OBVIOUS
  <2>12. PICK s1, s2, s3 : /\ s1 = Adding(cs, whole, a) /\ s2 = Adding(s1, back, -a)
                           /\ s3 = Adding(s2, forw, -a)
    OBVIOUS
  <2>13. /\ s1 \in [1..contigsumsize -> Int]
         /\ \A n \in 1..contigsumsize : s1[n] = cs[n] + (IF n = whole THEN a ELSE 0)
    <3>1. OneMore(cs, s1, whole, a)
      BY <2>7, <2>10, <2>11, <2>12, AddingIs
    <3> QED  BY <3>1 DEF OneMore
  <2>14. /\ s2 \in [1..contigsumsize -> Int]
         /\ \A n \in 1..contigsumsize : s2[n] = s1[n] + (IF n = back THEN -a ELSE 0)
    <3>1. OneMore(s1, s2, back, -a)
      BY <2>6, <2>11, <2>12, <2>13, AddingIs
    <3> QED  BY <3>1 DEF OneMore
  <2>15. /\ s3 \in [1..contigsumsize -> Int]
         /\ \A n \in 1..contigsumsize : s3[n] = s2[n] + (IF n = forw THEN -a ELSE 0)
    <3>1. OneMore(s2, s3, forw, -a)
      BY <2>6, <2>11, <2>12, <2>14, AddingIs
    <3> QED  BY <3>1 DEF OneMore
  <2>16. \A n \in 1..contigsumsize :
            s3[n] = cs[n] + (IF n = whole THEN a ELSE 0)
                    - (IF n = back THEN a ELSE 0) - (IF n = forw THEN a ELSE 0)
    <3> SUFFICES ASSUME NEW n \in 1..contigsumsize
                 PROVE  s3[n] = cs[n] + (IF n = whole THEN a ELSE 0)
                                - (IF n = back THEN a ELSE 0) - (IF n = forw THEN a ELSE 0)
      OBVIOUS
    <3>1. PICK x \in Int, y \in Int, z \in Int : /\ x = IF n = whole THEN a ELSE 0
                                                 /\ y = IF n = back THEN a ELSE 0
                                                 /\ z = IF n = forw THEN a ELSE 0
      BY <2>11
    <3>2. PICK q \in Int : q = cs[n]
      BY <2>10
    <3>3. s1[n] = q + x
      BY <2>13, <3>1, <3>2
    <3>4. s2[n] = q + x - y
      BY <2>11, <2>14, <3>1, <3>3
    <3>5. s3[n] = q + x - y - z
      BY <2>11, <2>15, <3>1, <3>4
    <3> QED  BY <3>1, <3>2, <3>5
  <2>17. PICK v, c0, c : /\ v = Put(u, g, c0, u.sb)
                         /\ c0 = [u.cg[g] EXCEPT !.clusters = L]
                         /\ c = [c0 EXCEPT !.clustersum = s3]
    OBVIOUS
  <2>18. /\ c \in CgShape /\ c.free = u.cg[g].free /\ c.nbfree = u.cg[g].nbfree
         /\ c.nffree = u.cg[g].nffree /\ c.frsum = u.cg[g].frsum
         /\ c.clusters = L /\ c.clustersum = s3 /\ c0 \in CgShape
    <3>1. /\ c0 \in CgShape /\ c0.free = u.cg[g].free /\ c0.nbfree = u.cg[g].nbfree
          /\ c0.nffree = u.cg[g].nffree /\ c0.frsum = u.cg[g].frsum /\ c0.clusters = L
      BY <2>8, <2>10, <2>17 DEF CgShape
    <3> QED  BY <2>15, <2>17, <3>1 DEF CgShape
  <2>19. w = [[u EXCEPT !.cg[g].clusters = L] EXCEPT !.cg[g].clustersum = s3]
    BY <1>2, <2>1, <2>3, <2>4, <2>9, <2>12 DEF ffs_clusteracct
  <2>20. w = Put(v, g, c, v.sb)
    <3>1. v = [u EXCEPT !.cg[g].clusters = L]
      BY <2>8, <2>17 DEF Put
    <3>2. w = [v EXCEPT !.cg[g].clustersum = s3]
      BY <2>19, <3>1
    <3>3. /\ Shape(v) /\ v.cg[g] = c0
      BY <2>8, <2>17, <2>18, PutIs
    <3>4. v = [cg |-> v.cg, sb |-> v.sb]
      BY <3>3, ShapeIs
    <3> QED  BY <2>17, <3>2, <3>3, <3>4 DEF Put
  <2>21. /\ Shape(w) /\ w.cg[g] = c /\ w.sb = u.sb
         /\ \A h \in Group : h # g => w.cg[h] = u.cg[h]
    <3>1. /\ Shape(v) /\ v.sb = u.sb
          /\ \A h \in Group : h # g => v.cg[h] = u.cg[h]
      BY <2>8, <2>17, <2>18, PutIs
    <3>2. v.sb \in SbShape
      BY <2>8, <3>1
    <3>3. /\ Shape(w) /\ w.cg[g] = c /\ w.sb = v.sb
          /\ \A h \in Group : h # g => w.cg[h] = v.cg[h]
      BY <2>18, <2>20, <3>1, <3>2, PutIs
    <3> QED  BY <3>1, <3>3
  <2>22. Differs(u, w, g, u.cg[g].free, 0, 0) /\ SameRuns(u, w, g)
    BY <2>18, <2>21, CountIs DEF Differs, SameRuns
  <2>23. /\ w.cg[g].clusters = (IF a > 0 THEN K \cup {k} ELSE K \ {k})
         /\ w.cg[g].clustersum = s3
    BY <2>3, <2>18, <2>21
  <2>24. Accounts(u, w, g, k, a)
    <3>1. forw = InARow(u.cg[g].clusters, k, 1) /\ back = InARow(u.cg[g].clusters, k, -1)
      BY <2>3, <2>5
    <3>2. \A n \in 1..contigsumsize :
             w.cg[g].clustersum[n] = u.cg[g].clustersum[n] + (IF n = whole THEN a ELSE 0)
                    - (IF n = back THEN a ELSE 0) - (IF n = forw THEN a ELSE 0)
      BY <2>9, <2>16, <2>23
    <3>3. w.cg[g].clusters =
             (IF a > 0 THEN u.cg[g].clusters \cup {k} ELSE u.cg[g].clusters \ {k})
      BY <2>3, <2>23
    <3>4. whole = Lesser(back + forw + 1, contigsumsize)
      BY <2>4
    <3> QED  BY <3>1, <3>2, <3>3, <3>4, Zenon DEF Accounts
  <2> QED  BY <1>2, <2>1, <2>22, <2>24
<1> QED  BY <1>1, <1>2

-----------------------------------------------------------------------------
(* The inductive invariant: every field is what the bitmap says.           *)
RunsRight(c, g) ==
    \A n \in 1..(FRAGS_PER_BLK - 1) : c.frsum[n] = Cardinality(RunsIn(g, c.free, n))

ClustersRight(c, g) ==
    /\ c.clusters = (IF contigsumsize = 0 THEN {} ELSE Numbers(g, c.free))
    /\ \A n \in 1..contigsumsize : c.clustersum[n] = Cardinality(Clusters(Numbers(g, c.free), n))

GroupRight(c, g) ==
    /\ c.free \subseteq DataOf(g)
    /\ RunsRight(c, g)
    /\ c.nbfree = Cardinality(FreeBlocks(g, c.free))
    /\ c.nffree = Cardinality(Loose(g, c.free))
    /\ ClustersRight(c, g)

AllFreeBlocks(u) == [g \in Group |-> FreeBlocks(g, u.cg[g].free)]
AllLoose(u)      == [g \in Group |-> Loose(g, u.cg[g].free)]

Exact(u) ==
    /\ Shape(u)
    /\ \A g \in Group : /\ GroupRight(u.cg[g], g)
                        /\ u.sb.fs_cs[g].nbfree = u.cg[g].nbfree
                        /\ u.sb.fs_cs[g].nffree = u.cg[g].nffree
    /\ u.sb.fs_cstotal.nbfree = Total(AllFreeBlocks(u))
    /\ u.sb.fs_cstotal.nffree = Total(AllLoose(u))
    /\ ~u.sb.fs_ronly

(* A set of frags that hold data is a bitmap of the group.                 *)
LEMMA DataBits ==
    ASSUME NEW g \in Group, NEW A, A \subseteq DataOf(g)
    PROVE  Bits(g, A) /\ A \in SUBSET Nat
<1>1. DataOf(g) \subseteq 0..(cg_ndblk[g] - 1) /\ cg_ndblk[g] \in Nat
  BY DataIs
<1> QED  BY <1>1 DEF Bits

(* Bounds on what is counted of a bitmap.                                  *)
LEMMA PartsSmall ==
    ASSUME NEW g \in Group, NEW A, Bits(g, A)
    PROVE  FreeBlocks(g, A) \subseteq 0..fs_fpg /\ Loose(g, A) \subseteq 0..fs_fpg
<1>1. cg_ndblk[g] \in Nat /\ cg_ndblk[g] <= fs_fpg /\ fs_fpg \in Nat
  BY DataIs
<1>2. FreeBlocks(g, A) \subseteq 0..(cg_ndblk[g] - 1)
  BY FreeBlocksFinite
<1>3. Loose(g, A) \subseteq 0..(cg_ndblk[g] - 1)
  BY LooseIs
<1> QED  BY <1>1, <1>2, <1>3

(* The free blocks and frags of bitmaps A and B differ by nb and nf.        *)
Balanced(g, A, B, nb, nf) ==
    /\ B \subseteq DataOf(g)
    /\ Cardinality(FreeBlocks(g, B)) = Cardinality(FreeBlocks(g, A)) + nb
    /\ Cardinality(Loose(g, B)) = Cardinality(Loose(g, A)) + nf

(* Maps stay exact when counts and bitmap of a group change alike.         *)
LEMMA ExactAfter ==
    ASSUME NEW u, Exact(u), NEW w, NEW g \in Group, NEW B, NEW nb \in Int, NEW nf \in Int,
           Differs(u, w, g, B, nb, nf), Balanced(g, u.cg[g].free, B, nb, nf),
           RunsRight(w.cg[g], g), ClustersRight(w.cg[g], g)
    PROVE  Exact(w)
<1>0. /\ B \subseteq DataOf(g)
      /\ Cardinality(FreeBlocks(g, B)) = Cardinality(FreeBlocks(g, u.cg[g].free)) + nb
      /\ Cardinality(Loose(g, B)) = Cardinality(Loose(g, u.cg[g].free)) + nf
  BY DEF Balanced
<1>1. /\ Shape(u) /\ GroupRight(u.cg[g], g)
      /\ \A h \in Group : /\ GroupRight(u.cg[h], h)
                          /\ u.sb.fs_cs[h].nbfree = u.cg[h].nbfree
                          /\ u.sb.fs_cs[h].nffree = u.cg[h].nffree
      /\ u.sb.fs_cstotal.nbfree = Total(AllFreeBlocks(u))
      /\ u.sb.fs_cstotal.nffree = Total(AllLoose(u))
      /\ ~u.sb.fs_ronly
  BY DEF Exact
<1>2. /\ Shape(w) /\ w.sb.fs_ronly = u.sb.fs_ronly /\ w.cg[g].free = B
      /\ \A h \in Group : h # g => w.cg[h] = u.cg[h] /\ w.sb.fs_cs[h] = u.sb.fs_cs[h]
  BY DEF Differs
<1>3. /\ w.cg[g].nbfree = u.cg[g].nbfree + nb
      /\ w.cg[g].nffree = u.cg[g].nffree + nf
      /\ w.sb.fs_cs[g].nbfree = u.sb.fs_cs[g].nbfree + nb
      /\ w.sb.fs_cs[g].nffree = u.sb.fs_cs[g].nffree + nf
      /\ w.sb.fs_cstotal.nbfree = u.sb.fs_cstotal.nbfree + nb
      /\ w.sb.fs_cstotal.nffree = u.sb.fs_cstotal.nffree + nf
  BY DEF Differs
<1>4. /\ u.cg[g].nbfree = Cardinality(FreeBlocks(g, u.cg[g].free))
      /\ u.cg[g].nffree = Cardinality(Loose(g, u.cg[g].free))
  BY <1>1 DEF GroupRight
<1>5. GroupRight(w.cg[g], g)
  BY <1>0, <1>2, <1>3, <1>4 DEF GroupRight
<1>6. \A h \in Group : /\ GroupRight(w.cg[h], h)
                       /\ w.sb.fs_cs[h].nbfree = w.cg[h].nbfree
                       /\ w.sb.fs_cs[h].nffree = w.cg[h].nffree
  <2> SUFFICES ASSUME NEW h \in Group
               PROVE  /\ GroupRight(w.cg[h], h)
                      /\ w.sb.fs_cs[h].nbfree = w.cg[h].nbfree
                      /\ w.sb.fs_cs[h].nffree = w.cg[h].nffree
    OBVIOUS
  <2>1. CASE h = g
    BY <1>1, <1>3, <1>5, <2>1
  <2>2. CASE h # g
    BY <1>1, <1>2, <2>2
  <2> QED  BY <2>1, <2>2
<1>7. \A h \in Group : Bits(h, u.cg[h].free) /\ Bits(h, w.cg[h].free)
  BY <1>1, <1>6, DataBits DEF GroupRight
<1>8. Total(AllFreeBlocks(w)) = Total(AllFreeBlocks(u)) + nb
  <2>1. PICK P, Q : P = AllFreeBlocks(u) /\ Q = AllFreeBlocks(w)
    OBVIOUS
  <2>2. \A h \in Group : P[h] = FreeBlocks(h, u.cg[h].free) /\ Q[h] = FreeBlocks(h, w.cg[h].free)
    BY <2>1 DEF AllFreeBlocks
  <2>3. \A h \in Group : P[h] \subseteq 0..fs_fpg
    BY <1>7, <2>2, PartsSmall
  <2>4. \A h \in Group : Q[h] \subseteq 0..fs_fpg
    BY <1>7, <2>2, PartsSmall
  <2>5. \A h \in Group \ {g} : P[h] = Q[h]
    BY <1>2, <2>2
  <2>6. Total(Q) = Total(P) - Cardinality(P[g]) + Cardinality(Q[g])
    BY <2>3, <2>4, <2>5, TotalLocal
  <2>7. Cardinality(P[g]) \in Nat /\ Total(P) \in Nat
    BY <2>2, <2>3, FreeBlocksFinite, TotalFinite
  <2>8. Cardinality(Q[g]) = Cardinality(P[g]) + nb
    BY <1>0, <1>2, <2>2
  <2> QED  BY <2>1, <2>6, <2>7, <2>8
<1>9. Total(AllLoose(w)) = Total(AllLoose(u)) + nf
  <2>1. PICK P, Q : P = AllLoose(u) /\ Q = AllLoose(w)
    OBVIOUS
  <2>2. \A h \in Group : P[h] = Loose(h, u.cg[h].free) /\ Q[h] = Loose(h, w.cg[h].free)
    BY <2>1 DEF AllLoose
  <2>3. \A h \in Group : P[h] \subseteq 0..fs_fpg
    BY <1>7, <2>2, PartsSmall
  <2>4. \A h \in Group : Q[h] \subseteq 0..fs_fpg
    BY <1>7, <2>2, PartsSmall
  <2>5. \A h \in Group \ {g} : P[h] = Q[h]
    BY <1>2, <2>2
  <2>6. Total(Q) = Total(P) - Cardinality(P[g]) + Cardinality(Q[g])
    BY <2>3, <2>4, <2>5, TotalLocal
  <2>7. Cardinality(P[g]) \in Nat /\ Total(P) \in Nat
    <3>1. Total(P) \in Nat
      BY <2>3, TotalFinite
    <3>2. Bits(g, u.cg[g].free)
      BY <1>7
    <3>3. Cardinality(Loose(g, u.cg[g].free)) \in Nat
      BY <3>2, LooseIs
    <3> QED  BY <2>2, <3>1, <3>3
  <2>8. Cardinality(Q[g]) = Cardinality(P[g]) + nf
    BY <1>0, <1>2, <2>2
  <2> QED  BY <2>1, <2>6, <2>7, <2>8
<1> QED  BY <1>1, <1>2, <1>3, <1>6, <1>8, <1>9 DEF Exact

(* The clusters when a free block is taken, and when one is given back.    *)
LEMMA ClustersTaken ==
    ASSUME NEW u, Shape(u), NEW w, NEW g \in Group,
           NEW A, NEW B, NEW b, NEW p, NEW f, NEW e, NEW r,
           Parts(g, A, B, b, p, f, e, r), r - p = FRAGS_PER_BLK,
           u.cg[g].free = A, w.cg[g].free = B, ClustersRight(u.cg[g], g),
           contigsumsize = 0 => SameClusters(u, w, g),
           contigsumsize # 0 => Accounts(u, w, g, b \div FRAGS_PER_BLK, -1)
    PROVE  ClustersRight(w.cg[g], g)
<1>1. CASE contigsumsize = 0
  <2>1. \A n \in 1..contigsumsize : FALSE
    BY <1>1
  <2> QED  BY <1>1, <2>1 DEF ClustersRight, SameClusters
<1>2. CASE contigsumsize # 0
  <2>1. PICK k, K, L : k = b \div FRAGS_PER_BLK /\ K = Numbers(g, A) /\ L = Numbers(g, B)
    OBVIOUS
  <2>2. k \in Nat /\ k \notin L /\ K = L \cup {k} /\ L = K \ {k}
    BY <2>1, NumbersSplit
  <2>3. L \subseteq Nat /\ IsFiniteSet(L)
    BY <2>1, NumbersFinite
  <2>4. PICK forw, back, whole : /\ forw = InARow(L, k, 1) /\ back = InARow(L, k, -1)
                                 /\ whole = Lesser(back + forw + 1, contigsumsize)
    OBVIOUS
  <2>5. forw = InARow(K, k, 1) /\ back = InARow(K, k, -1)
    <3>1. K \ {k} = L \ {k} /\ 1 \in {1, -1} /\ -1 \in {1, -1}
      BY <2>2
    <3> QED  BY <2>2, <2>4, <3>1, RowBeside
  <2>6. /\ u.cg[g].clusters = K
        /\ \A n \in 1..contigsumsize : u.cg[g].clustersum[n] = Cardinality(Clusters(K, n))
    BY <1>2, <2>1 DEF ClustersRight
  <2>7. /\ w.cg[g].clusters = K \ {k}
        /\ \A n \in 1..contigsumsize :
              w.cg[g].clustersum[n] = u.cg[g].clustersum[n] + (IF n = whole THEN -1 ELSE 0)
                                      - (IF n = back THEN -1 ELSE 0) - (IF n = forw THEN -1 ELSE 0)
    BY <1>2, <2>1, <2>4, <2>5, <2>6 DEF Accounts
  <2>8. ASSUME NEW n \in 1..contigsumsize
        PROVE  w.cg[g].clustersum[n] = Cardinality(Clusters(L, n))
    <3>1. /\ Cardinality(Clusters(L, n)) \in Nat
          /\ Cardinality(Clusters(L \cup {k}, n)) =
                Cardinality(Clusters(L, n)) + (IF n = whole THEN 1 ELSE 0)
                - (IF n = back THEN 1 ELSE 0) - (IF n = forw THEN 1 ELSE 0)
      <4>1. Joined(L, k, n)
        BY <2>2, <2>3, ClusterSplit
      <4> QED  BY <2>4, <4>1 DEF Joined
    <3> QED  BY <2>2, <2>6, <2>7, <3>1
  <2> QED  BY <1>2, <2>1, <2>2, <2>7, <2>8 DEF ClustersRight
<1> QED  BY <1>1, <1>2

(* And when a block is given back.                                         *)
LEMMA ClustersGiven ==
    ASSUME NEW u, Shape(u), NEW w, NEW g \in Group,
           NEW A, NEW B, NEW b, NEW p, NEW f, NEW e, NEW r,
           Parts(g, A, B, b, p, f, e, r), r - p = FRAGS_PER_BLK,
           u.cg[g].free = B, w.cg[g].free = A, ClustersRight(u.cg[g], g),
           contigsumsize = 0 => SameClusters(u, w, g),
           contigsumsize # 0 => Accounts(u, w, g, b \div FRAGS_PER_BLK, 1)
    PROVE  ClustersRight(w.cg[g], g)
<1>1. CASE contigsumsize = 0
  <2>1. \A n \in 1..contigsumsize : FALSE
    BY <1>1
  <2> QED  BY <1>1, <2>1 DEF ClustersRight, SameClusters
<1>2. CASE contigsumsize # 0
  <2>1. PICK k, K, L : k = b \div FRAGS_PER_BLK /\ K = Numbers(g, A) /\ L = Numbers(g, B)
    OBVIOUS
  <2>2. k \in Nat /\ k \notin L /\ K = L \cup {k}
    BY <2>1, NumbersSplit
  <2>3. L \subseteq Nat /\ IsFiniteSet(L)
    BY <2>1, NumbersFinite
  <2>4. PICK forw, back, whole : /\ forw = InARow(L, k, 1) /\ back = InARow(L, k, -1)
                                 /\ whole = Lesser(back + forw + 1, contigsumsize)
    OBVIOUS
  <2>6. /\ u.cg[g].clusters = L
        /\ \A n \in 1..contigsumsize : u.cg[g].clustersum[n] = Cardinality(Clusters(L, n))
    BY <1>2, <2>1 DEF ClustersRight
  <2>7. /\ w.cg[g].clusters = L \cup {k}
        /\ \A n \in 1..contigsumsize :
              w.cg[g].clustersum[n] = u.cg[g].clustersum[n] + (IF n = whole THEN 1 ELSE 0)
                                      - (IF n = back THEN 1 ELSE 0) - (IF n = forw THEN 1 ELSE 0)
    BY <1>2, <2>1, <2>4, <2>6 DEF Accounts
  <2>8. ASSUME NEW n \in 1..contigsumsize
        PROVE  w.cg[g].clustersum[n] = Cardinality(Clusters(K, n))
    <3>1. /\ Cardinality(Clusters(L, n)) \in Nat
          /\ Cardinality(Clusters(L \cup {k}, n)) =
                Cardinality(Clusters(L, n)) + (IF n = whole THEN 1 ELSE 0)
                - (IF n = back THEN 1 ELSE 0) - (IF n = forw THEN 1 ELSE 0)
      <4>1. Joined(L, k, n)
        BY <2>2, <2>3, ClusterSplit
      <4> QED  BY <2>4, <4>1 DEF Joined
    <3> QED  BY <2>2, <2>6, <2>7, <3>1
  <2> QED  BY <1>2, <2>1, <2>2, <2>7, <2>8 DEF ClustersRight
<1> QED  BY <1>1, <1>2

-----------------------------------------------------------------------------
(* The search for a free block.                                            *)
LEMMA ScanIs ==
    ASSUME NEW g \in Group, NEW A, NEW p \in BlockStarts(g)
    PROVE  /\ FreeBlocks(g, A) = {} => Scan(g, A, p) = -1
           /\ FreeBlocks(g, A) # {} =>
                 /\ Scan(g, A, p) \in FreeBlocks(g, A)
                 /\ \A b \in FreeBlocks(g, A) : Abs(p - Scan(g, A, p)) <= Abs(p - b)
<1>1. PICK avail, limit : avail = FreeBlocks(g, A) /\ limit = cg_ndblk[g]
  OBVIOUS
<1>2. /\ limit \in Nat /\ limit > 0 /\ avail \subseteq 0..(limit - 1) /\ avail \subseteq Nat
      /\ p \in Nat /\ p < limit
  BY <1>1, DataIs, FreeBlocksFinite, StartIs
<1>3. \A b \in avail : b \in Nat /\ b < limit /\ Abs(p - b) \in Nat /\ Abs(p - b) <= limit
                       /\ Abs(p - b) = (IF b <= p THEN p - b ELSE b - p)
  BY <1>2 DEF Abs
<1> DEFINE Nearest(b) == \A c \in avail : c < b => Abs(p - b) <= Abs(p - c)
           taken == {b \in avail : \A c \in avail : c <= b => Nearest(c)}
<1>4. Scan(g, A, p) = (IF taken = {} THEN -1 ELSE Most(taken))
  <2>1. \A c \in avail : (Abs(p - c) <= limit /\ \A d \in avail : d < c => Abs(p - c) <= Abs(p - d)) <=> Nearest(c)
    BY <1>3
  <2>2. {b \in avail : \A c \in avail : c <= b =>
            (Abs(p - c) <= limit /\ \A d \in avail : d < c => Abs(p - c) <= Abs(p - d))} = taken
    BY <2>1
  <2> QED  BY <1>1, <2>2, ZenonT(60) DEF Scan, ScanWithin
<1>5. CASE avail = {}
  <2>1. taken = {}
    BY <1>5
  <2> QED  BY <1>1, <1>4, <1>5, <2>1
<1>6. CASE avail # {}
  <2>1. PICK first \in avail : \A c \in avail : first <= c
    BY <1>2, <1>6, LeastIs
  <2>2. first \in taken
    BY <1>3, <2>1
  <2>3. PICK t : t = Most(taken)
    OBVIOUS
  <2>4. t \in taken /\ \A y \in taken : y <= t
    <3>0. taken \subseteq avail
      OBVIOUS
    <3> HIDE DEF taken
    <3>1. taken \subseteq 0..(limit - 1) /\ limit - 1 \in Nat
      BY <1>2, <3>0
    <3> QED  BY <2>2, <2>3, <3>1, MostIs
  <2>5. t \in avail /\ \A c \in avail : c <= t => Nearest(c)
    BY <2>4
  <2>6. ASSUME NEW b \in avail PROVE Abs(p - t) <= Abs(p - b)
    <3>1. CASE b <= t
      BY <1>3, <2>5, <3>1
    <3>2. CASE b > t
      <4>1. PICK after : after = {c \in avail : c > t}
        OBVIOUS
      <4>2. b \in after /\ after \subseteq Nat
        BY <1>2, <3>2, <4>1
      <4>3. PICK n \in after : \A c \in after : n <= c
        BY <4>2, LeastIs
      <4>4. n \in avail /\ n > t /\ n <= b /\ \A c \in avail : c < n => c <= t
        BY <1>3, <2>5, <4>1, <4>2, <4>3
      <4>5. n \notin taken
        <5> HIDE DEF taken
        <5>1. n \in Nat /\ t \in Nat /\ ~(n <= t)
          BY <1>3, <2>5, <4>4
        <5> QED  BY <2>4, <5>1
      <4>6. ~Nearest(n)
        <5>1. \A c \in avail : c <= n => c = n \/ c <= t
          BY <1>3, <4>4
        <5> QED  BY <2>5, <4>4, <4>5, <5>1
      <4>7. PICK c \in avail : c < n /\ ~(Abs(p - n) <= Abs(p - c))
        BY <4>6
      <4>8. c <= t /\ Abs(p - t) <= Abs(p - c)
        BY <1>3, <2>5, <4>4, <4>7
      <4>9. Abs(p - t) < Abs(p - n)
        BY <1>3, <2>5, <4>4, <4>7, <4>8
      <4> QED  BY <1>2, <1>3, <2>5, <4>4, <4>9
    <3> QED  BY <1>3, <2>5, <3>1, <3>2
  <2> HIDE DEF taken
  <2> QED  BY <1>1, <1>4, <1>6, <2>2, <2>3, <2>5, <2>6
<1> QED  BY <1>1, <1>5, <1>6

(* The search to both sides finds the nearest free block.                  *)
LEMMA BothWaysIs ==
    ASSUME NEW g \in Group, NEW A, NEW p \in BlockStarts(g)
    PROVE  /\ FreeBlocks(g, A) = {} => BothWays(g, A, p) = -1
           /\ FreeBlocks(g, A) # {} =>
                 /\ BothWays(g, A, p) \in FreeBlocks(g, A)
                 /\ \A b \in FreeBlocks(g, A) : Abs(p - BothWays(g, A, p)) <= Abs(p - b)
<1>1. PICK avail, limit, back, forw :
         /\ avail = FreeBlocks(g, A) /\ limit = cg_ndblk[g]
         /\ back = {b \in avail : b <= p} /\ forw = {b \in avail : b > p}
  OBVIOUS
<1>2. /\ limit \in Nat /\ limit > 0 /\ avail \subseteq 0..(limit - 1) /\ avail \subseteq Nat
      /\ p \in Nat /\ p < limit
  BY <1>1, DataIs, FreeBlocksFinite, StartIs
<1>3. \A b \in avail : b \in Nat /\ Abs(p - b) = (IF b <= p THEN p - b ELSE b - p)
  BY <1>2 DEF Abs
<1>4. \A b \in avail : b \in back \/ b \in forw
  BY <1>1, <1>2, <1>3
<1>5. PICK x, y : x = Most(back) /\ y = Least(forw)
  OBVIOUS
<1>6. BothWays(g, A, p) = (CASE back = {} /\ forw = {} -> -1
                             [] back = {} /\ forw # {} -> y
                             [] back # {} /\ forw = {} -> x
                             [] OTHER -> IF y - p < p - x THEN y ELSE x)
  BY <1>1, <1>5 DEF BothWays
<1>7. back # {} => x \in avail /\ x <= p /\ \A b \in back : b <= x
  <2>1. back \subseteq 0..(limit - 1) /\ limit - 1 \in Nat
    BY <1>1, <1>2
  <2>2. back # {} => x \in back /\ \A b \in back : b <= x
    BY <1>5, <2>1, MostIs
  <2> QED  BY <1>1, <2>2
<1>8. forw # {} => y \in avail /\ y > p /\ \A b \in forw : y <= b
  <2>1. forw \subseteq Nat
    BY <1>1, <1>2
  <2>2. forw # {} => y \in forw /\ \A b \in forw : y <= b
    BY <1>5, <2>1, LeastIs
  <2> QED  BY <1>1, <2>2
<1>9. \A b \in back : b \in avail /\ b <= p
  BY <1>1
<1>10. \A b \in forw : b \in avail /\ b > p
  BY <1>1
<1>11. CASE back = {} /\ forw = {}
  BY <1>1, <1>4, <1>6, <1>11
<1>12. CASE back = {} /\ forw # {}
  <2>1. BothWays(g, A, p) = y
    BY <1>6, <1>12
  <2> QED  BY <1>1, <1>2, <1>3, <1>4, <1>8, <1>10, <1>12, <2>1
<1>13. CASE back # {} /\ forw = {}
  <2>1. BothWays(g, A, p) = x
    BY <1>6, <1>13
  <2> QED  BY <1>1, <1>2, <1>3, <1>4, <1>7, <1>9, <1>13, <2>1
<1>14. CASE back # {} /\ forw # {}
  <2>1. BothWays(g, A, p) = (IF y - p < p - x THEN y ELSE x)
    BY <1>6, <1>14
  <2> QED  BY <1>1, <1>2, <1>3, <1>4, <1>7, <1>8, <1>9, <1>10, <1>14, <2>1
<1> QED  BY <1>11, <1>12, <1>13, <1>14

(* So does block_free_find(), whatever the number of frags in a block.     *)
LEMMA FindIs ==
    ASSUME NEW g \in Group, NEW A, NEW p \in BlockStarts(g)
    PROVE  /\ FreeBlocks(g, A) = {} => block_free_find(g, A, p) = -1
           /\ FreeBlocks(g, A) # {} =>
                 /\ block_free_find(g, A, p) \in FreeBlocks(g, A)
                 /\ block_free_find(g, A, p) # -1
                 /\ \A b \in FreeBlocks(g, A) : Abs(p - block_free_find(g, A, p)) <= Abs(p - b)
           /\ p \in FreeBlocks(g, A) => block_free_find(g, A, p) = p
<1>1. p \in Nat /\ p < cg_ndblk[g] /\ blknum(p) = p /\ cg_ndblk[g] \in Nat
  BY StartIs, DataIs
<1>2. Preferred(g, p) = p
  BY <1>1 DEF Preferred
<1>3. PICK got : got = block_free_find(g, A, p)
  OBVIOUS
<1>4. got = Scan(g, A, p) \/ got = BothWays(g, A, p)
  BY <1>2, <1>3 DEF block_free_find
<1>5. /\ FreeBlocks(g, A) = {} => got = -1
      /\ FreeBlocks(g, A) # {} =>
            /\ got \in FreeBlocks(g, A)
            /\ \A b \in FreeBlocks(g, A) : Abs(p - got) <= Abs(p - b)
  BY <1>4, ScanIs, BothWaysIs
<1>6. FreeBlocks(g, A) \subseteq Nat
  BY <1>1, FreeBlocksFinite
<1>7. FreeBlocks(g, A) # {} => got # -1
  BY <1>5, <1>6
<1>8. p \in FreeBlocks(g, A) => got = p
  <2> SUFFICES ASSUME p \in FreeBlocks(g, A) PROVE got = p
    OBVIOUS
  <2>1. got \in Nat /\ Abs(p - got) <= Abs(p - p)
    BY <1>5, <1>6
  <2> QED  BY <1>1, <2>1 DEF Abs
<1> QED  BY <1>3, <1>5, <1>7, <1>8

-----------------------------------------------------------------------------
(* A block is taken, or given back.                                        *)
LEMMA SameAgain ==
    ASSUME NEW u, NEW v, NEW w, NEW g
    PROVE  /\ SameRuns(u, v, g) /\ SameRuns(v, w, g) => SameRuns(u, w, g)
           /\ SameClusters(u, v, g) /\ SameClusters(v, w, g) => SameClusters(u, w, g)
  BY DEF SameRuns, SameClusters

(* Accounts() where nothing else touches the clusters.                     *)
LEMMA AccountsAgain ==
    ASSUME NEW u, NEW v, NEW w, NEW g, NEW k, NEW a
    PROVE  /\ SameClusters(u, v, g) /\ Accounts(v, w, g, k, a) => Accounts(u, w, g, k, a)
           /\ Accounts(u, v, g, k, a) /\ SameClusters(v, w, g) => Accounts(u, w, g, k, a)
<1>1. ASSUME SameClusters(u, v, g), Accounts(v, w, g, k, a) PROVE Accounts(u, w, g, k, a)
  <2>1. v.cg[g].clusters = u.cg[g].clusters /\ v.cg[g].clustersum = u.cg[g].clustersum
    BY <1>1 DEF SameClusters
  <2> QED  BY <1>1, <2>1 DEF Accounts
<1>2. ASSUME Accounts(u, v, g, k, a), SameClusters(v, w, g) PROVE Accounts(u, w, g, k, a)
  <2>1. w.cg[g].clusters = v.cg[g].clusters /\ w.cg[g].clustersum = v.cg[g].clustersum
    BY <1>2 DEF SameClusters
  <2> QED  BY <1>2, <2>1 DEF Accounts
<1> QED  BY <1>1, <1>2

(* What TakeBlock (a = -1) and block_deallocate (a = 1) have in common.    *)
LEMMA BlockMoves ==
    ASSUME NEW u, Shape(u), NEW g \in Group, NEW b \in Nat, NEW a \in {1, -1}, NEW B \in SUBSET Nat,
           NEW w, w = ffs_clusteracct(adjust_blks_free(WithFree(u, g, B), g, a), g, b, a)
    PROVE  /\ Differs(u, w, g, B, a, 0) /\ SameRuns(u, w, g)
           /\ contigsumsize = 0 => SameClusters(u, w, g)
           /\ contigsumsize # 0 => Accounts(u, w, g, b \div FRAGS_PER_BLK, a)
<1>1. PICK v1, v2 : /\ v1 = WithFree(u, g, B) /\ v2 = adjust_blks_free(v1, g, a)
                    /\ w = ffs_clusteracct(v2, g, b, a)
  OBVIOUS
<1>a. a \in Int /\ 0 + a = a /\ a + 0 = a /\ 0 + 0 = 0 /\ 0 \in Int
  OBVIOUS
<1>2. Differs(u, v1, g, B, 0, 0) /\ SameRuns(u, v1, g) /\ SameClusters(u, v1, g)
  BY <1>1, SetFree
<1>3. Shape(v1) /\ v1.cg[g].free = B
  BY <1>2 DEF Differs
<1>4. Differs(v1, v2, g, B, a, 0) /\ SameRuns(v1, v2, g) /\ SameClusters(v1, v2, g)
  BY <1>1, <1>3, <1>a, AdjustBlocks
<1>5. Shape(v2) /\ v2.cg[g].free = B
  BY <1>4 DEF Differs
<1>6. /\ Differs(v2, w, g, B, 0, 0) /\ SameRuns(v2, w, g)
      /\ contigsumsize = 0 => SameClusters(v2, w, g)
      /\ contigsumsize # 0 => Accounts(v2, w, g, b \div FRAGS_PER_BLK, a)
  BY <1>1, <1>5, AdjustClusters
<1>7. Differs(u, v2, g, B, 0 + a, 0 + 0)
  BY <1>2, <1>4, <1>a, DiffersAgain
<1>8. Differs(u, v2, g, B, a, 0)
  BY <1>7, <1>a
<1>9. Differs(u, w, g, B, a + 0, 0 + 0)
  BY <1>6, <1>8, <1>a, DiffersAgain
<1>10. Differs(u, w, g, B, a, 0)
  BY <1>9, <1>a
<1>11. SameRuns(u, w, g) /\ SameClusters(u, v2, g)
  BY <1>2, <1>4, <1>6, SameAgain
<1> QED  BY <1>6, <1>10, <1>11, SameAgain, AccountsAgain

(* What TakeBlock() changes.                                               *)
LEMMA TakeIs ==
    ASSUME NEW u, Shape(u), NEW g \in Group, NEW b \in Nat, NEW w, w = TakeBlock(u, g, b).m
    PROVE  /\ Differs(u, w, g, u.cg[g].free \ BlockAt(b), -1, 0) /\ SameRuns(u, w, g)
           /\ contigsumsize = 0 => SameClusters(u, w, g)
           /\ contigsumsize # 0 => Accounts(u, w, g, b \div FRAGS_PER_BLK, -1)
<1>1. PICK B : B = u.cg[g].free \ BlockAt(b)
  OBVIOUS
<1>2. u.cg[g].free \in SUBSET Nat
  BY ShapeIs, CgIs
<1>3. B \in SUBSET Nat /\ -1 \in {1, -1}
  BY <1>1, <1>2
<1>4. w = ffs_clusteracct(adjust_blks_free(WithFree(u, g, B), g, -1), g, b, -1)
  BY <1>1 DEF TakeBlock, WithFree
<1> QED  BY <1>1, <1>3, <1>4, BlockMoves

(* What block_deallocate() changes.                                        *)
LEMMA GiveIs ==
    ASSUME NEW u, Shape(u), NEW d, NEW w, w = block_deallocate(u, d),
           dtog(d) \in Group, dtogd(d) \in Nat
    PROVE  LET g == dtog(d)
               b == dtogd(d)
           IN  /\ Differs(u, w, g, u.cg[g].free \cup BlockAt(b), 1, 0) /\ SameRuns(u, w, g)
               /\ contigsumsize = 0 => SameClusters(u, w, g)
               /\ contigsumsize # 0 => Accounts(u, w, g, b \div FRAGS_PER_BLK, 1)
<1>1. PICK g, b, B : /\ g \in Group /\ b \in Nat /\ g = dtog(d) /\ b = dtogd(d)
                     /\ B = u.cg[g].free \cup BlockAt(b)
  OBVIOUS
<1>2. u.cg[g].free \in SUBSET Nat
  BY <1>1, ShapeIs, CgIs
<1>3. B \in SUBSET Nat /\ 1 \in {1, -1}
  <2>1. b + FRAGS_PER_BLK - 1 \in Int
    BY <1>1, Geometry
  <2>2. BlockAt(b) \subseteq Nat
    BY <1>1, <2>1 DEF BlockAt, FragsOf
  <2> QED  BY <1>1, <1>2, <2>2
<1>4. w = ffs_clusteracct(adjust_blks_free(WithFree(u, g, B), g, 1), g, b, 1)
  BY <1>1 DEF block_deallocate, WithFree
<1>5. /\ Differs(u, w, g, B, 1, 0) /\ SameRuns(u, w, g)
      /\ contigsumsize = 0 => SameClusters(u, w, g)
      /\ contigsumsize # 0 => Accounts(u, w, g, b \div FRAGS_PER_BLK, 1)
  BY <1>1, <1>3, <1>4, BlockMoves
<1> QED  BY <1>1, <1>5

(* The counts stay right when a free block is taken.                       *)
LEMMA ExactTaken ==
    ASSUME NEW u, Exact(u), NEW g \in Group, NEW b \in FreeBlocks(g, u.cg[g].free)
    PROVE  Exact(TakeBlock(u, g, b).m)
<1>1. PICK w, A, B, F : /\ w = TakeBlock(u, g, b).m /\ A = u.cg[g].free /\ B = A \ BlockAt(b)
                        /\ F = FRAGS_PER_BLK
  OBVIOUS
<1>2. Shape(u) /\ GroupRight(u.cg[g], g)
  BY DEF Exact
<1>3. A \subseteq DataOf(g) /\ B \subseteq DataOf(g) /\ Bits(g, A)
  BY <1>1, <1>2, DataBits DEF GroupRight
<1>4. b \in FreeBlocks(g, A) /\ b \in Nat /\ F \in Nat /\ F > 0
  BY <1>1, StartIs, Geometry DEF FreeBlocks
<1>5. Parts(g, A, B, b, b, b, b + F, b + F)
  BY <1>1, <1>3, <1>4, PartsBlock
<1>6. /\ Differs(u, w, g, B, -1, 0) /\ SameRuns(u, w, g)
      /\ contigsumsize = 0 => SameClusters(u, w, g)
      /\ contigsumsize # 0 => Accounts(u, w, g, b \div FRAGS_PER_BLK, -1)
  BY <1>1, <1>2, <1>4, TakeIs
<1>7. w.cg[g].free = B
  BY <1>6 DEF Differs
<1>8. (b + F) - b = F /\ b - b = 0 /\ (b + F) - (b + F) = 0
  BY <1>4
<1>9. Cardinality(FreeBlocks(g, B)) = Cardinality(FreeBlocks(g, A)) + (-1)
  <2>1. Cardinality(FreeBlocks(g, B)) = Cardinality(FreeBlocks(g, A)) - (IF (b + F) - b = F THEN 1 ELSE 0)
    BY <1>1, <1>5, BlocksSplit
  <2>2. Cardinality(FreeBlocks(g, A)) \in Nat
    BY FreeBlocksFinite
  <2> QED  BY <1>8, <2>1, <2>2
<1>10. Cardinality(Loose(g, B)) = Cardinality(Loose(g, A)) + 0
  <2>1. Cardinality(Loose(g, B)) =
           Cardinality(Loose(g, A)) + (IF (b + F) - b = F THEN F ELSE 0) - ((b + F) - b)
    BY <1>1, <1>5, LooseSplit
  <2>2. Cardinality(Loose(g, A)) \in Nat
    BY <1>3, LooseIs
  <2> QED  BY <1>4, <1>8, <2>1, <2>2
<1>11. RunsRight(w.cg[g], g)
  <2> SUFFICES ASSUME NEW n \in 1..(FRAGS_PER_BLK - 1)
               PROVE  w.cg[g].frsum[n] = Cardinality(RunsIn(g, B, n))
    BY <1>7 DEF RunsRight
  <2>1. w.cg[g].frsum[n] = Cardinality(RunsIn(g, A, n))
    BY <1>1, <1>2, <1>6 DEF SameRuns, GroupRight, RunsRight
  <2>2. Cardinality(RunsIn(g, B, n)) =
              Cardinality(RunsIn(g, A, n)) - (IF n = (b + F) - b THEN 1 ELSE 0)
              + (IF n = b - b THEN 1 ELSE 0) + (IF n = (b + F) - (b + F) THEN 1 ELSE 0)
    BY <1>5, RunsSplit
  <2>3. Cardinality(RunsIn(g, A, n)) \in Nat
    BY RunsInFinite
  <2>4. n # F /\ n # 0
    BY <1>1, <1>4
  <2> QED  BY <1>8, <2>1, <2>2, <2>3, <2>4
<1>12. ClustersRight(w.cg[g], g)
  <2>1. ClustersRight(u.cg[g], g) /\ u.cg[g].free = A /\ (b + F) - b = FRAGS_PER_BLK
    BY <1>1, <1>2, <1>8 DEF GroupRight
  <2> QED  BY <1>2, <1>5, <1>6, <1>7, <2>1, ClustersTaken
<1>13. Exact(w)
  <2>1. PICK nb, nf : nb = -1 /\ nf = 0
    OBVIOUS
  <2>2. nb \in Int /\ nf \in Int /\ Differs(u, w, g, B, nb, nf)
    BY <1>6, <2>1
  <2>3. Balanced(g, u.cg[g].free, B, nb, nf)
    BY <1>1, <1>3, <1>9, <1>10, <2>1 DEF Balanced
  <2> QED  BY <1>1, <1>11, <1>12, <2>2, <2>3, ExactAfter
<1> QED  BY <1>1, <1>13

-----------------------------------------------------------------------------
(* block_allocate()                                                        *)
LEMMA One == ASSUME NEW x, NEW S, S = {x} PROVE (CHOOSE y \in S : TRUE) = x
  OBVIOUS

(* The group with the most free blocks, by the counts in the superblock.   *)
LEMMA RoomiestIs ==
    ASSUME NEW u, Exact(u)
    PROVE  /\ Roomiest(u) \in Group
           /\ \A k \in Group : u.sb.fs_cs[Roomiest(u)].nbfree >= u.sb.fs_cs[k].nbfree
<1>1. PICK T : T = {u.sb.fs_cs[k].nbfree : k \in Group}
  OBVIOUS
<1>2. 0 \in Group /\ fs_fpg \in Nat
  BY GeometryAssumption DEF Group
<1>3. \A k \in Group : /\ u.sb.fs_cs[k].nbfree \in Nat
                       /\ u.sb.fs_cs[k].nbfree <= fs_fpg
  <2> SUFFICES ASSUME NEW k \in Group
               PROVE  u.sb.fs_cs[k].nbfree \in Nat /\ u.sb.fs_cs[k].nbfree <= fs_fpg
    OBVIOUS
  <2>1. PICK X : X = FreeBlocks(k, u.cg[k].free)
    OBVIOUS
  <2>2. u.sb.fs_cs[k].nbfree = Cardinality(X)
    BY <2>1 DEF Exact, GroupRight
  <2>3. X \subseteq 0..(cg_ndblk[k] - 1) /\ Cardinality(X) \in Nat
    BY <2>1, FreeBlocksFinite
  <2>4. cg_ndblk[k] \in Nat /\ cg_ndblk[k] > 0 /\ cg_ndblk[k] <= fs_fpg
    BY DataIs
  <2>5. PICK Z : Z = 0..(cg_ndblk[k] - 1)
    OBVIOUS
  <2>6. IsFiniteSet(Z) /\ Cardinality(Z) = cg_ndblk[k]
    <3>1. PICK h : h = cg_ndblk[k] - 1
      OBVIOUS
    <3>2. h \in Int /\ 0 \in Int /\ ~(0 > h) /\ h - 0 + 1 = cg_ndblk[k]
      BY <2>4, <3>1
    <3>3. IsFiniteSet(0..h) /\ Cardinality(0..h) = IF 0 > h THEN 0 ELSE h - 0 + 1
      BY <3>2, FS_Interval
    <3> QED  BY <2>5, <3>1, <3>2, <3>3
  <2>7. Cardinality(X) <= Cardinality(Z)
    BY <2>3, <2>5, <2>6, FS_Subset
  <2> QED  BY <1>2, <2>2, <2>3, <2>4, <2>6, <2>7
<1>4. T \subseteq 0..fs_fpg /\ T # {}
  BY <1>1, <1>2, <1>3
<1>5. PICK k \in Group : \A j \in Group : u.sb.fs_cs[k].nbfree >= u.sb.fs_cs[j].nbfree
  <2>1. Most(T) \in T /\ \A y \in T : y <= Most(T)
    BY <1>2, <1>4, MostIs
  <2>2. PICK k \in Group : u.sb.fs_cs[k].nbfree = Most(T)
    BY <1>1, <2>1
  <2>3. \A j \in Group : u.sb.fs_cs[j].nbfree <= u.sb.fs_cs[k].nbfree
    BY <1>1, <2>1, <2>2
  <2> QED  BY <1>3, <2>3
<1>6. PICK S : S = {k1 \in Group : \A j \in Group : u.sb.fs_cs[k1].nbfree >= u.sb.fs_cs[j].nbfree}
  OBVIOUS
<1>7. S \subseteq Nat /\ k \in S
  BY <1>5, <1>6 DEF Group
<1>8. Least(S) \in S
  BY <1>7, LeastIs
<1>9. Roomiest(u) = Least(S)
  BY <1>6 DEF Roomiest
<1> QED  BY <1>6, <1>8, <1>9

(* A free block near which a block is wanted is the one that is found.     *)
LEMMA AllocateHere ==
    ASSUME NEW u, NEW g \in Group, NEW b \in FreeBlocks(g, u.cg[g].free),
           u.sb.fs_cstotal.nbfree # 0
    PROVE  block_allocate(u, cgbase(g) + b) = TakeBlock(u, g, b)
<1>1. b \in BlockStarts(g) /\ b \in Nat /\ b < cg_ndblk[g]
  BY StartIs DEF FreeBlocks
<1>2. b < fs_fpg
  BY <1>1, DataIs
<1>3. dtog(cgbase(g) + b) = g /\ dtogd(cgbase(g) + b) = b
  BY <1>1, <1>2, InGroup
<1>4. block_free_find(g, u.cg[g].free, b) = b /\ b # -1
  BY <1>1, FindIs
<1> DEFINE h == Roomiest(u)
           There(f) == IF u.sb.fs_cs[h].nbfree = 0 \/ f = -1
                       THEN [got |-> 0, m |-> ReadOnly(u)]
                       ELSE TakeBlock(u, h, f)
           Here(f)  == IF f # -1 THEN TakeBlock(u, g, f)
                       ELSE With(block_free_find(h, u.cg[h].free, 0), There)
<1>5. block_allocate(u, cgbase(g) + b) = (CHOOSE y \in {Here(z) : z \in {b}} : TRUE)
  BY <1>3, <1>4 DEF block_allocate, With
<1>6. Here(b) = TakeBlock(u, g, b)
  BY <1>4
<1> HIDE DEF Here
<1>7. {Here(z) : z \in {b}} = {Here(b)}
  OBVIOUS
<1>8. (CHOOSE y \in {Here(z) : z \in {b}} : TRUE) = Here(b)
  BY <1>7, One
<1> QED  BY <1>5, <1>6, <1>8

(* What block_allocate() gives out on exact maps.                          *)
LEMMA AllocateIs ==
    ASSUME NEW u, Exact(u), NEW g \in Group, NEW b \in BlockStarts(g)
    PROVE  LET res == block_allocate(u, cgbase(g) + b)
           IN  \/ /\ \A h \in Group : FreeBlocks(h, u.cg[h].free) = {}
                  /\ res = [got |-> 0, m |-> u]
               \/ \E h \in Group : \E c \in FreeBlocks(h, u.cg[h].free) : res = TakeBlock(u, h, c)
<1>1. b \in Nat /\ b < cg_ndblk[g]
  BY StartIs
<1>2. b < fs_fpg
  BY <1>1, DataIs
<1>3. dtog(cgbase(g) + b) = g /\ dtogd(cgbase(g) + b) = b
  BY <1>1, <1>2, InGroup
<1>4. u.sb.fs_cstotal.nbfree = 0 <=> \A h \in Group : FreeBlocks(h, u.cg[h].free) = {}
  <2>1. PICK P : P = AllFreeBlocks(u)
    OBVIOUS
  <2>2. \A h \in Group : P[h] = FreeBlocks(h, u.cg[h].free)
    BY <2>1 DEF AllFreeBlocks
  <2>3. \A h \in Group : Bits(h, u.cg[h].free)
    BY DataBits DEF Exact, GroupRight
  <2>4. \A h \in Group : P[h] \subseteq 0..fs_fpg
    BY <2>2, <2>3, PartsSmall
  <2>5. Total(P) = 0 <=> \A h \in Group : P[h] = {}
    BY <2>4, TotalFinite
  <2>6. u.sb.fs_cstotal.nbfree = Total(P)
    BY <2>1 DEF Exact
  <2> QED  BY <2>2, <2>5, <2>6
<1>5. CASE u.sb.fs_cstotal.nbfree = 0
  <2>1. block_allocate(u, cgbase(g) + b) = [got |-> 0, m |-> u]
    BY <1>5 DEF block_allocate
  <2> QED  BY <1>4, <1>5, <2>1
<1>6. CASE u.sb.fs_cstotal.nbfree # 0
  <2> DEFINE h == Roomiest(u)
             There(f) == IF u.sb.fs_cs[h].nbfree = 0 \/ f = -1
                         THEN [got |-> 0, m |-> ReadOnly(u)]
                         ELSE TakeBlock(u, h, f)
             Here(f)  == IF f # -1 THEN TakeBlock(u, g, f)
                         ELSE With(block_free_find(h, u.cg[h].free, 0), There)
             near     == block_free_find(g, u.cg[g].free, b)
             far      == block_free_find(h, u.cg[h].free, 0)
  <2>1. block_allocate(u, cgbase(g) + b) = Here(near)
    <3>1. block_allocate(u, cgbase(g) + b) = (CHOOSE y \in {Here(z) : z \in {near}} : TRUE)
      BY <1>3, <1>6 DEF block_allocate, With
    <3> HIDE DEF Here, near
    <3>2. {Here(z) : z \in {near}} = {Here(near)}
      OBVIOUS
    <3> QED  BY <3>1, <3>2, One
  <2>2. CASE FreeBlocks(g, u.cg[g].free) # {}
    <3>1. near \in FreeBlocks(g, u.cg[g].free) /\ near # -1
      BY <2>2, FindIs
    <3>2. Here(near) = TakeBlock(u, g, near)
      BY <3>1
    <3> QED  BY <2>1, <3>1, <3>2
  <2>3. CASE FreeBlocks(g, u.cg[g].free) = {}
    <3>1. near = -1
      BY <2>3, FindIs
    <3>2. Here(near) = There(far)
      <4>1. Here(near) = (CHOOSE y \in {There(z) : z \in {far}} : TRUE)
        BY <3>1 DEF With
      <4> HIDE DEF There, far
      <4>2. {There(z) : z \in {far}} = {There(far)}
        OBVIOUS
      <4> QED  BY <4>1, <4>2, One
    <3>3. h \in Group /\ \A k \in Group : u.sb.fs_cs[h].nbfree >= u.sb.fs_cs[k].nbfree
      BY RoomiestIs
    <3>4. \A k \in Group : /\ u.sb.fs_cs[k].nbfree = Cardinality(FreeBlocks(k, u.cg[k].free))
                           /\ IsFiniteSet(FreeBlocks(k, u.cg[k].free))
                           /\ Cardinality(FreeBlocks(k, u.cg[k].free)) \in Nat
      BY FreeBlocksFinite DEF Exact, GroupRight
    <3>5. PICK k \in Group : FreeBlocks(k, u.cg[k].free) # {}
      BY <1>4, <1>6
    <3>6. u.sb.fs_cs[k].nbfree # 0
      BY <3>4, <3>5, FS_EmptySet
    <3> HIDE DEF h
    <3>7. u.sb.fs_cs[h].nbfree # 0
      BY <3>3, <3>4, <3>6
    <3>8. FreeBlocks(h, u.cg[h].free) # {}
      BY <3>3, <3>4, <3>7, FS_EmptySet
    <3>9. 0 \in BlockStarts(h)
      <4>1. cg_ndblk[h] \in Nat /\ cg_ndblk[h] > 0
        BY <3>3, DataIs
      <4>2. 0 % FRAGS_PER_BLK = 0
        <5>1. FRAGS_PER_BLK \in Nat /\ FRAGS_PER_BLK > 0 /\ FRAGS_PER_BLK * 0 + 0 = 0
          BY Geometry
        <5> QED  BY <5>1, DivMod
      <4> QED  BY <4>1, <4>2 DEF BlockStarts
    <3>10. far \in FreeBlocks(h, u.cg[h].free) /\ far # -1
      BY <3>3, <3>8, <3>9, FindIs
    <3>11. There(far) = TakeBlock(u, h, far)
      BY <3>7, <3>10
    <3> HIDE DEF near, far, Here, There
    <3> QED  BY <2>1, <3>2, <3>3, <3>10, <3>11
  <2> HIDE DEF near, Here, There, h, far
  <2> QED  BY <2>2, <2>3
<1> QED  BY <1>5, <1>6

(* The counts stay right when a block is given back.                       *)
LEMMA ExactGiven ==
    ASSUME NEW u, Exact(u), NEW d, dtog(d) \in Group, dtogd(d) \in Nat, dtogd(d) % FRAGS_PER_BLK = 0,
           BlockAt(dtogd(d)) \subseteq DataOf(dtog(d)),
           BlockAt(dtogd(d)) \cap u.cg[dtog(d)].free = {}
    PROVE  Exact(block_deallocate(u, d))
<1>1. PICK g \in Group, b \in Nat : g = dtog(d) /\ b = dtogd(d)
  OBVIOUS
<1>2. PICK w, A, B, F : /\ w = block_deallocate(u, d) /\ B = u.cg[g].free /\ A = B \cup BlockAt(b)
                        /\ F = FRAGS_PER_BLK
  OBVIOUS
<1>3. Shape(u) /\ GroupRight(u.cg[g], g)
  BY DEF Exact
<1>4. A \subseteq DataOf(g) /\ Bits(g, A) /\ Bits(g, B) /\ A \ BlockAt(b) = B
  <2>1. A \subseteq DataOf(g) /\ B \subseteq DataOf(g)
    BY <1>1, <1>2, <1>3 DEF GroupRight
  <2>2. A \ BlockAt(b) = B
    BY <1>1, <1>2
  <2> QED  BY <2>1, <2>2, DataBits
<1>5. F \in Nat /\ F > 0 /\ b \in BlockAt(b)
  BY <1>2, Geometry DEF BlockAt, FragsOf
<1>6. b \in FreeBlocks(g, A)
  <2>1. b \in 0..(cg_ndblk[g] - 1)
    BY <1>1, <1>5, DataIs
  <2> QED  BY <1>1, <1>2, <2>1 DEF FreeBlocks, BlockStarts, block_avail
<1>7. Parts(g, A, B, b, b, b, b + F, b + F)
  <2>1. Parts(g, A, A \ BlockAt(b), b, b, b, b + F, b + F)
    BY <1>2, <1>4, <1>6, PartsBlock
  <2> QED  BY <1>4, <2>1
<1>8. /\ Differs(u, w, g, A, 1, 0) /\ SameRuns(u, w, g)
      /\ contigsumsize = 0 => SameClusters(u, w, g)
      /\ contigsumsize # 0 => Accounts(u, w, g, b \div FRAGS_PER_BLK, 1)
  BY <1>1, <1>2, <1>3, GiveIs
<1>9. w.cg[g].free = A
  BY <1>8 DEF Differs
<1>10. (b + F) - b = F /\ b - b = 0 /\ (b + F) - (b + F) = 0
  BY <1>5
<1>11. Cardinality(FreeBlocks(g, A)) = Cardinality(FreeBlocks(g, B)) + 1
  <2>1. Cardinality(FreeBlocks(g, B)) = Cardinality(FreeBlocks(g, A)) - (IF (b + F) - b = F THEN 1 ELSE 0)
    BY <1>2, <1>7, BlocksSplit
  <2>2. Cardinality(FreeBlocks(g, A)) \in Nat
    BY FreeBlocksFinite
  <2> QED  BY <1>10, <2>1, <2>2
<1>12. Cardinality(Loose(g, A)) = Cardinality(Loose(g, B)) + 0
  <2>1. Cardinality(Loose(g, B)) =
           Cardinality(Loose(g, A)) + (IF (b + F) - b = F THEN F ELSE 0) - ((b + F) - b)
    BY <1>2, <1>7, LooseSplit
  <2>2. Cardinality(Loose(g, A)) \in Nat
    BY <1>4, LooseIs
  <2> QED  BY <1>5, <1>10, <2>1, <2>2
<1>13. RunsRight(w.cg[g], g)
  <2> SUFFICES ASSUME NEW n \in 1..(FRAGS_PER_BLK - 1)
               PROVE  w.cg[g].frsum[n] = Cardinality(RunsIn(g, A, n))
    BY <1>9 DEF RunsRight
  <2>1. w.cg[g].frsum[n] = Cardinality(RunsIn(g, B, n))
    BY <1>2, <1>3, <1>8 DEF SameRuns, GroupRight, RunsRight
  <2>2. Cardinality(RunsIn(g, B, n)) =
              Cardinality(RunsIn(g, A, n)) - (IF n = (b + F) - b THEN 1 ELSE 0)
              + (IF n = b - b THEN 1 ELSE 0) + (IF n = (b + F) - (b + F) THEN 1 ELSE 0)
    BY <1>7, RunsSplit
  <2>3. Cardinality(RunsIn(g, A, n)) \in Nat
    BY RunsInFinite
  <2>4. n # F /\ n # 0
    BY <1>2, <1>5
  <2> QED  BY <1>10, <2>1, <2>2, <2>3, <2>4
<1>14. ClustersRight(w.cg[g], g)
  <2>1. ClustersRight(u.cg[g], g) /\ u.cg[g].free = B /\ (b + F) - b = FRAGS_PER_BLK
    BY <1>2, <1>3, <1>10 DEF GroupRight
  <2> QED  BY <1>3, <1>7, <1>8, <1>9, <2>1, ClustersGiven
<1>15. Exact(w)
  <2>1. PICK nb, nf : nb = 1 /\ nf = 0
    OBVIOUS
  <2>2. nb \in Int /\ nf \in Int /\ Differs(u, w, g, A, nb, nf)
    BY <1>8, <2>1
  <2>3. Balanced(g, u.cg[g].free, A, nb, nf)
    BY <1>2, <1>4, <1>11, <1>12, <2>1 DEF Balanced
  <2> QED  BY <1>2, <1>13, <1>14, <2>2, <2>3, ExactAfter
<1> QED  BY <1>2, <1>15

-----------------------------------------------------------------------------
(* Frags.                                                                  *)

(* What is counted of the runs of low and of high frags, changes by a.     *)
RunsMoved(u, w, g, low, high, a) ==
    \A n \in 1..(FRAGS_PER_BLK - 1) :
       w.cg[g].frsum[n] = u.cg[g].frsum[n] + (IF n = low THEN a ELSE 0)
                          + (IF n = high THEN a ELSE 0)

(* Both neighbours are counted, or no longer counted, as runs.             *)
LEMMA TwoRuns ==
    ASSUME NEW u, Shape(u), NEW g \in Group,
           NEW low \in 0..(FRAGS_PER_BLK - 1), NEW high \in 0..(FRAGS_PER_BLK - 1), NEW a \in Int,
           NEW w, w = adjust_frsum(adjust_frsum(u, g, low, a), g, high, a)
    PROVE  /\ Differs(u, w, g, u.cg[g].free, 0, 0) /\ SameClusters(u, w, g)
           /\ RunsMoved(u, w, g, low, high, a)
<1>1. PICK v : v = adjust_frsum(u, g, low, a) /\ w = adjust_frsum(v, g, high, a)
  OBVIOUS
<1>2. /\ Differs(u, v, g, u.cg[g].free, 0, 0) /\ SameClusters(u, v, g)
      /\ RunMoved(u, v, g, low, a)
  BY <1>1, AdjustRuns
<1>3. Shape(v) /\ v.cg[g].free = u.cg[g].free
  BY <1>2 DEF Differs
<1>4. /\ Differs(v, w, g, v.cg[g].free, 0, 0) /\ SameClusters(v, w, g)
      /\ RunMoved(v, w, g, high, a)
  BY <1>1, <1>3, AdjustRuns
<1>5. 0 \in Int /\ 0 + 0 = 0
  OBVIOUS
<1>6. Differs(u, w, g, u.cg[g].free, 0 + 0, 0 + 0)
  BY <1>2, <1>3, <1>4, <1>5, DiffersAgain
<1>7. Differs(u, w, g, u.cg[g].free, 0, 0)
  BY <1>5, <1>6
<1>8. SameClusters(u, w, g)
  BY <1>2, <1>4, SameAgain
<1>9. RunsMoved(u, w, g, low, high, a)
  BY <1>2, <1>4 DEF RunsMoved, RunMoved
<1> QED  BY <1>7, <1>8, <1>9

(* Where frag f of a group is.                                             *)
LEMMA FragAt ==
    ASSUME NEW g \in Group, NEW f \in DataOf(g)
    PROVE  /\ f \in Nat /\ f < fs_fpg
           /\ dtog(cgbase(g) + f) = g /\ dtogd(cgbase(g) + f) = f
<1>1. f \in Nat /\ f < fs_fpg
  BY DataIs
<1> QED  BY <1>1, InGroup

(* The counts of the bitmap before, A, and after, B, n frags are taken that *)
(* have low free ones below them and high above, and were in a run of t.   *)
Counted(g, A, B, n, low, high, t) ==
    /\ low \in 0..(FRAGS_PER_BLK - 1) /\ high \in 0..(FRAGS_PER_BLK - 1)
    /\ t \in 1..FRAGS_PER_BLK /\ n \in Int
    /\ Cardinality(FreeBlocks(g, A)) \in Nat /\ Cardinality(FreeBlocks(g, B)) \in Nat
    /\ Cardinality(Loose(g, A)) \in Nat /\ Cardinality(Loose(g, B)) \in Nat
    /\ Cardinality(FreeBlocks(g, B)) =
          Cardinality(FreeBlocks(g, A)) - (IF t = FRAGS_PER_BLK THEN 1 ELSE 0)
    /\ Cardinality(Loose(g, B)) =
          Cardinality(Loose(g, A)) + (IF t = FRAGS_PER_BLK THEN FRAGS_PER_BLK ELSE 0) - n
    /\ \A k \in 1..(FRAGS_PER_BLK - 1) :
          /\ Cardinality(RunsIn(g, A, k)) \in Nat /\ Cardinality(RunsIn(g, B, k)) \in Nat
          /\ Cardinality(RunsIn(g, B, k)) =
                Cardinality(RunsIn(g, A, k)) - (IF k = t THEN 1 ELSE 0)
                + (IF k = low THEN 1 ELSE 0) + (IF k = high THEN 1 ELSE 0)

(* A change of part of a block changes the counts so.                      *)
LEMMA FragCounts ==
    ASSUME NEW g \in Group, NEW A, NEW B, NEW b, NEW p, NEW f, NEW e, NEW r,
           Parts(g, A, B, b, p, f, e, r), e - f # FRAGS_PER_BLK
    PROVE  Counted(g, A, B, e - f, f - p, r - e, r - p)
<1>1. /\ FRAGS_PER_BLK \in Nat /\ FRAGS_PER_BLK > 0 /\ b \in Nat /\ p \in Nat /\ f \in Nat
      /\ e \in Nat /\ r \in Nat /\ Bits(g, A) /\ Bits(g, B)
  BY PartsIs
<1>2. b <= p /\ p <= f /\ f < e /\ e <= r /\ r <= b + FRAGS_PER_BLK
  BY DEF Parts, Splits
<1>3. /\ e - f \in Int /\ r - p \in 1..FRAGS_PER_BLK
      /\ f - p \in 0..(FRAGS_PER_BLK - 1) /\ r - e \in 0..(FRAGS_PER_BLK - 1)
  BY <1>1, <1>2
<1>4. Cardinality(FreeBlocks(g, B)) =
         Cardinality(FreeBlocks(g, A)) - (IF r - p = FRAGS_PER_BLK THEN 1 ELSE 0)
  BY BlocksSplit
<1>5. Cardinality(FreeBlocks(g, A)) \in Nat /\ Cardinality(FreeBlocks(g, B)) \in Nat
  BY FreeBlocksFinite
<1>6. Cardinality(Loose(g, B)) =
         Cardinality(Loose(g, A)) + (IF r - p = FRAGS_PER_BLK THEN FRAGS_PER_BLK ELSE 0) - (e - f)
  BY LooseSplit
<1>7. Cardinality(Loose(g, A)) \in Nat /\ Cardinality(Loose(g, B)) \in Nat
  BY <1>1, LooseIs
<1>8. \A k \in 1..(FRAGS_PER_BLK - 1) :
         Cardinality(RunsIn(g, A, k)) \in Nat /\ Cardinality(RunsIn(g, B, k)) \in Nat
  BY RunsInFinite
<1>9. \A k \in 1..(FRAGS_PER_BLK - 1) :
         Cardinality(RunsIn(g, B, k)) =
            Cardinality(RunsIn(g, A, k)) - (IF k = r - p THEN 1 ELSE 0)
            + (IF k = f - p THEN 1 ELSE 0) + (IF k = r - e THEN 1 ELSE 0)
  BY RunsSplit
<1> QED  BY <1>3, <1>4, <1>5, <1>6, <1>7, <1>8, <1>9 DEF Counted

(* A without the frags from f to e, and A without a whole block with those *)
(* of the block before f and from e on given back, are the same.           *)
LEMMA RestBack ==
    ASSUME NEW A, A \in SUBSET Nat, NEW b \in Nat, NEW f \in Nat, NEW e \in Nat, NEW r \in Nat,
           b <= f, f <= e, e <= r, \A z \in Nat : b <= z /\ z < r => z \in A
    PROVE  A \ (f..(e - 1)) = (A \ (b..(r - 1))) \cup (b..(f - 1)) \cup (e..(r - 1))
<1>1. \A z : z \in A \ (f..(e - 1)) <=> z \in (A \ (b..(r - 1))) \cup (b..(f - 1)) \cup (e..(r - 1))
  OBVIOUS
<1> QED  BY <1>1

(* n frags from f on are in a block, and all in A.                         *)
Together(A, f, n) == f + n <= blknum(f) + FRAGS_PER_BLK /\ FragsOf(f, n) \subseteq A

(* The variables of frags_allocate() and frags_deallocate() for n frags at  *)
(* address d: a is 1 where the runs beside the frags are added, -1 where   *)
(* they are taken away, which gives the maps m1.                           *)
Locals(u, d, n, a, g, f, b, low, high, m1) ==
    /\ g = dtog(d) /\ f = dtogd(d) /\ b = blknum(f)
    /\ low = FreeBelow(u.cg[g].free, f) /\ high = FreeFrom(u.cg[g].free, f + n, b)
    /\ m1 = adjust_frsum(adjust_frsum(u, g, low, a), g, high, a)

(* What frags_allocate() does with a block that was entirely free.         *)
Refilled(y, g, f, n, low, high) ==
    [failed |-> FALSE,
     m |-> adjust_frags_free(
               [y.m EXCEPT !.cg[g].free =
                   @ \cup FragsOf(f - low, low) \cup FragsOf(f + n, high)],
               g, FRAGS_PER_BLK - n)]

(* What frags_allocate() then returns, when it gets the block it asks for. *)
LEMMA WholeIs ==
    ASSUME NEW u, NEW d, NEW n, NEW g, NEW f, NEW b, NEW low, NEW high, NEW m1, NEW y,
           Locals(u, d, n, 1, g, f, b, low, high, m1), n + low + high = FRAGS_PER_BLK,
           y = block_allocate(m1, cgbase(g) + b), y.got = cgbase(g) + b
    PROVE  frags_allocate(u, d, n) = Refilled(y, g, f, n, low, high)
<1>1. /\ g = dtog(d) /\ f = dtogd(d) /\ b = blknum(f)
      /\ low = FreeBelow(u.cg[g].free, f) /\ high = FreeFrom(u.cg[g].free, f + n, b)
      /\ m1 = adjust_frsum(adjust_frsum(u, g, low, 1), g, high, 1)
  BY Zenon DEF Locals
<1> QED  BY <1>1 DEF frags_allocate, Refilled

(* What frags_allocate() does with a block that was not entirely free.     *)
LEMMA SomeTakenIs ==
    ASSUME NEW u, NEW d, NEW n, NEW g, NEW f, NEW b, NEW low, NEW high, NEW m1, NEW v, NEW x,
           Locals(u, d, n, 1, g, f, b, low, high, m1), n + low + high # FRAGS_PER_BLK,
           v = adjust_frsum(m1, g, n + low + high, -1),
           x = WithFree(v, g, v.cg[g].free \ FragsOf(f, n))
    PROVE  frags_allocate(u, d, n) = [failed |-> FALSE, m |-> adjust_frags_free(x, g, -n)]
<1>1. /\ g = dtog(d) /\ f = dtogd(d) /\ b = blknum(f)
      /\ low = FreeBelow(u.cg[g].free, f) /\ high = FreeFrom(u.cg[g].free, f + n, b)
      /\ m1 = adjust_frsum(adjust_frsum(u, g, low, 1), g, high, 1)
  BY Zenon DEF Locals
<1>2. x = [v EXCEPT !.cg[g].free = v.cg[g].free \ FragsOf(f, n)]
  BY DEF WithFree
<1> QED  BY <1>1, <1>2, ZenonT(60) DEF frags_allocate

(* What frags_deallocate() does with a block that does not become free.    *)
LEMMA SomeGivenIs ==
    ASSUME NEW u, NEW d, NEW n, NEW g, NEW f, NEW b, NEW low, NEW high, NEW m1, NEW v, NEW x,
           Locals(u, d, n, -1, g, f, b, low, high, m1), n + low + high # FRAGS_PER_BLK, n # 0,
           v = adjust_frsum(m1, g, n + low + high, 1),
           x = WithFree(v, g, v.cg[g].free \cup FragsOf(f, n))
    PROVE  frags_deallocate(u, d, n) = adjust_frags_free(x, g, n)
<1>1. /\ g = dtog(d) /\ f = dtogd(d) /\ b = blknum(f)
      /\ low = FreeBelow(u.cg[g].free, f) /\ high = FreeFrom(u.cg[g].free, f + n, b)
      /\ m1 = adjust_frsum(adjust_frsum(u, g, low, -1), g, high, -1)
  BY Zenon DEF Locals
<1>2. x = [v EXCEPT !.cg[g].free = v.cg[g].free \cup FragsOf(f, n)]
  BY DEF WithFree
<1> QED  BY <1>1, <1>2, ZenonT(60) DEF frags_deallocate

(* What frags_deallocate() does with a block that becomes free.            *)
LEMMA WholeGivenIs ==
    ASSUME NEW u, NEW d, NEW n, NEW g, NEW f, NEW b, NEW low, NEW high, NEW m1, NEW v,
           Locals(u, d, n, -1, g, f, b, low, high, m1), n + low + high = FRAGS_PER_BLK, n # 0,
           v = block_deallocate(m1, cgbase(g) + b)
    PROVE  frags_deallocate(u, d, n) = adjust_frags_free(v, g, n - FRAGS_PER_BLK)
<1>1. /\ g = dtog(d) /\ f = dtogd(d) /\ b = blknum(f)
      /\ low = FreeBelow(u.cg[g].free, f) /\ high = FreeFrom(u.cg[g].free, f + n, b)
      /\ m1 = adjust_frsum(adjust_frsum(u, g, low, -1), g, high, -1)
  BY Zenon DEF Locals
<1> QED  BY <1>1 DEF frags_deallocate

(* The counts stay right when free frags are taken, and it never fails.    *)
LEMMA FragsTaken ==
    ASSUME NEW u, Exact(u), NEW g \in Group, NEW f \in Nat, NEW n \in 1..(FRAGS_PER_BLK - 1),
           Together(u.cg[g].free, f, n)
    PROVE  LET res == frags_allocate(u, cgbase(g) + f, n)
           IN  ~res.failed /\ Exact(res.m)
<1>1. PICK d, b, A, S, B, low, high, t :
         /\ d = cgbase(g) + f /\ b = blknum(f) /\ A = u.cg[g].free
         /\ S = FragsOf(f, n) /\ B = A \ S
         /\ low = FreeBelow(A, f) /\ high = FreeFrom(A, f + n, b) /\ t = n + low + high
  OBVIOUS
<1>2. Shape(u) /\ GroupRight(u.cg[g], g) /\ RunsRight(u.cg[g], g) /\ ClustersRight(u.cg[g], g)
  BY DEF Exact, GroupRight
<1>3. A \subseteq DataOf(g) /\ B \subseteq DataOf(g) /\ Bits(g, A)
  BY <1>1, <1>2, DataBits DEF GroupRight
<1>4. n \in Nat /\ n > 0 /\ n # FRAGS_PER_BLK /\ FRAGS_PER_BLK \in Nat /\ FRAGS_PER_BLK > 0
  BY Geometry
<1>4a. n \in Int /\ -n \in Int /\ -1 \in Int /\ 0 \in Int /\ 1 \in Int
  BY <1>4
<1>5. low \in Nat /\ high \in Nat /\ Parts(g, A, B, b, f - low, f, f + n, f + n + high)
  <2>1. f + n <= blknum(f) + FRAGS_PER_BLK /\ FragsOf(f, n) \subseteq A
    BY <1>1 DEF Together
  <2>2. /\ FreeBelow(A, f) \in Nat /\ FreeFrom(A, f + n, blknum(f)) \in Nat
        /\ Parts(g, A, A \ FragsOf(f, n), blknum(f), f - FreeBelow(A, f), f, f + n,
                 f + n + FreeFrom(A, f + n, blknum(f)))
    BY <1>3, <1>4, <2>1, PartsTake
  <2> QED  BY <1>1, <2>2
<1>6. Counted(g, A, B, n, low, high, t) /\ (f + n + high) - (f - low) = t
  <2>1. PICK p, e, r : p = f - low /\ e = f + n /\ r = f + n + high
    OBVIOUS
  <2>2. e - f = n /\ f - p = low /\ r - e = high /\ r - p = t /\ r - p = (f + n + high) - (f - low)
    BY <1>1, <1>4, <1>5, <2>1
  <2>3. Parts(g, A, B, b, p, f, e, r)
    BY <1>5, <2>1
  <2>4. e - f # FRAGS_PER_BLK
    BY <1>4, <2>2
  <2>5. Counted(g, A, B, e - f, f - p, r - e, r - p)
    BY <2>3, <2>4, FragCounts
  <2> QED  BY <2>2, <2>5
<1>6a. /\ low \in 0..(FRAGS_PER_BLK - 1) /\ high \in 0..(FRAGS_PER_BLK - 1) /\ t \in 1..FRAGS_PER_BLK
       /\ Cardinality(FreeBlocks(g, A)) \in Nat /\ Cardinality(Loose(g, A)) \in Nat
       /\ Cardinality(FreeBlocks(g, B)) =
             Cardinality(FreeBlocks(g, A)) - (IF t = FRAGS_PER_BLK THEN 1 ELSE 0)
       /\ Cardinality(Loose(g, B)) =
             Cardinality(Loose(g, A)) + (IF t = FRAGS_PER_BLK THEN FRAGS_PER_BLK ELSE 0) - n
  BY <1>6 DEF Counted
<1>7. dtog(d) = g /\ dtogd(d) = f
  <2>1. f \in S
    BY <1>1, <1>4 DEF FragsOf
  <2>2. S \subseteq A
    BY <1>1 DEF Together
  <2>3. f \in DataOf(g)
    BY <1>3, <2>1, <2>2
  <2> QED  BY <1>1, <2>3, FragAt
<1>8. PICK m1 : m1 = adjust_frsum(adjust_frsum(u, g, low, 1), g, high, 1)
  OBVIOUS
<1>9. /\ Differs(u, m1, g, A, 0, 0) /\ SameClusters(u, m1, g)
      /\ RunsMoved(u, m1, g, low, high, 1)
  <2>1. 1 \in Int
    OBVIOUS
  <2>2. Differs(u, m1, g, u.cg[g].free, 0, 0) /\ SameClusters(u, m1, g)
        /\ RunsMoved(u, m1, g, low, high, 1)
    BY <1>2, <1>6a, <1>8, <2>1, TwoRuns
  <2> QED  BY <1>1, <2>2
<1>10. Shape(m1) /\ m1.cg[g].free = A
  BY <1>9 DEF Differs
<1>11. \A k \in 1..(FRAGS_PER_BLK - 1) : u.cg[g].frsum[k] = Cardinality(RunsIn(g, A, k))
  BY <1>1, <1>2 DEF RunsRight
<1>12. PICK res : res = frags_allocate(u, d, n)
  OBVIOUS
<1>13. CASE t # FRAGS_PER_BLK
  <2>1. PICK v, x, w : /\ v = adjust_frsum(m1, g, t, -1) /\ x = WithFree(v, g, B)
                       /\ w = adjust_frags_free(x, g, -n)
    OBVIOUS
  <2>2. t \in 0..(FRAGS_PER_BLK - 1) /\ -1 \in Int /\ -n \in Int /\ 0 \in Int
    <3>1. t \in 0..(FRAGS_PER_BLK - 1)
      BY <1>4, <1>6a, <1>13
    <3> QED  BY <1>4a, <3>1
  <2>3. /\ Differs(m1, v, g, A, 0, 0) /\ SameClusters(m1, v, g)
        /\ RunMoved(m1, v, g, t, -1)
    BY <1>10, <2>1, <2>2, AdjustRuns
  <2>4. Shape(v) /\ v.cg[g].free = A
    BY <2>3 DEF Differs
  <2>5. B \in SUBSET Nat
    BY <1>3, DataBits
  <2>6. Differs(v, x, g, B, 0, 0) /\ SameRuns(v, x, g) /\ SameClusters(v, x, g)
    BY <2>1, <2>4, <2>5, SetFree
  <2>7. Shape(x) /\ x.cg[g].free = B
    BY <2>6 DEF Differs
  <2>8. Differs(x, w, g, B, 0, -n) /\ SameRuns(x, w, g) /\ SameClusters(x, w, g)
    BY <2>1, <2>2, <2>7, AdjustFrags
  <2>9. Differs(u, w, g, B, 0, -n)
    <3>1. Differs(u, v, g, A, 0 + 0, 0 + 0)
      BY <1>2, <1>9, <2>2, <2>3, DiffersAgain
    <3>2. Differs(u, v, g, A, 0, 0)
      BY <3>1
    <3>3. Differs(u, x, g, B, 0 + 0, 0 + 0)
      BY <1>2, <2>2, <2>6, <3>2, DiffersAgain
    <3>4. Differs(u, x, g, B, 0, 0)
      BY <3>3
    <3>5. Differs(u, w, g, B, 0 + 0, 0 + (-n))
      BY <1>2, <2>2, <2>8, <3>4, DiffersAgain
    <3>6. 0 + 0 = 0 /\ 0 + (-n) = -n
      BY <2>2
    <3> QED  BY <3>5, <3>6
  <2>10. SameRuns(v, w, g) /\ SameClusters(u, w, g)
    BY <1>9, <2>3, <2>6, <2>8, SameAgain
  <2>11. w.cg[g].free = B
    BY <2>9 DEF Differs
  <2>12. RunsRight(w.cg[g], g)
    <3> SUFFICES ASSUME NEW k \in 1..(FRAGS_PER_BLK - 1) PROVE w.cg[g].frsum[k] = Cardinality(RunsIn(g, B, k))
      BY <1>1, <2>11 DEF RunsRight
    <3>1. w.cg[g].frsum[k] = v.cg[g].frsum[k]
      BY <2>10 DEF SameRuns
    <3> QED  BY <1>6, <1>9, <1>11, <2>3, <3>1 DEF Counted, RunsMoved, RunMoved
  <2>13. ClustersRight(w.cg[g], g)
    <3>1. Numbers(g, B) = Numbers(g, A)
      BY <1>1, <1>5, <1>6, <1>13, NumbersSplit
    <3> QED  BY <1>1, <1>2, <2>10, <2>11, <3>1 DEF ClustersRight, SameClusters
  <2>14. /\ Cardinality(FreeBlocks(g, B)) = Cardinality(FreeBlocks(g, A)) + 0
         /\ Cardinality(Loose(g, B)) = Cardinality(Loose(g, A)) + (-n)
    BY <1>4, <1>6a, <1>13
  <2>15. Exact(w)
    <3>1. PICK nb, nf : nb = 0 /\ nf = -n
      OBVIOUS
    <3>2. nb \in Int /\ nf \in Int /\ Differs(u, w, g, B, nb, nf)
      BY <2>9, <2>2, <3>1
    <3>3. Balanced(g, u.cg[g].free, B, nb, nf)
      BY <1>1, <1>3, <2>14, <3>1 DEF Balanced
    <3> QED  BY <2>12, <2>13, <3>2, <3>3, ExactAfter
  <2>16. res = [failed |-> FALSE, m |-> w]
    <3>1. x = WithFree(v, g, v.cg[g].free \ FragsOf(f, n))
      BY <1>1, <2>1, <2>4
    <3>2. n + low + high # FRAGS_PER_BLK
      BY <1>1, <1>13
    <3>3. Locals(u, d, n, 1, g, f, b, low, high, m1)
      BY <1>1, <1>7, <1>8 DEF Locals
    <3>4. v = adjust_frsum(m1, g, n + low + high, -1)
      BY <1>1, <2>1
    <3>5. frags_allocate(u, d, n) = [failed |-> FALSE, m |-> adjust_frags_free(x, g, -n)]
      BY <3>1, <3>2, <3>3, <3>4, SomeTakenIs
    <3> QED  BY <1>12, <2>1, <3>5, ZenonT(60)
  <2> QED  BY <1>1, <1>12, <2>15, <2>16
<1>14. CASE t = FRAGS_PER_BLK
  <2>1. PICK y, v, x, w : /\ y = TakeBlock(m1, g, b) /\ v = y.m
                          /\ x = WithFree(v, g, B) /\ w = adjust_frags_free(x, g, FRAGS_PER_BLK - n)
    OBVIOUS
  <2>2. -1 \in Int /\ FRAGS_PER_BLK - n \in Int /\ 0 \in Int
    BY <1>4
  <2>3. b \in FreeBlocks(g, A) /\ b \in Nat
    <3>1. b \in FreeBlocks(g, A)
      BY <1>1, <1>5, <1>6, <1>6a, <1>14, BlocksSplit
    <3> QED  BY <3>1, StartIs DEF FreeBlocks
  <2>4. m1.sb.fs_cstotal.nbfree # 0
    <3>1. PICK P : P = AllFreeBlocks(u)
      OBVIOUS
    <3>2. \A h \in Group : P[h] = FreeBlocks(h, u.cg[h].free)
      BY <3>1 DEF AllFreeBlocks
    <3>3. \A h \in Group : Bits(h, u.cg[h].free)
      BY DataBits DEF Exact, GroupRight
    <3>4. \A h \in Group : P[h] \subseteq 0..fs_fpg
      BY <3>2, <3>3, PartsSmall
    <3>5. Total(P) \in Nat /\ Total(P) # 0
      <4>1. P[g] # {}
        BY <1>1, <2>3, <3>2
      <4> QED  BY <3>4, <4>1, TotalFinite
    <3>6. u.sb.fs_cstotal.nbfree = Total(P)
      BY <3>1 DEF Exact
    <3>7. m1.sb.fs_cstotal.nbfree = u.sb.fs_cstotal.nbfree + 0
      BY <1>9 DEF Differs
    <3> QED  BY <3>5, <3>6, <3>7
  <2>5. block_allocate(m1, cgbase(g) + b) = y
    BY <1>10, <2>1, <2>3, <2>4, AllocateHere
  <2>6. /\ Differs(m1, v, g, A \ BlockAt(b), -1, 0) /\ SameRuns(m1, v, g)
        /\ contigsumsize = 0 => SameClusters(m1, v, g)
        /\ contigsumsize # 0 => Accounts(m1, v, g, b \div FRAGS_PER_BLK, -1)
    BY <1>10, <2>1, <2>3, TakeIs
  <2>7. Shape(v) /\ v.cg[g].free = A \ BlockAt(b)
    BY <2>6 DEF Differs
  <2>8. B \in SUBSET Nat
    BY <1>3, DataBits
  <2>9. Differs(v, x, g, B, 0, 0) /\ SameRuns(v, x, g) /\ SameClusters(v, x, g)
    BY <2>1, <2>7, <2>8, SetFree
  <2>10. Shape(x) /\ x.cg[g].free = B
    BY <2>9 DEF Differs
  <2>11. Differs(x, w, g, B, 0, FRAGS_PER_BLK - n) /\ SameRuns(x, w, g) /\ SameClusters(x, w, g)
    BY <2>1, <2>2, <2>10, AdjustFrags
  <2>12. Differs(u, w, g, B, -1, FRAGS_PER_BLK - n)
    <3>1. Differs(u, v, g, A \ BlockAt(b), 0 + (-1), 0 + 0)
      BY <1>2, <1>9, <2>2, <2>6, DiffersAgain
    <3>2. Differs(u, v, g, A \ BlockAt(b), -1, 0)
      BY <3>1
    <3>3. Differs(u, x, g, B, -1 + 0, 0 + 0)
      BY <1>2, <2>2, <2>9, <3>2, DiffersAgain
    <3>4. Differs(u, x, g, B, -1, 0)
      BY <3>3
    <3>5. Differs(u, w, g, B, -1 + 0, 0 + (FRAGS_PER_BLK - n))
      BY <1>2, <2>2, <2>11, <3>4, DiffersAgain
    <3>6. -1 + 0 = -1 /\ 0 + (FRAGS_PER_BLK - n) = FRAGS_PER_BLK - n
      BY <2>2
    <3> QED  BY <3>5, <3>6
  <2>13. SameRuns(m1, w, g)
    BY <2>6, <2>9, <2>11, SameAgain
  <2>14. w.cg[g].free = B
    BY <2>12 DEF Differs
  <2>15. RunsRight(w.cg[g], g)
    <3> SUFFICES ASSUME NEW k \in 1..(FRAGS_PER_BLK - 1) PROVE w.cg[g].frsum[k] = Cardinality(RunsIn(g, B, k))
      BY <1>1, <2>14 DEF RunsRight
    <3>1. w.cg[g].frsum[k] = m1.cg[g].frsum[k]
      BY <2>13 DEF SameRuns
    <3>2. k # t
      BY <1>4, <1>14
    <3> QED  BY <1>6, <1>9, <1>11, <3>1, <3>2 DEF Counted, RunsMoved
  <2>16. ClustersRight(w.cg[g], g)
    <3>1. SameClusters(v, w, g)
      BY <2>9, <2>11, SameAgain
    <3>2. contigsumsize = 0 => SameClusters(u, w, g)
      BY <1>9, <2>6, <3>1, SameAgain
    <3>3. contigsumsize # 0 => Accounts(u, w, g, b \div FRAGS_PER_BLK, -1)
      BY <1>9, <2>6, <3>1, AccountsAgain
    <3>4. (f + n + high) - (f - low) = FRAGS_PER_BLK
      BY <1>1, <1>6, <1>14
    <3> QED  BY <1>1, <1>2, <1>5, <2>14, <3>2, <3>3, <3>4, ClustersTaken
  <2>17. /\ Cardinality(FreeBlocks(g, B)) = Cardinality(FreeBlocks(g, A)) + (-1)
         /\ Cardinality(Loose(g, B)) = Cardinality(Loose(g, A)) + (FRAGS_PER_BLK - n)
    BY <1>4, <1>6a, <1>14
  <2>18. Exact(w)
    <3>1. PICK nb, nf : nb = -1 /\ nf = FRAGS_PER_BLK - n
      OBVIOUS
    <3>2. nb \in Int /\ nf \in Int /\ Differs(u, w, g, B, nb, nf)
      BY <2>12, <2>2, <3>1
    <3>3. Balanced(g, u.cg[g].free, B, nb, nf)
      BY <1>1, <1>3, <2>17, <3>1 DEF Balanced
    <3> QED  BY <2>15, <2>16, <3>2, <3>3, ExactAfter
  <2>19. B = v.cg[g].free \cup FragsOf(f - low, low) \cup FragsOf(f + n, high)
    <3>1. /\ b <= f - low /\ f + n + high <= b + FRAGS_PER_BLK
          /\ \A z \in Nat : f - low <= z /\ z < f + n + high => z \in A
      BY <1>1, <1>5 DEF Parts, Splits
    <3>2. b = f - low /\ b + FRAGS_PER_BLK = f + n + high
      BY <1>1, <1>4, <1>5, <1>6, <1>14, <2>3, <3>1
    <3>3. PICK e, r : e = f + n /\ r = f + n + high
      OBVIOUS
    <3>4. e \in Nat /\ r \in Nat /\ b <= f /\ f <= e /\ e <= r
      BY <1>4, <1>5, <2>3, <3>2, <3>3
    <3>5. \A z \in Nat : b <= z /\ z < r => z \in A
      BY <3>1, <3>2, <3>3
    <3>6. A \in SUBSET Nat
      BY <1>3, DataBits
    <3>7. A \ (f..(e - 1)) = (A \ (b..(r - 1))) \cup (b..(f - 1)) \cup (e..(r - 1))
      BY <2>3, <3>4, <3>5, <3>6, RestBack
    <3>8. S = f..(e - 1) /\ FragsOf(f + n, high) = e..(r - 1)
      <4>1. f + n - 1 = e - 1 /\ f + n + high - 1 = r - 1 /\ f + n = e
        BY <1>4, <1>5, <3>3
      <4>2. S = f..(f + n - 1) /\ FragsOf(f + n, high) = (f + n)..(f + n + high - 1)
        BY <1>1 DEF FragsOf
      <4> QED  BY <4>1, <4>2
    <3>9. BlockAt(b) = b..(r - 1)
      <4>1. b + FRAGS_PER_BLK - 1 = r - 1
        BY <1>4, <1>5, <2>3, <3>2, <3>3, <3>4
      <4> QED  BY <4>1 DEF BlockAt, FragsOf
    <3>10. FragsOf(f - low, low) = b..(f - 1)
      <4>1. (f - low) + low - 1 = f - 1
        BY <1>5
      <4>2. FragsOf(f - low, low) = (f - low)..(f - 1)
        BY <4>1 DEF FragsOf
      <4> QED  BY <3>2, <4>2
    <3>11. B = A \ (f..(e - 1)) /\ v.cg[g].free = A \ (b..(r - 1))
      BY <1>1, <2>7, <3>8, <3>9
    <3> QED  BY <3>7, <3>8, <3>10, <3>11
  <2>20. res = [failed |-> FALSE, m |-> w]
    <3>1. x = [v EXCEPT !.cg[g].free = v.cg[g].free \cup FragsOf(f - low, low) \cup FragsOf(f + n, high)]
      BY <2>1, <2>19 DEF WithFree
    <3>2. n + low + high = FRAGS_PER_BLK
      BY <1>1, <1>14
    <3>3. y.got = cgbase(g) + b
      BY <2>1 DEF TakeBlock
    <3>4. res = Refilled(y, g, f, n, low, high)
      <4>1. Locals(u, d, n, 1, g, f, b, low, high, m1)
        BY <1>1, <1>7, <1>8 DEF Locals
      <4>2. frags_allocate(u, d, n) = Refilled(y, g, f, n, low, high)
        BY <2>5, <3>2, <3>3, <4>1, WholeIs
      <4> QED  BY <1>12, <4>2
    <3> QED  BY <2>1, <3>1, <3>4 DEF Refilled
  <2> QED  BY <1>1, <1>12, <2>18, <2>20
<1> QED  BY <1>13, <1>14

(* n frags from f on are in a block, hold data, and none of them is in B.  *)
Apart(g, B, f, n) ==
    /\ f + n <= blknum(f) + FRAGS_PER_BLK
    /\ FragsOf(f, n) \subseteq DataOf(g) /\ FragsOf(f, n) \cap B = {}

(* The counts stay right when frags in use are given back.                 *)
LEMMA FragsGiven ==
    ASSUME NEW u, Exact(u), NEW g \in Group, NEW f \in Nat, NEW n \in 1..(FRAGS_PER_BLK - 1),
           Apart(g, u.cg[g].free, f, n)
    PROVE  Exact(frags_deallocate(u, cgbase(g) + f, n))
<1>1. PICK d, b, A, S, B, low, high, t :
         /\ d = cgbase(g) + f /\ b = blknum(f) /\ B = u.cg[g].free
         /\ S = FragsOf(f, n) /\ A = B \cup S
         /\ low = FreeBelow(B, f) /\ high = FreeFrom(B, f + n, b) /\ t = n + low + high
  OBVIOUS
<1>2. Shape(u) /\ GroupRight(u.cg[g], g) /\ RunsRight(u.cg[g], g) /\ ClustersRight(u.cg[g], g)
  BY DEF Exact, GroupRight
<1>3. A \subseteq DataOf(g) /\ B \subseteq DataOf(g) /\ Bits(g, B)
  <2>1. B \subseteq DataOf(g)
    BY <1>1, <1>2 DEF GroupRight
  <2>2. S \subseteq DataOf(g)
    BY <1>1 DEF Apart
  <2>3. Bits(g, B)
    BY <2>1, DataBits
  <2> QED  BY <1>1, <2>1, <2>2, <2>3
<1>4. n \in Nat /\ n > 0 /\ n # FRAGS_PER_BLK /\ FRAGS_PER_BLK \in Nat /\ FRAGS_PER_BLK > 0
  BY <1>1, Geometry
<1>4a. n \in Int /\ -n \in Int /\ -1 \in Int /\ 0 \in Int /\ 1 \in Int
  BY <1>4
<1>5. low \in Nat /\ high \in Nat /\ Parts(g, A, B, b, f - low, f, f + n, f + n + high)
  <2>1. f + n <= blknum(f) + FRAGS_PER_BLK /\ FragsOf(f, n) \cap B = {}
    BY <1>1 DEF Apart
  <2>2. FragsOf(f, n) \subseteq 0..(cg_ndblk[g] - 1)
    BY DataIs DEF Apart
  <2>3. /\ FreeBelow(B, f) \in Nat /\ FreeFrom(B, f + n, blknum(f)) \in Nat
        /\ Parts(g, B \cup FragsOf(f, n), B, blknum(f), f - FreeBelow(B, f), f, f + n,
                 f + n + FreeFrom(B, f + n, blknum(f)))
    BY <1>3, <1>4, <2>1, <2>2, PartsGive
  <2> QED  BY <1>1, <2>3
<1>6. Counted(g, A, B, n, low, high, t) /\ (f + n + high) - (f - low) = t
  <2>1. PICK p, e, r : p = f - low /\ e = f + n /\ r = f + n + high
    OBVIOUS
  <2>2. e - f = n /\ f - p = low /\ r - e = high /\ r - p = t /\ r - p = (f + n + high) - (f - low)
    BY <1>1, <1>4, <1>5, <2>1
  <2>3. Parts(g, A, B, b, p, f, e, r)
    BY <1>5, <2>1
  <2>4. e - f # FRAGS_PER_BLK
    BY <1>4, <2>2
  <2>5. Counted(g, A, B, e - f, f - p, r - e, r - p)
    BY <2>3, <2>4, FragCounts
  <2> QED  BY <2>2, <2>5
<1>7. /\ low \in 0..(FRAGS_PER_BLK - 1) /\ high \in 0..(FRAGS_PER_BLK - 1) /\ t \in 1..FRAGS_PER_BLK
      /\ Cardinality(FreeBlocks(g, A)) \in Nat /\ Cardinality(FreeBlocks(g, B)) \in Nat
      /\ Cardinality(Loose(g, A)) \in Nat /\ Cardinality(Loose(g, B)) \in Nat
      /\ Cardinality(FreeBlocks(g, B)) =
            Cardinality(FreeBlocks(g, A)) - (IF t = FRAGS_PER_BLK THEN 1 ELSE 0)
      /\ Cardinality(Loose(g, B)) =
            Cardinality(Loose(g, A)) + (IF t = FRAGS_PER_BLK THEN FRAGS_PER_BLK ELSE 0) - n
  BY <1>6 DEF Counted
<1>8. f \in DataOf(g) /\ f < fs_fpg /\ dtog(d) = g /\ dtogd(d) = f
  <2>1. f \in S
    BY <1>1, <1>4 DEF FragsOf
  <2>2. S \subseteq DataOf(g)
    BY <1>1 DEF Apart
  <2>3. f \in DataOf(g)
    BY <2>1, <2>2
  <2> QED  BY <1>1, <2>3, FragAt
<1>9. PICK m1 : m1 = adjust_frsum(adjust_frsum(u, g, low, -1), g, high, -1)
  OBVIOUS
<1>10. /\ Differs(u, m1, g, B, 0, 0) /\ SameClusters(u, m1, g)
       /\ RunsMoved(u, m1, g, low, high, -1)
  <2>1. -1 \in Int
    OBVIOUS
  <2>2. Differs(u, m1, g, u.cg[g].free, 0, 0) /\ SameClusters(u, m1, g)
        /\ RunsMoved(u, m1, g, low, high, -1)
    BY <1>2, <1>7, <1>9, <2>1, TwoRuns
  <2> QED  BY <1>1, <2>2
<1>11. Shape(m1) /\ m1.cg[g].free = B
  BY <1>10 DEF Differs
<1>12. \A k \in 1..(FRAGS_PER_BLK - 1) : u.cg[g].frsum[k] = Cardinality(RunsIn(g, B, k))
  BY <1>1, <1>2 DEF RunsRight
<1>13. CASE t # FRAGS_PER_BLK
  <2>1. PICK v, x, w : /\ v = adjust_frsum(m1, g, t, 1) /\ x = WithFree(v, g, A)
                       /\ w = adjust_frags_free(x, g, n)
    OBVIOUS
  <2>2. t \in 0..(FRAGS_PER_BLK - 1) /\ 1 \in Int /\ n \in Int /\ 0 \in Int
    <3>1. t \in 0..(FRAGS_PER_BLK - 1)
      BY <1>4, <1>7, <1>13
    <3> QED  BY <1>4a, <3>1
  <2>3. /\ Differs(m1, v, g, B, 0, 0) /\ SameClusters(m1, v, g)
        /\ RunMoved(m1, v, g, t, 1)
    BY <1>11, <2>1, <2>2, AdjustRuns
  <2>4. Shape(v) /\ v.cg[g].free = B
    BY <2>3 DEF Differs
  <2>5. A \in SUBSET Nat
    BY <1>3, DataBits
  <2>6. Differs(v, x, g, A, 0, 0) /\ SameRuns(v, x, g) /\ SameClusters(v, x, g)
    BY <2>1, <2>4, <2>5, SetFree
  <2>7. Shape(x) /\ x.cg[g].free = A
    BY <2>6 DEF Differs
  <2>8. Differs(x, w, g, A, 0, n) /\ SameRuns(x, w, g) /\ SameClusters(x, w, g)
    BY <2>1, <2>2, <2>7, AdjustFrags
  <2>9. Differs(u, w, g, A, 0, n)
    <3>1. Differs(u, v, g, B, 0 + 0, 0 + 0)
      BY <1>2, <1>10, <2>2, <2>3, DiffersAgain
    <3>2. Differs(u, v, g, B, 0, 0)
      BY <3>1
    <3>3. Differs(u, x, g, A, 0 + 0, 0 + 0)
      BY <1>2, <2>2, <2>6, <3>2, DiffersAgain
    <3>4. Differs(u, x, g, A, 0, 0)
      BY <3>3
    <3>5. Differs(u, w, g, A, 0 + 0, 0 + n)
      BY <1>2, <2>2, <2>8, <3>4, DiffersAgain
    <3>6. 0 + 0 = 0 /\ 0 + n = n
      BY <2>2
    <3> QED  BY <3>5, <3>6
  <2>10. SameRuns(v, w, g) /\ SameClusters(u, w, g)
    BY <1>10, <2>3, <2>6, <2>8, SameAgain
  <2>11. w.cg[g].free = A
    BY <2>9 DEF Differs
  <2>12. RunsRight(w.cg[g], g)
    <3> SUFFICES ASSUME NEW k \in 1..(FRAGS_PER_BLK - 1)
                 PROVE  w.cg[g].frsum[k] = Cardinality(RunsIn(g, A, k))
      BY <1>1, <2>11 DEF RunsRight
    <3>1. w.cg[g].frsum[k] = v.cg[g].frsum[k]
      BY <2>10 DEF SameRuns
    <3> QED  BY <1>6, <1>10, <1>12, <2>3, <3>1 DEF Counted, RunsMoved, RunMoved
  <2>13. ClustersRight(w.cg[g], g)
    <3>1. Numbers(g, B) = Numbers(g, A)
      BY <1>1, <1>5, <1>6, <1>13, NumbersSplit
    <3> QED  BY <1>1, <1>2, <2>10, <2>11, <3>1 DEF ClustersRight, SameClusters
  <2>14. /\ Cardinality(FreeBlocks(g, A)) = Cardinality(FreeBlocks(g, B)) + 0
         /\ Cardinality(Loose(g, A)) = Cardinality(Loose(g, B)) + n
    BY <1>4, <1>7, <1>13
  <2>15. Exact(w)
    <3>1. PICK nb, nf : nb = 0 /\ nf = n
      OBVIOUS
    <3>2. nb \in Int /\ nf \in Int /\ Differs(u, w, g, A, nb, nf)
      BY <2>9, <2>2, <3>1
    <3>3. Balanced(g, u.cg[g].free, A, nb, nf)
      BY <1>1, <1>3, <2>14, <3>1 DEF Balanced
    <3> QED  BY <2>12, <2>13, <3>2, <3>3, ExactAfter
  <2>16. frags_deallocate(u, d, n) = w
    <3>1. x = WithFree(v, g, v.cg[g].free \cup FragsOf(f, n))
      BY <1>1, <2>1, <2>4
    <3>2. n + low + high # FRAGS_PER_BLK /\ n # 0
      BY <1>1, <1>4, <1>13
    <3>3. Locals(u, d, n, -1, g, f, b, low, high, m1)
      BY <1>1, <1>8, <1>9 DEF Locals
    <3>4. v = adjust_frsum(m1, g, n + low + high, 1)
      BY <1>1, <2>1
    <3>5. frags_deallocate(u, d, n) = adjust_frags_free(x, g, n)
      BY <3>1, <3>2, <3>3, <3>4, SomeGivenIs
    <3> QED  BY <2>1, <3>5, ZenonT(60)
  <2> QED  BY <1>1, <2>15, <2>16
<1>14. CASE t = FRAGS_PER_BLK
  <2>1. PICK v, w : /\ v = block_deallocate(m1, cgbase(g) + b)
                    /\ w = adjust_frags_free(v, g, n - FRAGS_PER_BLK)
    OBVIOUS
  <2>2. 1 \in Int /\ n - FRAGS_PER_BLK \in Int /\ 0 \in Int
    BY <1>4
  <2>3. b \in Nat /\ b <= f /\ b < fs_fpg
    <3>1. fs_fpg \in Nat
      BY DataIs
    <3> QED  BY <1>1, <1>8, <3>1, Geometry
  <2>4. dtog(cgbase(g) + b) = g /\ dtogd(cgbase(g) + b) = b
    BY <2>3, InGroup
  <2>5. /\ Differs(m1, v, g, m1.cg[g].free \cup BlockAt(b), 1, 0) /\ SameRuns(m1, v, g)
        /\ contigsumsize = 0 => SameClusters(m1, v, g)
        /\ contigsumsize # 0 => Accounts(m1, v, g, b \div FRAGS_PER_BLK, 1)
    <3>1. PICK a : a = cgbase(g) + b
      OBVIOUS
    <3>2. dtog(a) = g /\ dtogd(a) = b /\ v = block_deallocate(m1, a)
      BY <2>1, <2>4, <3>1
    <3> QED  BY <1>11, <2>3, <3>2, GiveIs
  <2>6. m1.cg[g].free \cup BlockAt(b) = A
    <3>1. /\ b <= f - low /\ f + n + high <= b + FRAGS_PER_BLK
          /\ \A z \in Nat : f - low <= z /\ z < f + n + high => z \in A
      BY <1>1, <1>5 DEF Parts, Splits
    <3>2. b = f - low /\ b + FRAGS_PER_BLK = f + n + high
      BY <1>1, <1>4, <1>5, <1>6, <1>14, <2>3, <3>1
    <3>3. BlockAt(b) \subseteq A
      BY <1>4, <2>3, <3>1, <3>2 DEF BlockAt, FragsOf
    <3>4. S \subseteq BlockAt(b)
      <4> SUFFICES ASSUME NEW z \in S PROVE z \in BlockAt(b)
        OBVIOUS
      <4>1. z \in Int /\ f <= z /\ z <= f + n - 1
        BY <1>1, <1>4 DEF FragsOf
      <4>2. b <= z /\ z <= b + FRAGS_PER_BLK - 1
        BY <1>4, <1>5, <2>3, <3>2, <4>1
      <4> QED  BY <1>4, <2>3, <4>1, <4>2 DEF BlockAt, FragsOf
    <3> QED  BY <1>1, <1>11, <3>3, <3>4
  <2>7. Differs(m1, v, g, A, 1, 0)
    BY <2>5, <2>6
  <2>8. Shape(v) /\ v.cg[g].free = A
    BY <2>7 DEF Differs
  <2>9. Differs(v, w, g, A, 0, n - FRAGS_PER_BLK) /\ SameRuns(v, w, g) /\ SameClusters(v, w, g)
    BY <2>1, <2>2, <2>8, AdjustFrags
  <2>10. Differs(u, w, g, A, 1, n - FRAGS_PER_BLK)
    <3>1. Differs(u, v, g, A, 0 + 1, 0 + 0)
      BY <1>2, <1>10, <2>2, <2>7, DiffersAgain
    <3>2. Differs(u, v, g, A, 1, 0)
      BY <3>1
    <3>3. Differs(u, w, g, A, 1 + 0, 0 + (n - FRAGS_PER_BLK))
      BY <1>2, <2>2, <2>9, <3>2, DiffersAgain
    <3>4. 1 + 0 = 1 /\ 0 + (n - FRAGS_PER_BLK) = n - FRAGS_PER_BLK
      BY <2>2
    <3> QED  BY <3>3, <3>4
  <2>11. SameRuns(m1, w, g)
    BY <2>5, <2>9, SameAgain
  <2>12. w.cg[g].free = A
    BY <2>10 DEF Differs
  <2>13. RunsRight(w.cg[g], g)
    <3> SUFFICES ASSUME NEW k \in 1..(FRAGS_PER_BLK - 1)
                 PROVE  w.cg[g].frsum[k] = Cardinality(RunsIn(g, A, k))
      BY <1>1, <2>12 DEF RunsRight
    <3>1. w.cg[g].frsum[k] = m1.cg[g].frsum[k]
      BY <2>11 DEF SameRuns
    <3>2. k # t
      BY <1>4, <1>14
    <3> QED  BY <1>6, <1>10, <1>12, <3>1, <3>2 DEF Counted, RunsMoved
  <2>14. ClustersRight(w.cg[g], g)
    <3>1. contigsumsize = 0 => SameClusters(u, w, g)
      BY <1>10, <2>5, <2>9, SameAgain
    <3>2. contigsumsize # 0 => Accounts(u, w, g, b \div FRAGS_PER_BLK, 1)
      BY <1>10, <2>5, <2>9, AccountsAgain
    <3>3. (f + n + high) - (f - low) = FRAGS_PER_BLK
      BY <1>1, <1>6, <1>14
    <3> QED  BY <1>1, <1>2, <1>5, <2>12, <3>1, <3>2, <3>3, ClustersGiven
  <2>15. /\ Cardinality(FreeBlocks(g, A)) = Cardinality(FreeBlocks(g, B)) + 1
         /\ Cardinality(Loose(g, A)) = Cardinality(Loose(g, B)) + (n - FRAGS_PER_BLK)
    BY <1>4, <1>7, <1>14
  <2>16. Exact(w)
    <3>1. PICK nb, nf : nb = 1 /\ nf = n - FRAGS_PER_BLK
      OBVIOUS
    <3>2. nb \in Int /\ nf \in Int /\ Differs(u, w, g, A, nb, nf)
      BY <2>10, <2>2, <3>1
    <3>3. Balanced(g, u.cg[g].free, A, nb, nf)
      BY <1>1, <1>3, <2>15, <3>1 DEF Balanced
    <3> QED  BY <2>13, <2>14, <3>2, <3>3, ExactAfter
  <2>17. frags_deallocate(u, d, n) = w
    <3>1. n + low + high = FRAGS_PER_BLK /\ n # 0
      BY <1>1, <1>4, <1>14
    <3>2. Locals(u, d, n, -1, g, f, b, low, high, m1)
      BY <1>1, <1>8, <1>9 DEF Locals
    <3>3. frags_deallocate(u, d, n) = adjust_frags_free(v, g, n - FRAGS_PER_BLK)
      BY <2>1, <3>1, <3>2, WholeGivenIs
    <3> QED  BY <2>1, <3>3
  <2> QED  BY <1>1, <2>16, <2>17
<1> QED  BY <1>13, <1>14

(* The summary of a bitmap is what the counts should be.                   *)
LEMMA SummaryIs ==
    ASSUME NEW g \in Group, NEW A, A \subseteq DataOf(g)
    PROVE  /\ Summary(g, A) \in CgShape /\ Summary(g, A).free = A
           /\ GroupRight(Summary(g, A), g)
<1>1. PICK c : c = Summary(g, A)
  OBVIOUS
<1>2. /\ c.free = A
      /\ c.frsum = [n \in 1..(FRAGS_PER_BLK - 1) |-> Cardinality(RunsIn(g, A, n))]
      /\ c.nbfree = Cardinality(FreeBlocks(g, A))
      /\ c.nffree = Cardinality(Loose(g, A))
      /\ c.clusters = (IF contigsumsize = 0 THEN {} ELSE Numbers(g, A))
      /\ c.clustersum = [n \in 1..contigsumsize |-> Cardinality(Clusters(Numbers(g, A), n))]
      /\ c = [free |-> c.free, frsum |-> c.frsum, nbfree |-> c.nbfree, nffree |-> c.nffree,
              clusters |-> c.clusters, clustersum |-> c.clustersum]
  BY <1>1 DEF Summary, RunsIn, Numbers
<1>3. A \in SUBSET Nat /\ Bits(g, A)
  BY DataBits
<1>4. c.frsum \in [1..(FRAGS_PER_BLK - 1) -> Int]
  <2>1. \A n \in 1..(FRAGS_PER_BLK - 1) : Cardinality(RunsIn(g, A, n)) \in Int
    BY RunsInFinite
  <2> QED  BY <1>2, <2>1
<1>5. c.nbfree \in Int
  BY <1>2, FreeBlocksFinite
<1>6. c.nffree \in Int
  BY <1>2, <1>3, LooseIs
<1>7. Numbers(g, A) \subseteq Nat /\ IsFiniteSet(Numbers(g, A))
  BY NumbersFinite
<1>8. c.clusters \in SUBSET Nat
  BY <1>2, <1>7
<1>9. c.clustersum \in [1..contigsumsize -> Int]
  <2>1. ASSUME NEW n \in 1..contigsumsize PROVE Cardinality(Clusters(Numbers(g, A), n)) \in Int
    <3>1. Clusters(Numbers(g, A), n) \subseteq Numbers(g, A)
      BY DEF Clusters
    <3> QED  BY <1>7, <3>1, FS_Subset, FS_CardinalityType
  <2> QED  BY <1>2, <2>1
<1>10. c \in CgShape
  BY <1>2, <1>3, <1>4, <1>5, <1>6, <1>8, <1>9 DEF CgShape
<1>11. GroupRight(c, g)
  <2>1. RunsRight(c, g)
    BY <1>2 DEF RunsRight
  <2>2. ClustersRight(c, g)
    BY <1>2 DEF ClustersRight
  <2> QED  BY <1>2, <2>1, <2>2 DEF GroupRight
<1> QED  BY <1>1, <1>2, <1>10, <1>11

(* The maps of a consistent volume are exact.                              *)
LEMMA MapsAreExact ==
    ASSUME NEW free, \A g \in Group : free[g] \subseteq DataOf(g)
    PROVE  Exact(Maps(free))
<1>1. PICK w : w = Maps(free)
  OBVIOUS
<1>2. /\ w.cg = [g \in Group |-> Summary(g, free[g])]
      /\ w.sb.fs_cs = [g \in Group |-> [nbfree |-> w.cg[g].nbfree, nffree |-> w.cg[g].nffree]]
      /\ w.sb.fs_cstotal = [nbfree |-> Total([g \in Group |-> FreeBlocks(g, free[g])]),
                            nffree |-> Total([g \in Group |-> Loose(g, free[g])])]
      /\ w.sb.fs_ronly = FALSE
      /\ w = [cg |-> w.cg, sb |-> w.sb]
      /\ w.sb = [fs_cs |-> w.sb.fs_cs, fs_cstotal |-> w.sb.fs_cstotal, fs_ronly |-> w.sb.fs_ronly]
  BY <1>1 DEF Maps
<1>3. \A g \in Group : w.cg[g] = Summary(g, free[g])
  BY <1>2
<1>4. \A g \in Group : w.cg[g] \in CgShape /\ w.cg[g].free = free[g] /\ GroupRight(w.cg[g], g)
  <2> SUFFICES ASSUME NEW g \in Group
               PROVE  w.cg[g] \in CgShape /\ w.cg[g].free = free[g] /\ GroupRight(w.cg[g], g)
    OBVIOUS
  <2>1. free[g] \subseteq DataOf(g)
    OBVIOUS
  <2>2. /\ Summary(g, free[g]) \in CgShape /\ Summary(g, free[g]).free = free[g]
        /\ GroupRight(Summary(g, free[g]), g)
    BY <2>1, SummaryIs
  <2> QED  BY <1>3, <2>2
<1>5. AllFreeBlocks(w) = [g \in Group |-> FreeBlocks(g, free[g])]
  BY <1>4 DEF AllFreeBlocks
<1>6. AllLoose(w) = [g \in Group |-> Loose(g, free[g])]
  BY <1>4 DEF AllLoose
<1>7. /\ w.sb.fs_cstotal.nbfree = Total(AllFreeBlocks(w))
      /\ w.sb.fs_cstotal.nffree = Total(AllLoose(w))
      /\ w.sb.fs_cstotal = [nbfree |-> w.sb.fs_cstotal.nbfree, nffree |-> w.sb.fs_cstotal.nffree]
  BY <1>2, <1>5, <1>6
<1>8. \A g \in Group : Bits(g, free[g])
  BY DataBits
<1>9. \A g \in Group : FreeBlocks(g, free[g]) \subseteq 0..fs_fpg /\ Loose(g, free[g]) \subseteq 0..fs_fpg
  BY <1>8, PartsSmall
<1>10. Total(AllFreeBlocks(w)) \in Int
  <2>1. PICK P : P = AllFreeBlocks(w)
    OBVIOUS
  <2>2. \A h \in Group : P[h] \subseteq 0..fs_fpg
    BY <1>5, <1>9, <2>1
  <2>3. Total(P) \in Nat
    BY <2>2, TotalFinite
  <2> QED  BY <2>1, <2>3
<1>11. Total(AllLoose(w)) \in Int
  <2>1. PICK P : P = AllLoose(w)
    OBVIOUS
  <2>2. \A h \in Group : P[h] \subseteq 0..fs_fpg
    BY <1>6, <1>9, <2>1
  <2>3. Total(P) \in Nat
    BY <2>2, TotalFinite
  <2> QED  BY <2>1, <2>3
<1>12. w.sb.fs_cstotal \in CsShape
  BY <1>7, <1>10, <1>11 DEF CsShape
<1>13. \A g \in Group : /\ w.sb.fs_cs[g] = [nbfree |-> w.cg[g].nbfree, nffree |-> w.cg[g].nffree]
                        /\ w.sb.fs_cs[g].nbfree = w.cg[g].nbfree
                        /\ w.sb.fs_cs[g].nffree = w.cg[g].nffree
  BY <1>2
<1>14. w.sb.fs_cs \in [Group -> CsShape]
  <2>1. \A g \in Group : w.cg[g].nbfree \in Int /\ w.cg[g].nffree \in Int
    BY <1>4, CgIs
  <2>2. \A g \in Group : [nbfree |-> w.cg[g].nbfree, nffree |-> w.cg[g].nffree] \in CsShape
    BY <2>1 DEF CsShape
  <2> QED  BY <1>2, <2>2
<1>15. w.sb \in SbShape
  BY <1>2, <1>12, <1>14 DEF SbShape
<1>16. w.cg \in [Group -> CgShape]
  BY <1>2, <1>4
<1>17. Shape(w)
  BY <1>2, <1>15, <1>16 DEF Shape
<1> QED  BY <1>1, <1>2, <1>4, <1>7, <1>13, <1>17 DEF Exact

(* What the search for free frags finds is free, and in one block.         *)
LEMMA FragFindIs ==
    ASSUME NEW g \in Group, NEW A, NEW p, NEW n \in 1..(FRAGS_PER_BLK - 1),
           NEW at, at = block_fragblock_find(g, A, p, n), at # -1
    PROVE  at \in Nat /\ Together(A, at, n)
<1>1. n \in Nat /\ n > 0 /\ n \in 1..FRAGS_PER_BLK /\ FRAGS_PER_BLK \in Nat /\ FRAGS_PER_BLK > 0
  BY Geometry
<1>2. PICK fit, forw : /\ fit = {b \in BlockStarts(g) : Fits(A, b, n) # {}}
                       /\ forw = {b \in fit : b >= Preferred(g, p)}
  OBVIOUS
<1>3. /\ fit # {}
      /\ \/ forw # {} /\ at = Least(Fits(A, Least(forw), n))
         \/ at = Least(Fits(A, Most(fit), n))
  BY <1>1, <1>2 DEF block_fragblock_find
<1>4. fit \subseteq BlockStarts(g) /\ forw \subseteq fit
  BY <1>2
<1>5. fit \subseteq Nat
  BY <1>4, StartIs
<1>6. Most(fit) \in fit
  <2>1. cg_ndblk[g] \in Nat
    BY DataIs
  <2>2. fit \subseteq 0..cg_ndblk[g]
    <3> SUFFICES ASSUME NEW b \in fit PROVE b \in 0..cg_ndblk[g]
      OBVIOUS
    <3>1. b \in BlockStarts(g)
      BY <1>4
    <3>2. b \in Nat /\ b < cg_ndblk[g]
      BY <3>1, StartIs
    <3> QED  BY <2>1, <3>2
  <2> QED  BY <1>3, <2>1, <2>2, MostIs
<1>7. forw # {} => Least(forw) \in fit
  <2>1. forw \subseteq Nat
    BY <1>4, <1>5
  <2>2. forw # {} => Least(forw) \in forw
    BY <2>1, LeastIs
  <2> QED  BY <1>4, <2>2
<1>8. PICK b \in fit : at = Least(Fits(A, b, n))
  BY <1>3, <1>6, <1>7
<1>9. Fits(A, b, n) # {} /\ b \in BlockStarts(g)
  BY <1>2, <1>8
<1>10. b \in Nat /\ b % FRAGS_PER_BLK = 0
  BY <1>9, StartIs
<1>11. Fits(A, b, n) \subseteq Nat
  BY <1>1, <1>10 DEF Fits
<1>12. at \in Fits(A, b, n)
  BY <1>8, <1>9, <1>11, LeastIs
<1>13. /\ at \in Nat /\ b <= at /\ at + n <= b + FRAGS_PER_BLK /\ FragsOf(at, n) \subseteq A
  BY <1>1, <1>10, <1>12 DEF Fits
<1>14. at \in BlockAt(b)
  BY <1>1, <1>10, <1>13 DEF BlockAt, FragsOf
<1>15. blknum(at) = b
  BY <1>10, <1>13, <1>14, InBlock
<1> QED  BY <1>13, <1>15 DEF Together

(* Where the frags of a call are.                                          *)
LEMMA CallIs ==
    ASSUME NEW d \in DataFrag, NEW n \in Nat, n > 0, (d % FRAGS_PER_BLK) + n <= FRAGS_PER_BLK
    PROVE  /\ dtog(d) \in Group /\ dtogd(d) \in Nat /\ d = cgbase(dtog(d)) + dtogd(d)
           /\ dtogd(d) % FRAGS_PER_BLK = d % FRAGS_PER_BLK
           /\ dtogd(d) + n <= blknum(dtogd(d)) + FRAGS_PER_BLK
<1>0. d \in Nat
  BY DataFragIs
<1>1. dtog(d) \in Group /\ d = cgbase(dtog(d)) + dtogd(d)
  BY DataFragIs
<1>2. dtogd(d) \in Nat /\ dtogd(d) % FRAGS_PER_BLK = d % FRAGS_PER_BLK
  BY <1>0, SameGroup
<1>3. PICK f \in Nat : f = dtogd(d)
  BY <1>2
<1>4. PICK k : k = f % FRAGS_PER_BLK
  OBVIOUS
<1>5. k \in Nat /\ blknum(f) \in Nat /\ k = f - blknum(f) /\ FRAGS_PER_BLK \in Nat
  <2>1. /\ FRAGS_PER_BLK \in Nat /\ blknum(f) \in Nat /\ blknum(f) <= f
        /\ f % FRAGS_PER_BLK = f - blknum(f)
    BY Geometry, Zenon
  <2>2. k = f - blknum(f)
    BY <1>4, <2>1, Zenon
  <2> QED  BY <2>1, <2>2
<1>6. k + n <= FRAGS_PER_BLK
  BY <1>2, <1>3, <1>4
<1>7. f + n <= blknum(f) + FRAGS_PER_BLK
  BY <1>5, <1>6
<1> QED  BY <1>1, <1>2, <1>3, <1>7

(* The frags that a call gives back hold data and are not free.            *)
LEMMA UsedIs ==
    ASSUME NEW d \in DataFrag, NEW n \in Nat, n > 0, (d % FRAGS_PER_BLK) + n <= FRAGS_PER_BLK,
           InUse(d, n)
    PROVE  /\ FragsOf(dtogd(d), n) \subseteq DataOf(dtog(d))
           /\ FragsOf(dtogd(d), n) \cap m.cg[dtog(d)].free = {}
<1>1. d \in Nat
  BY DataFragIs
<1>2. PICK f, g : f = dtogd(d) /\ g = dtog(d)
  OBVIOUS
<1>3. /\ f \in Nat
      /\ \A i \in 0..(n - 1) : dtog(d + i) = g /\ dtogd(d + i) = f + i
  BY <1>1, <1>2, SameGroup
<1>4. \A z \in FragsOf(f, n) : z \in DataOf(g) /\ z \notin m.cg[g].free
  <2> SUFFICES ASSUME NEW z \in FragsOf(f, n) PROVE z \in DataOf(g) /\ z \notin m.cg[g].free
    OBVIOUS
  <2>1. z \in Nat /\ f <= z /\ z <= f + n - 1
    BY <1>3 DEF FragsOf
  <2>2. PICK i \in 0..(n - 1) : z = f + i
    <3>1. z - f \in 0..(n - 1) /\ z = f + (z - f)
      BY <1>3, <2>1
    <3> QED  BY <3>1
  <2>3. PICK e : e = d + i
    OBVIOUS
  <2>4. dtog(e) = g /\ dtogd(e) = z
    BY <1>3, <2>2, <2>3
  <2>5. e \in FragsOf(d, n)
    BY <1>1, <2>2, <2>3 DEF FragsOf
  <2>6. e \in DataFrag /\ dtogd(e) \notin m.cg[dtog(e)].free
    BY <2>5 DEF InUse
  <2>7. dtogd(e) \in DataOf(dtog(e))
    BY <2>6, DataFragIs
  <2> QED  BY <2>4, <2>6, <2>7
<1> QED  BY <1>2, <1>4

(* The counts stay right with every call.                                  *)
LEMMA ExactAllocateBlock ==
    ASSUME Exact(m), NEW g \in Group, NEW b \in BlockStarts(g), AllocateBlock(cgbase(g) + b)
    PROVE  Exact(m')
<1>1. PICK res : res = block_allocate(m, cgbase(g) + b)
  OBVIOUS
<1>2. m' = res.m
  BY <1>1 DEF AllocateBlock
<1>3. \/ res = [got |-> 0, m |-> m]
      \/ \E h \in Group : \E c \in FreeBlocks(h, m.cg[h].free) : res = TakeBlock(m, h, c)
  <2>1. \/ block_allocate(m, cgbase(g) + b) = [got |-> 0, m |-> m]
        \/ \E h \in Group : \E c \in FreeBlocks(h, m.cg[h].free) :
              block_allocate(m, cgbase(g) + b) = TakeBlock(m, h, c)
    BY AllocateIs
  <2> QED  BY <1>1, <2>1
<1>4. CASE res = [got |-> 0, m |-> m]
  <2>1. res.m = m
    BY <1>4
  <2> QED  BY <1>2, <2>1
<1>5. CASE \E h \in Group : \E c \in FreeBlocks(h, m.cg[h].free) : res = TakeBlock(m, h, c)
  <2>1. PICK h \in Group : \E c \in FreeBlocks(h, m.cg[h].free) : res = TakeBlock(m, h, c)
    BY <1>5
  <2>2. PICK c \in FreeBlocks(h, m.cg[h].free) : res = TakeBlock(m, h, c)
    BY <2>1
  <2>3. Exact(TakeBlock(m, h, c).m)
    BY ExactTaken
  <2> QED  BY <1>2, <2>2, <2>3
<1> QED  BY <1>3, <1>4, <1>5

(* Frags that block_fragblock_find() found are free and in one block, as   *)
(* frags_allocate() needs them to be.                                      *)
LEMMA ExactAllocateFrags ==
    ASSUME Exact(m), NEW g \in Group, NEW n \in 1..(FRAGS_PER_BLK - 1), NEW p,
           AllocateFrags(g, p, n)
    PROVE  Exact(m')
<1>1. PICK at : at = block_fragblock_find(g, m.cg[g].free, p, n)
  OBVIOUS
<1>2. at # -1 /\ m' = frags_allocate(m, cgbase(g) + at, n).m
  BY <1>1 DEF AllocateFrags
<1>3. at \in Nat /\ Together(m.cg[g].free, at, n)
  BY <1>1, <1>2, FragFindIs
<1>4. Exact(frags_allocate(m, cgbase(g) + at, n).m)
  BY <1>3, FragsTaken
<1> QED  BY <1>2, <1>4

(* So are those behind a file's last frag that file.c found to be free.    *)
LEMMA ExactExtendFrags ==
    ASSUME Exact(m), NEW d \in DataFrag, NEW n \in 1..(FRAGS_PER_BLK - 1), ExtendFrags(d, n)
    PROVE  Exact(m')
<1>1. n \in Nat /\ n > 0
  BY Geometry
<1>2. /\ (d % FRAGS_PER_BLK) + n <= FRAGS_PER_BLK
      /\ FragsOf(dtogd(d), n) \subseteq m.cg[dtog(d)].free
      /\ m' = frags_allocate(m, d, n).m
  BY DEF ExtendFrags, InOneBlock
<1>3. PICK f, g : f = dtogd(d) /\ g = dtog(d)
  OBVIOUS
<1>4. g \in Group /\ f \in Nat /\ d = cgbase(g) + f /\ f + n <= blknum(f) + FRAGS_PER_BLK
  BY <1>1, <1>2, <1>3, CallIs
<1>5. Together(m.cg[g].free, f, n)
  BY <1>2, <1>3, <1>4 DEF Together
<1>6. Exact(frags_allocate(m, cgbase(g) + f, n).m)
  BY <1>4, <1>5, FragsTaken
<1> QED  BY <1>2, <1>4, <1>6

(* A block that was in use has no free frag, as block_deallocate() needs.  *)
LEMMA ExactFreeBlock ==
    ASSUME Exact(m), NEW d \in DataFrag, FreeBlock(d)
    PROVE  Exact(m')
<1>1. FRAGS_PER_BLK \in Nat /\ FRAGS_PER_BLK > 0
  BY Geometry
<1>2. d % FRAGS_PER_BLK = 0 /\ InUse(d, FRAGS_PER_BLK) /\ m' = block_deallocate(m, d)
  BY DEF FreeBlock
<1>3. (d % FRAGS_PER_BLK) + FRAGS_PER_BLK <= FRAGS_PER_BLK
  BY <1>1, <1>2
<1>4. dtog(d) \in Group /\ dtogd(d) \in Nat /\ dtogd(d) % FRAGS_PER_BLK = 0
  BY <1>1, <1>2, <1>3, CallIs
<1>5. /\ FragsOf(dtogd(d), FRAGS_PER_BLK) \subseteq DataOf(dtog(d))
      /\ FragsOf(dtogd(d), FRAGS_PER_BLK) \cap m.cg[dtog(d)].free = {}
  BY <1>1, <1>2, <1>3, UsedIs
<1>6. /\ BlockAt(dtogd(d)) \subseteq DataOf(dtog(d))
      /\ BlockAt(dtogd(d)) \cap m.cg[dtog(d)].free = {}
  BY <1>5 DEF BlockAt
<1> QED  BY <1>2, <1>4, <1>6, ExactGiven

(* Frags that were in use are not free, as frags_deallocate() needs.       *)
LEMMA ExactFreeFragRun ==
    ASSUME Exact(m), NEW d \in DataFrag, NEW n \in 1..(FRAGS_PER_BLK - 1), FreeFragRun(d, n)
    PROVE  Exact(m')
<1>1. n \in Nat /\ n > 0
  BY Geometry
<1>2. /\ (d % FRAGS_PER_BLK) + n <= FRAGS_PER_BLK /\ InUse(d, n)
      /\ m' = frags_deallocate(m, d, n)
  BY DEF FreeFragRun, InOneBlock
<1>3. PICK f, g : f = dtogd(d) /\ g = dtog(d)
  OBVIOUS
<1>4. g \in Group /\ f \in Nat /\ d = cgbase(g) + f /\ f + n <= blknum(f) + FRAGS_PER_BLK
  BY <1>1, <1>2, <1>3, CallIs
<1>5. FragsOf(f, n) \subseteq DataOf(g) /\ FragsOf(f, n) \cap m.cg[g].free = {}
  BY <1>1, <1>2, <1>3, UsedIs
<1>6. Apart(g, m.cg[g].free, f, n)
  BY <1>4, <1>5 DEF Apart
<1>7. Exact(frags_deallocate(m, cgbase(g) + f, n))
  BY <1>4, <1>6, FragsGiven
<1> QED  BY <1>2, <1>4, <1>7

(* A volume with nothing on it is exact.                                   *)
LEMMA ExactInit == Init => Exact(m)
<1> SUFFICES ASSUME Init PROVE Exact(m)
  OBVIOUS
<1>1. PICK free : free = [g \in Group |-> DataOf(g)]
  OBVIOUS
<1>2. \A g \in Group : free[g] \subseteq DataOf(g)
  BY <1>1
<1>3. Exact(Maps(free))
  BY <1>2, MapsAreExact
<1> QED  BY <1>1, <1>3 DEF Init

(* No step makes it inexact.                                               *)
LEMMA ExactStep == Exact(m) /\ [Next]_m => Exact(m')
<1> SUFFICES ASSUME Exact(m), [Next]_m PROVE Exact(m')
  OBVIOUS
<1>1. CASE UNCHANGED m
  BY <1>1
<1>2. ASSUME NEW g \in Group, NEW b \in BlockStarts(g), AllocateBlock(cgbase(g) + b)
      PROVE  Exact(m')
  BY <1>2, ExactAllocateBlock
<1>3. ASSUME NEW g \in Group, NEW n \in 1..(FRAGS_PER_BLK - 1), NEW p \in BlockStarts(g),
             AllocateFrags(g, p, n)
      PROVE  Exact(m')
  BY <1>3, ExactAllocateFrags
<1>4. ASSUME NEW d \in DataFrag, NEW n \in 1..(FRAGS_PER_BLK - 1), ExtendFrags(d, n)
      PROVE  Exact(m')
  BY <1>4, ExactExtendFrags
<1>5. ASSUME NEW d \in DataFrag, FreeBlock(d)
      PROVE  Exact(m')
  BY <1>5, ExactFreeBlock
<1>6. ASSUME NEW d \in DataFrag, NEW n \in 1..(FRAGS_PER_BLK - 1), FreeFragRun(d, n)
      PROVE  Exact(m')
  BY <1>6, ExactFreeFragRun
<1> QED  BY <1>1, <1>2, <1>3, <1>4, <1>5, <1>6 DEF Next

(* Functions are equal when their values are.                              *)
LEMMA SameFunction ==
    ASSUME NEW D, NEW x \in [D -> Int], NEW y \in [D -> Int], \A k \in D : x[k] = y[k]
    PROVE  x = y
OBVIOUS

(* The bitmap decides the counts: two groups whose counts are right and    *)
(* whose bitmaps are the same have the same counts.                        *)
LEMMA SameCounts ==
    ASSUME NEW g \in Group, NEW c \in CgShape, NEW e \in CgShape,
           GroupRight(c, g), GroupRight(e, g), c.free = e.free
    PROVE  /\ c.frsum = e.frsum /\ c.nbfree = e.nbfree /\ c.nffree = e.nffree
           /\ c.clusters = e.clusters /\ c.clustersum = e.clustersum
<1>1. c.nbfree = e.nbfree /\ c.nffree = e.nffree
  BY DEF GroupRight
<1>2. c.frsum = e.frsum
  <2>1. c.frsum \in [1..(FRAGS_PER_BLK - 1) -> Int] /\ e.frsum \in [1..(FRAGS_PER_BLK - 1) -> Int]
    BY CgIs
  <2>2. \A n \in 1..(FRAGS_PER_BLK - 1) : c.frsum[n] = e.frsum[n]
    BY DEF GroupRight, RunsRight
  <2>3. PICK x, y : x = c.frsum /\ y = e.frsum
    OBVIOUS
  <2>4. x = y
    <3>1. PICK D : D = 1..(FRAGS_PER_BLK - 1)
      OBVIOUS
    <3>2. x \in [D -> Int] /\ y \in [D -> Int]
      BY <2>1, <2>3, <3>1
    <3>3. \A n \in D : x[n] = y[n]
      BY <2>2, <2>3, <3>1
    <3> QED  BY <3>2, <3>3, SameFunction
  <2> QED  BY <2>3, <2>4
<1>3. c.clusters = e.clusters
  BY DEF GroupRight, ClustersRight
<1>4. c.clustersum = e.clustersum
  <2>1. c.clustersum \in [1..contigsumsize -> Int] /\ e.clustersum \in [1..contigsumsize -> Int]
    BY CgIs
  <2>2. \A n \in 1..contigsumsize : c.clustersum[n] = e.clustersum[n]
    BY DEF GroupRight, ClustersRight
  <2>3. PICK x, y : x = c.clustersum /\ y = e.clustersum
    OBVIOUS
  <2>4. x = y
    <3>1. PICK D : D = 1..contigsumsize
      OBVIOUS
    <3>2. x \in [D -> Int] /\ y \in [D -> Int]
      BY <2>1, <2>3, <3>1
    <3>3. \A n \in D : x[n] = y[n]
      BY <2>2, <2>3, <3>1
    <3> QED  BY <3>2, <3>3, SameFunction
  <2> QED  BY <2>3, <2>4
<1> QED  BY <1>1, <1>2, <1>3, <1>4

(* Two exact volumes with the same bitmaps have the same counts.           *)
LEMMA SameTotals ==
    ASSUME NEW u, NEW w, Exact(u), Exact(w), \A g \in Group : u.cg[g].free = w.cg[g].free
    PROVE  /\ \A g \in Group : /\ u.cg[g].frsum = w.cg[g].frsum
                               /\ u.cg[g].nbfree = w.cg[g].nbfree
                               /\ u.cg[g].nffree = w.cg[g].nffree
           /\ u.sb.fs_cs = w.sb.fs_cs /\ u.sb.fs_cstotal = w.sb.fs_cstotal
<1>1. Shape(u) /\ Shape(w)
  BY DEF Exact
<1>2. /\ \A g \in Group : u.cg[g] \in CgShape /\ u.sb.fs_cs[g] \in CsShape
      /\ u.sb.fs_cs \in [Group -> CsShape] /\ u.sb.fs_cstotal \in CsShape
  BY <1>1, ShapeIs
<1>3. /\ \A g \in Group : w.cg[g] \in CgShape /\ w.sb.fs_cs[g] \in CsShape
      /\ w.sb.fs_cs \in [Group -> CsShape] /\ w.sb.fs_cstotal \in CsShape
  BY <1>1, ShapeIs
<1>4. ASSUME NEW g \in Group
      PROVE  /\ u.cg[g].frsum = w.cg[g].frsum
             /\ u.cg[g].nbfree = w.cg[g].nbfree /\ u.cg[g].nffree = w.cg[g].nffree
  <2>1. PICK c, e : c = u.cg[g] /\ e = w.cg[g]
    OBVIOUS
  <2>2. c \in CgShape /\ e \in CgShape /\ c.free = e.free
    BY <1>2, <1>3, <2>1
  <2>3. GroupRight(c, g) /\ GroupRight(e, g)
    BY <2>1 DEF Exact
  <2>4. c.frsum = e.frsum /\ c.nbfree = e.nbfree /\ c.nffree = e.nffree
    BY <2>2, <2>3, SameCounts
  <2> QED  BY <2>1, <2>4
<1>5. ASSUME NEW x \in CsShape, NEW y \in CsShape, x.nbfree = y.nbfree, x.nffree = y.nffree
      PROVE  x = y
  BY <1>5 DEF CsShape
<1>6. u.sb.fs_cs = w.sb.fs_cs
  <2>1. ASSUME NEW g \in Group PROVE u.sb.fs_cs[g] = w.sb.fs_cs[g]
    <3>1. /\ u.sb.fs_cs[g].nbfree = u.cg[g].nbfree /\ u.sb.fs_cs[g].nffree = u.cg[g].nffree
          /\ w.sb.fs_cs[g].nbfree = w.cg[g].nbfree /\ w.sb.fs_cs[g].nffree = w.cg[g].nffree
      BY DEF Exact
    <3>2. u.sb.fs_cs[g].nbfree = w.sb.fs_cs[g].nbfree /\ u.sb.fs_cs[g].nffree = w.sb.fs_cs[g].nffree
      BY <1>4, <3>1
    <3> QED  BY <1>2, <1>3, <1>5, <3>2
  <2> QED  BY <1>2, <1>3, <2>1
<1>7. u.sb.fs_cstotal = w.sb.fs_cstotal
  <2>1. AllFreeBlocks(u) = AllFreeBlocks(w) /\ AllLoose(u) = AllLoose(w)
    BY DEF AllFreeBlocks, AllLoose
  <2>2. /\ u.sb.fs_cstotal.nbfree = w.sb.fs_cstotal.nbfree
        /\ u.sb.fs_cstotal.nffree = w.sb.fs_cstotal.nffree
    BY <2>1 DEF Exact
  <2> QED  BY <1>2, <1>3, <1>5, <2>2
<1> QED  BY <1>4, <1>6, <1>7

(* Exact maps have the counts that fsck would find.                        *)
LEMMA ExactCounts == Exact(m) => CountsExact
<1> SUFFICES ASSUME Exact(m) PROVE CountsExact
  OBVIOUS
<1>1. PICK free, w : free = [g \in Group |-> m.cg[g].free] /\ w = Maps(free)
  OBVIOUS
<1>2. \A g \in Group : free[g] = m.cg[g].free /\ m.cg[g].free \subseteq DataOf(g)
  BY <1>1 DEF Exact, GroupRight
<1>3. Exact(w)
  <2>1. \A g \in Group : free[g] \subseteq DataOf(g)
    BY <1>2
  <2> QED  BY <1>1, <2>1, MapsAreExact
<1>4. \A g \in Group : m.cg[g].free = w.cg[g].free
  <2>1. \A g \in Group : w.cg[g].free = free[g]
    BY <1>1 DEF Maps, Summary
  <2> QED  BY <1>2, <2>1
<1>5. /\ \A g \in Group : /\ m.cg[g].frsum = w.cg[g].frsum
                          /\ m.cg[g].nbfree = w.cg[g].nbfree
                          /\ m.cg[g].nffree = w.cg[g].nffree
      /\ m.sb.fs_cs = w.sb.fs_cs /\ m.sb.fs_cstotal = w.sb.fs_cstotal
  BY <1>3, <1>4, SameTotals
<1>6. SummariesExact
  BY <1>1, <1>2, <1>5 DEF SummariesExact
<1>7. ClustersExact
  <2> SUFFICES ASSUME NEW g \in Group
               PROVE  /\ m.cg[g].clusters = Summary(g, m.cg[g].free).clusters
                      /\ m.cg[g].clustersum = Summary(g, m.cg[g].free).clustersum
    BY DEF ClustersExact
  <2>1. PICK c, e : c = m.cg[g] /\ e = Summary(g, c.free)
    OBVIOUS
  <2>2. c.free \subseteq DataOf(g)
    BY <1>2, <2>1
  <2>3. e \in CgShape /\ e.free = c.free /\ GroupRight(e, g)
    BY <2>1, <2>2, SummaryIs
  <2>4. GroupRight(c, g) /\ Shape(m)
    BY <2>1 DEF Exact
  <2>5. c \in CgShape
    BY <2>1, <2>4, ShapeIs
  <2>6. c.clusters = e.clusters /\ c.clustersum = e.clustersum
    BY <2>3, <2>4, <2>5, SameCounts
  <2> QED  BY <2>1, <2>6
<1> QED  BY <1>6, <1>7 DEF CountsExact

(* On exact maps, the searches find what there is.                         *)
LEMMA ExactSearches == Exact(m) => SearchesExact
<1> SUFFICES ASSUME Exact(m) PROVE SearchesExact
  OBVIOUS
<1>1. NearestFound
  <2> SUFFICES ASSUME NEW g \in Group, NEW p \in BlockStarts(g)
               PROVE  LET blocks == FreeBlocks(g, m.cg[g].free)
                          got    == block_free_find(g, m.cg[g].free, p)
                      IN  IF blocks = {} THEN got = -1
                          ELSE got \in blocks /\ \A b \in blocks : Abs(p - got) <= Abs(p - b)
    BY DEF NearestFound
  <2>1. PICK A : A = m.cg[g].free
    OBVIOUS
  <2>2. /\ FreeBlocks(g, A) = {} => block_free_find(g, A, p) = -1
        /\ FreeBlocks(g, A) # {} =>
              /\ block_free_find(g, A, p) \in FreeBlocks(g, A)
              /\ \A b \in FreeBlocks(g, A) : Abs(p - block_free_find(g, A, p)) <= Abs(p - b)
    BY FindIs
  <2> QED  BY <2>1, <2>2, Zenon
<1>2. FailsOnlyFull
  <2> SUFFICES ASSUME NEW g \in Group, NEW b \in BlockStarts(g)
               PROVE  LET got == block_allocate(m, cgbase(g) + b).got
                      IN  IF \A h \in Group : FreeBlocks(h, m.cg[h].free) = {} THEN got = 0
                          ELSE got # 0 /\ BlockAt(got) \subseteq FreeFrags(m)
    BY DEF FailsOnlyFull
  <2>1. PICK res : res = block_allocate(m, cgbase(g) + b)
    OBVIOUS
  <2>2. \/ /\ \A h \in Group : FreeBlocks(h, m.cg[h].free) = {}
           /\ block_allocate(m, cgbase(g) + b) = [got |-> 0, m |-> m]
        \/ \E h \in Group : \E c \in FreeBlocks(h, m.cg[h].free) :
              block_allocate(m, cgbase(g) + b) = TakeBlock(m, h, c)
    BY AllocateIs
  <2>3. CASE /\ \A h \in Group : FreeBlocks(h, m.cg[h].free) = {}
             /\ res = [got |-> 0, m |-> m]
    <3>1. res.got = 0
      BY <2>3
    <3> QED  BY <2>1, <2>3, <3>1
  <2>4. CASE \E h \in Group : \E c \in FreeBlocks(h, m.cg[h].free) : res = TakeBlock(m, h, c)
    <3>1. PICK h \in Group : \E c \in FreeBlocks(h, m.cg[h].free) : res = TakeBlock(m, h, c)
      BY <2>4
    <3>2. PICK c \in FreeBlocks(h, m.cg[h].free) : res = TakeBlock(m, h, c)
      BY <3>1
    <3>3. PICK A, got : A = m.cg[h].free /\ got = cgbase(h) + c
      OBVIOUS
    <3>4. res.got = got
      BY <3>2, <3>3 DEF TakeBlock
    <3>5. c \in BlockStarts(h) /\ BlockAt(c) \subseteq A
      BY <3>3 DEF FreeBlocks, block_avail
    <3>6. A \subseteq DataOf(h)
      BY <3>3 DEF Exact, GroupRight
    <3>7. /\ c \in Nat /\ FRAGS_PER_BLK \in Nat /\ FRAGS_PER_BLK > 0 /\ cgbase(h) \in Int
      <4>1. fs_fpg \in Nat /\ h \in Nat
        BY DataIs DEF Group
      <4>2. cgbase(h) \in Int
        BY <4>1 DEF cgbase
      <4> QED  BY <3>5, <4>2, StartIs, Geometry
    <3>8. got # 0
      <4>1. c \in BlockAt(c)
        BY <3>7 DEF BlockAt, FragsOf
      <4>2. c \in DataOf(h)
        BY <3>5, <3>6, <4>1
      <4>3. cgbase(h) + c # 0
        BY <4>2, DataIs
      <4> QED  BY <3>3, <4>3
    <3>9. BlockAt(got) \subseteq FreeFrags(m)
      <4> SUFFICES ASSUME NEW z \in BlockAt(got) PROVE z \in FreeFrags(m)
        OBVIOUS
      <4>1. z \in Int /\ got <= z /\ z <= got + FRAGS_PER_BLK - 1
        BY <3>3, <3>7 DEF BlockAt, FragsOf
      <4>2. PICK f : f = z - cgbase(h)
        OBVIOUS
      <4>3. f \in BlockAt(c) /\ z = cgbase(h) + f
        BY <3>3, <3>7, <4>1, <4>2 DEF BlockAt, FragsOf
      <4>4. f \in A
        BY <3>5, <4>3
      <4> QED  BY <3>3, <4>3, <4>4 DEF FreeFrags
    <3>10. ~ \A k \in Group : FreeBlocks(k, m.cg[k].free) = {}
      <4>1. FreeBlocks(h, m.cg[h].free) # {}
        BY <3>2
      <4> QED  BY <4>1
    <3> QED  BY <2>1, <3>4, <3>8, <3>9, <3>10
  <2> QED  BY <2>1, <2>2, <2>3, <2>4
<1> QED  BY <1>1, <1>2 DEF SearchesExact

(* The inductive invariant.                                                *)
MapsStayExact == Exact(m)

(* alloc.c keeps the maps exact: each call that file.c makes leaves every  *)
(* group's counts right and the superblock's equal to them.                *)
LEMMA Invariance == Spec => []MapsStayExact
<1>1. Init => MapsStayExact
  BY ExactInit DEF MapsStayExact
<1>2. MapsStayExact /\ [Next]_m => MapsStayExact'
  BY ExactStep DEF MapsStayExact
<1> QED  BY <1>1, <1>2, PTL DEF Spec

(* Whatever blocks and frags are given out and given back, and on a volume *)
(* of whatever geometry, the counts that alloc.c adjusts by the change     *)
(* that it makes are those of the bitmap: the runs of free frags of every  *)
(* length, the free blocks, the other free frags, the clusters of free     *)
(* blocks, and the sums of them in the superblock.                         *)
THEOREM CountsStayExact == Spec => []CountsExact
<1>1. MapsStayExact => CountsExact
  BY ExactCounts DEF MapsStayExact
<1> QED  BY <1>1, Invariance, PTL

(* None of the consistency checks of alloc.c ever fails and makes the      *)
(* volume read-only, block_allocate() included when frags_allocate() calls *)
(* it for a block that it is about to split.                               *)
THEOREM InconsistencyNeverSeen == Spec => []NeverInconsistent
<1>1. MapsStayExact => NeverInconsistent
  BY DEF MapsStayExact, Exact, NeverInconsistent
<1> QED  BY <1>1, Invariance, PTL

(* block_free_find() returns a free block of the group to which none is    *)
(* nearer, although it stops looking early, and block_allocate(), steered  *)
(* by the counts, fails only when there is no free block in any group.     *)
THEOREM SearchesStayExact == Spec => []SearchesExact
<1>1. MapsStayExact => SearchesExact
  BY ExactSearches DEF MapsStayExact
<1> QED  BY <1>1, Invariance, PTL
=============================================================================
