----------------------------- MODULE ListProofs -----------------------------
(***************************************************************************)
(* What unlinking, linking and cycling do to a list that holds every       *)
(* member once: the buffers of the cache, the locks of a volume, the       *)
(* cylinder groups in memory.                                              *)
(***************************************************************************)
EXTENDS Integers, Lists, TLAPS, SequenceTheorems, WellFoundedInduction

(* s lists the members of S, each once; all are in N.                      *)
Listing(s, S, N) == s \in Seq(N) /\ NoRepeats(s) /\ Elems(s) = S

(* A set of naturals that is not empty has a least member.                 *)
LEMMA LeastNatural ==
    ASSUME NEW T, T \subseteq Nat, T # {}
    PROVE  \E x \in T : \A y \in T : x <= y
<1> DEFINE R == OpToRel(<, Nat)
<1>1. PICK x \in T : \A y \in T : ~(<<y, x>> \in R)
  <2>1. IsWellFoundedOn(R, Nat)
    BY NatLessThanWellFounded, Zenon
  <2> HIDE DEF R
  <2> QED  BY <2>1, WFMin, Zenon
<1>2. \A y \in T : y < x => <<y, x>> \in R
  BY DEF OpToRel
<1> HIDE DEF R
<1>3. \A y \in T : ~(y < x)
  BY <1>1, <1>2, Zenon
<1>4. x \in Nat /\ \A y \in T : y \in Nat
  OBVIOUS
<1>5. \A y \in T : x <= y
  BY <1>3, <1>4
<1> QED  BY <1>5

(* cache_remove(): Without takes out exactly one node.                     *)
LEMMA ListingWithout ==
    ASSUME NEW N, NEW s, NEW S, Listing(s, S, N), NEW n \in S
    PROVE  /\ Listing(Without(s, n), S \ {n}, N)
           /\ Len(Without(s, n)) = Len(s) - 1
<1> DEFINE p == Position(s, n)
           w == Without(s, n)
<1>1. s \in Seq(N) /\ Len(s) \in Nat /\ \A i \in 1..Len(s) : s[i] \in N
  BY DEF Listing
<1>2. p \in 1..Len(s) /\ s[p] = n
  BY DEF Listing, Elems, Position
<1>3. w = [i \in 1..(Len(s) - 1) |-> IF i < p THEN s[i] ELSE s[i + 1]]
  BY DEF Without
<1>4. w \in Seq(N) /\ Len(w) = Len(s) - 1
  BY <1>1, <1>2, <1>3
<1>5. \A i \in 1..Len(w) : w[i] = IF i < p THEN s[i] ELSE s[i + 1]
  BY <1>3, <1>4
<1>6. NoRepeats(w)
  BY <1>1, <1>2, <1>4, <1>5 DEF Listing, NoRepeats
<1>7. Elems(w) = S \ {n}
  <2>1. ASSUME NEW i \in 1..Len(w) PROVE w[i] \in S \ {n}
    BY <1>1, <1>2, <1>4, <1>5, <2>1 DEF Listing, NoRepeats, Elems
  <2>2. ASSUME NEW m \in S, m # n PROVE \E i \in 1..Len(w) : w[i] = m
    <3>1. PICK j \in 1..Len(s) : s[j] = m
      BY DEF Listing, Elems
    <3>2. CASE j < p
      BY <1>1, <1>2, <1>4, <1>5, <3>1, <3>2
    <3>3. CASE j > p
      <4>1. j - 1 \in 1..Len(w) /\ ~(j - 1 < p) /\ (j - 1) + 1 = j
        BY <1>1, <1>2, <1>4, <3>3
      <4> QED  BY <1>5, <3>1, <4>1
    <3> QED  BY <1>1, <1>2, <3>1, <3>2, <3>3, <2>2
  <2> HIDE DEF w
  <2> QED  BY <2>1, <2>2 DEF Elems
<1> QED  BY <1>4, <1>6, <1>7 DEF Listing

(* cache_add(): the two lists take a node they do not hold.                *)
LEMMA ListingAppend ==
    ASSUME NEW N, NEW s, NEW S, Listing(s, S, N), NEW n \in N, n \notin S
    PROVE  /\ Listing(Append(s, n), S \cup {n}, N)
           /\ Len(Append(s, n)) = Len(s) + 1
<1> DEFINE a == Append(s, n)
<1>1. s \in Seq(N) /\ Len(s) \in Nat
  BY DEF Listing
<1>2. a \in Seq(N) /\ Len(a) = Len(s) + 1
  BY <1>1
<1>3. \A i \in 1..Len(a) : a[i] = IF i <= Len(s) THEN s[i] ELSE n
  BY <1>1, <1>2
<1>4. \A i \in 1..Len(s) : s[i] \in S
  BY DEF Listing, Elems
<1> HIDE DEF a
<1>5. NoRepeats(a)
  BY <1>1, <1>2, <1>3, <1>4 DEF Listing, NoRepeats
<1>6. Elems(a) = S \cup {n}
  <2>1. \A i \in 1..Len(a) : a[i] \in S \cup {n}
    BY <1>1, <1>2, <1>3, <1>4
  <2>2. n \in Elems(a)
    BY <1>1, <1>2, <1>3 DEF Elems
  <2>3. \A m \in S : m \in Elems(a)
    <3> SUFFICES ASSUME NEW m \in S PROVE m \in Elems(a)
      OBVIOUS
    <3>1. PICK j \in 1..Len(s) : s[j] = m
      BY DEF Listing, Elems
    <3> QED  BY <1>1, <1>2, <1>3, <3>1 DEF Elems
  <2> QED  BY <2>1, <2>2, <2>3 DEF Elems
<1> QED  BY <1>2, <1>5, <1>6 DEF Listing, a

LEMMA ListingPrepend ==
    ASSUME NEW N, NEW s, NEW S, Listing(s, S, N), NEW n \in N, n \notin S
    PROVE  Listing(<<n>> \o s, S \cup {n}, N)
<1> DEFINE a == <<n>> \o s
<1>1. s \in Seq(N) /\ Len(s) \in Nat /\ <<n>> \in Seq(N) /\ Len(<<n>>) = 1
  BY DEF Listing
<1>2. a \in Seq(N) /\ Len(a) = Len(s) + 1
  BY <1>1, ConcatProperties
<1>3. \A i \in 1..Len(a) : a[i] = IF i = 1 THEN n ELSE s[i - 1]
  BY <1>1, <1>2, ConcatProperties
<1>4. \A i \in 1..Len(s) : s[i] \in S
  BY DEF Listing, Elems
<1> HIDE DEF a
<1>5. NoRepeats(a)
  <2> SUFFICES ASSUME NEW i \in 1..Len(a), NEW j \in 1..Len(a), a[i] = a[j]
               PROVE  i = j
    BY DEF NoRepeats
  <2>1. CASE i = 1 \/ j = 1
    <3>1. \A h \in 1..Len(a) : h # 1 => h - 1 \in 1..Len(s)
      BY <1>1, <1>2
    <3>2. \A h \in 1..Len(a) : h # 1 => a[h] \in S
      BY <1>3, <1>4, <3>1
    <3> QED  BY <1>1, <1>2, <1>3, <2>1, <3>2
  <2>2. CASE i # 1 /\ j # 1
    <3>1. i - 1 \in 1..Len(s) /\ j - 1 \in 1..Len(s) /\ s[i - 1] = s[j - 1]
      BY <1>1, <1>2, <1>3, <2>2
    <3>2. i - 1 = j - 1
      BY <3>1 DEF Listing, NoRepeats
    <3> QED  BY <3>2
  <2> QED  BY <2>1, <2>2
<1>6. Elems(a) = S \cup {n}
  <2>1. \A i \in 1..Len(a) : a[i] \in S \cup {n}
    BY <1>1, <1>2, <1>3, <1>4
  <2>2. n \in Elems(a)
    BY <1>1, <1>2, <1>3 DEF Elems
  <2>3. \A m \in S : m \in Elems(a)
    <3> SUFFICES ASSUME NEW m \in S PROVE m \in Elems(a)
      OBVIOUS
    <3>1. PICK j \in 1..Len(s) : s[j] = m
      BY DEF Listing, Elems
    <3>2. j + 1 \in 1..Len(a) /\ a[j + 1] = m
      BY <1>1, <1>2, <1>3, <3>1
    <3> QED  BY <3>2 DEF Elems
  <2> QED  BY <2>1, <2>2, <2>3 DEF Elems
<1> QED  BY <1>2, <1>5, <1>6 DEF Listing, a

(* Taking the least recently used node.                                    *)
LEMMA ListingTail ==
    ASSUME NEW N, NEW s, NEW S, Listing(s, S, N), s # <<>>
    PROVE  /\ Head(s) \in S /\ Head(s) = s[1]
           /\ Listing(Tail(s), S \ {Head(s)}, N)
           /\ Len(Tail(s)) = Len(s) - 1
<1> DEFINE t == Tail(s)
<1>1. s \in Seq(N) /\ Len(s) \in Nat /\ Len(s) # 0
  BY DEF Listing
<1>2. t \in Seq(N) /\ Len(t) = Len(s) - 1 /\ Head(s) = s[1]
  BY <1>1, HeadTailProperties
<1>3. \A i \in 1..Len(t) : t[i] = s[i + 1]
  BY <1>1, <1>2, HeadTailProperties
<1> HIDE DEF t
<1>4. NoRepeats(t)
  BY <1>1, <1>2, <1>3 DEF Listing, NoRepeats
<1>5. Head(s) \in S
  BY <1>1, <1>2 DEF Listing, Elems
<1>6. Elems(t) = S \ {Head(s)}
  <2>1. \A i \in 1..Len(t) : t[i] \in S \ {Head(s)}
    BY <1>1, <1>2, <1>3 DEF Listing, NoRepeats, Elems
  <2>2. ASSUME NEW m \in S, m # Head(s) PROVE m \in Elems(t)
    <3>1. PICK j \in 1..Len(s) : s[j] = m
      BY DEF Listing, Elems
    <3>2. j - 1 \in 1..Len(t) /\ t[j - 1] = m
      BY <1>1, <1>2, <1>3, <2>2, <3>1
    <3> QED  BY <3>2 DEF Elems
  <2> QED  BY <2>1, <2>2 DEF Elems
<1> QED  BY <1>2, <1>4, <1>5, <1>6 DEF Listing, t

(* Cycling through the list loses no node.                                 *)
LEMMA ListingRotated ==
    ASSUME NEW N, NEW s, NEW S, Listing(s, S, N), NEW k \in 0..(Len(s) - 1)
    PROVE  /\ Listing(Rotated(s, k), S, N)
           /\ Len(Rotated(s, k)) = Len(s)
           /\ Rotated(s, k)[1] = s[k + 1]
           /\ Rotated(s, k) # <<>>
<1> DEFINE r == Rotated(s, k)
<1>1. s \in Seq(N) /\ Len(s) \in Nat /\ Len(s) # 0
      /\ \A i \in 1..Len(s) : s[i] \in N
  BY DEF Listing
<1>2. r = [i \in 1..Len(s) |-> IF i + k <= Len(s) THEN s[i + k]
                                                  ELSE s[i + k - Len(s)]]
  BY DEF Rotated
<1>3. r \in Seq(N) /\ Len(r) = Len(s)
  BY <1>1, <1>2
<1>4. \A i \in 1..Len(r) : r[i] = IF i + k <= Len(s) THEN s[i + k]
                                                     ELSE s[i + k - Len(s)]
  BY <1>2, <1>3
<1>5. r[1] = s[k + 1] /\ r # <<>>
  BY <1>1, <1>3, <1>4
<1> HIDE DEF r
<1> DEFINE q(i) == IF i + k <= Len(s) THEN i + k ELSE i + k - Len(s)
<1>r. k \in Int /\ 0 <= k /\ k < Len(s)
  BY <1>1
<1>t. \A i \in 1..Len(r) : q(i) \in 1..Len(s) /\ r[i] = s[q(i)]
  BY <1>1, <1>3, <1>4, <1>r
<1>6. NoRepeats(r)
  <2> SUFFICES ASSUME NEW i \in 1..Len(r), NEW j \in 1..Len(r), r[i] = r[j]
               PROVE  i = j
    BY DEF NoRepeats
  <2>1. q(i) = q(j)
    <3> HIDE DEF q
    <3> QED  BY <1>t DEF Listing, NoRepeats
  <2> QED  BY <1>1, <1>3, <1>r, <2>1
<1>7. Elems(r) = S
  <2>1. \A i \in 1..Len(r) : r[i] \in S
    <3> HIDE DEF q
    <3> QED  BY <1>t DEF Listing, Elems
  <2>2. ASSUME NEW m \in S PROVE m \in Elems(r)
    <3>1. PICK j \in 1..Len(s) : s[j] = m
      BY DEF Listing, Elems
    <3>2. CASE j > k
      <4>1. j - k \in 1..Len(r) /\ q(j - k) = j
        BY <1>1, <1>3, <1>r, <3>1, <3>2
      <4>2. r[j - k] = m
        BY <1>t, <3>1, <4>1
      <4> QED  BY <4>1, <4>2 DEF Elems
    <3>3. CASE j <= k
      <4>1. j - k + Len(s) \in 1..Len(r) /\ q(j - k + Len(s)) = j
        BY <1>1, <1>3, <1>r, <3>1, <3>3
      <4>2. r[j - k + Len(s)] = m
        BY <1>t, <3>1, <4>1
      <4> QED  BY <4>1, <4>2 DEF Elems
    <3> QED  BY <1>1, <1>r, <3>2, <3>3
  <2> QED  BY <2>1, <2>2 DEF Elems
<1> QED  BY <1>3, <1>5, <1>6, <1>7 DEF Listing, r
=============================================================================
