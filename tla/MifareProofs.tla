----------------------------- MODULE MifareProofs -----------------------------
(***************************************************************************)
(* Lemmas about the plans of MifareClassic and MifareUltralight, for every *)
(* number of sectors, size of a byte, message and capacity: what they are  *)
(* made of, that they write each cell that is to change, and that they     *)
(* authenticate to a sector before they write to it.                       *)
(*                                                                         *)
(* The plans are joined from parts with FlattenSeq, whose recursion is     *)
(* treated by an induction over sets of natural numbers, stated from the   *)
(* library's least-element principle.                                      *)
(***************************************************************************)
EXTENDS MifareUltralight, TLAPS, SequenceTheorems, WellFoundedInduction

-----------------------------------------------------------------------------
(* Induction *)

\* A non-empty set of natural numbers has a least element.
LEMMA NatLeast ==
  ASSUME NEW T, T \subseteq Nat, T # {}
  PROVE  \E x \in T : \A y \in T : x <= y
<1> DEFINE R == OpToRel(<, Nat)
<1>1. IsWellFoundedOn(R, Nat)
  BY NatLessThanWellFounded
<1>2. \A x, y \in Nat : y < x => <<y, x>> \in R
  BY DEF OpToRel
<1> HIDE DEF R
<1>3. PICK x \in T : \A y \in T : <<y, x>> \notin R
  BY <1>1, WFMin
<1>4. ASSUME NEW y \in T
      PROVE  x <= y
  <2>1. x \in Nat /\ y \in Nat
    OBVIOUS
  <2>2. ~(y < x)
    BY <1>2, <1>3, <2>1
  <2> QED
    BY <2>1, <2>2
<1> QED
  BY <1>4

LEMMA SetInduction ==
  ASSUME NEW T, 0 \in T, \A n \in Nat : n \in T => n + 1 \in T
  PROVE  \A n \in Nat : n \in T
<1> SUFFICES ASSUME NEW n \in Nat, n \notin T
             PROVE  FALSE
  OBVIOUS
<1>1. PICK x \in {k \in Nat : k \notin T} : \A y \in {k \in Nat : k \notin T} : x <= y
  BY NatLeast
<1>2. x # 0 /\ x - 1 \in Nat /\ x - 1 \in T
  BY <1>1
<1> QED
  BY <1>1, <1>2

-----------------------------------------------------------------------------
(* FlattenSeq *)

\* The function by which FlattenSeq is defined, on the first n parts
Joins(g, parts, n) ==
  g = [i \in 1..n |-> IF i = 1 THEN parts[i] ELSE g[i - 1] \o parts[i]]

LEMMA JoinsExists ==
  ASSUME NEW parts, NEW n \in Nat
  PROVE  \E g : Joins(g, parts, n)
<1> DEFINE T == {k \in Nat : \E g : Joins(g, parts, k)}
<1>1. 0 \in T
  <2> DEFINE g == [i \in 1..0 |-> parts]
  <2>1. g = [i \in 1..0 |-> IF i = 1 THEN parts[i] ELSE g[i - 1] \o parts[i]]
    OBVIOUS
  <2> QED
    BY <2>1 DEF Joins
<1>2. ASSUME NEW k \in Nat, k \in T
      PROVE  k + 1 \in T
  <2>1. PICK g : Joins(g, parts, k)
    BY <1>2
  <2> DEFINE h == [i \in 1..(k + 1) |->
                     IF i <= k THEN g[i] ELSE IF i = 1 THEN parts[i] ELSE g[i - 1] \o parts[i]]
  <2>2. ASSUME NEW i \in 1..(k + 1)
        PROVE  h[i] = IF i = 1 THEN parts[i] ELSE h[i - 1] \o parts[i]
    <3>1. i # 1 => i - 1 \in 1..(k + 1) /\ i - 1 <= k
      OBVIOUS
    <3>2. i # 1 => h[i - 1] = g[i - 1]
      BY <3>1
    <3>3. \A j \in 1..k : g[j] = IF j = 1 THEN parts[j] ELSE g[j - 1] \o parts[j]
      <4>1. g = [j \in 1..k |-> IF j = 1 THEN parts[j] ELSE g[j - 1] \o parts[j]]
        BY <2>1 DEF Joins
      <4> QED
        BY <4>1
    <3>4. i <= k => i \in 1..k
      OBVIOUS
    <3>5. h[i] = IF i <= k THEN g[i] ELSE IF i = 1 THEN parts[i] ELSE g[i - 1] \o parts[i]
      OBVIOUS
    <3> HIDE DEF h
    <3> QED
      BY <3>2, <3>3, <3>4, <3>5
  <2>3. h = [i \in 1..(k + 1) |-> IF i = 1 THEN parts[i] ELSE h[i - 1] \o parts[i]]
    <3>1. DOMAIN h = 1..(k + 1) /\ h = [i \in 1..(k + 1) |-> h[i]]
      OBVIOUS
    <3> HIDE DEF h
    <3> QED
      BY <2>2, <3>1
  <2> HIDE DEF h
  <2>4. Joins(h, parts, k + 1)
    BY <2>3 DEF Joins
  <2>5. k + 1 \in Nat
    OBVIOUS
  <2> QED
    BY <2>4, <2>5
<1> HIDE DEF T
<1>3. \A k \in Nat : k \in T
  BY <1>1, <1>2, SetInduction
<1> QED
  BY <1>3 DEF T

LEMMA FlattenJoins ==
  ASSUME NEW parts, Len(parts) \in Nat, Len(parts) # 0
  PROVE  \E g : Joins(g, parts, Len(parts)) /\ FlattenSeq(parts) = g[Len(parts)]
<1> DEFINE f == CHOOSE g : g = [i \in 1..Len(parts) |->
                                 IF i = 1 THEN parts[i] ELSE g[i - 1] \o parts[i]]
<1>1. FlattenSeq(parts) = f[Len(parts)]
  BY DEF FlattenSeq
<1>2. \E g : g = [i \in 1..Len(parts) |-> IF i = 1 THEN parts[i] ELSE g[i - 1] \o parts[i]]
  BY JoinsExists DEF Joins
<1>3. f = [i \in 1..Len(parts) |-> IF i = 1 THEN parts[i] ELSE f[i - 1] \o parts[i]]
  BY <1>2
<1> HIDE DEF f
<1> QED
  BY <1>1, <1>3 DEF Joins

\* p is the first n parts put together, the k-th of them behind off[k] elements.
Layout(p, parts, n, off) ==
  /\ off \in [1..n -> Nat]
  /\ \A k \in 1..n : off[k] + Len(parts[k]) <= Len(p)
  /\ \A k \in 1..n : \A j \in 1..Len(parts[k]) : p[off[k] + j] = parts[k][j]
  /\ \A k, l \in 1..n : k < l => off[k] + Len(parts[k]) <= off[l]
  /\ \A i \in 1..Len(p) : \E k \in 1..n : \E j \in 1..Len(parts[k]) : i = off[k] + j

LEMMA LayoutGrows ==
  ASSUME NEW S, NEW p \in Seq(S), NEW parts, NEW n \in Nat, NEW off, Layout(p, parts, n, off),
         \A k \in 1..(n + 1) : parts[k] \in Seq(S)
  PROVE  /\ p \o parts[n + 1] \in Seq(S)
         /\ \E off2 : Layout(p \o parts[n + 1], parts, n + 1, off2)
<1> DEFINE q == p \o parts[n + 1]
           off2 == [k \in 1..(n + 1) |-> IF k <= n THEN off[k] ELSE Len(p)]
<1>1. /\ parts[n + 1] \in Seq(S) /\ Len(p) \in Nat /\ Len(parts[n + 1]) \in Nat
      /\ q \in Seq(S) /\ Len(q) = Len(p) + Len(parts[n + 1])
      /\ \A i \in 1..Len(p) + Len(parts[n + 1]) :
           q[i] = IF i <= Len(p) THEN p[i] ELSE parts[n + 1][i - Len(p)]
  <2>1. parts[n + 1] \in Seq(S)
    OBVIOUS
  <2> QED
    BY <2>1, ConcatProperties
<1>2. \A k \in 1..n : Len(parts[k]) \in Nat /\ off[k] \in Nat
  BY DEF Layout
<1>s. Len(p) \in Nat /\ Len(parts[n + 1]) \in Nat
  BY <1>1
<1>3. /\ off2 \in [1..(n + 1) -> Nat] /\ off2[n + 1] = Len(p)
      /\ \A k \in 1..n : off2[k] = off[k]
  BY <1>1, <1>2
<1>4. \A k \in 1..(n + 1) : k \in 1..n \/ k = n + 1
  OBVIOUS
<1> HIDE DEF q, off2
<1>5. ASSUME NEW k \in 1..(n + 1)
      PROVE  off2[k] + Len(parts[k]) <= Len(q)
  <2>1. CASE k \in 1..n
    <3>1. off[k] + Len(parts[k]) <= Len(p)
      BY <2>1 DEF Layout
    <3>2. off2[k] = off[k] /\ off[k] \in Nat /\ Len(parts[k]) \in Nat
      BY <1>2, <1>3, <2>1
    <3> QED
      BY <1>1, <3>1, <3>2
  <2>2. CASE k = n + 1
    BY <1>1, <1>3, <2>2
  <2> QED
    BY <1>4, <2>1, <2>2
<1>6. ASSUME NEW k \in 1..(n + 1), NEW j \in 1..Len(parts[k])
      PROVE  q[off2[k] + j] = parts[k][j]
  <2>1. CASE k \in 1..n
    <3>1. off[k] + Len(parts[k]) <= Len(p) /\ p[off[k] + j] = parts[k][j]
      BY <2>1 DEF Layout
    <3> DEFINE i == off[k] + j
    <3>2. i \in 1..Len(p) + Len(parts[n + 1]) /\ i <= Len(p) /\ i = off2[k] + j
      <4>1. /\ off2[k] = off[k] /\ off[k] \in Nat /\ Len(parts[k]) \in Nat
            /\ j \in Nat /\ 1 <= j /\ j <= Len(parts[k])
        BY <1>2, <1>3, <2>1
      <4>s. \A o, m, b, e \in Nat : 1 <= j /\ j <= m /\ o + m <= b =>
              o + j <= b /\ o + j \in 1..b + e
        BY <4>1
      <4>2. i <= Len(p) /\ i \in 1..Len(p) + Len(parts[n + 1])
        BY Zenon, <1>s, <3>1, <4>1, <4>s
      <4> QED
        BY <4>1, <4>2
    <3>3. p[i] = parts[k][j]
      BY <3>1
    <3> HIDE DEF i
    <3> QED
      BY <1>1, <3>2, <3>3
  <2>2. CASE k = n + 1
    <3> DEFINE i == Len(p) + j
    <3>1. /\ i \in 1..Len(p) + Len(parts[n + 1]) /\ ~(i <= Len(p))
          /\ i - Len(p) = j /\ i = off2[k] + j
      <4>1. off2[k] = Len(p) /\ j \in Nat /\ 1 <= j /\ j <= Len(parts[n + 1])
        BY <1>s, <1>3, <2>2
      <4> QED
        BY <1>s, <4>1
    <3> HIDE DEF i
    <3> QED
      BY <1>1, <2>2, <3>1
  <2> QED
    BY <1>4, <2>1, <2>2
<1>7. ASSUME NEW k \in 1..(n + 1), NEW l \in 1..(n + 1), k < l
      PROVE  off2[k] + Len(parts[k]) <= off2[l]
  <2>1. k \in 1..n
    BY <1>7
  <2>2. CASE l \in 1..n
    <3>1. off[k] + Len(parts[k]) <= off[l]
      BY <1>7, <2>1, <2>2 DEF Layout
    <3> QED
      BY <1>3, <2>1, <2>2, <3>1
  <2>3. CASE l = n + 1
    <3>1. off[k] + Len(parts[k]) <= Len(p)
      BY <2>1 DEF Layout
    <3> QED
      BY <1>3, <2>1, <2>3, <3>1
  <2> QED
    BY <1>4, <2>2, <2>3
<1>8. ASSUME NEW i \in 1..Len(q)
      PROVE  \E k \in 1..(n + 1) : \E j \in 1..Len(parts[k]) : i = off2[k] + j
  <2>1. CASE i <= Len(p)
    <3>1. i \in 1..Len(p)
      BY <1>1, <2>1
    <3>2. PICK k \in 1..n : \E j \in 1..Len(parts[k]) : i = off[k] + j
      BY <3>1 DEF Layout
    <3>3. k \in 1..(n + 1) /\ off2[k] = off[k]
      BY <1>3
    <3> QED
      BY <3>2, <3>3
  <2>2. CASE ~(i <= Len(p))
    <3>1. /\ n + 1 \in 1..(n + 1) /\ i - Len(p) \in 1..Len(parts[n + 1])
          /\ i = off2[n + 1] + (i - Len(p))
      BY <1>1, <1>3, <2>2
    <3> QED
      BY <3>1
  <2> QED
    BY <2>1, <2>2
<1>9. Layout(q, parts, n + 1, off2)
  BY <1>3, <1>5, <1>6, <1>7, <1>8 DEF Layout
<1> QED
  BY <1>1, <1>9 DEF q

\* FlattenSeq puts the parts together in their order.
LEMMA Flatten ==
  ASSUME NEW S, NEW n \in Nat \ {0}, NEW parts \in [1..n -> Seq(S)]
  PROVE  /\ FlattenSeq(parts) \in Seq(S)
         /\ \E off : Layout(FlattenSeq(parts), parts, n, off)
<1>1. parts \in Seq(Seq(S)) /\ Len(parts) = n
  OBVIOUS
<1>2. PICK g : Joins(g, parts, n) /\ FlattenSeq(parts) = g[n]
  BY <1>1, FlattenJoins
<1>3. \A i \in 1..n : g[i] = IF i = 1 THEN parts[i] ELSE g[i - 1] \o parts[i]
  BY <1>2 DEF Joins
<1> DEFINE T == {k \in Nat : k \in 1..n => g[k] \in Seq(S) /\ \E off : Layout(g[k], parts, k, off)}
<1>4. 0 \in T
  OBVIOUS
<1>5. ASSUME NEW k \in Nat, k \in T
      PROVE  k + 1 \in T
  <2> SUFFICES ASSUME k + 1 \in 1..n
               PROVE  g[k + 1] \in Seq(S) /\ \E off : Layout(g[k + 1], parts, k + 1, off)
    OBVIOUS
  <2>1. CASE k = 0
    <3> DEFINE off == [i \in 1..1 |-> 0]
               q == parts[1]
    <3>1. g[1] = q /\ q \in Seq(S) /\ Len(q) \in Nat
      BY <1>3, <2>1
    <3>2. off \in [1..1 -> Nat] /\ off[1] = 0 /\ \A i \in 1..1 : i = 1
      OBVIOUS
    <3> HIDE DEF off
    <3>3. Layout(q, parts, 1, off)
      <4>1. \A j \in 1..Len(q) : 0 + j = j
        OBVIOUS
      <4>2. \A i \in 1..1 : off[i] + Len(parts[i]) <= Len(q)
        BY <3>1, <3>2
      <4>3. \A i \in 1..1 : \A j \in 1..Len(parts[i]) : q[off[i] + j] = parts[i][j]
        BY <3>1, <3>2, <4>1
      <4>4. \A i, l \in 1..1 : i < l => off[i] + Len(parts[i]) <= off[l]
        BY <3>2
      <4>5. \A i \in 1..Len(q) : \E l \in 1..1 : \E j \in 1..Len(parts[l]) : i = off[l] + j
        <5> SUFFICES ASSUME NEW i \in 1..Len(q)
                     PROVE  \E j \in 1..Len(parts[1]) : i = off[1] + j
          BY <3>2
        <5> QED
          BY <3>2, <4>1
      <4> QED
        BY <3>2, <4>2, <4>3, <4>4, <4>5 DEF Layout
    <3> QED
      BY <2>1, <3>1, <3>3
  <2>2. CASE k # 0
    <3>1. k \in 1..n /\ k + 1 # 1 /\ k + 1 - 1 = k /\ 1..(k + 1) \subseteq 1..n
      BY <2>2
    <3>2. g[k + 1] = g[k] \o parts[k + 1]
      <4> DEFINE i == k + 1
      <4>1. i \in 1..n /\ i # 1 /\ i - 1 = k
        BY <2>2
      <4> HIDE DEF i
      <4>2. g[i] = g[k] \o parts[i]
        BY <1>3, <4>1
      <4> QED
        BY <4>2 DEF i
    <3>3. g[k] \in Seq(S) /\ \E off : Layout(g[k], parts, k, off)
      BY <1>5, <3>1
    <3>4. \A i \in 1..(k + 1) : parts[i] \in Seq(S)
      BY <3>1
    <3>5. PICK off : Layout(g[k], parts, k, off)
      BY <3>3
    <3>6. /\ g[k] \o parts[k + 1] \in Seq(S)
          /\ \E off2 : Layout(g[k] \o parts[k + 1], parts, k + 1, off2)
      BY <3>3, <3>4, <3>5, LayoutGrows
    <3> QED
      BY <3>2, <3>6
  <2> QED
    BY <2>1, <2>2
<1> HIDE DEF T
<1>6. n \in T
  BY <1>4, <1>5, SetInduction
<1> QED
  BY <1>2, <1>6 DEF T

-----------------------------------------------------------------------------
(* What a sequence has, and in which order *)

Has(p, x) == \E i \in 1..Len(p) : p[i] = x

\* R is a set of pairs.
InOrder(p, R) == \A i, j \in 1..Len(p) : i < j => <<p[i], p[j]>> \in R

LEMMA ConcatHas ==
  ASSUME NEW S, NEW p \in Seq(S), NEW q \in Seq(S)
  PROVE  /\ p \o q \in Seq(S)
         /\ \A x : Has(p, x) \/ Has(q, x) => Has(p \o q, x)
         /\ \A x : Has(p \o q, x) => Has(p, x) \/ Has(q, x)
<1>1. /\ p \o q \in Seq(S) /\ Len(p \o q) = Len(p) + Len(q)
      /\ \A i \in 1..Len(p) + Len(q) : (p \o q)[i] = IF i <= Len(p) THEN p[i] ELSE q[i - Len(p)]
  BY ConcatProperties
<1>2. Len(p) \in Nat /\ Len(q) \in Nat
  OBVIOUS
<1> DEFINE r == p \o q
<1> HIDE DEF r
<1>3. /\ Len(r) = Len(p) + Len(q)
      /\ \A i \in 1..Len(p) + Len(q) : r[i] = IF i <= Len(p) THEN p[i] ELSE q[i - Len(p)]
  BY <1>1 DEF r
<1>4. ASSUME NEW i \in 1..Len(p)
      PROVE  i \in 1..Len(r) /\ r[i] = p[i]
  <2>1. i \in 1..Len(p) + Len(q) /\ i <= Len(p)
    BY <1>2
  <2> QED
    BY <1>3, <2>1
<1>5. ASSUME NEW i \in 1..Len(q)
      PROVE  Len(p) + i \in 1..Len(r) /\ r[Len(p) + i] = q[i]
  <2> DEFINE k == Len(p) + i
  <2>1. k \in 1..Len(p) + Len(q) /\ ~(k <= Len(p)) /\ k - Len(p) = i
    BY <1>2
  <2> HIDE DEF k
  <2>2. k \in 1..Len(r) /\ r[k] = q[i]
    BY <1>3, <2>1
  <2> QED
    BY <2>2 DEF k
<1>6. ASSUME NEW i \in 1..Len(r)
      PROVE  (\E j \in 1..Len(p) : p[j] = r[i]) \/ (\E j \in 1..Len(q) : q[j] = r[i])
  <2>1. i \in 1..Len(p) + Len(q)
    BY <1>3
  <2>2. CASE i <= Len(p)
    BY <1>2, <1>3, <2>1, <2>2
  <2>3. CASE ~(i <= Len(p))
    <3>1. i - Len(p) \in 1..Len(q)
      BY <1>2, <2>1, <2>3
    <3> QED
      BY <1>3, <2>1, <2>3, <3>1
  <2> QED
    BY <2>2, <2>3
<1>7. \A x : Has(p, x) \/ Has(q, x) => Has(r, x)
  BY <1>4, <1>5 DEF Has
<1>8. \A x : Has(r, x) => Has(p, x) \/ Has(q, x)
  BY <1>6 DEF Has
<1> QED
  BY <1>1, <1>7, <1>8 DEF r

LEMMA FlattenHas ==
  ASSUME NEW S, NEW n \in Nat \ {0}, NEW parts \in [1..n -> Seq(S)]
  PROVE  /\ \A k \in 1..n : \A x : Has(parts[k], x) => Has(FlattenSeq(parts), x)
         /\ \A x : Has(FlattenSeq(parts), x) => \E k \in 1..n : Has(parts[k], x)
<1> DEFINE p == FlattenSeq(parts)
<1>1. PICK off : p \in Seq(S) /\ Layout(p, parts, n, off)
  BY Flatten
<1> HIDE DEF p
<1>2. ASSUME NEW k \in 1..n, NEW j \in 1..Len(parts[k])
      PROVE  \E i \in 1..Len(p) : p[i] = parts[k][j]
  <2>1. /\ off[k] \in Nat /\ off[k] + Len(parts[k]) <= Len(p)
        /\ p[off[k] + j] = parts[k][j]
    BY <1>1 DEF Layout
  <2>2. Len(parts[k]) \in Nat /\ Len(p) \in Nat
    BY <1>1
  <2>3. off[k] + j \in 1..Len(p)
    BY <2>1, <2>2
  <2> QED
    BY <2>1, <2>3
<1>3. ASSUME NEW i \in 1..Len(p)
      PROVE  \E k \in 1..n : \E j \in 1..Len(parts[k]) : parts[k][j] = p[i]
  <2>1. /\ \E k \in 1..n : \E j \in 1..Len(parts[k]) : i = off[k] + j
        /\ \A k \in 1..n : \A j \in 1..Len(parts[k]) : p[off[k] + j] = parts[k][j]
    BY Zenon, <1>1 DEF Layout
  <2>2. PICK k \in 1..n : \E j \in 1..Len(parts[k]) : i = off[k] + j
    BY Zenon, <2>1
  <2>3. PICK j \in 1..Len(parts[k]) : i = off[k] + j
    BY Zenon, <2>2
  <2> QED
    BY Zenon, <2>1, <2>3
<1>4. \A k \in 1..n : \A x : Has(parts[k], x) => Has(p, x)
  <2> SUFFICES ASSUME NEW k \in 1..n, NEW x, Has(parts[k], x)
               PROVE  Has(p, x)
    OBVIOUS
  <2>1. PICK j \in 1..Len(parts[k]) : parts[k][j] = x
    BY Zenon DEF Has
  <2>2. \E i \in 1..Len(p) : p[i] = x
    BY Zenon, <1>2, <2>1
  <2> QED
    BY Zenon, <2>2 DEF Has
<1>5. \A x : Has(p, x) => \E k \in 1..n : Has(parts[k], x)
  BY Zenon, <1>3 DEF Has
<1> QED
  BY <1>4, <1>5 DEF p

LEMMA FlattenInOrder ==
  ASSUME NEW S, NEW n \in Nat \ {0}, NEW parts \in [1..n -> Seq(S)], NEW R,
         \A k \in 1..n : InOrder(parts[k], R),
         \A k, l \in 1..n : k < l =>
           \A i \in 1..Len(parts[k]) : \A j \in 1..Len(parts[l]) :
             <<parts[k][i], parts[l][j]>> \in R
  PROVE  InOrder(FlattenSeq(parts), R)
<1> DEFINE p == FlattenSeq(parts)
<1>1. PICK off : p \in Seq(S) /\ Layout(p, parts, n, off)
  BY Flatten
<1> HIDE DEF p
<1>2. ASSUME NEW x \in 1..Len(p), NEW y \in 1..Len(p), x < y
      PROVE  <<p[x], p[y]>> \in R
  <2>a. PICK k \in 1..n : \E i \in 1..Len(parts[k]) : x = off[k] + i
    BY <1>1 DEF Layout
  <2>1. PICK i \in 1..Len(parts[k]) : x = off[k] + i
    BY <2>a
  <2>b. PICK l \in 1..n : \E j \in 1..Len(parts[l]) : y = off[l] + j
    BY <1>1 DEF Layout
  <2>2. PICK j \in 1..Len(parts[l]) : y = off[l] + j
    BY <2>b
  <2>3. p[x] = parts[k][i] /\ p[y] = parts[l][j]
    BY <1>1, <2>1, <2>2 DEF Layout
  <2>4. /\ off[k] \in Nat /\ off[l] \in Nat
        /\ Len(parts[k]) \in Nat /\ Len(parts[l]) \in Nat
    <3>1. off \in [1..n -> Nat]
      BY <1>1 DEF Layout
    <3>2. parts[k] \in Seq(S) /\ parts[l] \in Seq(S)
      OBVIOUS
    <3> QED
      BY <3>1, <3>2
  <2>5. CASE k = l
    <3>1. i < j
      BY <1>2, <2>1, <2>2, <2>4, <2>5
    <3> QED
      BY <2>3, <2>5, <3>1 DEF InOrder
  <2>6. CASE k < l
    BY <2>3, <2>6
  <2>7. CASE l < k
    <3>1. off[l] + Len(parts[l]) <= off[k]
      BY <1>1, <2>7 DEF Layout
    <3>s. \A o, m, b, u, v \in Nat :
            o + m <= b /\ v \in 1..m /\ 1 <= u => o + v < b + u
      OBVIOUS
    <3>i. i \in Nat /\ 1 <= i /\ j \in Nat
      BY <2>4
    <3>2. off[l] + j < off[k] + i
      BY Zenon, <2>4, <3>1, <3>s, <3>i
    <3>3. y < x
      BY Zenon, <2>1, <2>2, <3>2
    <3>4. x \in Int /\ y \in Int /\ x < y
      BY <1>2
    <3> QED
      BY <3>3, <3>4
  <2> QED
    BY <2>5, <2>6, <2>7
<1>3. InOrder(p, R)
  BY <1>2 DEF InOrder
<1> QED
  BY <1>3 DEF p

-----------------------------------------------------------------------------
(* Blocks *)

\* Four blocks make a sector, the last of them its trailer.
LEMMA SectorOf ==
  ASSUME NEW s \in Nat, NEW i \in 0..3
  PROVE  /\ sect_to_auth(4 * s + i) = s
         /\ TrailerOf(4 * s + i) = 4 * s + 3
         /\ IsFirstBlock(4 * s + i) <=> i = 0
<1>1. (4 * s + i) \div 4 = s /\ (4 * s + i) % 4 = i
  OBVIOUS
<1>2. sect_to_auth(4 * s + i) = s
  BY <1>1 DEF sect_to_auth
<1> QED
  BY <1>1, <1>2 DEF TrailerOf, IsFirstBlock

\* Every block is one of the four of its sector.
LEMMA BlockIs ==
  ASSUME NEW b \in Nat
  PROVE  \E s \in Nat : \E i \in 0..3 : b = 4 * s + i
<1>1. b \div 4 \in Nat /\ b % 4 \in 0..3 /\ b = 4 * (b \div 4) + (b % 4)
  OBVIOUS
<1> QED
  BY <1>1

LEMMA BlockInSector ==
  ASSUME NEW b \in 0..LastBlock
  PROVE  \E s \in 0..Sectors - 1 : \E i \in 0..3 : b = 4 * s + i
<1>1. Sectors \in Nat
  BY ClassicAssumption
<1>2. b \in Nat /\ b <= 4 * Sectors - 1
  BY <1>1 DEF LastBlock
<1>3. PICK s \in Nat : \E i \in 0..3 : b = 4 * s + i
  BY <1>2, BlockIs
<1>4. s \in 0..Sectors - 1
  BY <1>1, <1>2, <1>3
<1> QED
  BY <1>3, <1>4

\* Data blocks are numbered past block 3 and the trailers, in their order.
LEMMA DataBlockIs ==
  ASSUME NEW i \in Nat \ {0}
  PROVE  \E s \in Nat \ {0} : \E r \in 0..2 :
           DataBlock(i) = 4 * s + r /\ i = 3 * (s - 1) + r + 1
<1> DEFINE q == (i - 1) \div 3
           r == (i - 1) % 3
<1>1. q \in Nat /\ r \in 0..2 /\ i - 1 = 3 * q + r
  OBVIOUS
<1>2. DataBlock(i) = 3 + i + q
  BY DEF DataBlock
<1> HIDE DEF q, r
<1> DEFINE s == q + 1
<1>3. s \in Nat \ {0} /\ DataBlock(i) = 4 * s + r /\ i = 3 * (s - 1) + r + 1
  BY <1>1, <1>2
<1> HIDE DEF s
<1>4. \E v \in 0..2 : DataBlock(i) = 4 * s + v /\ i = 3 * (s - 1) + v + 1
  BY <1>1, <1>3
<1> QED
  BY <1>3, <1>4

LEMMA DataBlockOrder ==
  ASSUME NEW i \in Nat \ {0}, NEW j \in Nat \ {0}, i < j
  PROVE  DataBlock(i) < DataBlock(j)
<1>1. PICK s \in Nat \ {0} : \E r \in 0..2 : DataBlock(i) = 4 * s + r /\ i = 3 * (s - 1) + r + 1
  BY DataBlockIs
<1>2. PICK r \in 0..2 : DataBlock(i) = 4 * s + r /\ i = 3 * (s - 1) + r + 1
  BY <1>1
<1>3. PICK u \in Nat \ {0} : \E v \in 0..2 : DataBlock(j) = 4 * u + v /\ j = 3 * (u - 1) + v + 1
  BY DataBlockIs
<1>4. PICK v \in 0..2 : DataBlock(j) = 4 * u + v /\ j = 3 * (u - 1) + v + 1
  BY <1>3
<1> QED
  BY <1>2, <1>4

LEMMA DataBlockFacts ==
  ASSUME NEW i \in Nat \ {0}
  PROVE  DataBlock(i) \in Nat /\ DataBlock(i) > 3 /\ DataBlock(i) # TrailerOf(DataBlock(i))
<1>1. PICK s \in Nat \ {0} : \E r \in 0..2 : DataBlock(i) = 4 * s + r
  BY DataBlockIs
<1>2. PICK r \in 0..2 : DataBlock(i) = 4 * s + r
  BY <1>1
<1>3. s \in Nat /\ r \in 0..3
  OBVIOUS
<1>4. TrailerOf(4 * s + r) = 4 * s + 3
  BY <1>3, SectorOf
<1> QED
  BY <1>2, <1>4

-----------------------------------------------------------------------------
(* Short sequences *)

LEMMA One ==
  ASSUME NEW S, NEW a \in S
  PROVE  <<a>> \in Seq(S) /\ Has(<<a>>, a) /\ Len(<<a>>) = 1 /\ <<a>>[1] = a
<1>1. <<a>> \in Seq(S) /\ Len(<<a>>) = 1 /\ <<a>>[1] = a
  OBVIOUS
<1>2. 1 \in 1..1
  OBVIOUS
<1> QED
  BY <1>1, <1>2 DEF Has

LEMMA Two ==
  ASSUME NEW S, NEW a \in S, NEW b \in S
  PROVE  /\ <<a, b>> \in Seq(S) /\ Has(<<a, b>>, a) /\ Has(<<a, b>>, b)
         /\ Len(<<a, b>>) = 2 /\ <<a, b>>[1] = a /\ <<a, b>>[2] = b
<1> DEFINE t == <<a, b>>
<1>1. t \in Seq(S) /\ Len(t) = 2 /\ t[1] = a /\ t[2] = b
  OBVIOUS
<1>2. 1 \in 1..2 /\ 2 \in 1..2
  OBVIOUS
<1> HIDE DEF t
<1>3. Has(t, a) /\ Has(t, b)
  BY <1>1, <1>2 DEF Has
<1> QED
  BY <1>1, <1>3 DEF t

LEMMA Three ==
  ASSUME NEW S, NEW a \in S, NEW b \in S, NEW c \in S
  PROVE  /\ <<a, b, c>> \in Seq(S)
         /\ Has(<<a, b, c>>, a) /\ Has(<<a, b, c>>, b) /\ Has(<<a, b, c>>, c)
<1> DEFINE t == <<a, b, c>>
<1>1. t \in Seq(S) /\ Len(t) = 3 /\ t[1] = a /\ t[2] = b /\ t[3] = c
  OBVIOUS
<1>2. 1 \in 1..3 /\ 2 \in 1..3 /\ 3 \in 1..3
  OBVIOUS
<1> HIDE DEF t
<1>3. Has(t, a) /\ Has(t, b) /\ Has(t, c)
  BY <1>1, <1>2 DEF Has
<1> QED
  BY <1>1, <1>3 DEF t

LEMMA Four ==
  ASSUME NEW S, NEW a \in S, NEW b \in S, NEW c \in S, NEW d \in S
  PROVE  /\ <<a, b, c, d>> \in Seq(S)
         /\ Has(<<a, b, c, d>>, a) /\ Has(<<a, b, c, d>>, b)
         /\ Has(<<a, b, c, d>>, c) /\ Has(<<a, b, c, d>>, d)
<1> DEFINE t == <<a, b, c, d>>
<1>1. t \in Seq(S) /\ Len(t) = 4 /\ t[1] = a /\ t[2] = b /\ t[3] = c /\ t[4] = d
  OBVIOUS
<1>2. 1 \in 1..4 /\ 2 \in 1..4 /\ 3 \in 1..4 /\ 4 \in 1..4
  OBVIOUS
<1> HIDE DEF t
<1>3. Has(t, a) /\ Has(t, b) /\ Has(t, c) /\ Has(t, d)
  BY <1>1, <1>2 DEF Has
<1> QED
  BY <1>1, <1>3 DEF t

LEMMA Five ==
  ASSUME NEW S, NEW a \in S, NEW b \in S, NEW c \in S, NEW d \in S, NEW e \in S
  PROVE  /\ <<a, b, c, d, e>> \in Seq(S)
         /\ Has(<<a, b, c, d, e>>, a) /\ Has(<<a, b, c, d, e>>, b)
         /\ Has(<<a, b, c, d, e>>, c) /\ Has(<<a, b, c, d, e>>, d)
         /\ Has(<<a, b, c, d, e>>, e)
<1> DEFINE t == <<a, b, c, d, e>>
<1>1. t \in Seq(S) /\ Len(t) = 5 /\ t[1] = a /\ t[2] = b /\ t[3] = c /\ t[4] = d /\ t[5] = e
  OBVIOUS
<1>2. 1 \in 1..5 /\ 2 \in 1..5 /\ 3 \in 1..5 /\ 4 \in 1..5 /\ 5 \in 1..5
  OBVIOUS
<1> HIDE DEF t
<1>3. Has(t, a) /\ Has(t, b) /\ Has(t, c) /\ Has(t, d) /\ Has(t, e)
  BY <1>1, <1>2 DEF Has
<1> QED
  BY <1>1, <1>3 DEF t

\* A sequence given by its elements, perhaps up to a negative number
LEMMA Listed ==
  ASSUME NEW S, NEW k \in Int, NEW f \in [1..k -> S]
  PROVE  /\ f \in Seq(S)
         /\ \A i \in 1..k : Has(f, f[i])
         /\ \A x : Has(f, x) => \E i \in 1..k : x = f[i]
<1> DEFINE n == IF k > 0 THEN k ELSE 0
<1>1. n \in Nat /\ 1..k = 1..n
  OBVIOUS
<1> HIDE DEF n
<1>2. f \in [1..n -> S]
  BY <1>1
<1>3. f \in Seq(S) /\ Len(f) = n
  BY <1>1, <1>2
<1> QED
  BY <1>1, <1>3 DEF Has

LEMMA HasInSeq ==
  ASSUME NEW S, NEW p \in Seq(S), NEW x, Has(p, x)
  PROVE  x \in S
BY DEF Has

-----------------------------------------------------------------------------
(* The plans of format_mifare_classic_ndef_() and                           *)
(* format_mifare_classic_mifare_()                                          *)

FormattedAt(b) ==
  CASE b = 1 -> Mad(1)
    [] b = 2 -> Mad(2)
    [] b = 3 -> Trailer("mad")
    [] b = 4 -> EmptyNdef
    [] b > 4 -> IF b = TrailerOf(b) THEN Trailer("ndef") ELSE Blank

CleanedAt(b) == IF b = TrailerOf(b) THEN Trailer("factory") ELSE Blank

FormatSteps ==
  {Auth(b, "default B", "abort") : b \in 0..LastBlock}
    \cup {Write(b, FormattedAt(b), "abort") : b \in 1..LastBlock}
    \cup {Write(b, FormattedAt(b), "remember") : b \in 1..LastBlock}

CleanSteps ==
  {Auth(b, "default B", "skip") : b \in 0..LastBlock}
    \cup {Write(b, CleanedAt(b), "remember") : b \in 1..LastBlock}

\* The sectors in their order
BySector == {xy \in CleanSteps \X CleanSteps : sect_to_auth(xy[1].cell) <= sect_to_auth(xy[2].cell)}

\* p writes x to the cell c.
Writes(p, c, x) ==
  \E i \in 1..Len(p) : p[i].do = "write" /\ p[i].cell = c /\ p[i].data = x

LEMMA HasWrites ==
  ASSUME NEW p, NEW c, NEW x, NEW fail, Has(p, Write(c, x, fail))
  PROVE  Writes(p, c, x)
BY DEF Has, Writes, Write

LEMMA FormatStepsAre ==
  /\ \A b \in 0..LastBlock : Auth(b, "default B", "abort") \in FormatSteps
  /\ \A b \in 1..LastBlock : \A fail \in {"abort", "remember"} :
       Write(b, FormattedAt(b), fail) \in FormatSteps
<1>1. \A b \in 0..LastBlock : Auth(b, "default B", "abort") \in FormatSteps
  BY Zenon DEF FormatSteps
<1>2. \A b \in 1..LastBlock : \A fail \in {"abort", "remember"} :
        Write(b, FormattedAt(b), fail) \in FormatSteps
  <2>1. \A b \in 1..LastBlock : Write(b, FormattedAt(b), "abort") \in FormatSteps
    BY Zenon DEF FormatSteps
  <2>2. \A b \in 1..LastBlock : Write(b, FormattedAt(b), "remember") \in FormatSteps
    BY Zenon DEF FormatSteps
  <2> QED
    BY <2>1, <2>2
<1> QED
  BY <1>1, <1>2

LEMMA CleanStepsAre ==
  /\ \A b \in 0..LastBlock : Auth(b, "default B", "skip") \in CleanSteps
  /\ \A b \in 1..LastBlock : Write(b, CleanedAt(b), "remember") \in CleanSteps
<1>1. \A b \in 0..LastBlock : Auth(b, "default B", "skip") \in CleanSteps
  BY Zenon DEF CleanSteps
<1>2. \A b \in 1..LastBlock : Write(b, CleanedAt(b), "remember") \in CleanSteps
  BY Zenon DEF CleanSteps
<1> QED
  BY <1>1, <1>2

LEMMA FormatSector0Is ==
  /\ FormatSector0 \in Seq(FormatSteps)
  /\ \A b \in 1..3 : Writes(FormatSector0, b, FormattedAt(b))
<1>1. Sectors \in Nat /\ Sectors > 1 /\ LastBlock \in Nat /\ LastBlock > 4
  BY ClassicAssumption DEF LastBlock
<1>2. /\ FormattedAt(1) = Mad(1) /\ FormattedAt(2) = Mad(2) /\ FormattedAt(3) = Trailer("mad")
  BY DEF FormattedAt
<1>3. /\ 0 \in 0..LastBlock /\ 1 \in 1..LastBlock /\ 2 \in 1..LastBlock /\ 3 \in 1..LastBlock
  BY <1>1
<1> DEFINE a == Auth(0, "default B", "abort")
           w1 == Write(1, Mad(1), "abort")
           w2 == Write(2, Mad(2), "abort")
           w3 == Write(3, Trailer("mad"), "abort")
<1>f. "abort" \in {"abort", "remember"}
  OBVIOUS
<1>4. a \in FormatSteps
  BY <1>3, FormatStepsAre, Zenon
<1>5. w1 \in FormatSteps
  BY <1>2, <1>3, <1>f, FormatStepsAre
<1>6. w2 \in FormatSteps
  BY <1>2, <1>3, <1>f, FormatStepsAre
<1>7. w3 \in FormatSteps
  BY <1>2, <1>3, <1>f, FormatStepsAre
<1>8. FormatSector0 = <<a, w1, w2, w3>>
  BY DEF FormatSector0
<1> HIDE DEF a
<1>9. /\ FormatSector0 \in Seq(FormatSteps)
      /\ Has(FormatSector0, w1) /\ Has(FormatSector0, w2) /\ Has(FormatSector0, w3)
  BY <1>4, <1>5, <1>6, <1>7, <1>8, Four
<1>10. /\ Writes(FormatSector0, 1, Mad(1)) /\ Writes(FormatSector0, 2, Mad(2))
       /\ Writes(FormatSector0, 3, Trailer("mad"))
  BY <1>9, HasWrites
<1>11. \A b \in 1..3 : b = 1 \/ b = 2 \/ b = 3
  OBVIOUS
<1> QED
  BY <1>2, <1>9, <1>10, <1>11

LEMMA FormatSectorIs ==
  ASSUME NEW s \in 1..Sectors - 1
  PROVE  /\ FormatSector(s) \in Seq(FormatSteps)
         /\ \A i \in 0..3 : Writes(FormatSector(s), 4 * s + i, FormattedAt(4 * s + i))
<1>1. Sectors \in Nat /\ s \in Nat /\ s >= 1 /\ s <= Sectors - 1
  BY ClassicAssumption
<1>2. /\ TrailerOf(4 * s) = 4 * s + 3 /\ TrailerOf(4 * s + 1) = 4 * s + 3
      /\ TrailerOf(4 * s + 2) = 4 * s + 3 /\ TrailerOf(4 * s + 3) = 4 * s + 3
  <2>1. 0 \in 0..3 /\ 1 \in 0..3 /\ 2 \in 0..3 /\ 3 \in 0..3 /\ 4 * s + 0 = 4 * s
    BY <1>1
  <2>2. \A i \in 0..3 : TrailerOf(4 * s + i) = 4 * s + 3
    BY <1>1, SectorOf
  <2> QED
    BY <2>1, <2>2
<1>3. /\ FormattedAt(4 * s) = IF s = 1 THEN EmptyNdef ELSE Blank
      /\ FormattedAt(4 * s + 1) = Blank /\ FormattedAt(4 * s + 2) = Blank
      /\ FormattedAt(4 * s + 3) = Trailer("ndef")
  BY <1>1, <1>2 DEF FormattedAt
<1>4. \A i \in 0..3 : 4 * s + i \in 1..LastBlock /\ 4 * s + i \in 0..LastBlock
  BY <1>1 DEF LastBlock
<1>5. \A i \in 0..3 : Write(4 * s + i, FormattedAt(4 * s + i), "remember") \in FormatSteps
  BY <1>4, FormatStepsAre
<1> DEFINE a == Auth(4 * s + 3, "default B", "abort")
           w0 == Write(4 * s, FormattedAt(4 * s), "remember")
           w1 == Write(4 * s + 1, FormattedAt(4 * s + 1), "remember")
           w2 == Write(4 * s + 2, FormattedAt(4 * s + 2), "remember")
           w3 == Write(4 * s + 3, FormattedAt(4 * s + 3), "remember")
<1>6. a \in FormatSteps
  <2>1. 3 \in 0..3
    OBVIOUS
  <2> QED
    BY <1>4, <2>1, FormatStepsAre
<1>7. w0 \in FormatSteps /\ w1 \in FormatSteps /\ w2 \in FormatSteps /\ w3 \in FormatSteps
  <2>1. 0 \in 0..3 /\ 1 \in 0..3 /\ 2 \in 0..3 /\ 3 \in 0..3 /\ 4 * s + 0 = 4 * s
    BY <1>1
  <2> QED
    BY <1>5, <2>1
<1>8. FormatSector(s) = <<a, w0, w1, w2, w3>>
  BY <1>3 DEF FormatSector
<1> HIDE DEF a
<1>9. /\ FormatSector(s) \in Seq(FormatSteps)
      /\ Has(FormatSector(s), w0) /\ Has(FormatSector(s), w1)
      /\ Has(FormatSector(s), w2) /\ Has(FormatSector(s), w3)
  BY <1>6, <1>7, <1>8, Five
<1>10. /\ Writes(FormatSector(s), 4 * s, FormattedAt(4 * s))
       /\ Writes(FormatSector(s), 4 * s + 1, FormattedAt(4 * s + 1))
       /\ Writes(FormatSector(s), 4 * s + 2, FormattedAt(4 * s + 2))
       /\ Writes(FormatSector(s), 4 * s + 3, FormattedAt(4 * s + 3))
  BY <1>9, HasWrites
<1>11. \A i \in 0..3 : i = 0 \/ i = 1 \/ i = 2 \/ i = 3
  OBVIOUS
<1>12. 4 * s + 0 = 4 * s
  BY <1>1
<1> QED
  BY <1>9, <1>10, <1>11, <1>12

LEMMA WritesIsHas ==
  ASSUME NEW p, NEW c, NEW x
  PROVE  Writes(p, c, x) <=>
           \E e : Has(p, e) /\ e.do = "write" /\ e.cell = c /\ e.data = x
BY DEF Writes, Has

\* Formatting consists of format steps, and writes every block but the first.
LEMMA FormatPlanIs ==
  /\ FormatPlan \in Seq(FormatSteps)
  /\ \A b \in 1..LastBlock : Writes(FormatPlan, b, FormattedAt(b))
<1> DEFINE n == Sectors - 1
           parts == [s \in 1..n |-> FormatSector(s)]
           rest == FlattenSeq(parts)
<1>1. n \in Nat \ {0} /\ Sectors \in Nat
  BY ClassicAssumption
<1>2. parts \in [1..n -> Seq(FormatSteps)]
  BY FormatSectorIs
<1>3. \A s \in 1..n : parts[s] = FormatSector(s)
  OBVIOUS
<1>4. FormatPlan = FormatSector0 \o rest
  BY DEF FormatPlan
<1>d. /\ \A s \in 1..n : FormatSector(s) \in Seq(FormatSteps)
      /\ \A s \in 1..n : \A i \in 0..3 :
           Writes(FormatSector(s), 4 * s + i, FormattedAt(4 * s + i))
  BY FormatSectorIs
<1> HIDE DEF parts
<1>5. /\ rest \in Seq(FormatSteps)
      /\ \A k \in 1..n : \A x : Has(parts[k], x) => Has(rest, x)
  BY <1>1, <1>2, Flatten, FlattenHas
<1> HIDE DEF rest, n
<1>6. FormatSector0 \in Seq(FormatSteps)
  BY FormatSector0Is
<1>7. /\ FormatPlan \in Seq(FormatSteps)
      /\ \A x : Has(FormatSector0, x) \/ Has(rest, x) => Has(FormatPlan, x)
  BY <1>4, <1>5, <1>6, ConcatHas
<1>8. ASSUME NEW b \in 1..LastBlock
      PROVE  Writes(FormatPlan, b, FormattedAt(b))
  <2>1. b \in 0..LastBlock /\ b \in Nat /\ b # 0
    BY <1>1 DEF LastBlock
  <2>2. PICK s \in 0..Sectors - 1 : \E i \in 0..3 : b = 4 * s + i
    BY <2>1, BlockInSector
  <2>3. PICK i \in 0..3 : b = 4 * s + i
    BY <2>2
  <2>4. CASE s = 0
    <3>1. b \in 1..3
      BY <2>1, <2>3, <2>4
    <3>2. Writes(FormatSector0, b, FormattedAt(b))
      BY <3>1, FormatSector0Is
    <3> QED
      BY <1>7, <3>2, WritesIsHas
  <2>5. CASE s # 0
    <3>1. s \in 1..n
      BY <1>1, <2>5 DEF n
    <3>2. Writes(FormatSector(s), b, FormattedAt(b))
      BY <1>d, <2>3, <3>1
    <3>3. \A x : Has(FormatSector(s), x) => Has(FormatPlan, x)
      BY <1>3, <1>5, <1>7, <3>1
    <3> QED
      BY <3>2, <3>3, WritesIsHas
  <2> QED
    BY <2>4, <2>5
<1> QED
  BY <1>7, <1>8

LEMMA CleanSectorIs ==
  ASSUME NEW s \in 0..Sectors - 1
  PROVE  /\ CleanSector(s) \in Seq({x \in CleanSteps : sect_to_auth(x.cell) = s})
         /\ \A i \in 0..3 : 4 * s + i # 0 =>
              Writes(CleanSector(s), 4 * s + i, CleanedAt(4 * s + i))
<1>1. Sectors \in Nat /\ s \in Nat /\ s <= Sectors - 1
  BY ClassicAssumption
<1> DEFINE E == {x \in CleanSteps : sect_to_auth(x.cell) = s}
<1>2. 0 \in 0..3 /\ 1 \in 0..3 /\ 2 \in 0..3 /\ 3 \in 0..3 /\ 4 * s + 0 = 4 * s
  BY <1>1
<1>3. \A i \in 0..3 : /\ sect_to_auth(4 * s + i) = s
                      /\ TrailerOf(4 * s + i) = 4 * s + 3
                      /\ 4 * s + i \in 0..LastBlock
                      /\ 4 * s + i # 0 => 4 * s + i \in 1..LastBlock
                      /\ 4 * s + i = 4 * s + 3 <=> i = 3
  <2> SUFFICES ASSUME NEW i \in 0..3
               PROVE  /\ sect_to_auth(4 * s + i) = s
                      /\ TrailerOf(4 * s + i) = 4 * s + 3
                      /\ 4 * s + i \in 0..LastBlock
                      /\ 4 * s + i # 0 => 4 * s + i \in 1..LastBlock
                      /\ 4 * s + i = 4 * s + 3 <=> i = 3
    OBVIOUS
  <2>1. sect_to_auth(4 * s + i) = s /\ TrailerOf(4 * s + i) = 4 * s + 3
    BY <1>1, SectorOf
  <2>2. 4 * s + i \in 0..LastBlock
    BY <1>1 DEF LastBlock
  <2>3. 4 * s + i # 0 => 4 * s + i \in 1..LastBlock
    BY <1>1 DEF LastBlock
  <2>4. 4 * s + i = 4 * s + 3 <=> i = 3
    BY <1>1
  <2> QED
    BY <2>1, <2>2, <2>3, <2>4
<1>4. \A i \in 0..3 : CleanedAt(4 * s + i) = IF i = 3 THEN Trailer("factory") ELSE Blank
  BY <1>3 DEF CleanedAt
<1>5. ASSUME NEW i \in 0..3, 4 * s + i # 0
      PROVE  Write(4 * s + i, CleanedAt(4 * s + i), "remember") \in E
  <2>1. Write(4 * s + i, CleanedAt(4 * s + i), "remember") \in CleanSteps
    BY <1>3, <1>5, CleanStepsAre
  <2>2. Write(4 * s + i, CleanedAt(4 * s + i), "remember").cell = 4 * s + i
    BY DEF Write
  <2> QED
    BY <1>3, <2>1, <2>2
<1>6. Auth(4 * s + 3, "default B", "skip") \in E
  <2>1. Auth(4 * s + 3, "default B", "skip") \in CleanSteps
    BY <1>2, <1>3, CleanStepsAre
  <2>2. Auth(4 * s + 3, "default B", "skip").cell = 4 * s + 3
    BY DEF Auth
  <2> QED
    BY <1>2, <1>3, <2>1, <2>2
<1> HIDE DEF E
<1> DEFINE a == Auth(4 * s + 3, "default B", "skip")
           w0 == Write(4 * s, Blank, "remember")
           w1 == Write(4 * s + 1, Blank, "remember")
           w2 == Write(4 * s + 2, Blank, "remember")
           w3 == Write(4 * s + 3, Trailer("factory"), "remember")
           first == IF s = 0 THEN <<>> ELSE <<w0>>
<1>7. CleanSector(s) = (<<a>> \o first) \o <<w1, w2, w3>>
  BY DEF CleanSector
<1>8. w1 \in E /\ w2 \in E /\ w3 \in E
  BY <1>1, <1>2, <1>4, <1>5
<1>9. s # 0 => w0 \in E
  BY <1>1, <1>2, <1>4, <1>5
<1>10. first \in Seq(E) /\ (s # 0 => Has(first, w0))
  <2>1. CASE s = 0
    BY <2>1
  <2>2. CASE s # 0
    <3> HIDE DEF w0
    <3> QED
      BY <1>9, <2>2, One
  <2> QED
    BY <2>1, <2>2
<1>11. <<a>> \in Seq(E)
  <2> HIDE DEF a
  <2> QED
    BY <1>6, One DEF a
<1>12. /\ <<w1, w2, w3>> \in Seq(E)
       /\ Has(<<w1, w2, w3>>, w1) /\ Has(<<w1, w2, w3>>, w2) /\ Has(<<w1, w2, w3>>, w3)
  <2> HIDE DEF w1, w2, w3
  <2> QED
    BY <1>8, Three
<1> DEFINE head == <<a>> \o first
           tail == <<w1, w2, w3>>
<1>13. head \in Seq(E) /\ \A x : Has(first, x) => Has(head, x)
  <2> HIDE DEF a, first
  <2> QED
    BY <1>10, <1>11, ConcatHas
<1>14. /\ CleanSector(s) \in Seq(E)
       /\ \A x : Has(head, x) \/ Has(tail, x) => Has(CleanSector(s), x)
  <2>1. CleanSector(s) = head \o tail
    BY <1>7
  <2>2. head \in Seq(E) /\ tail \in Seq(E)
    BY <1>12, <1>13
  <2> HIDE DEF head, tail
  <2> QED
    BY <2>1, <2>2, ConcatHas
<1>15. /\ s # 0 => Has(CleanSector(s), w0)
       /\ Has(CleanSector(s), w1) /\ Has(CleanSector(s), w2) /\ Has(CleanSector(s), w3)
  <2> HIDE DEF head, w0, w1, w2, w3, first
  <2> QED
    BY <1>10, <1>12, <1>13, <1>14
<1>16. /\ s # 0 => Writes(CleanSector(s), 4 * s, Blank)
       /\ Writes(CleanSector(s), 4 * s + 1, Blank)
       /\ Writes(CleanSector(s), 4 * s + 2, Blank)
       /\ Writes(CleanSector(s), 4 * s + 3, Trailer("factory"))
  BY <1>15, HasWrites
<1>17. ASSUME NEW i \in 0..3, 4 * s + i # 0
       PROVE  Writes(CleanSector(s), 4 * s + i, CleanedAt(4 * s + i))
  <2>1. CleanedAt(4 * s + i) = IF i = 3 THEN Trailer("factory") ELSE Blank
    BY <1>4
  <2>2. i = 0 \/ i = 1 \/ i = 2 \/ i = 3
    OBVIOUS
  <2>3. i = 0 => s # 0 /\ 4 * s + i = 4 * s
    BY <1>1, <1>17
  <2> QED
    BY <1>16, <2>1, <2>2, <2>3
<1> QED
  BY <1>14, <1>17 DEF E

\* Cleaning consists of clean steps, sector by sector, and writes every block
\* but the first.
LEMMA CleanPlanIs ==
  /\ CleanPlan \in Seq(CleanSteps)
  /\ InOrder(CleanPlan, BySector)
  /\ \A b \in 1..LastBlock : Writes(CleanPlan, b, CleanedAt(b))
<1> DEFINE n == Sectors
           E(s) == {x \in CleanSteps : sect_to_auth(x.cell) = s}
           parts == [s \in 1..n |-> CleanSector(s - 1)]
<1>1. n \in Nat \ {0}
  BY ClassicAssumption
<1>2. ASSUME NEW s \in 1..n
      PROVE  /\ parts[s] = CleanSector(s - 1)
             /\ parts[s] \in Seq(E(s - 1))
             /\ parts[s] \in Seq(CleanSteps)
             /\ \A i \in 0..3 : 4 * (s - 1) + i # 0 =>
                  Writes(parts[s], 4 * (s - 1) + i, CleanedAt(4 * (s - 1) + i))
  <2> DEFINE r == s - 1
  <2>1. r \in 0..Sectors - 1 /\ parts[s] = CleanSector(r)
    BY <1>1
  <2> HIDE DEF r, parts
  <2>2. /\ parts[s] \in Seq(E(r))
        /\ \A i \in 0..3 : 4 * r + i # 0 =>
             Writes(parts[s], 4 * r + i, CleanedAt(4 * r + i))
    BY <2>1, CleanSectorIs
  <2>3. E(r) \subseteq CleanSteps
    OBVIOUS
  <2>4. parts[s] \in Seq(CleanSteps)
    BY <2>2, <2>3
  <2> QED
    BY <2>1, <2>2, <2>4 DEF r
<1>3. parts \in [1..n -> Seq(CleanSteps)]
  BY <1>2
<1>4. CleanPlan = FlattenSeq(parts)
  BY DEF CleanPlan
<1>5. \A s \in 1..n : \A i \in 1..Len(parts[s]) :
        parts[s][i] \in CleanSteps /\ sect_to_auth(parts[s][i].cell) = s - 1
  <2> HIDE DEF parts
  <2> SUFFICES ASSUME NEW s \in 1..n, NEW i \in 1..Len(parts[s])
               PROVE  parts[s][i] \in E(s - 1)
    OBVIOUS
  <2>1. parts[s] \in Seq(E(s - 1))
    BY <1>2
  <2> HIDE DEF E
  <2> QED
    BY <2>1
<1> HIDE DEF parts
<1>6. \A k, l \in 1..n : k <= l =>
        \A i \in 1..Len(parts[k]) : \A j \in 1..Len(parts[l]) :
          <<parts[k][i], parts[l][j]>> \in BySector
  <2> SUFFICES ASSUME NEW k \in 1..n, NEW l \in 1..n, k <= l,
                      NEW i \in 1..Len(parts[k]), NEW j \in 1..Len(parts[l])
               PROVE  <<parts[k][i], parts[l][j]>> \in BySector
    OBVIOUS
  <2> DEFINE x == parts[k][i]
             y == parts[l][j]
  <2>1. /\ x \in CleanSteps /\ sect_to_auth(x.cell) = k - 1
        /\ y \in CleanSteps /\ sect_to_auth(y.cell) = l - 1
    BY <1>5
  <2> HIDE DEF x, y
  <2>2. <<x, y>> \in CleanSteps \X CleanSteps /\ <<x, y>>[1] = x /\ <<x, y>>[2] = y
    BY <2>1
  <2>3. sect_to_auth(x.cell) <= sect_to_auth(y.cell)
    BY <1>1, <2>1
  <2>4. <<x, y>> \in BySector
    BY <2>2, <2>3 DEF BySector
  <2> QED
    BY <2>4 DEF x, y
<1>7. \A k \in 1..n : InOrder(parts[k], BySector)
  <2>1. \A k \in 1..n : k <= k
    BY <1>1
  <2> QED
    BY <1>6, <2>1 DEF InOrder
<1>8. \A k, l \in 1..n : k < l =>
        \A i \in 1..Len(parts[k]) : \A j \in 1..Len(parts[l]) :
          <<parts[k][i], parts[l][j]>> \in BySector
  <2>1. \A k, l \in 1..n : k < l => k <= l
    BY <1>1
  <2> QED
    BY <1>6, <2>1
<1>9. InOrder(CleanPlan, BySector)
  BY <1>1, <1>3, <1>4, <1>7, <1>8, FlattenInOrder
<1>10. /\ CleanPlan \in Seq(CleanSteps)
       /\ \A k \in 1..n : \A x : Has(parts[k], x) => Has(CleanPlan, x)
  BY <1>1, <1>3, <1>4, Flatten, FlattenHas
<1>11. ASSUME NEW b \in 1..LastBlock
       PROVE  Writes(CleanPlan, b, CleanedAt(b))
  <2>1. b \in 0..LastBlock /\ b \in Nat /\ b # 0
    BY <1>1 DEF LastBlock
  <2>2. PICK s \in 0..Sectors - 1 : \E i \in 0..3 : b = 4 * s + i
    BY <2>1, BlockInSector
  <2>3. PICK i \in 0..3 : b = 4 * s + i
    BY <2>2
  <2> DEFINE k == s + 1
  <2>4. k \in 1..n /\ k - 1 = s
    BY <1>1
  <2> HIDE DEF k, n
  <2>5. Writes(parts[k], b, CleanedAt(b))
    BY <1>2, <2>1, <2>3, <2>4
  <2> QED
    BY <1>10, <2>4, <2>5, WritesIsHas
<1> QED
  BY <1>9, <1>10, <1>11

-----------------------------------------------------------------------------
(* The plans of write_mifare_classic_tag_() and read_mifare_classic_tag_() *)

BlocksFor(m) == CellsFor(m, MIFARE_CLASSIC_BLOCK_SIZE)
PagesFor(m)  == CellsFor(m, MIFARE_ULTRALIGHT_PAGE_SIZE)

LEMMA CellsNat ==
  ASSUME NEW m \in Nat
  PROVE  BlocksFor(m) \in Nat \ {0} /\ PagesFor(m) \in Nat \ {0}
<1> DEFINE k == IF IsLong(m) THEN 5 ELSE 3
<1>1. k \in Nat /\ k >= 3
  OBVIOUS
<1>2. BlocksFor(m) = (m + k + 16 - 1) \div 16 /\ PagesFor(m) = (m + k + 4 - 1) \div 4
  BY DEF BlocksFor, PagesFor, CellsFor, MIFARE_CLASSIC_BLOCK_SIZE, MIFARE_ULTRALIGHT_PAGE_SIZE
<1> HIDE DEF k
<1>3. (m + k + 16 - 1) \div 16 \in Nat \ {0} /\ (m + k + 4 - 1) \div 4 \in Nat \ {0}
  BY <1>1
<1> QED
  BY <1>2, <1>3

WriteSteps(m) ==
  {Auth(DataBlock(i), "NDEF A", "abort") : i \in 1..BlocksFor(m)}
    \cup {Write(DataBlock(i), Chunk(m, i), "abort") : i \in 1..BlocksFor(m)}

\* The blocks in their order
Rising(m) ==
  {xy \in WriteSteps(m) \X WriteSteps(m) :
     xy[1].do = "write" /\ xy[2].do = "write" => xy[1].cell < xy[2].cell}

LEMMA WriteStepsAre ==
  ASSUME NEW m
  PROVE  /\ \A i \in 1..BlocksFor(m) : Auth(DataBlock(i), "NDEF A", "abort") \in WriteSteps(m)
         /\ \A i \in 1..BlocksFor(m) : Write(DataBlock(i), Chunk(m, i), "abort") \in WriteSteps(m)
<1>1. \A i \in 1..BlocksFor(m) : Auth(DataBlock(i), "NDEF A", "abort") \in WriteSteps(m)
  BY Zenon DEF WriteSteps
<1>2. \A i \in 1..BlocksFor(m) : Write(DataBlock(i), Chunk(m, i), "abort") \in WriteSteps(m)
  BY Zenon DEF WriteSteps
<1> QED
  BY <1>1, <1>2

\* Writing consists of write steps in the order of the blocks, and writes
\* every piece of the message.
LEMMA WritePlanIs ==
  ASSUME NEW m \in Nat
  PROVE  /\ WritePlan(m) \in Seq(WriteSteps(m))
         /\ InOrder(WritePlan(m), Rising(m))
         /\ \A i \in 1..BlocksFor(m) : Writes(WritePlan(m), DataBlock(i), Chunk(m, i))
<1> DEFINE n == BlocksFor(m)
           a(i) == Auth(DataBlock(i), "NDEF A", "abort")
           w(i) == Write(DataBlock(i), Chunk(m, i), "abort")
           parts == [i \in 1..n |-> IF IsFirstBlock(DataBlock(i)) THEN <<a(i), w(i)>> ELSE <<w(i)>>]
<1>1. n \in Nat \ {0}
  BY CellsNat
<1>2. WritePlan(m) = FlattenSeq(parts)
  BY DEF WritePlan, DataLoop, BlocksFor
<1>3. ASSUME NEW i \in 1..n
      PROVE  /\ parts[i] \in Seq(WriteSteps(m))
             /\ Has(parts[i], w(i))
             /\ \A j \in 1..Len(parts[i]) : parts[i][j].cell = DataBlock(i)
             /\ \A j, k \in 1..Len(parts[i]) : j < k => parts[i][j].do = "auth"
  <2> DEFINE x == a(i)
             y == w(i)
  <2>1. x \in WriteSteps(m) /\ y \in WriteSteps(m)
    BY WriteStepsAre
  <2>2. x.cell = DataBlock(i) /\ y.cell = DataBlock(i) /\ x.do = "auth"
    BY DEF Auth, Write
  <2>3. parts[i] = IF IsFirstBlock(DataBlock(i)) THEN <<x, y>> ELSE <<y>>
    OBVIOUS
  <2> HIDE DEF x, y, parts
  <2>4. CASE IsFirstBlock(DataBlock(i))
    <3> DEFINE t == parts[i]
    <3>1. /\ t \in Seq(WriteSteps(m)) /\ Has(t, y)
          /\ Len(t) = 2 /\ t[1] = x /\ t[2] = y
      BY <2>1, <2>3, <2>4, Two
    <3>2. \A j \in 1..2 : j = 1 \/ j = 2
      OBVIOUS
    <3>3. \A j, k \in 1..2 : j < k => j = 1
      OBVIOUS
    <3> HIDE DEF t
    <3>4. \A j \in 1..Len(t) : t[j].cell = DataBlock(i)
      BY <2>2, <3>1, <3>2
    <3>5. \A j, k \in 1..Len(t) : j < k => t[j].do = "auth"
      BY <2>2, <3>1, <3>3
    <3> QED
      BY <3>1, <3>4, <3>5 DEF t, y
  <2>5. CASE ~IsFirstBlock(DataBlock(i))
    <3> DEFINE t == parts[i]
    <3>1. t \in Seq(WriteSteps(m)) /\ Has(t, y) /\ Len(t) = 1 /\ t[1] = y
      BY <2>1, <2>3, <2>5, One
    <3>2. /\ \A j \in 1..1 : j = 1
          /\ \A j, k \in 1..1 : ~(j < k)
      OBVIOUS
    <3> HIDE DEF t
    <3>4. \A j \in 1..Len(t) : t[j].cell = DataBlock(i)
      BY <2>2, <3>1, <3>2
    <3>5. \A j, k \in 1..Len(t) : j < k => t[j].do = "auth"
      BY <3>1, <3>2
    <3> QED
      BY <3>1, <3>4, <3>5 DEF t, y
  <2> QED
    BY <2>4, <2>5
<1>d. DOMAIN parts = 1..n /\ parts = [i \in 1..n |-> parts[i]]
  OBVIOUS
<1> HIDE DEF parts
<1>4. parts \in [1..n -> Seq(WriteSteps(m))]
  BY <1>3, <1>d
<1>5. \A k \in 1..n : \A j \in 1..Len(parts[k]) : parts[k][j] \in WriteSteps(m)
  BY <1>3
<1>6. \A x, y \in WriteSteps(m) :
        (x.do = "write" /\ y.do = "write" => x.cell < y.cell) => <<x, y>> \in Rising(m)
  <2> SUFFICES ASSUME NEW x \in WriteSteps(m), NEW y \in WriteSteps(m),
                      x.do = "write" /\ y.do = "write" => x.cell < y.cell
               PROVE  <<x, y>> \in Rising(m)
    OBVIOUS
  <2>1. <<x, y>> \in WriteSteps(m) \X WriteSteps(m) /\ <<x, y>>[1] = x /\ <<x, y>>[2] = y
    OBVIOUS
  <2> QED
    BY <2>1 DEF Rising
<1>7. \A k \in 1..n : InOrder(parts[k], Rising(m))
  <2> SUFFICES ASSUME NEW k \in 1..n, NEW i \in 1..Len(parts[k]), NEW j \in 1..Len(parts[k]), i < j
               PROVE  <<parts[k][i], parts[k][j]>> \in Rising(m)
    BY DEF InOrder
  <2>1. parts[k][i] \in WriteSteps(m) /\ parts[k][j] \in WriteSteps(m) /\ parts[k][i].do = "auth"
    BY <1>3, <1>5
  <2> QED
    BY <1>6, <2>1
<1>8. \A k, l \in 1..n : k < l =>
        \A i \in 1..Len(parts[k]) : \A j \in 1..Len(parts[l]) :
          <<parts[k][i], parts[l][j]>> \in Rising(m)
  <2> SUFFICES ASSUME NEW k \in 1..n, NEW l \in 1..n, k < l,
                      NEW i \in 1..Len(parts[k]), NEW j \in 1..Len(parts[l])
               PROVE  <<parts[k][i], parts[l][j]>> \in Rising(m)
    OBVIOUS
  <2>1. /\ parts[k][i] \in WriteSteps(m) /\ parts[k][i].cell = DataBlock(k)
        /\ parts[l][j] \in WriteSteps(m) /\ parts[l][j].cell = DataBlock(l)
    BY <1>3, <1>5
  <2>2. k \in Nat \ {0} /\ l \in Nat \ {0}
    BY <1>1
  <2>3. DataBlock(k) < DataBlock(l)
    BY <2>2, DataBlockOrder
  <2> QED
    BY <1>6, <2>1, <2>3
<1>9. InOrder(WritePlan(m), Rising(m))
  <2> HIDE DEF n
  <2> QED
    BY <1>1, <1>2, <1>4, <1>7, <1>8, FlattenInOrder
<1>10. /\ WritePlan(m) \in Seq(WriteSteps(m))
       /\ \A k \in 1..n : \A x : Has(parts[k], x) => Has(WritePlan(m), x)
  <2> HIDE DEF n
  <2> QED
    BY <1>1, <1>2, <1>4, Flatten, FlattenHas
<1>11. \A i \in 1..n : Has(WritePlan(m), w(i))
  BY <1>3, <1>10
<1>12. \A i \in 1..BlocksFor(m) : Writes(WritePlan(m), DataBlock(i), Chunk(m, i))
  BY <1>11, HasWrites
<1> QED
  BY <1>9, <1>10, <1>12

ReadBlocks(n) == {4} \cup {DataBlock(i) : i \in 1..n}
ReadSteps(n) ==
  {Auth(b, "NDEF A", "abort") : b \in ReadBlocks(n)} \cup {Read(b) : b \in ReadBlocks(n)}

LEMMA ReadStepsAre ==
  ASSUME NEW n, NEW b \in ReadBlocks(n)
  PROVE  Auth(b, "NDEF A", "abort") \in ReadSteps(n) /\ Read(b) \in ReadSteps(n)
<1>1. Auth(b, "NDEF A", "abort") \in ReadSteps(n)
  BY Zenon DEF ReadSteps
<1>2. Read(b) \in ReadSteps(n)
  BY Zenon DEF ReadSteps
<1> QED
  BY <1>1, <1>2

\* Reading consists of read steps.
LEMMA ReadPlanIs ==
  ASSUME NEW memory, Announced(memory) \in Nat
  PROVE  ReadPlan(memory) \in Seq(ReadSteps(Announced(memory)))
<1> DEFINE n == Announced(memory)
           a(i) == Auth(DataBlock(i), "NDEF A", "abort")
           w(i) == Read(DataBlock(i))
           parts == [i \in 1..n |-> IF IsFirstBlock(DataBlock(i)) THEN <<a(i), w(i)>> ELSE <<w(i)>>]
           first == <<Auth(4, "NDEF A", "abort"), Read(4)>>
<1>2. ReadPlan(memory) = first \o FlattenSeq(parts)
  BY DEF ReadPlan, DataLoop
<1>3. first \in Seq(ReadSteps(n))
  <2>1. 4 \in ReadBlocks(n)
    BY DEF ReadBlocks
  <2>2. Auth(4, "NDEF A", "abort") \in ReadSteps(n) /\ Read(4) \in ReadSteps(n)
    BY <2>1, ReadStepsAre
  <2> QED
    BY <2>2, Two
<1>4. \A i \in 1..n : DataBlock(i) \in ReadBlocks(n)
  BY DEF ReadBlocks
<1>5. \A i \in 1..n : a(i) \in ReadSteps(n) /\ w(i) \in ReadSteps(n)
  BY <1>4, ReadStepsAre
<1>6. \A i \in 1..n : <<a(i), w(i)>> \in Seq(ReadSteps(n)) /\ <<w(i)>> \in Seq(ReadSteps(n))
  <2> HIDE DEF a, w, n
  <2> QED
    BY <1>5, One, Two
<1>7. parts \in [1..n -> Seq(ReadSteps(n))]
  BY <1>6
<1>8. FlattenSeq(parts) \in Seq(ReadSteps(n))
  <2>1. CASE n = 0
    <3>1. parts = << >>
      BY <2>1
    <3>2. FlattenSeq(<< >>) = << >>
      BY DEF FlattenSeq
    <3>3. << >> \in Seq(ReadSteps(n))
      OBVIOUS
    <3> HIDE DEF parts, n
    <3> QED
      BY <3>1, <3>2, <3>3
  <2>2. CASE n # 0
    <3> HIDE DEF parts, n
    <3>1. n \in Nat \ {0}
      BY <2>2 DEF n
    <3> QED
      BY <1>7, <3>1, Flatten
  <2> QED
    BY <2>1, <2>2
<1> HIDE DEF parts, first
<1> QED
  BY <1>2, <1>3, <1>8, ConcatHas

-----------------------------------------------------------------------------
(* The plans for MIFARE Ultralight tags *)

\* The first page behind those that cleaning reaches
CleanEnd(memory) == EndOfData(memory) % BYTE

UlCleanSteps(memory) ==
  {ReadCapacity("end")} \cup {WriteAt(p, Blank, "abort") : p \in 4..(CleanEnd(memory) - 1)}

\* Cleaning writes the pages from the first to the last byte-sized number.
LEMMA UlCleanPlanIs ==
  ASSUME NEW memory, CleanEnd(memory) \in Nat
  PROVE  /\ UlCleanPlan(memory) \in Seq(UlCleanSteps(memory))
         /\ \A p \in 4..(CleanEnd(memory) - 1) : Writes(UlCleanPlan(memory), p, Blank)
<1> DEFINE k == CleanEnd(memory) - 4
           f == [i \in 1..k |-> WriteAt(DataPage(i), Blank, "abort")]
           c == ReadCapacity("end")
           E == UlCleanSteps(memory)
<1>1. UlCleanPlan(memory) = <<c>> \o f
  BY DEF UlCleanPlan, CleanEnd, MIFARE_ULTRALIGHT_DATA_START_PAGE
<1>2. k \in Int
  OBVIOUS
<1>3. \A i \in 1..k : DataPage(i) \in 4..(CleanEnd(memory) - 1)
  BY DEF DataPage, MIFARE_ULTRALIGHT_DATA_START_PAGE
<1>4. \A p \in 4..(CleanEnd(memory) - 1) : WriteAt(p, Blank, "abort") \in E
  BY Zenon DEF UlCleanSteps
<1>5. c \in E
  BY Zenon DEF UlCleanSteps
<1>6. f \in [1..k -> E]
  BY <1>3, <1>4
<1>7. \A i \in 1..k : f[i] = WriteAt(DataPage(i), Blank, "abort")
  OBVIOUS
<1>8. \A p \in 4..(CleanEnd(memory) - 1) : \E i \in 1..k : DataPage(i) = p
  <2> SUFFICES ASSUME NEW p \in 4..(CleanEnd(memory) - 1)
               PROVE  \E i \in 1..k : DataPage(i) = p
    OBVIOUS
  <2>1. p - 3 \in 1..k /\ DataPage(p - 3) = p
    BY DEF DataPage, MIFARE_ULTRALIGHT_DATA_START_PAGE
  <2> QED
    BY <2>1
<1> HIDE DEF k, f, c, E
<1>9. f \in Seq(E) /\ \A i \in 1..k : Has(f, f[i])
  BY <1>2, <1>6, Listed
<1>10. <<c>> \in Seq(E)
  BY <1>5, One
<1>11. /\ UlCleanPlan(memory) \in Seq(E)
       /\ \A x : Has(f, x) => Has(UlCleanPlan(memory), x)
  <2>1. f \in Seq(E)
    BY <1>9
  <2>2. /\ <<c>> \o f \in Seq(E)
        /\ \A x : Has(<<c>>, x) \/ Has(f, x) => Has(<<c>> \o f, x)
    BY <1>10, <2>1, ConcatHas, Zenon
  <2> QED
    BY <1>1, <2>2
<1>12. ASSUME NEW p \in 4..(CleanEnd(memory) - 1)
       PROVE  Writes(UlCleanPlan(memory), p, Blank)
  <2>1. PICK i \in 1..k : DataPage(i) = p
    BY <1>8
  <2>2. Has(UlCleanPlan(memory), WriteAt(p, Blank, "abort"))
    BY <1>7, <1>9, <1>11, <2>1
  <2> QED
    BY <2>2 DEF Has, Writes, WriteAt
<1> QED
  BY <1>11, <1>12 DEF E

UlWriteSteps(m) ==
  {ReadCapacity("abort")} \cup {WriteAt(DataPage(i), Chunk(m, i), "abort") : i \in 1..PagesFor(m)}

LEMMA UlWritePlanIs ==
  ASSUME NEW m \in Nat
  PROVE  /\ UlWritePlan(m) \in Seq(UlWriteSteps(m))
         /\ \A i \in 1..PagesFor(m) : Writes(UlWritePlan(m), DataPage(i), Chunk(m, i))
<1> DEFINE k == PagesFor(m)
           f == [i \in 1..k |-> WriteAt(DataPage(i), Chunk(m, i), "abort")]
           c == ReadCapacity("abort")
           E == UlWriteSteps(m)
<1>1. UlWritePlan(m) = <<c>> \o f
  BY DEF UlWritePlan, PagesFor
<1>2. k \in Int
  BY CellsNat
<1>4. \A i \in 1..k : WriteAt(DataPage(i), Chunk(m, i), "abort") \in E
  BY Zenon DEF UlWriteSteps
<1>5. c \in E
  BY Zenon DEF UlWriteSteps
<1>6. f \in [1..k -> E]
  BY <1>4
<1>7. \A i \in 1..k : f[i] = WriteAt(DataPage(i), Chunk(m, i), "abort")
  OBVIOUS
<1> HIDE DEF k, f, c, E
<1>9. f \in Seq(E) /\ \A i \in 1..k : Has(f, f[i])
  BY <1>2, <1>6, Listed
<1>10. <<c>> \in Seq(E)
  BY <1>5, One
<1>11. /\ UlWritePlan(m) \in Seq(E)
       /\ \A x : Has(f, x) => Has(UlWritePlan(m), x)
  <2>1. f \in Seq(E)
    BY <1>9
  <2>2. /\ <<c>> \o f \in Seq(E)
        /\ \A x : Has(<<c>>, x) \/ Has(f, x) => Has(<<c>> \o f, x)
    BY <1>10, <2>1, ConcatHas, Zenon
  <2> QED
    BY <1>1, <2>2
<1>12. ASSUME NEW i \in 1..k
       PROVE  Writes(UlWritePlan(m), DataPage(i), Chunk(m, i))
  <2>2. Has(UlWritePlan(m), WriteAt(DataPage(i), Chunk(m, i), "abort"))
    BY <1>7, <1>9, <1>11
  <2> QED
    BY <2>2 DEF Has, Writes, WriteAt
<1> QED
  BY <1>11, <1>12 DEF E, k

\* The reads beyond page 6, for a message announced as so many bytes
ReadsBeyond(bytes) == ((IF bytes + 2 > 12 THEN bytes + 2 - 12 ELSE 0) + 15) \div 16

UlReadSteps(n) ==
  {ReadAt(3, "abort")} \cup {ReadAt(7 + 4 * (i - 1), "abort") : i \in 1..n}

LEMMA UlReadPlanIs ==
  ASSUME NEW memory, AnnouncedBytes(memory) \in Nat
  PROVE  /\ ReadsBeyond(AnnouncedBytes(memory)) \in Nat
         /\ UlReadPlan(memory) \in Seq(UlReadSteps(ReadsBeyond(AnnouncedBytes(memory))))
<1> DEFINE bytes == AnnouncedBytes(memory)
           beyond == IF bytes + 2 > 12 THEN bytes + 2 - 12 ELSE 0
           k == ReadsBeyond(bytes)
           f == [i \in 1..k |-> ReadAt(7 + 4 * (i - 1), "abort")]
           c == ReadAt(3, "abort")
           E == UlReadSteps(k)
<1>1. k = (beyond + 16 - 1) \div 16 /\ k \in Nat
  <2>1. beyond \in Nat
    OBVIOUS
  <2>2. k = (beyond + 15) \div 16
    BY DEF ReadsBeyond
  <2> HIDE DEF beyond, k
  <2>3. beyond + 16 - 1 = beyond + 15 /\ (beyond + 15) \div 16 \in Nat
    BY <2>1
  <2> QED
    BY <2>2, <2>3
<1>2. UlReadPlan(memory) = <<c>> \o f
  <2>1. 4 * 4 = 16
    OBVIOUS
  <2> HIDE DEF k
  <2> QED
    BY <1>1, <2>1 DEF UlReadPlan, MIFARE_ULTRALIGHT_READ_SIZE, MIFARE_ULTRALIGHT_PAGE_SIZE
<1>4. \A i \in 1..k : ReadAt(7 + 4 * (i - 1), "abort") \in E
  BY Zenon DEF UlReadSteps
<1>5. c \in E
  BY Zenon DEF UlReadSteps
<1>6. f \in [1..k -> E]
  BY <1>4
<1> HIDE DEF k, f, c, E
<1>9. f \in Seq(E)
  BY <1>1, <1>6, Listed
<1>10. <<c>> \in Seq(E)
  BY <1>5, One
<1>11. UlReadPlan(memory) \in Seq(E)
  BY <1>2, <1>9, <1>10, ConcatHas
<1> QED
  BY <1>1, <1>11 DEF E, k

-----------------------------------------------------------------------------
(* What a step of each plan is *)

LEMMA FormatStepIs ==
  ASSUME NEW e \in FormatSteps
  PROVE  \/ /\ e.do = "auth" /\ e.cell \in 0..LastBlock
            /\ e.data = Content("default B") /\ e.fail = "abort"
         \/ /\ e.do = "write" /\ e.cell \in 1..LastBlock
            /\ e.data = FormattedAt(e.cell) /\ e.fail \in {"abort", "remember"}
<1>1. CASE e \in {Auth(b, "default B", "abort") : b \in 0..LastBlock}
  <2>1. PICK b \in 0..LastBlock : e = Auth(b, "default B", "abort")
    BY <1>1, Zenon
  <2> QED
    BY <2>1 DEF Auth
<1>2. CASE e \in {Write(b, FormattedAt(b), "abort") : b \in 1..LastBlock}
  <2>1. PICK b \in 1..LastBlock : e = Write(b, FormattedAt(b), "abort")
    BY <1>2, Zenon
  <2> QED
    BY <2>1 DEF Write
<1>3. CASE e \in {Write(b, FormattedAt(b), "remember") : b \in 1..LastBlock}
  <2>1. PICK b \in 1..LastBlock : e = Write(b, FormattedAt(b), "remember")
    BY <1>3, Zenon
  <2> QED
    BY <2>1 DEF Write
<1> QED
  BY <1>1, <1>2, <1>3 DEF FormatSteps

LEMMA CleanStepIs ==
  ASSUME NEW e \in CleanSteps
  PROVE  \/ /\ e.do = "auth" /\ e.cell \in 0..LastBlock
            /\ e.data = Content("default B") /\ e.fail = "skip"
         \/ /\ e.do = "write" /\ e.cell \in 1..LastBlock
            /\ e.data = CleanedAt(e.cell) /\ e.fail = "remember"
<1>1. CASE e \in {Auth(b, "default B", "skip") : b \in 0..LastBlock}
  <2>1. PICK b \in 0..LastBlock : e = Auth(b, "default B", "skip")
    BY <1>1, Zenon
  <2> QED
    BY <2>1 DEF Auth
<1>2. CASE e \in {Write(b, CleanedAt(b), "remember") : b \in 1..LastBlock}
  <2>1. PICK b \in 1..LastBlock : e = Write(b, CleanedAt(b), "remember")
    BY <1>2, Zenon
  <2> QED
    BY <2>1 DEF Write
<1> QED
  BY <1>1, <1>2 DEF CleanSteps

LEMMA WriteStepIs ==
  ASSUME NEW m, NEW e \in WriteSteps(m)
  PROVE  /\ e.fail = "abort"
         /\ \/ e.do = "auth"
            \/ /\ e.do = "write"
               /\ \E i \in 1..BlocksFor(m) : e.cell = DataBlock(i) /\ e.data = Chunk(m, i)
<1>1. CASE e \in {Auth(DataBlock(i), "NDEF A", "abort") : i \in 1..BlocksFor(m)}
  <2>1. PICK i \in 1..BlocksFor(m) : e = Auth(DataBlock(i), "NDEF A", "abort")
    BY <1>1, Zenon
  <2> QED
    BY <2>1 DEF Auth
<1>2. CASE e \in {Write(DataBlock(i), Chunk(m, i), "abort") : i \in 1..BlocksFor(m)}
  <2>1. PICK i \in 1..BlocksFor(m) : e = Write(DataBlock(i), Chunk(m, i), "abort")
    BY <1>2, Zenon
  <2> QED
    BY <2>1 DEF Write
<1> QED
  BY <1>1, <1>2 DEF WriteSteps

LEMMA ReadStepIs ==
  ASSUME NEW n, NEW e \in ReadSteps(n)
  PROVE  /\ e.fail = "abort" /\ e.cell \in ReadBlocks(n)
         /\ e.do = "read" \/ (e.do = "auth" /\ e.data = Content("NDEF A"))
<1>1. CASE e \in {Auth(b, "NDEF A", "abort") : b \in ReadBlocks(n)}
  <2>1. PICK b \in ReadBlocks(n) : e = Auth(b, "NDEF A", "abort")
    BY <1>1, Zenon
  <2> QED
    BY <2>1 DEF Auth
<1>2. CASE e \in {Read(b) : b \in ReadBlocks(n)}
  <2>1. PICK b \in ReadBlocks(n) : e = Read(b)
    BY <1>2, Zenon
  <2> QED
    BY <2>1 DEF Read
<1> QED
  BY <1>1, <1>2 DEF ReadSteps

LEMMA UlCleanStepIs ==
  ASSUME NEW memory, NEW e \in UlCleanSteps(memory)
  PROVE  \/ e.do = "read" /\ e.cell = 3 /\ e.fail = "end"
         \/ /\ e.do = "write" /\ e.cell \in 4..(CleanEnd(memory) - 1)
            /\ e.data = Blank /\ e.fail = "abort"
<1>1. CASE e = ReadCapacity("end")
  BY <1>1 DEF ReadCapacity, ReadAt
<1>2. CASE e \in {WriteAt(p, Blank, "abort") : p \in 4..(CleanEnd(memory) - 1)}
  <2>1. PICK p \in 4..(CleanEnd(memory) - 1) : e = WriteAt(p, Blank, "abort")
    BY <1>2, Zenon
  <2> QED
    BY <2>1 DEF WriteAt
<1> QED
  BY <1>1, <1>2 DEF UlCleanSteps

LEMMA UlWriteStepIs ==
  ASSUME NEW m, NEW e \in UlWriteSteps(m)
  PROVE  /\ e.fail = "abort"
         /\ \/ e.do = "read" /\ e.cell = 3
            \/ /\ e.do = "write"
               /\ \E i \in 1..PagesFor(m) : e.cell = DataPage(i) /\ e.data = Chunk(m, i)
<1>1. CASE e = ReadCapacity("abort")
  BY <1>1 DEF ReadCapacity, ReadAt
<1>2. CASE e \in {WriteAt(DataPage(i), Chunk(m, i), "abort") : i \in 1..PagesFor(m)}
  <2>1. PICK i \in 1..PagesFor(m) : e = WriteAt(DataPage(i), Chunk(m, i), "abort")
    BY <1>2, Zenon
  <2> QED
    BY <2>1 DEF WriteAt
<1> QED
  BY <1>1, <1>2 DEF UlWriteSteps

LEMMA UlReadStepIs ==
  ASSUME NEW n, NEW e \in UlReadSteps(n)
  PROVE  /\ e.do = "read" /\ e.fail = "abort"
         /\ e.cell = 3 \/ \E i \in 1..n : e.cell = 7 + 4 * (i - 1)
<1>1. CASE e = ReadAt(3, "abort")
  BY <1>1 DEF ReadAt
<1>2. CASE e \in {ReadAt(7 + 4 * (i - 1), "abort") : i \in 1..n}
  <2>1. PICK i \in 1..n : e = ReadAt(7 + 4 * (i - 1), "abort")
    BY <1>2, Zenon
  <2> QED
    BY <2>1 DEF ReadAt
<1> QED
  BY <1>1, <1>2 DEF UlReadSteps

-----------------------------------------------------------------------------
(* The rest of a plan *)

Suffix(q, p, k) ==
  /\ k \in 2..Len(p) + 1
  /\ Len(q) = Len(p) + 1 - k
  /\ \A i \in 1..Len(q) : q[i] = p[i + k - 1]

LEMMA SuffixIs ==
  ASSUME NEW S, NEW p \in Seq(S), NEW q \in Seq(S), NEW k, Suffix(q, p, k)
  PROVE  /\ \A R : InOrder(p, R) => InOrder(q, R)
         /\ \A c, x : Writes(q, c, x) => Writes(p, c, x)
<1>1. Len(p) \in Nat /\ Len(q) \in Nat /\ k \in Int /\ k >= 2 /\ Len(q) = Len(p) + 1 - k
  BY DEF Suffix
<1>2. \A i \in 1..Len(q) : i + k - 1 \in 1..Len(p) /\ q[i] = p[i + k - 1]
  BY <1>1 DEF Suffix
<1>3. \A i, j \in 1..Len(q) : i < j => i + k - 1 < j + k - 1
  BY <1>1
<1>4. ASSUME NEW R, InOrder(p, R)
      PROVE  InOrder(q, R)
  <2> SUFFICES ASSUME NEW i \in 1..Len(q), NEW j \in 1..Len(q), i < j
               PROVE  <<q[i], q[j]>> \in R
    BY DEF InOrder
  <2> DEFINE a == i + k - 1
             b == j + k - 1
  <2>1. a \in 1..Len(p) /\ b \in 1..Len(p) /\ a < b /\ q[i] = p[a] /\ q[j] = p[b]
    BY <1>2, <1>3
  <2> HIDE DEF a, b
  <2> QED
    BY <1>4, <2>1 DEF InOrder
<1>5. \A c, x : Writes(q, c, x) => Writes(p, c, x)
  BY <1>2 DEF Writes
<1> QED
  BY <1>4, <1>5

LEMMA TailIs ==
  ASSUME NEW S, NEW p \in Seq(S), p # << >>
  PROVE  /\ p[1] \in S
         /\ Tail(p) \in Seq(S) /\ Suffix(Tail(p), p, 2)
         /\ \A c, x : Writes(p, c, x) =>
              \/ p[1].do = "write" /\ p[1].cell = c /\ p[1].data = x
              \/ Writes(Tail(p), c, x)
<1>1. /\ p[1] \in S /\ Len(p) \in Nat /\ Len(p) >= 1
      /\ Tail(p) \in Seq(S) /\ Len(Tail(p)) = Len(p) - 1
      /\ \A i \in 1..Len(p) - 1 : Tail(p)[i] = p[i + 1]
  OBVIOUS
<1> DEFINE q == Tail(p)
<1> HIDE DEF q
<1>2. /\ Len(q) = Len(p) - 1
      /\ \A i \in 1..Len(p) - 1 : q[i] = p[i + 1]
  BY <1>1 DEF q
<1>3. Suffix(q, p, 2)
  <2>1. \A i \in Int : i + 2 - 1 = i + 1
    OBVIOUS
  <2>2. 2 \in 2..Len(p) + 1 /\ Len(p) + 1 - 2 = Len(p) - 1
    BY <1>1
  <2>3. \A i \in 1..Len(q) : q[i] = p[i + 2 - 1]
    BY <1>2, <2>1
  <2> QED
    BY <1>2, <2>2, <2>3 DEF Suffix
<1>4. ASSUME NEW c, NEW x, Writes(p, c, x)
      PROVE  (p[1].do = "write" /\ p[1].cell = c /\ p[1].data = x) \/ Writes(q, c, x)
  <2>1. PICK i \in 1..Len(p) : p[i].do = "write" /\ p[i].cell = c /\ p[i].data = x
    BY <1>4 DEF Writes
  <2>2. CASE i = 1
    BY <2>1, <2>2
  <2>3. CASE i # 1
    <3> DEFINE j == i - 1
    <3>1. j \in 1..Len(p) - 1 /\ j + 1 = i
      BY <1>1, <2>3
    <3> HIDE DEF j
    <3>2. j \in 1..Len(q) /\ q[j] = p[i]
      BY <1>2, <3>1
    <3> QED
      BY <2>1, <3>2 DEF Writes
  <2> QED
    BY <2>2, <2>3
<1> QED
  BY <1>1, <1>3, <1>4 DEF q

LEMMA SubSeqIs ==
  ASSUME NEW S, NEW p \in Seq(S), NEW k \in 2..Len(p) + 1
  PROVE  SubSeq(p, k, Len(p)) \in Seq(S) /\ Suffix(SubSeq(p, k, Len(p)), p, k)
<1>1. Len(p) \in Nat /\ k \in Nat /\ k >= 2 /\ k <= Len(p) + 1
  OBVIOUS
<1> DEFINE q == SubSeq(p, k, Len(p))
<1>2. q = [i \in 1..(Len(p) - k + 1) |-> p[i + k - 1]]
  <2>1. q = [i \in 1..(1 + Len(p) - k) |-> p[i + k - 1]]
    BY <1>1
  <2>2. 1 + Len(p) - k = Len(p) - k + 1
    BY <1>1
  <2> QED
    BY <2>1, <2>2
<1>3. /\ Len(p) - k + 1 \in Nat /\ Len(p) - k + 1 = Len(p) + 1 - k
      /\ \A i \in 1..(Len(p) - k + 1) : i + k - 1 \in 1..Len(p)
  BY <1>1
<1> HIDE DEF q
<1>4. \A i \in 1..(Len(p) - k + 1) : p[i + k - 1] \in S
  BY <1>3
<1>5. q \in Seq(S) /\ Len(q) = Len(p) - k + 1
  BY <1>2, <1>3, <1>4
<1>6. Suffix(q, p, k)
  BY <1>2, <1>3, <1>5 DEF Suffix
<1> QED
  BY <1>5, <1>6 DEF q

LEMMA EmptySuffix ==
  ASSUME NEW S, NEW p \in Seq(S), p # << >>
  PROVE  << >> \in Seq(S) /\ \E k : Suffix(<< >>, p, k)
<1>1. Len(p) \in Nat /\ Len(p) >= 1 /\ Len(<< >>) = 0 /\ << >> \in Seq(S)
  OBVIOUS
<1>2. Suffix(<< >>, p, Len(p) + 1)
  BY <1>1 DEF Suffix
<1> QED
  BY <1>1, <1>2
=============================================================================
