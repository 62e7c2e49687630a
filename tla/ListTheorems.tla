---------------------------- MODULE ListTheorems ----------------------------
(***************************************************************************)
(* Lemmas about finite sets and the lists of their elements, by which the  *)
(* models say ORDER BY, sort and "one after the other", whatever the order *)
(* of those that compare equal.                                            *)
(***************************************************************************)
EXTENDS Integers, Sequences, FiniteSets, SequencesExt,
        FiniteSetTheorems, WellFoundedInduction, TLAPS

(* A finite set in which any two are ordered has a last element: else, of    *)
(* its subsets that have none, a smallest has one once one is put aside.     *)
LEMMA LastIsIn ==
    ASSUME NEW S, IsFiniteSet(S), S # {}, NEW R,
           \A x, y \in S : x # y => <<x, y>> \in R \/ <<y, x>> \in R,
           \A x, y, z \in S : <<x, y>> \in R /\ <<y, z>> \in R => <<x, z>> \in R
    PROVE  \E x \in S : \A y \in S : y # x => <<y, x>> \in R
<1>. DEFINE Endless(T) == T # {} /\ \A x \in T : \E y \in T : y # x /\ <<y, x>> \notin R
            B == {T \in FiniteSubsetsOf(S) : Endless(T)}
<1>1. B = {}
  <2>. SUFFICES ASSUME B # {} PROVE FALSE
    OBVIOUS
  <2>1. PICK T \in B : \A U \in B : ~(<<U, T>> \in StrictSubsetOrdering(S))
    <3>. HIDE DEF B
    <3>1. B \subseteq FiniteSubsetsOf(S)
      BY DEF B
    <3>. QED BY <3>1, FS_StrictSubsetOrderingWellFounded, WFMin
  <2>2. T \subseteq S /\ IsFiniteSet(T) /\ Endless(T)
    BY DEF FiniteSubsetsOf
  <2>3. PICK x \in T : TRUE
    BY <2>2
  <2>. DEFINE U == T \ {x}
  <2>4. U \in FiniteSubsetsOf(S) /\ <<U, T>> \in StrictSubsetOrdering(S)
    BY <2>2, <2>3, FS_RemoveElement DEF FiniteSubsetsOf, StrictSubsetOrdering
  <2>5. ~Endless(U)
    BY <2>1, <2>4
  <2>6. CASE U = {}
    BY <2>2, <2>3, <2>6
  <2>7. CASE U # {}
    <3>1. PICK m \in U : \A y \in U : y # m => <<y, m>> \in R
      BY <2>5, <2>7
    <3>2. CASE <<x, m>> \in R
      <4>1. \A y \in T : y # m => <<y, m>> \in R
        BY <3>1, <3>2
      <4>. QED BY <2>2, <3>1, <4>1
    <3>3. CASE <<x, m>> \notin R
      <4>1. <<m, x>> \in R
        BY <2>2, <2>3, <3>1, <3>3
      <4>2. \A y \in T : y # x => <<y, x>> \in R
        BY <2>2, <2>3, <3>1, <4>1
      <4>. QED BY <2>2, <2>3, <4>2
    <3>. QED BY <3>2, <3>3
  <2>. QED BY <2>6, <2>7
<1>2. ~Endless(S)
  BY <1>1 DEF FiniteSubsetsOf
<1>. QED BY <1>2

(* ... and a list in that order, by the same argument. *)
LEMMA ListInOrder ==
    ASSUME NEW S, IsFiniteSet(S), NEW R,
           \A x, y \in S : x # y => <<x, y>> \in R \/ <<y, x>> \in R,
           \A x, y, z \in S : <<x, y>> \in R /\ <<y, z>> \in R => <<x, z>> \in R
    PROVE  \E q \in SetToSeqs(S) : \A m, n \in DOMAIN q : m < n => <<q[m], q[n]>> \in R
<1>. DEFINE Listed(T) == \E q \in SetToSeqs(T) : \A m, n \in DOMAIN q : m < n => <<q[m], q[n]>> \in R
            B == {T \in FiniteSubsetsOf(S) : ~Listed(T)}
<1>1. B = {}
  <2>. SUFFICES ASSUME B # {} PROVE FALSE
    OBVIOUS
  <2>1. PICK T \in B : \A U \in B : ~(<<U, T>> \in StrictSubsetOrdering(S))
    <3>. HIDE DEF B
    <3>1. B \subseteq FiniteSubsetsOf(S)
      BY DEF B
    <3>. QED BY <3>1, FS_StrictSubsetOrderingWellFounded, WFMin
  <2>2. T \subseteq S /\ IsFiniteSet(T) /\ ~Listed(T)
    BY DEF FiniteSubsetsOf
  <2>3. T # {}
    <3>. SUFFICES ASSUME T = {} PROVE FALSE
      OBVIOUS
    <3>1. Cardinality(T) = 0
      BY FS_EmptySet
    <3>. DEFINE q == [i \in 1..0 |-> i]
    <3>2. q \in SetToSeqs(T) /\ DOMAIN q = {}
      BY <3>1 DEF SetToSeqs
    <3>. HIDE DEF q
    <3>. QED BY <2>2, <3>2
  <2>4. PICK x \in T : \A y \in T : y # x => <<y, x>> \in R
    BY <2>2, <2>3, LastIsIn
  <2>. DEFINE U == T \ {x}
              k == Cardinality(U)
  <2>5. U \in FiniteSubsetsOf(S) /\ <<U, T>> \in StrictSubsetOrdering(S)
    BY <2>2, <2>4, FS_RemoveElement DEF FiniteSubsetsOf, StrictSubsetOrdering
  <2>6. Listed(U)
    BY <2>1, <2>5
  <2>7. Cardinality(T) = k + 1 /\ k \in Nat
    <3>1. IsFiniteSet(U) /\ k = Cardinality(T) - 1
      BY <2>2, <2>4, FS_RemoveElement
    <3>2. Cardinality(T) \in Nat /\ Cardinality(U) \in Nat
      BY <2>2, <3>1, FS_CardinalityType
    <3>. QED BY <3>1, <3>2
  <2>. HIDE DEF k
  <2>8. PICK q \in [1..k -> U] :
           /\ \A i, j \in 1..k : i # j => q[i] # q[j]
           /\ \A m, n \in 1..k : m < n => <<q[m], q[n]>> \in R
    BY <2>6 DEF SetToSeqs, k
  <2>. DEFINE r == [i \in 1..(k + 1) |-> IF i = k + 1 THEN x ELSE q[i]]
  <2>9. r \in [1..(k + 1) -> T]
    BY <2>4, <2>7, <2>8
  <2>10. \A i, j \in 1..(k + 1) : i # j => r[i] # r[j]
    BY <2>4, <2>7, <2>8
  <2>11. \A m, n \in 1..(k + 1) : m < n => <<r[m], r[n]>> \in R
    BY <2>4, <2>7, <2>8
  <2>12. r \in SetToSeqs(T)
    BY <2>7, <2>9, <2>10 DEF SetToSeqs
  <2>13. DOMAIN r = 1..(k + 1)
    OBVIOUS
  <2>. HIDE DEF r
  <2>. QED BY <2>2, <2>11, <2>12, <2>13
<1>. QED BY <1>1 DEF FiniteSubsetsOf

(* A finite set of numbers has a largest. *)
LEMMA LargestIsIn ==
    ASSUME NEW S \in SUBSET Nat, IsFiniteSet(S), S # {}
    PROVE  \E m \in S : \A n \in S : n <= m
<1>. DEFINE R == {p \in S \X S : p[1] <= p[2]}
<1>1. \A x \in S : x \in Nat
  OBVIOUS
<1>2. \A x, y \in S : (<<x, y>> \in R) <=> x <= y
  OBVIOUS
<1>. HIDE DEF R
<1>3. /\ \A x, y \in S : x # y => <<x, y>> \in R \/ <<y, x>> \in R
      /\ \A x, y, z \in S : <<x, y>> \in R /\ <<y, z>> \in R => <<x, z>> \in R
  BY <1>1, <1>2
<1>4. PICK m \in S : \A n \in S : n # m => <<n, m>> \in R
  BY <1>3, LastIsIn
<1>5. ASSUME NEW n \in S PROVE n <= m
  <2>1. n = m \/ n <= m
    BY <1>2, <1>4
  <2>. QED BY <1>1, <2>1
<1>. QED BY <1>5

(* A list of a set has each of its elements at one place. *)
LEMMA ListsHaveAll ==
    ASSUME NEW S, IsFiniteSet(S), NEW q \in SetToSeqs(S)
    PROVE  /\ q \in [1..Cardinality(S) -> S] /\ Cardinality(S) \in Nat
           /\ \A s \in S : \E i \in 1..Cardinality(S) : q[i] = s
           /\ \A i, j \in 1..Cardinality(S) : q[i] = q[j] => i = j
<1>. DEFINE n == Cardinality(S)
<1>1. n \in Nat
  BY FS_CardinalityType
<1>2. q \in [1..n -> S] /\ \A i, j \in 1..n : q[i] = q[j] => i = j
  BY DEF SetToSeqs
<1>3. q \in Injection(1..n, S)
  BY <1>2 DEF Injection, IsInjective
<1>4. Cardinality(1..n) = n /\ IsFiniteSet(1..n)
  BY <1>1, FS_Interval
<1>5. q \in Surjection(1..n, S)
  BY <1>3, <1>4, FS_Injection
<1>. QED BY <1>1, <1>2, <1>5 DEF Surjection

(* Two sets that have nothing in common are counted together.                *)
LEMMA CountedApart ==
    ASSUME NEW S, IsFiniteSet(S), NEW T, IsFiniteSet(T), S \cap T = {}
    PROVE  /\ IsFiniteSet(S \cup T)
           /\ Cardinality(S \cup T) = Cardinality(S) + Cardinality(T)
           /\ Cardinality(S) \in Nat /\ Cardinality(T) \in Nat
<1>1. IsFiniteSet(S \cup T) /\ Cardinality(S \cup T) = Cardinality(S) + Cardinality(T) - Cardinality({})
  BY FS_Union
<1>2. Cardinality(S) \in Nat /\ Cardinality(T) \in Nat
  BY FS_CardinalityType
<1>. QED BY <1>1, <1>2, FS_EmptySet

(* The list SetToSeq makes of a finite set is one of its lists. *)
LEMMA FirstList ==
    ASSUME NEW S, IsFiniteSet(S)
    PROVE  SetToSeq(S) \in SetToSeqs(S)
<1>. DEFINE n == Cardinality(S)
            q == SetToSeq(S)
<1>1. n \in Nat /\ ExistsBijection(1..n, S)
  BY FS_CardinalityType
<1>2. \E f \in [1..n -> S] : IsInjective(f)
  BY <1>1 DEF ExistsBijection, Bijection, Injection
<1>3. q \in [1..n -> S] /\ IsInjective(q)
  BY <1>2 DEF SetToSeq
<1>. HIDE DEF q
<1>4. DOMAIN q = 1..n /\ \A i, j \in 1..n : i # j => q[i] # q[j]
  BY <1>3 DEF IsInjective
<1>5. q \in SetToSeqs(S)
  BY <1>3, <1>4 DEF SetToSeqs
<1>. QED BY <1>5 DEF q

(* What a list has that is put together of two.                              *)
LEMMA JoinedHas ==
    ASSUME NEW S, NEW s \in Seq(S), NEW t \in Seq(S)
    PROVE  s \o t \in Seq(S) /\ Len(s \o t) = Len(s) + Len(t) /\ ToSet(s \o t) = ToSet(s) \cup ToSet(t)
<1>1. s \o t \in Seq(S) /\ Len(s \o t) = Len(s) + Len(t) /\ Len(s) \in Nat /\ Len(t) \in Nat
  OBVIOUS
<1>2. ASSUME NEW i \in 1..Len(s) PROVE i \in 1..Len(s \o t) /\ (s \o t)[i] = s[i]
  BY <1>1
<1>3. ASSUME NEW i \in 1..Len(t) PROVE Len(s) + i \in 1..Len(s \o t) /\ (s \o t)[Len(s) + i] = t[i]
  BY <1>1
<1>4. ASSUME NEW i \in 1..Len(s \o t)
      PROVE  (\E k \in 1..Len(s) : s[k] = (s \o t)[i]) \/ (\E k \in 1..Len(t) : t[k] = (s \o t)[i])
  <2>1. CASE i \in 1..Len(s)
    BY <1>2, <2>1
  <2>2. CASE i \notin 1..Len(s)
    <3>1. i - Len(s) \in 1..Len(t) /\ Len(s) + (i - Len(s)) = i
      BY <1>1, <2>2
    <3>. QED BY <1>3, <3>1
  <2>. QED BY <2>1, <2>2
<1>5. DOMAIN s = 1..Len(s) /\ DOMAIN t = 1..Len(t) /\ DOMAIN (s \o t) = 1..Len(s \o t)
  BY <1>1
<1>6. ToSet(s \o t) \subseteq ToSet(s) \cup ToSet(t)
  BY <1>4, <1>5 DEF ToSet
<1>7. ToSet(s) \subseteq ToSet(s \o t)
  BY <1>2, <1>5 DEF ToSet
<1>8. ToSet(t) \subseteq ToSet(s \o t)
  BY <1>3, <1>5 DEF ToSet
<1>. QED BY <1>1, <1>6, <1>7, <1>8

(* What a list has that is taken apart in two.                               *)
LEMMA SplitHas ==
    ASSUME NEW S, NEW q \in Seq(S), NEW k \in 0..Len(q), NEW m, m = k + 1
    PROVE  /\ SubSeq(q, 1, k) \in Seq(S) /\ SubSeq(q, m, Len(q)) \in Seq(S)
           /\ Len(SubSeq(q, 1, k)) = k /\ Len(SubSeq(q, m, Len(q))) = Len(q) - k
           /\ ToSet(q) = ToSet(SubSeq(q, 1, k)) \cup ToSet(SubSeq(q, m, Len(q)))
<1>. DEFINE a == SubSeq(q, 1, k)
            b == SubSeq(q, m, Len(q))
<1>0. Len(q) \in Nat /\ k \in Nat /\ k <= Len(q) /\ m = k + 1
  OBVIOUS
<1>1. a \in Seq(S) /\ Len(a) = k /\ \A i \in 1..k : a[i] = q[i]
  BY <1>0
<1>2. b \in Seq(S) /\ Len(b) = Len(q) - k /\ \A i \in 1..Len(q) - k : b[i] = q[k + i]
  BY <1>0
<1>. HIDE DEF a, b
<1>3. DOMAIN a = 1..k /\ DOMAIN b = 1..Len(q) - k /\ DOMAIN q = 1..Len(q)
  BY <1>1, <1>2
<1>4. ToSet(a) \cup ToSet(b) \subseteq ToSet(q)
  <2>1. \A i \in 1..k : i \in 1..Len(q)
    BY <1>0
  <2>2. \A i \in 1..Len(q) - k : k + i \in 1..Len(q)
    BY <1>0
  <2>3. ToSet(a) \subseteq ToSet(q)
    BY <1>1, <1>3, <2>1 DEF ToSet
  <2>4. ToSet(b) \subseteq ToSet(q)
    BY <1>2, <1>3, <2>2 DEF ToSet
  <2>. QED BY <2>3, <2>4
<1>5. ASSUME NEW i \in 1..Len(q) PROVE q[i] \in ToSet(a) \cup ToSet(b)
  <2>1. CASE i <= k
    <3>1. i \in 1..k
      BY <1>0, <2>1
    <3>. QED BY <1>1, <1>3, <3>1 DEF ToSet
  <2>2. CASE ~(i <= k)
    <3>1. i - k \in 1..Len(q) - k /\ k + (i - k) = i
      BY <1>0, <2>2
    <3>2. b[i - k] = q[i]
      BY <1>2, <3>1
    <3>. QED BY <1>3, <3>1, <3>2 DEF ToSet
  <2>. QED BY <2>1, <2>2
<1>6. ToSet(q) \subseteq ToSet(a) \cup ToSet(b)
  BY <1>3, <1>5 DEF ToSet
<1>7. ToSet(q) = ToSet(a) \cup ToSet(b)
  BY <1>4, <1>6
<1>. QED BY <1>1, <1>2, <1>7 DEF a, b

LEMMA FirstAlone ==
    ASSUME NEW S, NEW x \in S
    PROVE  <<x>> \in Seq(S) /\ Len(<<x>>) = 1 /\ ToSet(<<x>>) = {x}
<1>1. <<x>> \in Seq(S) /\ Len(<<x>>) = 1 /\ DOMAIN <<x>> = {1}
  OBVIOUS
<1>. QED BY <1>1 DEF ToSet

(* A list one of whose elements is moved has the same elements.              *)
LEMMA MovedHasTheSame ==
    ASSUME NEW S, NEW q \in Seq(S), NEW i \in 1..Len(q), NEW j \in 1..Len(q)
    PROVE  /\ InsertAt(RemoveAt(q, i), j, q[i]) \in Seq(S)
           /\ Len(InsertAt(RemoveAt(q, i), j, q[i])) = Len(q)
           /\ ToSet(InsertAt(RemoveAt(q, i), j, q[i])) = ToSet(q)
<1>. DEFINE a == SubSeq(q, 1, i - 1)
            z == SubSeq(q, i, Len(q))
            b == SubSeq(q, i + 1, Len(q))
            r == RemoveAt(q, i)
            h == SubSeq(r, 1, j - 1)
            e == SubSeq(r, j, Len(r))
<1>0. Len(q) \in Nat /\ i - 1 \in 0..Len(q) /\ i - 1 + 1 = i /\ i \in 0..Len(q) /\ q[i] \in S
  OBVIOUS
<1>1. /\ a \in Seq(S) /\ Len(a) = i - 1
      /\ b \in Seq(S) /\ Len(b) = Len(q) - i
      /\ ToSet(q) = ToSet(a) \cup {q[i]} \cup ToSet(b)
  <2>1. /\ a \in Seq(S) /\ Len(a) = i - 1 /\ ToSet(q) = ToSet(a) \cup ToSet(z)
    <3>1. PICK k : k = i - 1
      OBVIOUS
    <3>2. k \in 0..Len(q) /\ i = k + 1
      BY <1>0, <3>1
    <3>3. a = SubSeq(q, 1, k)
      BY <3>1
    <3>. HIDE DEF a
    <3>. QED BY <3>1, <3>2, <3>3, SplitHas
  <2>2. /\ b \in Seq(S) /\ Len(b) = Len(q) - i
        /\ ToSet(q) = ToSet(SubSeq(q, 1, i)) \cup ToSet(b)
    BY <1>0, SplitHas
  <2>3. q[i] \in ToSet(q)
    BY DEF ToSet
  <2>4. ToSet(z) \subseteq {q[i]} \cup ToSet(b)
    <3>1. z \in Seq(S) /\ Len(z) = Len(q) - i + 1 /\ \A k \in 1..Len(q) - i + 1 : z[k] = q[i - 1 + k]
      BY <1>0
    <3>2. \A k \in 1..Len(q) - i : b[k] = q[i + k]
      BY <1>0
    <3>3. DOMAIN z = 1..Len(q) - i + 1 /\ DOMAIN b = 1..Len(q) - i
      BY <2>2, <3>1
    <3>4. ASSUME NEW k \in 1..Len(q) - i + 1 PROVE z[k] \in {q[i]} \cup ToSet(b)
      <4>1. CASE k = 1
        BY <1>0, <3>1, <4>1
      <4>2. CASE k # 1
        <5>1. k - 1 \in 1..Len(q) - i /\ i + (k - 1) = i - 1 + k
          BY <1>0, <4>2
        <5>2. b[k - 1] = z[k]
          BY <3>1, <3>2, <5>1
        <5>. HIDE DEF b, z
        <5>. QED BY <3>3, <5>1, <5>2 DEF ToSet
      <4>. QED BY <4>1, <4>2
    <3>. HIDE DEF b, z
    <3>. QED BY <3>3, <3>4 DEF ToSet
  <2>. HIDE DEF a, b, z
  <2>. QED BY <2>1, <2>2, <2>3, <2>4
<1>2. r \in Seq(S) /\ Len(r) = Len(q) - 1 /\ ToSet(r) = ToSet(a) \cup ToSet(b)
  <2>1. r = a \o b
    BY DEF RemoveAt
  <2>. HIDE DEF a, b, r
  <2>2. Len(a \o b) = Len(q) - 1
    BY <1>0, <1>1, JoinedHas
  <2>. QED BY <1>1, <2>1, <2>2, JoinedHas
<1>. HIDE DEF a, b, z, r
<1>3. j - 1 \in 0..Len(r) /\ j - 1 + 1 = j
  BY <1>0, <1>2
<1>4. /\ h \in Seq(S) /\ e \in Seq(S) /\ Len(h) = j - 1 /\ Len(e) = Len(r) - (j - 1)
      /\ ToSet(r) = ToSet(h) \cup ToSet(e)
  <2>1. PICK k : k = j - 1
    OBVIOUS
  <2>2. k \in 0..Len(r) /\ j = k + 1 /\ r \in Seq(S)
    BY <1>2, <1>3, <2>1
  <2>3. /\ SubSeq(r, 1, k) \in Seq(S) /\ SubSeq(r, j, Len(r)) \in Seq(S)
        /\ Len(SubSeq(r, 1, k)) = k /\ Len(SubSeq(r, j, Len(r))) = Len(r) - k
        /\ ToSet(r) = ToSet(SubSeq(r, 1, k)) \cup ToSet(SubSeq(r, j, Len(r)))
    BY <2>2, SplitHas, SMTT(30)
  <2>4. h = SubSeq(r, 1, k) /\ e = SubSeq(r, j, Len(r))
    BY <2>1
  <2>. HIDE DEF h, e
  <2>. QED BY <2>1, <2>3, <2>4
<1>5. InsertAt(r, j, q[i]) = h \o <<q[i]>> \o e
  BY DEF InsertAt
<1>. HIDE DEF h, e
<1>. DEFINE one == <<q[i]>>
            ho == h \o one
<1>6. one \in Seq(S) /\ Len(one) = 1 /\ ToSet(one) = {q[i]}
  BY <1>0, FirstAlone
<1>. HIDE DEF one
<1>7. ho \in Seq(S) /\ Len(ho) = Len(h) + Len(one) /\ ToSet(ho) = ToSet(h) \cup ToSet(one)
  <2>1. h \in Seq(S) /\ one \in Seq(S)
    BY <1>4, <1>6
  <2>. QED BY <2>1, JoinedHas
<1>. HIDE DEF ho
<1>8. /\ ho \o e \in Seq(S) /\ Len(ho \o e) = Len(ho) + Len(e)
      /\ ToSet(ho \o e) = ToSet(ho) \cup ToSet(e)
  <2>1. ho \in Seq(S) /\ e \in Seq(S)
    BY <1>4, <1>7
  <2>. QED BY <2>1, JoinedHas
<1>9. Len(ho \o e) = Len(q)
  BY <1>0, <1>2, <1>4, <1>6, <1>7, <1>8
<1>10. ToSet(ho \o e) = ToSet(q)
  BY <1>1, <1>2, <1>4, <1>6, <1>7, <1>8
<1>11. InsertAt(r, j, q[i]) = ho \o e
  BY <1>5 DEF ho, one
<1>. QED BY <1>8, <1>9, <1>10, <1>11 DEF r

=============================================================================
