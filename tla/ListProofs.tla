------------------------------ MODULE ListProofs ------------------------------
(***************************************************************************)
(* Facts about numbers and lists, for the proofs about files: least and    *)
(* greatest elements, a list without one of its elements, a number that    *)
(* no element of a list has.                                               *)
(***************************************************************************)
EXTENDS Integers, Sequences, FiniteSetTheorems, SequenceTheorems, TLAPS

LEMMA HasLeast ==
    ASSUME NEW T, T \subseteq Nat, T # {}
    PROVE  \E x \in T : \A y \in T : x <= y
  <1> DEFINE R == OpToRel(<, Nat)
  <1>1. \A x, y \in Nat : <<x, y>> \in R <=> x < y
    BY DEF OpToRel
  <1>2. IsWellFoundedOn(R, Nat)
    BY NatLessThanWellFounded
  <1> HIDE DEF R
  <1>3. \E x \in T : \A y \in T : ~(<<y, x>> \in R)
    BY <1>2, WFMin
  <1>4. PICK x \in T : \A y \in T : ~(y < x)
    BY <1>1, <1>3
  <1>5. \A y \in T : x <= y
    BY <1>4
  <1>6. QED
    BY <1>5

LEMMA HasGreatest ==
    ASSUME NEW n \in Nat, NEW T, T \subseteq 0 .. n, T # {}
    PROVE  \E x \in T : \A y \in T : x >= y
  <1> DEFINE U == {n - x : x \in T}
  <1>1. U \subseteq Nat /\ U # {}
    <2>1. \A x \in T : x \in 0 .. n /\ n - x \in Nat /\ n - x \in U
      OBVIOUS
    <2>2. U \subseteq Nat
      BY <2>1
    <2>3. PICK x \in T : TRUE
      OBVIOUS
    <2>4. QED
      BY <2>1, <2>2, <2>3
  <1>2. PICK u \in U : \A v \in U : u <= v
    BY <1>1, HasLeast
  <1>3. PICK x \in T : u = n - x
    OBVIOUS
  <1>4. \A y \in T : x >= y
    <2> SUFFICES ASSUME NEW y \in T PROVE x >= y
      OBVIOUS
    <2>1. n - y \in U /\ x \in 0 .. n /\ y \in 0 .. n
      OBVIOUS
    <2>2. n - x <= n - y
      BY <1>2, <1>3, <2>1
    <2>3. QED
      BY <2>1, <2>2
  <1>5. QED
    BY <1>4

\* No number of a list is greater than some number.
LEMMA ListHasBound ==
    ASSUME NEW n \in Nat, NEW f, \A i \in 1 .. n : f[i] \in Nat
    PROVE  \E b \in Nat : \A i \in 1 .. n : f[i] <= b
  <1> DEFINE Bounded(k) == \E b \in Nat : \A i \in 1 .. k : f[i] <= b
             T == {k \in 0 .. n : Bounded(k)}
  <1>1. Bounded(0)
    OBVIOUS
  <1>2. ASSUME NEW k \in 0 .. n, Bounded(k), k # n
        PROVE  Bounded(k + 1)
    <2>1. PICK b \in Nat : \A i \in 1 .. k : f[i] <= b
      BY <1>2
    <2>2. k + 1 \in 1 .. n /\ f[k + 1] \in Nat
      BY <1>2
    <2>3. PICK c \in Nat : c = b + f[k + 1]
      BY <2>2
    <2>4. ASSUME NEW i \in 1 .. k + 1
          PROVE  f[i] <= c
      <3>1. CASE i = k + 1
        BY <2>2, <2>3, <3>1
      <3>2. CASE i # k + 1
        <4>1. i \in 1 .. k /\ i \in 1 .. n
          BY <1>2, <2>4, <3>2
        <4>2. f[i] <= b /\ f[i] \in Nat
          BY <2>1, <4>1
        <4>3. QED
          BY <2>2, <2>3, <4>2
      <3>3. QED
        BY <3>1, <3>2
    <2>5. QED
      BY <2>4
  <1> HIDE DEF Bounded
  <1>3. T \subseteq 0 .. n /\ T # {}
    BY <1>1
  <1>4. PICK k \in T : \A j \in T : k >= j
    BY <1>3, HasGreatest
  <1>5. k = n
    <2>1. CASE k # n
      <3>1. k \in 0 .. n /\ Bounded(k)
        OBVIOUS
      <3>2. Bounded(k + 1) /\ k + 1 \in 0 .. n
        BY <1>2, <2>1, <3>1
      <3>3. k + 1 \in T
        BY <3>2
      <3>4. k >= k + 1
        BY <1>4, <3>3
      <3>5. QED
        BY <3>1, <3>4
    <2>2. QED
      BY <2>1
  <1>6. QED
    BY <1>5 DEF Bounded

\* A list without its k-th element.
LEMMA WithoutOne ==
    ASSUME NEW S, NEW s \in Seq(S), NEW k \in 1 .. Len(s)
    PROVE  LET r == SubSeq(s, 1, k - 1) \o SubSeq(s, k + 1, Len(s)) IN
           /\ r \in Seq(S)
           /\ Len(r) = Len(s) - 1
           /\ \A i \in 1 .. Len(s) - 1 : r[i] = IF i < k THEN s[i] ELSE s[i + 1]
  <1> DEFINE p == SubSeq(s, 1, k - 1)
             q == SubSeq(s, k + 1, Len(s))
  <1>1. Len(s) \in Nat /\ k \in Nat
    OBVIOUS
  <1>2. p \in Seq(S) /\ Len(p) = k - 1 /\ \A i \in 1 .. k - 1 : p[i] = s[i]
    BY <1>1, SubSeqProperties
  <1>3. q \in Seq(S) /\ Len(q) = Len(s) - k /\ \A i \in 1 .. Len(s) - k : q[i] = s[k + i]
    BY <1>1, SubSeqProperties
  <1> HIDE DEF p, q
  <1>4. p \o q \in Seq(S) /\ Len(p \o q) = Len(s) - 1
    <2>1. p \o q \in Seq(S) /\ Len(p \o q) = Len(p) + Len(q)
      BY <1>2, <1>3, ConcatProperties
    <2>2. QED
      BY <1>1, <1>2, <1>3, <2>1
  <1>5. \A i \in 1 .. Len(s) - 1 : (p \o q)[i] = IF i < k THEN s[i] ELSE s[i + 1]
    <2> SUFFICES ASSUME NEW i \in 1 .. Len(s) - 1
                 PROVE  (p \o q)[i] = IF i < k THEN s[i] ELSE s[i + 1]
      OBVIOUS
    <2>1. (p \o q)[i] = IF i <= Len(p) THEN p[i] ELSE q[i - Len(p)]
      BY <1>1, <1>2, <1>3, ConcatProperties
    <2>2. CASE i < k
      BY <1>1, <1>2, <2>1, <2>2
    <2>3. CASE ~(i < k)
      <3>1. i - Len(p) \in 1 .. Len(s) - k /\ k + (i - Len(p)) = i + 1
        BY <1>1, <1>2, <2>3
      <3>2. QED
        BY <1>1, <1>2, <1>3, <2>1, <2>3, <3>1
    <2>4. QED
      BY <2>2, <2>3
  <1>6. QED
    BY <1>4, <1>5 DEF p, q

\* One list after another.
Joined(o, h, p) ==
    /\ Len(p) = Len(o) + Len(h) /\ DOMAIN p = 1 .. Len(o) + Len(h)
    /\ \A k \in 1 .. Len(o) : p[k] = o[k]
    /\ \A k \in 1 .. Len(h) : p[Len(o) + k] = h[k]

LEMMA JoinedLists ==
    ASSUME NEW S, NEW o \in Seq(S), NEW h \in Seq(S), NEW p, p = o \o h
    PROVE  p \in Seq(S) /\ Joined(o, h, p)
  <1>1. PICK n \in Nat, m \in Nat : n = Len(o) /\ m = Len(h)
    OBVIOUS
  <1>2. /\ p \in Seq(S) /\ Len(p) = n + m
        /\ \A i \in 1 .. n + m : p[i] = IF i <= n THEN o[i] ELSE h[i - n]
    BY <1>1, ConcatProperties
  <1>3. DOMAIN p = 1 .. n + m
    BY <1>2
  <1>4. \A k \in 1 .. n : p[k] = o[k]
    BY <1>1, <1>2
  <1>5. ASSUME NEW k \in 1 .. m PROVE p[n + k] = h[k]
    <2>1. n + k \in 1 .. n + m /\ ~(n + k <= n) /\ (n + k) - n = k
      BY <1>1
    <2>2. QED
      BY <1>2, <2>1
  <1>6. QED
    BY <1>1, <1>2, <1>3, <1>4, <1>5 DEF Joined

\* A list with one element more, behind place q.
Behind(q, k) == IF k <= q THEN k ELSE k + 1
Widened(s, r, q, t) ==
    Len(r) = Len(s) + 1 /\ r[q + 1] = t /\ \A i \in 1 .. Len(s) : r[Behind(q, i)] = s[i]

LEMMA WithOneMore ==
    ASSUME NEW S, NEW s \in Seq(S), NEW q \in 1 .. Len(s), NEW t \in S, NEW r,
           r = SubSeq(s, 1, q) \o <<t>> \o SubSeq(s, q + 1, Len(s))
    PROVE  r \in Seq(S) /\ Widened(s, r, q, t)
  <1>1. PICK n \in Nat : n = Len(s)
    OBVIOUS
  <1>2. PICK a : a = SubSeq(s, 1, q)
    OBVIOUS
  <1>3. PICK c : c = SubSeq(s, q + 1, n)
    OBVIOUS
  <1>4. a \in Seq(S) /\ Len(a) = q /\ \A i \in 1 .. q : a[i] = s[i]
    BY <1>1, <1>2, SubSeqProperties
  <1>5. c \in Seq(S) /\ Len(c) = n - q /\ \A i \in 1 .. n - q : c[i] = s[q + i]
    BY <1>1, <1>3, SubSeqProperties
  <1>6. PICK one : one = <<t>>
    OBVIOUS
  <1>7. PICK b : b = a \o one
    OBVIOUS
  <1>8. b \in Seq(S) /\ Len(b) = q + 1 /\ (\A i \in 1 .. q : b[i] = a[i]) /\ b[q + 1] = t
    <2>1. one \in Seq(S) /\ Len(one) = 1 /\ one[1] = t /\ 1 \in 1 .. 1
      BY <1>6
    <2>2. b \in Seq(S) /\ Joined(a, one, b)
      BY <1>4, <1>7, <2>1, JoinedLists
    <2>3. QED
      BY <1>4, <2>1, <2>2 DEF Joined
  <1>9. r = b \o c
    BY <1>1, <1>2, <1>3, <1>6, <1>7
  <1>10. /\ r \in Seq(S) /\ Len(r) = q + 1 + (n - q)
         /\ \A i \in 1 .. q + 1 : r[i] = b[i]
         /\ \A i \in 1 .. n - q : r[q + 1 + i] = c[i]
    <2>1. r \in Seq(S) /\ Joined(b, c, r)
      BY <1>5, <1>8, <1>9, JoinedLists
    <2>2. QED
      BY <1>5, <1>8, <2>1 DEF Joined
  <1>11. r[q + 1] = t
    BY <1>8, <1>10
  <1>12. ASSUME NEW i \in 1 .. n
         PROVE  r[Behind(q, i)] = s[i]
    <2>1. CASE i <= q
      BY <1>4, <1>8, <1>10, <2>1 DEF Behind
    <2>2. CASE ~(i <= q)
      <3>1. i - q \in 1 .. n - q /\ q + 1 + (i - q) = i + 1 /\ q + (i - q) = i
        BY <1>1, <2>2
      <3>2. r[i + 1] = c[i - q] /\ c[i - q] = s[i]
        BY <1>5, <1>10, <3>1
      <3>3. QED
        BY <2>2, <3>2 DEF Behind
    <2>3. QED
      BY <2>1, <2>2
  <1>13. q + 1 + (n - q) = n + 1
    BY <1>1
  <1>14. QED
    BY <1>1, <1>10, <1>11, <1>12, <1>13 DEF Widened

\* Among n + 1 numbers there is one that a list of length n does not have.
LEMMA HasRoom ==
    ASSUME NEW n \in Nat, NEW f
    PROVE  (1 .. n + 1) \ {f[i] : i \in 1 .. n} # {}
  <1> DEFINE A == 1 .. n
             g == [i \in A |-> f[i]]
             B == {g[i] : i \in A}
  <1>1. IsFiniteSet(A) /\ Cardinality(A) = n
    BY FS_Interval
  <1>2. IsFiniteSet(B) /\ Cardinality(B) <= n
    <2>1. g \in Surjection(A, B)
      BY DEF Surjection
    <2> HIDE DEF g, B
    <2>2. QED
      BY <1>1, <2>1, FS_Surjection
  <1>3. IsFiniteSet(1 .. n + 1) /\ Cardinality(1 .. n + 1) = n + 1
    BY FS_Interval
  <1>4. ~(1 .. n + 1 \subseteq B)
    <2> HIDE DEF B
    <2> SUFFICES ASSUME 1 .. n + 1 \subseteq B PROVE FALSE
      OBVIOUS
    <2>1. Cardinality(1 .. n + 1) <= Cardinality(B)
      BY <1>2, FS_Subset
    <2>2. Cardinality(B) \in Nat
      BY <1>2, FS_CardinalityType
    <2>3. QED
      BY <1>2, <1>3, <2>1, <2>2
  <1>5. B = {f[i] : i \in 1 .. n}
    OBVIOUS
  <1>6. QED
    BY <1>4, <1>5

\* A set of places with two of them has more than one.
LEMMA MoreThanOne ==
    ASSUME NEW n \in Nat, NEW T, T \subseteq 1 .. n, NEW a \in T, NEW b \in T, a # b
    PROVE  Cardinality(T) > 1
  <1>1. IsFiniteSet(T)
    <2>1. T \in SUBSET Nat /\ \A x \in T : x <= n
      OBVIOUS
    <2>2. QED
      BY <2>1, FS_BoundedSetOfNaturals
  <1>2. IsFiniteSet({a, b}) /\ Cardinality({a, b}) = 2
    <2>1. IsFiniteSet({a}) /\ Cardinality({a}) = 1
      BY FS_Singleton
    <2>2. {a} \cup {b} = {a, b} /\ b \notin {a}
      OBVIOUS
    <2>3. QED
      BY <2>1, <2>2, FS_AddElement
  <1>3. Cardinality({a, b}) <= Cardinality(T) /\ Cardinality(T) \in Nat
    BY <1>1, FS_Subset, FS_CardinalityType
  <1>4. QED
    BY <1>2, <1>3

\* A list with as many elements as places has each of them once.
LEMMA AllDifferent ==
    ASSUME NEW n \in Nat, NEW h, DOMAIN h = 1 .. n, Cardinality({h[i] : i \in 1 .. n}) = n
    PROVE  \A i, j \in 1 .. n : h[i] = h[j] => i = j
  <1> DEFINE A == 1 .. n
             g == [i \in A |-> h[i]]
             B == {h[i] : i \in 1 .. n}
  <1>1. IsFiniteSet(A) /\ Cardinality(A) = n
    BY FS_Interval
  <1>2. g \in Surjection(A, B)
    BY DEF Surjection
  <1>3. \A i \in A : g[i] = h[i]
    OBVIOUS
  <1> HIDE DEF g, B
  <1>4. Cardinality(B) = Cardinality(A)
    BY <1>1 DEF B
  <1>5. g \in Injection(A, B)
    BY <1>1, <1>2, <1>4, FS_Surjection
  <1>6. QED
    BY <1>3, <1>5 DEF Injection, IsInjective

LEMMA PlacesAreFinite ==
    ASSUME NEW n \in Nat
    PROVE  IsFiniteSet(1 .. n) /\ Cardinality(1 .. n) = n
  BY FS_Interval

\* As many places, and not none.
LEMMA SameCounts ==
    ASSUME NEW n \in Nat, NEW A \in SUBSET (1 .. n), NEW B \in SUBSET (1 .. n),
           Cardinality(A) = Cardinality(B), B # {}
    PROVE  A # {}
  <1>1. IsFiniteSet(A) /\ IsFiniteSet(B)
    BY PlacesAreFinite, FS_Subset
  <1>2. QED
    BY <1>1, FS_EmptySet

-----------------------------------------------------------------------------
(***************************************************************************)
(* Numbers in order.                                                       *)
(***************************************************************************)
UpTo(S, k) == {j \in S : j <= k}

LEMMA CountedPlaces ==
    ASSUME NEW n \in Nat, NEW S, S \subseteq 1 .. n
    PROVE  IsFiniteSet(S) /\ Cardinality(S) \in Nat
  BY PlacesAreFinite, FS_Subset, FS_CardinalityType

LEMMA NothingToCount == Cardinality({}) = 0
  BY FS_EmptySet

LEMMA CountedUpTo ==
    ASSUME NEW n \in Nat, NEW S, S \subseteq 1 .. n, NEW k \in Nat
    PROVE  /\ IsFiniteSet(UpTo(S, k)) /\ Cardinality(UpTo(S, k)) \in Nat
           /\ Cardinality(UpTo(S, k)) <= Cardinality(S)
  <1>1. IsFiniteSet(S)
    BY PlacesAreFinite, FS_Subset
  <1>2. UpTo(S, k) \subseteq S
    BY DEF UpTo
  <1>3. QED
    BY <1>1, <1>2, FS_Subset, FS_CardinalityType

\* One number further: one more if it is there.
LEMMA CountsOn ==
    ASSUME NEW n \in Nat, NEW S, S \subseteq 1 .. n, NEW k \in Nat
    PROVE  Cardinality(UpTo(S, k + 1)) =
               IF k + 1 \in S THEN Cardinality(UpTo(S, k)) + 1 ELSE Cardinality(UpTo(S, k))
  <1>1. IsFiniteSet(UpTo(S, k))
    BY CountedUpTo
  <1> DEFINE next == k + 1
  <1>0. \A j \in S : j <= next <=> j <= k \/ j = next
    OBVIOUS
  <1>2. CASE next \in S
    <2>1. UpTo(S, next) = UpTo(S, k) \cup {next}
      <3> HIDE DEF next
      <3>1. QED
        BY <1>0, <1>2 DEF UpTo
    <2>2. next \notin UpTo(S, k)
      BY DEF UpTo
    <2>3. QED
      BY <1>1, <1>2, <2>1, <2>2, FS_AddElement
  <1>3. CASE next \notin S
    <2>1. \A j \in S : j <= next <=> j <= k
      BY <1>0, <1>3
    <2>2. UpTo(S, k + 1) = UpTo(S, k)
      BY <2>1 DEF UpTo
    <2>3. QED
      BY <1>3, <2>2
  <1>4. QED
    BY <1>2, <1>3

LEMMA CountsApart ==
    ASSUME NEW n \in Nat, NEW S, S \subseteq 1 .. n, NEW j \in S, NEW k \in S, j < k
    PROVE  Cardinality(UpTo(S, j)) < Cardinality(UpTo(S, k))
  <1>1. j \in Nat /\ k \in Nat /\ S \subseteq Nat
    OBVIOUS
  <1>2. UpTo(S, j) \subseteq UpTo(S, k)
    <2>1. \A i \in S : i <= j => i <= k
      BY <1>1
    <2>2. QED
      BY <2>1 DEF UpTo
  <1>6. k \in UpTo(S, k) /\ k \notin UpTo(S, j)
    BY <1>1 DEF UpTo
  <1>3. IsFiniteSet(UpTo(S, k)) /\ IsFiniteSet(UpTo(S, j))
    BY <1>1, CountedUpTo
  <1>4. UpTo(S, j) # UpTo(S, k)
    BY <1>6
  <1>5. QED
    BY <1>2, <1>3, <1>4, FS_Subset, FS_CardinalityType

LEMMA CountsOnce ==
    ASSUME NEW n \in Nat, NEW S, S \subseteq 1 .. n, NEW j \in S, NEW k \in S,
           Cardinality(UpTo(S, j)) = Cardinality(UpTo(S, k))
    PROVE  j = k
  <1>1. j \in Nat /\ k \in Nat /\ S \subseteq Nat
    OBVIOUS
  <1>2. Cardinality(UpTo(S, k)) \in Nat
    BY <1>1, CountedUpTo
  <1>3. ~(j < k)
    <2> SUFFICES ASSUME j < k PROVE FALSE
      OBVIOUS
    <2>1. Cardinality(UpTo(S, j)) < Cardinality(UpTo(S, k))
      BY CountsApart
    <2>2. QED
      BY <1>2, <2>1
  <1>5. ~(k < j)
    <2> SUFFICES ASSUME k < j PROVE FALSE
      OBVIOUS
    <2>1. Cardinality(UpTo(S, k)) < Cardinality(UpTo(S, j))
      BY CountsApart
    <2>2. QED
      BY <1>2, <2>1
  <1>4. QED
    BY <1>1, <1>3, <1>5

LEMMA UpToSome ==
    ASSUME NEW n \in Nat, NEW S, S \subseteq 1 .. n, NEW k \in Nat, UpTo(S, k) # {}
    PROVE  Cardinality(UpTo(S, k)) # 0
  BY CountedUpTo, FS_EmptySet

LEMMA CountsReach ==
    ASSUME NEW n \in Nat, NEW S, S \subseteq 1 .. n, NEW m \in 1 .. Cardinality(S)
    PROVE  \E k \in S : Cardinality(UpTo(S, k)) = m
  <1> DEFINE T == {k \in Nat : m <= Cardinality(UpTo(S, k))}
  <1>1. m \in Nat /\ m # 0 /\ m <= Cardinality(S)
    <2>1. Cardinality(S) \in Nat
      BY CountedPlaces
    <2>2. QED
      BY <2>1
  <1>2. UpTo(S, n) = S /\ UpTo(S, 0) = {}
    <2>1. \A j \in S : j <= n /\ ~(j <= 0)
      OBVIOUS
    <2>2. QED
      BY <2>1 DEF UpTo
  <1>3. n \in T /\ Cardinality(UpTo(S, 0)) = 0
    BY <1>1, <1>2, FS_EmptySet
  <1>4. PICK k \in T : \A j \in T : k <= j
    BY <1>3, HasLeast
  <1>5. k \in Nat /\ k # 0
    BY <1>1, <1>3, <1>4
  <1>6. PICK j \in Nat : k = j + 1
    <2>1. k - 1 \in Nat /\ k = (k - 1) + 1
      BY <1>5
    <2>2. QED
      BY <2>1
  <1>7. j \notin T
    BY <1>4, <1>6
  <1>8. Cardinality(UpTo(S, j)) \in Nat /\ Cardinality(UpTo(S, j)) < m
    <2>1. Cardinality(UpTo(S, j)) \in Nat
      BY CountedUpTo
    <2>2. ~(m <= Cardinality(UpTo(S, j)))
      BY <1>7
    <2>3. QED
      BY <1>1, <2>1, <2>2
  <1>9. m <= Cardinality(UpTo(S, k))
    BY <1>4
  <1>10. k \in S /\ Cardinality(UpTo(S, k)) = Cardinality(UpTo(S, j)) + 1
    <2>1. PICK c : c = Cardinality(UpTo(S, j))
      OBVIOUS
    <2>2. Cardinality(UpTo(S, k)) = IF k \in S THEN c + 1 ELSE c
      BY <1>6, <2>1, CountsOn
    <2>3. ~(m <= c)
      BY <1>1, <1>8, <2>1
    <2>4. QED
      BY <1>9, <2>1, <2>2, <2>3
  <1>11. QED
    BY <1>1, <1>8, <1>9, <1>10


===============================================================================
