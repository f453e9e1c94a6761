---------------------------- MODULE Recursion_proofs ----------------------------
(***************************************************************************)
(* Induction and recursion on an initial segment of the naturals, stated   *)
(* for sets and functions, and what follows for flattened sequences: the   *)
(* facts behind the proofs about loops over files, lines, calls and        *)
(* findings.  Sequences are stated to be members of Seq(T) at every use,   *)
(* since Len means what is expected for sequences only.                    *)
(***************************************************************************)
EXTENDS Integers, SequencesExt, SequenceTheorems, WellFoundedInduction, TLAPS

\* A set of naturals has a least element, a bounded one a greatest.
LEMMA LeastExists ==
  ASSUME NEW S \in SUBSET Nat, S # {}
  PROVE  \E i \in S : \A j \in S : i <= j
<1>1. PICK i \in S : \A j \in S : <<j, i>> \notin OpToRel(<, Nat)
  BY WFMin, NatLessThanWellFounded, Zenon
<1>2. \A j \in S : ~(j < i)
  BY <1>1, Zenon DEF OpToRel
<1>3. \A j \in S : i <= j
  BY <1>2
<1> QED
  BY <1>3

LEMMA LastExists ==
  ASSUME NEW n \in Nat, NEW I \in SUBSET (1..n), I # {}
  PROVE  \E i \in I : \A j \in I : j <= i
<1> DEFINE Down == {n - i : i \in I}
<1>1. Down \in SUBSET Nat /\ Down # {}
  <2>1. \A i \in I : n - i \in Nat
    OBVIOUS
  <2>2. PICK i \in I : TRUE
    OBVIOUS
  <2>3. n - i \in Down
    BY <2>2
  <2> QED
    BY <2>1, <2>3
<1>2. PICK m \in Down : \A j \in Down : <<j, m>> \notin OpToRel(<, Nat)
  BY <1>1, WFMin, NatLessThanWellFounded, Zenon
<1>3. \A j \in Down : ~(j < m)
  BY <1>1, <1>2, Zenon DEF OpToRel
<1>4. PICK i \in I : m = n - i
  OBVIOUS
<1>5. \A j \in I : ~(n - j < n - i)
  BY <1>3, <1>4
<1> QED
  BY <1>5

LEMMA SegmentInduction ==
  ASSUME NEW n \in Nat, NEW P, 0 \in P,
         \A k \in 1..n : k - 1 \in P => k \in P
  PROVE  \A k \in 0..n : k \in P
<1> DEFINE Bad == {k \in 0..n : k \notin P}
<1> SUFFICES ASSUME Bad # {} PROVE FALSE
  OBVIOUS
<1>1. Bad \in SUBSET Nat /\ Bad # {}
  OBVIOUS
<1>2. PICK m \in Bad : \A j \in Bad : <<j, m>> \notin OpToRel(<, Nat)
  <2> HIDE DEF Bad
  <2> QED
    BY <1>1, WFMin, NatLessThanWellFounded, Zenon
<1>3. \A j \in Bad : ~(j < m)
  <2>1. \A j \in Bad : j \in Nat
    BY <1>1
  <2>2. m \in Nat
    BY <1>1
  <2> HIDE DEF Bad
  <2> QED
    BY <1>2, <2>1, <2>2, Zenon DEF OpToRel
<1>4. m \in 1..n
  OBVIOUS
<1>5. m - 1 \in Bad
  BY <1>4
<1> QED
  BY <1>3, <1>4, <1>5

Recursion(f, n, a, step) ==
  f[0] = a /\ \A k \in 1..n : f[k] = step[k][f[k - 1]]

\* A function defined by recursion on 0..n exists.
LEMMA SegmentRecursion ==
  ASSUME NEW n \in Nat, NEW S, NEW a \in S, NEW step \in [1..n -> [S -> S]]
  PROVE  \E f \in [0..n -> S] : Recursion(f, n, a, step)
<1> DEFINE Good(m, f) == f[0] = a /\ \A k \in 1..m : f[k] = step[k][f[k - 1]]
<1> DEFINE P == {m \in 0..n : \E f \in [0..m -> S] : Good(m, f)}
<1>1. 0 \in P
  <2>1. [k \in 0..0 |-> a] \in [0..0 -> S] /\ Good(0, [k \in 0..0 |-> a])
    OBVIOUS
  <2>2. \E f \in [0..0 -> S] : Good(0, f)
    <3> HIDE DEF Good
    <3> QED
      BY <2>1
  <2> QED
    BY <2>2
<1>2. \A k \in 1..n : k - 1 \in P => k \in P
  <2> SUFFICES ASSUME NEW m \in 1..n, m - 1 \in P PROVE m \in P
    OBVIOUS
  <2>1. PICK f \in [0..m - 1 -> S] : Good(m - 1, f)
    OBVIOUS
  <2> DEFINE v == step[m][f[m - 1]]
  <2> DEFINE g == [k \in 0..m |-> IF k = m THEN v ELSE f[k]]
  <2>2. f[m - 1] \in S
    OBVIOUS
  <2>3. v \in S
    BY <2>2
  <2>4. g \in [0..m -> S]
    <3> HIDE DEF v
    <3> QED
      BY <2>3
  <2>5. \A k \in 0..m - 1 : g[k] = f[k]
    OBVIOUS
  <2>6. g[m] = v
    OBVIOUS
  <2>7. Good(m, g)
    <3> HIDE DEF g
    <3>1. g[0] = a
      BY <2>1, <2>5
    <3>2. ASSUME NEW k \in 1..m PROVE g[k] = step[k][g[k - 1]]
      <4>1. CASE k = m
        BY <4>1, <2>5, <2>6
      <4>2. CASE k # m
        BY <4>2, <2>1, <2>5
      <4> QED
        BY <4>1, <4>2
    <3> QED
      BY <3>1, <3>2
  <2>8. \E h \in [0..m -> S] : Good(m, h)
    <3> HIDE DEF Good, g
    <3> QED
      BY <2>4, <2>7
  <2>9. m \in 0..n
    OBVIOUS
  <2> HIDE DEF Good, g, v
  <2> QED
    BY <2>8, <2>9
<1>3. n \in P
  <2> HIDE DEF P
  <2>1. \A k \in 0..n : k \in P
    BY <1>1, <1>2, SegmentInduction, Zenon
  <2> QED
    BY <2>1
<1> QED
  BY <1>3 DEF Recursion

----------------------------------------------------------------------------
(* Flattened sequences.                                                    *)

\* FlattenSeq's recursion has a solution, so it may be unfolded: prefix by
\* prefix it concatenates.
LEMMA FlattenUnfolds ==
  ASSUME NEW T, NEW ss \in Seq(Seq(T)), Len(ss) > 0
  PROVE  \E flat : /\ FlattenSeq(ss) = flat[Len(ss)]
                   /\ flat[1] = ss[1]
                   /\ \A k \in 2..Len(ss) : flat[k] = flat[k - 1] \o ss[k]
<1> DEFINE n == Len(ss)
<1> DEFINE S == Seq(T)
<1> DEFINE step == [k \in 1..n |-> [s \in S |-> s \o ss[k]]]
<1> DEFINE rec(f) == [i \in 1..n |-> IF i = 1 THEN ss[i] ELSE f[i - 1] \o ss[i]]
<1>0. n \in Nat /\ n > 0 /\ \A k \in 1..n : ss[k] \in S
  BY LenProperties, ElementOfSeq
<1>1. step \in [1..n -> [S -> S]]
  <2>1. ASSUME NEW k \in 1..n, NEW s \in S PROVE s \o ss[k] \in S
    BY <2>1, <1>0, ConcatProperties
  <2> HIDE DEF n, S
  <2> QED
    BY <2>1
<1>2. PICK f \in [0..n -> S] : f[0] = <<>> /\ \A k \in 1..n : f[k] = step[k][f[k - 1]]
  <2>1. <<>> \in S
    OBVIOUS
  <2>2. \E f \in [0..n -> S] : Recursion(f, n, <<>>, step)
    <3> HIDE DEF S, step, n
    <3> QED
      BY <1>0, <1>1, <2>1, SegmentRecursion, Zenon
  <2> HIDE DEF S, step, n
  <2> QED
    BY <2>2 DEF Recursion
<1> DEFINE g == [i \in 1..n |-> f[i]]
<1> DEFINE flat == CHOOSE h : h = rec(h)
<1>3. \A k \in 1..n : f[k] = f[k - 1] \o ss[k] /\ f[k - 1] \in S
  <2> TAKE k \in 1..n
  <2>1. k - 1 \in 0..n
    BY <1>0
  <2>2. f[k - 1] \in S
    BY <1>2, <2>1, Zenon
  <2>3. step[k][f[k - 1]] = f[k - 1] \o ss[k]
    <3> HIDE DEF n, S
    <3> QED
      BY <2>2
  <2> HIDE DEF n, S, step
  <2> QED
    BY <1>2, <2>2, <2>3, Zenon
<1>4. f[1] = ss[1]
  <2>1. 1 \in 1..n /\ 1 - 1 = 0
    BY <1>0
  <2>2. f[1] = f[0] \o ss[1]
    <3> HIDE DEF n, S, step
    <3> QED
      BY <1>3, <2>1
  <2>3. ss[1] \in Seq(T)
    BY <2>1, <1>0, Zenon
  <2>4. <<>> \o ss[1] = ss[1]
    BY <2>3, ConcatEmptySeq, Zenon
  <2> QED
    BY <2>2, <2>4, <1>2, Zenon
<1>5. g = rec(g)
  <2>1. ASSUME NEW i \in 1..n
        PROVE  f[i] = IF i = 1 THEN ss[i] ELSE g[i - 1] \o ss[i]
    <3> HIDE DEF n, S, step
    <3>1. CASE i = 1
      BY <3>1, <1>4
    <3>2. CASE i # 1
      <4>1. i - 1 \in 1..n
        BY <3>2, <1>0
      <4>2. g[i - 1] = f[i - 1]
        BY <4>1
      <4> HIDE DEF g
      <4> QED
        BY <3>2, <4>2, <1>3, Zenon
    <3> QED
      BY <3>1, <3>2
  <2> HIDE DEF n, S, step
  <2>2. g = [i \in 1..n |-> IF i = 1 THEN ss[i] ELSE g[i - 1] \o ss[i]]
    BY <2>1, Zenon
  <2> QED
    BY <2>2, Zenon
<1>6. flat = rec(flat)
  <2> HIDE DEF g, rec
  <2> QED
    BY <1>5, Zenon
<1>7. FlattenSeq(ss) = flat[n]
  BY <1>0 DEF FlattenSeq
<1> HIDE DEF flat
<1>8. \A i \in 1..n : flat[i] = IF i = 1 THEN ss[i] ELSE flat[i - 1] \o ss[i]
  <2> HIDE DEF n
  <2> QED
    BY <1>6, Zenon
<1>9. flat[1] = ss[1]
  <2>1. 1 \in 1..n
    BY <1>0
  <2> HIDE DEF n
  <2> QED
    BY <1>8, <2>1, Zenon
<1>10. \A k \in 2..n : flat[k] = flat[k - 1] \o ss[k]
  <2> TAKE k \in 2..n
  <2>1. k \in 1..n /\ k # 1
    BY <1>0
  <2> HIDE DEF n
  <2> QED
    BY <1>8, <2>1, Zenon
<1> QED
  BY <1>7, <1>9, <1>10, Zenon

Member(e, s) == e \in ToSet(s)

LEMMA MemberOfConcat ==
  ASSUME NEW T, NEW s \in Seq(T), NEW t \in Seq(T)
  PROVE  \A e : Member(e, s \o t) <=> Member(e, s) \/ Member(e, t)
<1>1. Range(s \o t) = Range(s) \cup Range(t)
  BY RangeConcatenation, Zenon
<1>2. \A q : Range(q) = ToSet(q)
  BY DEF Range, ToSet
<1> QED
  BY <1>1, <1>2, Zenon DEF Member

\* What the prefixes of a flattened sequence hold.
HoldPrefixes(flat, ss, T) ==
  /\ flat[1] = ss[1]
  /\ \A k \in 2..Len(ss) : flat[k] = flat[k - 1] \o ss[k]
  /\ \A k \in 1..Len(ss) : /\ flat[k] \in Seq(T)
                           /\ \A e : Member(e, flat[k]) <=> \E j \in 1..k : Member(e, ss[j])

LEMMA FlattenPrefixes ==
  ASSUME NEW T, NEW ss \in Seq(Seq(T)), Len(ss) > 0
  PROVE  \E flat : FlattenSeq(ss) = flat[Len(ss)] /\ HoldPrefixes(flat, ss, T)
<1> DEFINE n == Len(ss)
<1>0. n \in Nat /\ n > 0 /\ \A k \in 1..n : ss[k] \in Seq(T)
  BY LenProperties, ElementOfSeq
<1>1. PICK flat : /\ FlattenSeq(ss) = flat[n]
                  /\ flat[1] = ss[1]
                  /\ \A k \in 2..n : flat[k] = flat[k - 1] \o ss[k]
  BY FlattenUnfolds, Zenon
<1> DEFINE Holds(k) == \A e : Member(e, flat[k]) <=> \E j \in 1..k : Member(e, ss[j])
<1> DEFINE P == {k \in 0..n : k > 0 => flat[k] \in Seq(T) /\ Holds(k)}
<1> HIDE DEF n
<1>2. 0 \in P
  BY <1>0
<1>3. ASSUME NEW k \in 1..n, k - 1 \in P PROVE k \in P
  <2>0. k \in 0..n /\ k \in Nat /\ ss[k] \in Seq(T)
    BY <1>0
  <2>1. CASE k = 1
    <3>1. flat[k] = ss[k] /\ flat[k] \in Seq(T)
      BY <2>0, <2>1, <1>1, Zenon
    <3>2. k \in 1..k /\ \A j \in 1..k : j = k
      BY <2>1
    <3>3. Holds(k)
      BY <3>1, <3>2, Zenon
    <3> HIDE DEF Holds
    <3> QED
      BY <2>0, <3>1, <3>3
  <2>2. CASE k # 1
    <3>1. k \in 2..n /\ k - 1 > 0
      BY <2>0, <2>2
    <3>2. flat[k - 1] \in Seq(T) /\ Holds(k - 1)
      <4> HIDE DEF Holds
      <4> QED
        BY <1>3, <3>1
    <3> DEFINE u == flat[k - 1]
    <3>3. flat[k] = u \o ss[k]
      BY <3>1, <1>1, Zenon
    <3>4. u \in Seq(T)
      BY <3>2, Zenon
    <3>5. flat[k] \in Seq(T) /\ \A e : Member(e, flat[k]) <=> Member(e, u) \/ Member(e, ss[k])
      <4> HIDE DEF u
      <4>1. u \o ss[k] \in Seq(T)
        BY <3>4, <2>0, ConcatProperties, Zenon
      <4>2. \A e : Member(e, u \o ss[k]) <=> Member(e, u) \/ Member(e, ss[k])
        BY <3>4, <2>0, MemberOfConcat, Zenon
      <4> QED
        BY <3>3, <4>1, <4>2, Zenon
    <3>6. /\ \A j \in 1..k : j \in 1..(k - 1) \/ j = k
          /\ k \in 1..k /\ \A j \in 1..(k - 1) : j \in 1..k
      BY <2>0, <3>1
    <3>7. Holds(k)
      BY <3>2, <3>5, <3>6, Zenon
    <3> HIDE DEF Holds
    <3> QED
      BY <2>0, <3>5, <3>7
  <2> QED
    BY <2>1, <2>2
<1>4. \A k \in 1..n : flat[k] \in Seq(T) /\ Holds(k)
  <2>1. \A k \in 0..n : k \in P
    <3> HIDE DEF P
    <3> QED
      BY <1>0, <1>2, <1>3, SegmentInduction, Zenon
  <2>2. \A k \in 1..n : k \in 0..n /\ k > 0
    BY <1>0
  <2> HIDE DEF Holds
  <2> QED
    BY <2>1, <2>2
<1>5. HoldPrefixes(flat, ss, T)
  BY <1>1, <1>4, Zenon DEF HoldPrefixes, n
<1> QED
  BY <1>1, <1>5, Zenon DEF n

\* A flattened sequence holds what its parts hold.
LEMMA Flattened ==
  ASSUME NEW T, NEW ss \in Seq(Seq(T))
  PROVE  /\ FlattenSeq(ss) \in Seq(T)
         /\ \A e : Member(e, FlattenSeq(ss)) <=> \E j \in 1..Len(ss) : Member(e, ss[j])
<1>1. Len(ss) \in Nat
  BY LenProperties
<1>2. CASE Len(ss) = 0
  <2>1. FlattenSeq(ss) = <<>>
    BY <1>2, EmptySeq DEF FlattenSeq
  <2>2. \A e : ~Member(e, <<>>)
    BY DEF Member, ToSet
  <2>3. \A j \in 1..Len(ss) : FALSE
    BY <1>2
  <2>4. <<>> \in Seq(T)
    OBVIOUS
  <2> QED
    BY <2>1, <2>2, <2>3, <2>4, Zenon
<1>3. CASE Len(ss) > 0
  <2>1. PICK flat : FlattenSeq(ss) = flat[Len(ss)] /\ HoldPrefixes(flat, ss, T)
    BY <1>3, FlattenPrefixes, Zenon
  <2> DEFINE n == Len(ss)
  <2>2. n \in 1..n
    BY <1>1, <1>3
  <2>3. /\ flat[n] \in Seq(T)
        /\ \A e : Member(e, flat[n]) <=> \E j \in 1..n : Member(e, ss[j])
    BY <2>1, <2>2, Zenon DEF HoldPrefixes
  <2> QED
    BY <2>1, <2>3, Zenon
<1> QED
  BY <1>1, <1>2, <1>3

\* Of two elements of s the earlier one is related to the later one.
Ordered(s, R) == \A i, j \in 1..Len(s) : i < j => <<s[i], s[j]>> \in R

LEMMA ConcatOrdered ==
  ASSUME NEW T, NEW R, NEW s \in Seq(T), NEW t \in Seq(T), Ordered(s, R), Ordered(t, R),
         \A x, y : Member(x, s) /\ Member(y, t) => <<x, y>> \in R
  PROVE  Ordered(s \o t, R)
<1> DEFINE m == Len(s) n == Len(t) w == s \o t
<1>1. /\ m \in Nat /\ DOMAIN s = 1..m /\ n \in Nat /\ DOMAIN t = 1..n
      /\ w \in Seq(T) /\ Len(w) = m + n
  BY LenProperties, ConcatProperties
<1>2. \A i \in 1..m + n : w[i] = IF i <= m THEN s[i] ELSE t[i - m]
  BY ConcatProperties, Zenon
<1>3. (\A i \in 1..m : Member(s[i], s)) /\ (\A i \in 1..n : Member(t[i], t))
  BY <1>1 DEF Member, ToSet
<1>4. /\ \A i, j \in 1..m : i < j => <<s[i], s[j]>> \in R
      /\ \A i, j \in 1..n : i < j => <<t[i], t[j]>> \in R
  BY DEF Ordered
<1> HIDE DEF w, m, n
<1>5. ASSUME NEW i \in 1..m + n, NEW j \in 1..m + n, i < j PROVE <<w[i], w[j]>> \in R
  <2>1. CASE j <= m
    <3>1. i \in 1..m /\ j \in 1..m /\ i <= m
      BY <1>1, <1>5, <2>1
    <3>2. w[i] = s[i] /\ w[j] = s[j]
      BY <1>2, <2>1, <3>1, Zenon
    <3> QED
      BY <3>1, <3>2, <1>4, <1>5, Zenon
  <2>2. CASE i > m
    <3>1. /\ i - m \in 1..n /\ j - m \in 1..n /\ ~(i <= m) /\ ~(j <= m) /\ i - m < j - m
      BY <1>1, <1>5, <2>2
    <3>2. w[i] = t[i - m] /\ w[j] = t[j - m]
      BY <1>2, <3>1, Zenon
    <3> QED
      BY <3>1, <3>2, <1>4, Zenon
  <2>3. CASE i <= m /\ j > m
    <3>1. i \in 1..m /\ j - m \in 1..n /\ ~(j <= m)
      BY <1>1, <1>5, <2>3
    <3>2. w[i] = s[i] /\ w[j] = t[j - m]
      BY <1>2, <2>3, <3>1, Zenon
    <3> QED
      BY <3>1, <3>2, <1>3, Zenon
  <2> QED
    BY <1>1, <2>1, <2>2, <2>3
<1> QED
  BY <1>1, <1>5, Zenon DEF Ordered, w

LEMMA FlattenOrdered ==
  ASSUME NEW T, NEW R, NEW ss \in Seq(Seq(T)), \A k \in 1..Len(ss) : Ordered(ss[k], R),
         \A i, j \in 1..Len(ss) : \A x, y :
           i < j /\ Member(x, ss[i]) /\ Member(y, ss[j]) => <<x, y>> \in R
  PROVE  Ordered(FlattenSeq(ss), R)
<1> DEFINE n == Len(ss)
<1>0. n \in Nat /\ \A k \in 1..n : ss[k] \in Seq(T)
  BY LenProperties, ElementOfSeq
<1>1. CASE n = 0
  <2>1. FlattenSeq(ss) = <<>>
    BY <1>1, EmptySeq DEF FlattenSeq
  <2>2. Ordered(<<>>, R)
    BY DEF Ordered
  <2> QED
    BY <2>1, <2>2, Zenon
<1>2. CASE n > 0
  <2>1. PICK flat : FlattenSeq(ss) = flat[n] /\ HoldPrefixes(flat, ss, T)
    BY <1>2, FlattenPrefixes, Zenon
  <2>2. /\ flat[1] = ss[1]
        /\ \A k \in 2..n : flat[k] = flat[k - 1] \o ss[k]
        /\ \A k \in 1..n : flat[k] \in Seq(T)
        /\ \A k \in 1..n : \A e : Member(e, flat[k]) <=> \E j \in 1..k : Member(e, ss[j])
    BY <2>1, Zenon DEF HoldPrefixes
  <2> DEFINE P == {k \in 0..n : k > 0 => Ordered(flat[k], R)}
  <2>3. 0 \in P
    BY <1>0
  <2>4. ASSUME NEW k \in 1..n, k - 1 \in P PROVE k \in P
    <3>0. k \in 0..n /\ ss[k] \in Seq(T) /\ Ordered(ss[k], R)
      BY <1>0
    <3>1. CASE k = 1
      BY <3>0, <3>1, <2>2
    <3>2. CASE k # 1
      <4>1. k \in 2..n /\ k - 1 > 0 /\ k - 1 \in 1..n
        BY <3>2, <1>0
      <4> DEFINE u == flat[k - 1]
      <4>2. Ordered(u, R) /\ u \in Seq(T) /\ flat[k] = u \o ss[k]
        BY <2>2, <2>4, <4>1
      <4>3. \A x, y : Member(x, u) /\ Member(y, ss[k]) => <<x, y>> \in R
        <5>1. \A j \in 1..(k - 1) : j \in 1..n /\ j < k
          BY <1>0
        <5>2. \A x : Member(x, u) => \E j \in 1..(k - 1) : Member(x, ss[j])
          BY <2>2, <4>1, Zenon
        <5> HIDE DEF n, u
        <5> QED
          BY <5>1, <5>2, Zenon DEF n
      <4>4. Ordered(u \o ss[k], R)
        <5> HIDE DEF u, n
        <5> QED
          BY <4>2, <4>3, <3>0, ConcatOrdered, Zenon
      <4>5. Ordered(flat[k], R)
        BY <4>2, <4>4, Zenon
      <4> QED
        BY <3>0, <4>5
    <3> QED
      BY <3>1, <3>2
  <2>5. n \in P
    <3> HIDE DEF P
    <3>1. \A k \in 0..n : k \in P
      BY <1>0, <2>3, <2>4, SegmentInduction, Zenon
    <3> QED
      BY <3>1, <1>0
  <2> QED
    BY <2>1, <2>5, <1>2
<1> QED
  BY <1>0, <1>1, <1>2

=================================================================================
