--------------------------- MODULE Triage_proofs ---------------------------
(***************************************************************************)
(* Theorems about the join of the triage file with later scans, for any    *)
(* number of findings and any collisions among them.                       *)
(***************************************************************************)
EXTENDS Triage, Recursion_proofs, FiniteSetTheorems

----------------------------------------------------------------------------
(* The reviewed findings of a scan, as a flattened sequence.              *)

LEMMA ThoseParts ==
  ASSUME NEW T, NEW S, NEW s \in Seq(T)
  PROVE  \E ss \in Seq(Seq(T)) :
           /\ Those(s, S) = FlattenSeq(ss) /\ Len(ss) = Len(s)
           /\ \A k \in 1..Len(s) :
                /\ ss[k] = <<>> \/ ss[k] = <<s[k]>>
                /\ \A e : Member(e, ss[k]) <=> e = s[k] /\ s[k] \in S
<1> DEFINE n == Len(s)
<1> DEFINE part(k) == IF s[k] \in S THEN <<s[k]>> ELSE <<>>
<1> DEFINE ss == [k \in 1..n |-> part(k)]
<1>1. n \in Nat /\ \A k \in 1..n : s[k] \in T
  BY LenProperties, ElementOfSeq
<1>2. \A k \in 1..n : part(k) \in Seq(T)
  <2> TAKE k \in 1..n
  <2> DEFINE e == s[k]
  <2>1. <<e>> \in Seq(T) /\ <<>> \in Seq(T)
    <3> HIDE DEF e, n
    <3> QED
      BY <1>1 DEF e
  <2> QED
    BY <2>1, Zenon
<1>3. \A k \in 1..n : \A e : Member(e, part(k)) <=> e = s[k] /\ s[k] \in S
  <2>1. \A u : \A e : Member(e, <<u>>) <=> e = u
    BY DEF Member, ToSet
  <2>2. \A e : ~Member(e, <<>>)
    BY DEF Member, ToSet
  <2> QED
    BY <2>1, <2>2, Zenon
<1>4. \A k \in 1..n : part(k) = <<>> \/ part(k) = <<s[k]>>
  BY Zenon
<1>5. ss \in Seq(Seq(T)) /\ Len(ss) = n /\ \A k \in 1..n : ss[k] = part(k)
  <2> HIDE DEF n, part
  <2>1. ss \in [1..n -> Seq(T)]
    BY <1>2
  <2>2. ss \in Seq(Seq(T))
    BY <1>1, <2>1, SeqDef
  <2>3. Len(ss) = n
    BY <1>1, <2>2, LenProperties
  <2> QED
    BY <2>2, <2>3
<1>6. Those(s, S) = FlattenSeq(ss)
  BY Zenon DEF Those
<1> HIDE DEF ss, part
<1>7. \A k \in 1..n : /\ ss[k] = <<>> \/ ss[k] = <<s[k]>>
                      /\ \A e : Member(e, ss[k]) <=> e = s[k] /\ s[k] \in S
  BY <1>3, <1>4, <1>5, Zenon
<1> QED
  BY <1>5, <1>6, <1>7, Zenon

LEMMA ThoseHold ==
  ASSUME NEW T, NEW S, NEW s \in Seq(T)
  PROVE  /\ Those(s, S) \in Seq(T)
         /\ \A e : Member(e, Those(s, S)) <=> Member(e, s) /\ e \in S
<1>1. PICK ss \in Seq(Seq(T)) :
           /\ Those(s, S) = FlattenSeq(ss) /\ Len(ss) = Len(s)
           /\ \A k \in 1..Len(s) : \A e : Member(e, ss[k]) <=> e = s[k] /\ s[k] \in S
  BY ThoseParts, Zenon
<1>2. \A e : Member(e, s) <=> \E k \in 1..Len(s) : e = s[k]
  <2>1. DOMAIN s = 1..Len(s)
    BY LenProperties, Zenon
  <2> QED
    BY <2>1 DEF Member, ToSet
<1>3. /\ FlattenSeq(ss) \in Seq(T)
      /\ \A e : Member(e, FlattenSeq(ss)) <=> \E j \in 1..Len(ss) : Member(e, ss[j])
  BY Flattened, Zenon
<1> DEFINE t == FlattenSeq(ss)
<1>4. \A e : Member(e, t) <=> Member(e, s) /\ e \in S
  <2> TAKE e
  <2>1. Member(e, t) <=> \E j \in 1..Len(s) : Member(e, ss[j])
    BY <1>1, <1>3, Zenon
  <2> HIDE DEF t
  <2>2. (\E j \in 1..Len(s) : Member(e, ss[j])) <=> \E j \in 1..Len(s) : e = s[j] /\ s[j] \in S
    BY <1>1, Zenon
  <2> QED
    BY <2>1, <2>2, <1>2, Zenon
<1> QED
  BY <1>1, <1>3, <1>4, Zenon

LEMMA ThoseOrdered ==
  ASSUME NEW T, NEW S, NEW R, NEW s \in Seq(T), Ordered(s, R)
  PROVE  Ordered(Those(s, S), R)
<1>1. PICK ss \in Seq(Seq(T)) :
           /\ Those(s, S) = FlattenSeq(ss) /\ Len(ss) = Len(s)
           /\ \A k \in 1..Len(s) :
                /\ ss[k] = <<>> \/ ss[k] = <<s[k]>>
                /\ \A e : Member(e, ss[k]) <=> e = s[k] /\ s[k] \in S
  BY ThoseParts, Zenon
<1>2. \A k \in 1..Len(ss) : Ordered(ss[k], R)
  <2>1. Ordered(<<>>, R) /\ \A u : Ordered(<<u>>, R)
    BY DEF Ordered
  <2> QED
    BY <2>1, <1>1, Zenon
<1>3. \A i, j \in 1..Len(ss) : \A x, y :
        i < j /\ Member(x, ss[i]) /\ Member(y, ss[j]) => <<x, y>> \in R
  BY <1>1, Zenon DEF Ordered
<1>4. Ordered(FlattenSeq(ss), R)
  BY <1>2, <1>3, FlattenOrdered, Zenon
<1> QED
  BY <1>1, <1>4, Zenon

----------------------------------------------------------------------------
(* Ids.                                                                    *)

\* The findings up to position k that have the spine of the finding at k.
Peers(s, k) == {j \in 1..k : SpineOf[s[j]] = SpineOf[s[k]]}

LEMMA PeersFinite ==
  ASSUME NEW s, NEW k \in Int
  PROVE  IsFiniteSet(Peers(s, k))
<1>1. IsFiniteSet(1..k) BY FS_Interval
<1> QED BY <1>1, FS_Subset DEF Peers

\* The later of two findings of one spine has the larger suffix.
LEMMA SuffixesGrow ==
  ASSUME NEW s, NEW j \in Int, NEW k \in Int, 1 <= j, j < k,
         SpineOf[s[j]] = SpineOf[s[k]]
  PROVE  Cardinality(Peers(s, j)) < Cardinality(Peers(s, k))
<1>1. Peers(s, j) \subseteq Peers(s, k) BY DEF Peers
<1>2. k \in Peers(s, k) /\ k \notin Peers(s, j) BY DEF Peers
<1> QED BY <1>1, <1>2, PeersFinite, FS_Subset, FS_CardinalityType

LEMMA SuffixesDiffer ==
  ASSUME NEW s, NEW j \in Int, NEW k \in Int, 1 <= j, j < k
  PROVE  IdAt(s, j) # IdAt(s, k)
<1> SUFFICES ASSUME IdAt(s, j) = IdAt(s, k) PROVE FALSE OBVIOUS
<1>1. SpineOf[s[j]] = SpineOf[s[k]] BY DEF IdAt
<1>2. Cardinality(Peers(s, j)) = Cardinality(Peers(s, k)) BY DEF IdAt, Peers
<1>3. Cardinality(Peers(s, j)) < Cardinality(Peers(s, k)) BY <1>1, SuffixesGrow
<1>4. Cardinality(Peers(s, j)) \in Nat BY PeersFinite, FS_CardinalityType
<1> QED BY <1>2, <1>3, <1>4

(* No two findings of a scan ever share an id (assign_finding_ids), for    *)
(* any number of findings and any collisions among them.                   *)
THEOREM FindingIdsUnique == Spec => []IdsUnique
<1>1. IdsUnique
  <2> SUFFICES ASSUME NEW j \in 1..Len(scan), NEW k \in 1..Len(scan),
                      IdAt(scan, j) = IdAt(scan, k)
               PROVE  j = k
      BY DEF IdsUnique
  <2>1. ~(j < k) BY SuffixesDiffer
  <2>2. ~(k < j) BY SuffixesDiffer
  <2> QED BY <2>1, <2>2
<1> QED BY <1>1, PTL

----------------------------------------------------------------------------
(* Types.                                                                  *)

Distinct == {p \in Sites \X Sites : p[1] # p[2]}

LEMMA InjectiveIsOrdered ==
  ASSUME NEW s \in Seq(Sites)
  PROVE  IsInjective(s) <=> Ordered(s, Distinct)
<1> DEFINE n == Len(s)
<1>1. n \in Nat /\ DOMAIN s = 1..n /\ \A k \in 1..n : s[k] \in Sites
  BY LenProperties, ElementOfSeq
<1> HIDE DEF n
<1>2. IsInjective(s) => Ordered(s, Distinct)
  BY <1>1 DEF IsInjective, Ordered, Distinct, n
<1>3. ASSUME Ordered(s, Distinct), NEW i \in 1..n, NEW j \in 1..n, s[i] = s[j]
      PROVE  i = j
  <2>1. ~(i < j)
    BY <1>3 DEF Ordered, Distinct, n
  <2>2. ~(j < i)
    BY <1>3 DEF Ordered, Distinct, n
  <2> QED
    BY <1>1, <2>1, <2>2
<1> QED
  BY <1>1, <1>2, <1>3 DEF IsInjective

\* Every present site is emitted once.
LEMMA EmittedOnce ==
  ASSUME rank \in [Sites -> Absent..MaxRank]
  PROVE  EmittedOrder \in Seq(Sites) /\ IsInjective(EmittedOrder)
<1> DEFINE n == MaxRank + 1
<1> DEFINE Tier(r) == {x \in Sites : rank[x] = r}
<1> DEFINE ss == [r \in 1..n |-> Those(DetectSeq, Tier(r - 1))]
<1>1. n \in Nat /\ DetectSeq \in Seq(Sites) /\ IsInjective(DetectSeq)
  BY TriageAssumption
<1>2. ASSUME NEW r
      PROVE  /\ Those(DetectSeq, Tier(r)) \in Seq(Sites)
             /\ \A e : Member(e, Those(DetectSeq, Tier(r))) => e \in Tier(r)
             /\ Ordered(Those(DetectSeq, Tier(r)), Distinct)
  <2> HIDE DEF Tier
  <2>1. Ordered(DetectSeq, Distinct)
    BY <1>1, InjectiveIsOrdered, Zenon
  <2>2. Ordered(Those(DetectSeq, Tier(r)), Distinct)
    BY <1>1, <2>1, ThoseOrdered, Zenon
  <2>3. /\ Those(DetectSeq, Tier(r)) \in Seq(Sites)
        /\ \A e : Member(e, Those(DetectSeq, Tier(r))) <=> Member(e, DetectSeq) /\ e \in Tier(r)
    BY <1>1, ThoseHold, Zenon
  <2> QED
    BY <2>2, <2>3, Zenon
<1>3. ss \in Seq(Seq(Sites)) /\ Len(ss) = n
      /\ \A r \in 1..n : ss[r] = Those(DetectSeq, Tier(r - 1))
  <2> HIDE DEF n, Tier
  <2>1. ss \in [1..n -> Seq(Sites)]
    BY <1>2
  <2>2. ss \in Seq(Seq(Sites))
    BY <1>1, <2>1, SeqDef
  <2>3. Len(ss) = n
    BY <1>1, <2>2, LenProperties
  <2> QED
    BY <2>2, <2>3
<1>4. EmittedOrder = FlattenSeq(ss)
  BY Zenon DEF EmittedOrder
<1> HIDE DEF ss
<1>5. \A r \in 1..Len(ss) : Ordered(ss[r], Distinct)
  <2> HIDE DEF Tier, n
  <2> QED
    BY <1>2, <1>3, Zenon
<1>6. ASSUME NEW i \in 1..Len(ss), NEW j \in 1..Len(ss), NEW x, NEW y,
             i < j, Member(x, ss[i]), Member(y, ss[j])
      PROVE  <<x, y>> \in Distinct
  <2>1. x \in Tier(i - 1) /\ y \in Tier(j - 1)
    <3> HIDE DEF Tier, n
    <3> QED
      BY <1>2, <1>3, <1>6, Zenon
  <2>2. i - 1 # j - 1
    BY <1>1, <1>3, <1>6
  <2> QED
    BY <2>1, <2>2 DEF Distinct
<1>7. FlattenSeq(ss) \in Seq(Sites)
  BY <1>3, Flattened, Zenon
<1>8. Ordered(FlattenSeq(ss), Distinct)
  BY <1>3, <1>5, <1>6, FlattenOrdered, Zenon
<1> QED
  BY <1>4, <1>7, <1>8, InjectiveIsOrdered, Zenon

\* The ids that a report can show are ids.
LEMMA IdsTyped ==
  ASSUME TypeOK, NEW k \in 1..Len(scan)
  PROVE  /\ scan[k] \in Sites
         /\ IdAt(scan, k) = <<SpineOf[scan[k]], Cardinality(Peers(scan, k))>>
         /\ IdAt(scan, k) \in Ids
<1> DEFINE P == Peers(scan, k)
<1> DEFINE n == Len(scan)
<1>1. /\ n \in Nat /\ DOMAIN scan = 1..n
      /\ \A j \in 1..n : scan[j] \in Sites
      /\ \A i, j \in 1..n : scan[i] = scan[j] => i = j
  <2>1. scan \in Seq(Sites)
    BY DEF TypeOK
  <2>2. n \in Nat /\ DOMAIN scan = 1..n /\ \A j \in 1..n : scan[j] \in Sites
    BY <2>1, LenProperties, ElementOfSeq
  <2> HIDE DEF n
  <2> QED
    BY <2>2 DEF TypeOK, IsInjective
<1> HIDE DEF n
<1>0. k \in 1..n
  BY DEF n
<1>2. IsFiniteSet(P) /\ P \subseteq 1..n /\ k \in P
  BY <1>0, <1>1, PeersFinite DEF Peers
<1>3. Cardinality(P) \in Nat /\ Cardinality(P) # 0
  <2> HIDE DEF P
  <2> QED
    BY <1>2, FS_CardinalityType, FS_EmptySet
<1>4. Cardinality(P) <= Cardinality(Sites) /\ Cardinality(Sites) \in Nat
  <2> DEFINE f == [j \in P |-> scan[j]]
  <2> HIDE DEF P
  <2>1. f \in [P -> Sites] /\ DOMAIN f = P
    BY <1>1, <1>2
  <2>2. \A i, j \in P : f[i] = f[j] => i = j
    BY <1>1, <1>2
  <2>3. f \in Injection(P, Sites)
    BY <2>1, <2>2, Zenon DEF Injection, IsInjective
  <2>4. IsFiniteSet(Sites)
    BY TriageAssumption
  <2> HIDE DEF f
  <2> QED
    BY <2>3, <2>4, FS_Injection, FS_CardinalityType
<1>5. Cardinality(P) \in 1..Cardinality(Sites)
  <2> HIDE DEF P
  <2> QED
    BY <1>3, <1>4
<1>6. IdAt(scan, k) = <<SpineOf[scan[k]], Cardinality(P)>>
  BY DEF IdAt, Peers
<1> HIDE DEF P
<1>7. scan[k] \in Sites
  BY <1>0, <1>1
<1>8. <<SpineOf[scan[k]], Cardinality(P)>> \in Ids
  BY <1>5, <1>7, TriageAssumption DEF Ids
<1> QED
  BY <1>6, <1>7, <1>8, Zenon DEF P

LEMMA InitTyped == Init => TypeOK
<1> SUFFICES ASSUME Init PROVE TypeOK
  OBVIOUS
<1>1. scan \in Seq(Sites) /\ IsInjective(scan)
  BY DEF Init, IsInjective
<1> QED
  BY <1>1 DEF Init, TypeOK

LEMMA StepTyped == TypeOK /\ [Next]_vars => TypeOK'
<1> SUFFICES ASSUME TypeOK, [Next]_vars PROVE TypeOK'
  OBVIOUS
<1>1. ASSUME NEW x \in Sites, Edit(x) PROVE TypeOK'
  BY <1>1 DEF Edit, TypeOK
<1>2. CASE Scan
  <2>1. rank \in [Sites -> Absent..MaxRank]
    BY DEF TypeOK
  <2>2. EmittedOrder \in Seq(Sites) /\ IsInjective(EmittedOrder)
    BY <2>1, EmittedOnce
  <2>3. scan' \in Seq(Sites) /\ IsInjective(scan')
    BY <1>2, <2>2, Zenon DEF Scan
  <2> QED
    BY <1>2, <2>3 DEF Scan, TypeOK
<1>3. ASSUME NEW k \in 1..Len(scan), NEW v \in Verdicts, Review(k, v) PROVE TypeOK'
  <2>1. IdAt(scan, k) \in Ids /\ scan[k] \in Sites
    BY IdsTyped
  <2> DEFINE id == IdAt(scan, k)
  <2>2. annotations' = [annotations EXCEPT ![id] = v] /\ judged' = [judged EXCEPT ![scan[k]] = v]
    BY <1>3 DEF Review
  <2> HIDE DEF id
  <2>3. annotations' \in [Ids -> Verdicts \cup {Unreviewed}]
    BY <2>2 DEF TypeOK
  <2>4. judged' \in [Sites -> Verdicts \cup {Unreviewed}]
    BY <2>2 DEF TypeOK
  <2> QED
    BY <1>3, <2>3, <2>4 DEF Review, TypeOK
<1>4. CASE UNCHANGED vars
  BY <1>4 DEF vars, TypeOK
<1> QED
  BY <1>1, <1>2, <1>3, <1>4 DEF Next

(* The types of the triage state: a scan holds each finding once, and every *)
(* annotation is under an id that some scan can show.                       *)
THEOREM TriageTypeCorrect == Spec => []TypeOK
<1> QED
  BY InitTyped, StepTyped, PTL DEF Spec

----------------------------------------------------------------------------
(* A finding that shares its class, file and title with no other.          *)

Sole(x) == \A y \in Sites \ {x} : SpineOf[y] # SpineOf[x]

SoleInv ==
  /\ TypeOK
  /\ \A x \in Sites : Sole(x) => annotations[<<SpineOf[x], 1>>] = judged[x]

\* Its id is the bare hash, wherever it stands.
LEMMA SoleId ==
  ASSUME TypeOK, NEW k \in 1..Len(scan), Sole(scan[k])
  PROVE  IdAt(scan, k) = <<SpineOf[scan[k]], 1>>
<1>1. /\ Len(scan) \in Nat /\ DOMAIN scan = 1..Len(scan)
      /\ \A j \in 1..Len(scan) : scan[j] \in Sites
  <2>1. scan \in Seq(Sites)
    BY DEF TypeOK
  <2> QED
    BY <2>1, LenProperties, ElementOfSeq
<1>2. Peers(scan, k) = {k}
  <2>1. ASSUME NEW j \in Peers(scan, k) PROVE j = k
    <3>1. j \in 1..Len(scan) /\ SpineOf[scan[j]] = SpineOf[scan[k]]
      BY <1>1 DEF Peers
    <3>2. scan[j] = scan[k]
      BY <1>1, <3>1 DEF Sole
    <3> QED
      BY <1>1, <3>1, <3>2 DEF TypeOK, IsInjective
  <2>2. k \in Peers(scan, k)
    BY <1>1 DEF Peers
  <2> QED
    BY <2>1, <2>2
<1>3. Cardinality({k}) = 1
  BY FS_Singleton
<1> QED
  BY <1>2, <1>3, IdsTyped, Zenon

LEMMA SoleInit == Init => SoleInv
<1> SUFFICES ASSUME Init, NEW x \in Sites
             PROVE  annotations[<<SpineOf[x], 1>>] = judged[x]
  BY InitTyped DEF SoleInv
<1>1. Cardinality(Sites) \in Nat /\ Cardinality(Sites) # 0
  BY TriageAssumption, FS_CardinalityType, FS_EmptySet
<1>2. <<SpineOf[x], 1>> \in Ids
  BY <1>1, TriageAssumption DEF Ids
<1> QED
  BY <1>2 DEF Init

LEMMA SoleStep == SoleInv /\ [Next]_vars => SoleInv'
<1> SUFFICES ASSUME SoleInv, [Next]_vars PROVE SoleInv'
  OBVIOUS
<1>1. TypeOK /\ TypeOK'
  BY StepTyped DEF SoleInv
<1>2. ASSUME NEW k \in 1..Len(scan), NEW v \in Verdicts, Review(k, v) PROVE SoleInv'
  <2> DEFINE id == IdAt(scan, k)
  <2>1. /\ annotations' = [annotations EXCEPT ![id] = v]
        /\ judged' = [judged EXCEPT ![scan[k]] = v]
    BY <1>2 DEF Review
  <2>2. /\ id \in Ids /\ scan[k] \in Sites
        /\ id = <<SpineOf[scan[k]], Cardinality(Peers(scan, k))>>
    BY <1>1, IdsTyped
  <2>3. Sole(scan[k]) => id = <<SpineOf[scan[k]], 1>>
    BY <1>1, SoleId
  <2> HIDE DEF id
  <2>4. ASSUME NEW x \in Sites, Sole(x)
        PROVE  annotations'[<<SpineOf[x], 1>>] = judged'[x]
    <3>1. annotations[<<SpineOf[x], 1>>] = judged[x]
      BY <2>4 DEF SoleInv
    <3>2. CASE x = scan[k]
      BY <1>1, <2>1, <2>2, <2>3, <2>4, <3>2 DEF TypeOK
    <3>3. CASE x # scan[k]
      <4>1. SpineOf[scan[k]] # SpineOf[x]
        BY <2>2, <2>4, <3>3 DEF Sole
      <4>2. id # <<SpineOf[x], 1>>
        BY <2>2, <4>1
      <4>3. annotations'[<<SpineOf[x], 1>>] = annotations[<<SpineOf[x], 1>>]
        BY <1>1, <2>1, <4>2 DEF TypeOK
      <4>4. judged'[x] = judged[x]
        BY <1>1, <2>1, <3>3 DEF TypeOK
      <4> QED
        BY <3>1, <4>3, <4>4
    <3> QED
      BY <3>2, <3>3
  <2> QED
    BY <1>1, <2>4 DEF SoleInv
<1>3. CASE UNCHANGED <<annotations, judged>>
  BY <1>1, <1>3 DEF SoleInv
<1> QED
  BY <1>2, <1>3 DEF Next, Edit, Scan, vars

(* A finding that no other finding can be confused with keeps the verdict  *)
(* that the reviewer gave it, through all edits and later scans.           *)
THEOREM SoleFindingKept == Spec => []SoleFindingKeepsVerdict
<1>1. SoleInv => SoleFindingKeepsVerdict
  <2> SUFFICES ASSUME SoleInv, NEW k \in 1..Len(scan), Sole(scan[k])
               PROVE  Shown(k) = judged[scan[k]]
    BY DEF SoleFindingKeepsVerdict, Sole
  <2>1. TypeOK
    BY DEF SoleInv
  <2>2. IdAt(scan, k) = <<SpineOf[scan[k]], 1>> /\ scan[k] \in Sites
    BY <2>1, SoleId, IdsTyped
  <2> QED
    BY <2>2 DEF SoleInv, Shown
<1> QED
  BY SoleInit, SoleStep, <1>1, PTL DEF Spec

----------------------------------------------------------------------------
(* Annotations of findings that are gone.                                  *)

\* The findings of spine sp up to position k.
OfSpine(s, k, sp) == {j \in 1..k : SpineOf[s[j]] = sp}

\* The suffixes of a spine leave no gap: with m findings of it, or more, one
\* of them has suffix m.
LEMMA SuffixesFill ==
  ASSUME NEW s \in Seq(Sites), NEW sp, NEW m \in Nat \ {0},
         m <= Cardinality(OfSpine(s, Len(s), sp))
  PROVE  \E k \in 1..Len(s) : IdAt(s, k) = <<sp, m>>
<1> DEFINE n == Len(s)
<1> DEFINE U(k) == OfSpine(s, k, sp)
<1> DEFINE P == {k \in 0..n : Cardinality(U(k)) < m}
<1>0. n \in Nat
  BY LenProperties
<1>1. ASSUME NEW k \in Nat PROVE IsFiniteSet(U(k)) /\ Cardinality(U(k)) \in Nat
  <2>1. IsFiniteSet(1..k)
    BY FS_Interval
  <2>2. U(k) \subseteq 1..k
    BY DEF OfSpine
  <2> HIDE DEF U
  <2> QED
    BY <2>1, <2>2, FS_Subset, FS_CardinalityType
<1> SUFFICES ASSUME \A k \in 1..n : IdAt(s, k) # <<sp, m>> PROVE FALSE
  OBVIOUS
<1>2. 0 \in P
  <2>1. U(0) = {}
    BY DEF OfSpine
  <2>2. Cardinality({}) = 0
    BY FS_EmptySet
  <2>3. Cardinality(U(0)) < m
    <3> HIDE DEF U
    <3>1. Cardinality(U(0)) = 0
      BY <2>1, <2>2, Zenon
    <3> QED
      BY <3>1
  <2>4. 0 \in 0..n
    BY <1>0
  <2> HIDE DEF U
  <2> QED
    BY <2>3, <2>4
<1>3. ASSUME NEW k \in 1..n, k - 1 \in P PROVE k \in P
  <2>1. k \in 0..n /\ k - 1 \in Nat /\ k \in Nat
    BY <1>0
  <2>2. CASE SpineOf[s[k]] # sp
    <3>1. U(k) = U(k - 1)
      BY <2>1, <2>2 DEF OfSpine
    <3> HIDE DEF U
    <3> QED
      BY <1>3, <2>1, <3>1
  <2>3. CASE SpineOf[s[k]] = sp
    <3>1. U(k) = U(k - 1) \cup {k} /\ k \notin U(k - 1)
      BY <2>1, <2>3 DEF OfSpine
    <3>2. IdAt(s, k) = <<sp, Cardinality(U(k))>>
      BY <2>3 DEF IdAt, OfSpine
    <3> HIDE DEF U
    <3>3. Cardinality(U(k)) = Cardinality(U(k - 1)) + 1
      BY <2>1, <3>1, <1>1, FS_AddElement
    <3>4. Cardinality(U(k)) # m
      BY <3>2
    <3>5. Cardinality(U(k - 1)) \in Nat /\ Cardinality(U(k - 1)) < m
      BY <1>1, <1>3, <2>1
    <3>6. Cardinality(U(k)) < m
      BY <3>3, <3>4, <3>5
    <3> QED
      BY <2>1, <3>6
  <2> QED
    BY <2>2, <2>3
<1>4. n \in P
  <2> HIDE DEF P
  <2>1. \A k \in 0..n : k \in P
    BY <1>0, <1>2, <1>3, SegmentInduction, Zenon
  <2> QED
    BY <2>1, <1>0
<1>5. Cardinality(U(n)) \in Nat /\ Cardinality(U(n)) < m
  <2> HIDE DEF U
  <2> QED
    BY <1>0, <1>1, <1>4
<1> QED
  BY <1>5

(* No report loses an annotation: it shows it at the finding with that id, *)
(* or lists it as unknown, and then at least one of the findings that      *)
(* shared its class, file and title is gone.                               *)
THEOREM AnnotationsKept == Spec => []AnnotationsAccountedFor
<1>1. TypeOK => AnnotationsAccountedFor
  <2> SUFFICES ASSUME TypeOK, NEW id \in Ids, annotations[id] # Unreviewed
               PROVE  \/ \E k \in 1..Len(scan) : IdAt(scan, k) = id /\ Shown(k) = annotations[id]
                      \/ /\ id \in UnknownAnnotations
                         /\ Cardinality({k \in 1..Len(scan) : SpineOf[scan[k]] = id[1]}) < id[2]
    BY DEF AnnotationsAccountedFor
  <2>1. id = <<id[1], id[2]>> /\ id[2] \in Nat \ {0}
    <3>1. Cardinality(Sites) \in Nat
      BY TriageAssumption, FS_CardinalityType
    <3> QED
      BY <3>1 DEF Ids
  <2>2. scan \in Seq(Sites) /\ Len(scan) \in Nat
    BY LenProperties DEF TypeOK
  <2>3. CASE id \in KnownIds(scan)
    BY <2>3 DEF KnownIds, Shown
  <2>4. CASE id \notin KnownIds(scan)
    <3> DEFINE U == OfSpine(scan, Len(scan), id[1])
    <3>1. ~(id[2] <= Cardinality(U))
      <4>1. \A k \in 1..Len(scan) : IdAt(scan, k) # <<id[1], id[2]>>
        BY <2>1, <2>4 DEF KnownIds
      <4> QED
        BY <2>1, <2>2, <4>1, SuffixesFill, Zenon
    <3>2. Cardinality(U) \in Nat
      <4>1. IsFiniteSet(1..Len(scan))
        BY <2>2, FS_Interval
      <4>2. U \subseteq 1..Len(scan)
        BY DEF OfSpine
      <4> HIDE DEF U
      <4> QED
        BY <4>1, <4>2, FS_Subset, FS_CardinalityType
    <3>3. U = {k \in 1..Len(scan) : SpineOf[scan[k]] = id[1]}
      BY DEF OfSpine
    <3>4. Cardinality(U) < id[2]
      <4> HIDE DEF U
      <4> QED
        BY <2>1, <3>1, <3>2
    <3>5. id \in UnknownAnnotations
      BY <2>4 DEF UnknownAnnotations
    <3> QED
      BY <3>3, <3>4, <3>5, Zenon
  <2> QED
    BY <2>3, <2>4
<1> QED
  BY <1>1, TriageTypeCorrect, PTL

----------------------------------------------------------------------------
(* The executive summary.                                                  *)

\* The positions with verdict v, in order.
LEMMA HavingInOrder ==
  ASSUME TypeOK, NEW v
  PROVE  /\ Having(v) \in Seq(Nat)
         /\ \A k : Member(k, Having(v)) <=> k \in 1..Len(scan) /\ Shown(k) = v
         /\ \A i, j \in 1..Len(Having(v)) : i < j => Having(v)[i] < Having(v)[j]
<1> DEFINE n == Len(scan)
<1> DEFINE pos == [k \in 1..n |-> k]
<1> DEFINE S == {k \in 1..n : Shown(k) = v}
<1> DEFINE Before == {p \in Nat \X Nat : p[1] < p[2]}
<1>1. n \in Nat
  BY LenProperties DEF TypeOK
<1> HIDE DEF n
<1>2. pos \in Seq(Nat) /\ Len(pos) = n /\ DOMAIN pos = 1..n
  <2>1. pos \in [1..n -> Nat]
    BY <1>1
  <2>2. pos \in Seq(Nat)
    BY <1>1, <2>1, SeqDef
  <2>3. Len(pos) = n
    BY <1>1, <2>2, LenProperties
  <2> QED
    BY <2>2, <2>3
<1>3. Ordered(pos, Before)
  <2>1. \A i, j \in 1..n : i < j => <<pos[i], pos[j]>> \in Before
    BY <1>1
  <2> HIDE DEF pos, Before
  <2> QED
    BY <1>2, <2>1, Zenon DEF Ordered
<1>4. \A k : Member(k, pos) <=> k \in 1..n
  BY <1>1, <1>2 DEF Member, ToSet
<1>5. Having(v) = Those(pos, S)
  BY Zenon DEF Having, n
<1> HIDE DEF pos, S
<1>6. /\ Those(pos, S) \in Seq(Nat)
      /\ \A k : Member(k, Those(pos, S)) <=> Member(k, pos) /\ k \in S
  BY <1>2, ThoseHold, Zenon
<1>7. Ordered(Those(pos, S), Before)
  <2> HIDE DEF Before
  <2> QED
    BY <1>2, <1>3, ThoseOrdered, Zenon
<1>8. \A k : k \in S <=> k \in 1..n /\ Shown(k) = v
  BY DEF S
<1>9. \A k : Member(k, Having(v)) <=> k \in 1..n /\ Shown(k) = v
  BY <1>4, <1>5, <1>6, <1>8, Zenon
<1> DEFINE h == Having(v)
<1>10. \A i, j \in 1..Len(h) : i < j => h[i] < h[j]
  <2>1. Ordered(h, Before)
    BY <1>5, <1>7, Zenon
  <2>2. \A i, j \in 1..Len(h) : i < j => <<h[i], h[j]>> \in Before
    <3> HIDE DEF Before, h
    <3> QED
      BY <2>1, Zenon DEF Ordered
  <2>3. \A x, y : <<x, y>> \in Before => x < y
    OBVIOUS
  <2> HIDE DEF Before, h
  <2> QED
    BY <2>2, <2>3, Zenon
<1> QED
  BY <1>5, <1>6, <1>9, <1>10, Zenon DEF n

\* What stands where in the list of candidates.
LEMMA Candidates ==
  ASSUME NEW A \in Seq(Nat), NEW B \in Seq(Nat)
  PROVE  /\ A \o B \in Seq(Nat) /\ Len(A) \in Nat /\ Len(B) \in Nat
         /\ Len(A \o B) = Len(A) + Len(B)
         /\ \A i \in 1..Len(A \o B) :
              \/ i <= Len(A) /\ i \in 1..Len(A) /\ (A \o B)[i] = A[i]
              \/ i > Len(A) /\ i - Len(A) \in 1..Len(B) /\ (A \o B)[i] = B[i - Len(A)]
<1> DEFINE m == Len(A) n == Len(B) C == A \o B
<1>1. m \in Nat /\ n \in Nat /\ C \in Seq(Nat) /\ Len(C) = m + n
  BY LenProperties, ConcatProperties
<1>2. \A i \in 1..m + n : C[i] = IF i <= m THEN A[i] ELSE B[i - m]
  BY ConcatProperties, Zenon
<1> HIDE DEF m, n, C
<1>3. ASSUME NEW i \in 1..m + n
      PROVE  \/ i <= m /\ i \in 1..m /\ C[i] = A[i]
             \/ i > m /\ i - m \in 1..n /\ C[i] = B[i - m]
  <2>1. CASE i <= m
    <3>1. i \in 1..m
      BY <1>1, <2>1
    <3> QED
      BY <1>2, <2>1, <3>1, Zenon
  <2>2. CASE ~(i <= m)
    <3>1. i > m /\ i - m \in 1..n
      BY <1>1, <2>2
    <3> QED
      BY <1>2, <2>2, <3>1, Zenon
  <2> QED
    BY <2>1, <2>2
<1> QED
  BY <1>1, <1>3, Zenon DEF m, n, C

LEMMA HeadOfSequence ==
  ASSUME NEW C \in Seq(Nat), NEW t \in Nat
  PROVE  LET top == SubSeq(C, 1, Least(Len(C), t))
         IN  /\ top \in Seq(Nat) /\ Len(top) = Least(Len(C), t)
             /\ \A i \in 1..Len(top) : top[i] = C[i]
<1> DEFINE m == Least(Len(C), t)
<1>1. m \in Nat /\ m <= Len(C) /\ Len(C) \in Nat /\ \A i \in 1..Len(C) : C[i] \in Nat
  BY LenProperties, ElementOfSeq DEF Least
<1> HIDE DEF m
<1>2. 1 \in Int /\ m \in Int /\ \A i \in 1..m : C[i] \in Nat
  BY <1>1
<1>3. /\ SubSeq(C, 1, m) \in Seq(Nat)
      /\ Len(SubSeq(C, 1, m)) = IF 1 <= m THEN m - 1 + 1 ELSE 0
      /\ \A i \in 1..(m - 1 + 1) : SubSeq(C, 1, m)[i] = C[1 + i - 1]
  BY <1>2, SubSeqProperties
<1> DEFINE top == SubSeq(C, 1, m)
<1>4. Len(top) = m
  <2>1. Len(top) = IF 1 <= m THEN m - 1 + 1 ELSE 0
    BY <1>3, Zenon
  <2> HIDE DEF top
  <2> QED
    BY <1>1, <2>1
<1>5. \A i \in 1..m : top[i] = C[i]
  <2> TAKE i \in 1..m
  <2>1. i \in 1..(m - 1 + 1) /\ 1 + i - 1 = i
    BY <1>1
  <2> QED
    BY <1>3, <2>1, Zenon
<1> QED
  BY <1>3, <1>4, <1>5, Zenon DEF m

LEMMA TopRisksComplete == TypeOK => TopRisksHideNothing
<1> SUFFICES ASSUME TypeOK, NEW k \in 1..Len(scan),
                    Shown(k) \in {"confirmed", Unreviewed}, k \notin ToSet(TopRisks)
             PROVE  /\ Len(TopRisks) = TopCount
                    /\ \A n \in 1..TopCount : \/ Shown(TopRisks[n]) = "confirmed"
                                              \/ Shown(k) = Unreviewed /\ TopRisks[n] < k
  BY DEF TopRisksHideNothing
<1> DEFINE A == Having("confirmed") B == Having(Unreviewed)
<1> DEFINE C == A \o B
<1> DEFINE top == TopRisks
<1>1. /\ A \in Seq(Nat)
      /\ \A e : Member(e, A) <=> e \in 1..Len(scan) /\ Shown(e) = "confirmed"
      /\ \A i, j \in 1..Len(A) : i < j => A[i] < A[j]
  BY HavingInOrder, Zenon
<1>2. /\ B \in Seq(Nat)
      /\ \A e : Member(e, B) <=> e \in 1..Len(scan) /\ Shown(e) = Unreviewed
      /\ \A i, j \in 1..Len(B) : i < j => B[i] < B[j]
  BY HavingInOrder, Zenon
<1>3. top = SubSeq(C, 1, Least(Len(C), TopCount))
  BY Zenon DEF TopRisks
<1>4. TopCount \in Nat
  BY TriageAssumption
<1> HIDE DEF A, B
<1>5. /\ C \in Seq(Nat) /\ Len(A) \in Nat /\ Len(B) \in Nat
      /\ Len(C) = Len(A) + Len(B)
      /\ \A i \in 1..Len(C) :
           \/ i <= Len(A) /\ i \in 1..Len(A) /\ C[i] = A[i]
           \/ i > Len(A) /\ i - Len(A) \in 1..Len(B) /\ C[i] = B[i - Len(A)]
  BY <1>1, <1>2, Candidates, Zenon
<1>6. \A e : Member(e, C) <=> Member(e, A) \/ Member(e, B)
  BY <1>1, <1>2, MemberOfConcat, Zenon
<1> HIDE DEF C, top
<1>7. /\ top \in Seq(Nat) /\ Len(top) = Least(Len(C), TopCount)
      /\ \A i \in 1..Len(top) : top[i] = C[i]
  BY <1>3, <1>4, <1>5, HeadOfSequence, Zenon
<1>8. /\ \A e : Member(e, A) <=> \E i \in 1..Len(A) : e = A[i]
      /\ \A e : Member(e, C) <=> \E i \in 1..Len(C) : e = C[i]
      /\ \A i \in 1..Len(B) : Member(B[i], B)
      /\ \A e : Member(e, top) <=> \E i \in 1..Len(top) : e = top[i]
  <2>1. \A s \in Seq(Nat) : \A e : Member(e, s) <=> \E i \in 1..Len(s) : e = s[i]
    <3> TAKE s \in Seq(Nat)
    <3>1. DOMAIN s = 1..Len(s)
      BY LenProperties, Zenon
    <3> QED
      BY <3>1 DEF Member, ToSet
  <2> QED
    BY <2>1, <1>1, <1>2, <1>5, <1>7, Zenon
<1>9. Member(k, C)
  BY <1>1, <1>2, <1>6
<1>10. PICK i \in 1..Len(C) : k = C[i]
  BY <1>8, <1>9, Zenon
<1>11. ~Member(k, top)
  BY DEF Member, top
<1>12. i \notin 1..Len(top)
  BY <1>7, <1>8, <1>10, <1>11, Zenon
<1>13. Len(top) = TopCount /\ i > TopCount /\ Len(C) \in Nat
  <2>1. Len(C) \in Nat
    BY <1>5
  <2>2. i > Len(top) /\ Len(top) = Least(Len(C), TopCount)
    BY <2>1, <1>4, <1>7, <1>12 DEF Least
  <2> QED
    BY <2>1, <2>2, <1>4 DEF Least
<1>14. ASSUME NEW n \in 1..TopCount
       PROVE  Shown(top[n]) = "confirmed" \/ (Shown(k) = Unreviewed /\ top[n] < k)
  <2>1. n \in 1..Len(top) /\ n \in 1..Len(C) /\ n < i
    BY <1>4, <1>13
  <2>2. top[n] = C[n]
    BY <2>1, <1>7, Zenon
  <2>3. CASE n <= Len(A)
    <3>1. n \in 1..Len(A) /\ C[n] = A[n]
      BY <2>1, <2>3, <1>5
    <3> QED
      BY <1>1, <1>8, <2>2, <3>1, Zenon
  <2>4. CASE ~(n <= Len(A))
    <3>1. n - Len(A) \in 1..Len(B) /\ C[n] = B[n - Len(A)]
      BY <2>1, <2>4, <1>5, Zenon
    <3>2. ~(i <= Len(A)) /\ n - Len(A) < i - Len(A)
      BY <2>1, <2>4, <1>5, <1>13
    <3>3. i - Len(A) \in 1..Len(B) /\ k = B[i - Len(A)]
      BY <3>2, <1>5, <1>10, Zenon
    <3>4. Shown(k) = Unreviewed
      BY <3>3, <1>2, <1>8, Zenon
    <3>5. top[n] < k
      BY <3>1, <3>2, <3>3, <2>2, <1>2, Zenon
    <3> QED
      BY <3>4, <3>5
  <2> QED
    BY <2>3, <2>4
<1> QED
  BY <1>13, <1>14, Zenon DEF top

(* The summary leaves out an open finding only for TopCount findings that  *)
(* come before it: confirmed ones first, then by position.                 *)
THEOREM SummaryHidesNothing == Spec => []TopRisksHideNothing
<1> QED
  BY TopRisksComplete, TriageTypeCorrect, PTL
=============================================================================
