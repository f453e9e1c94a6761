------------------------ MODULE EcosystemScan_proofs ------------------------
(***************************************************************************)
(* Theorems about the batch scan, for any target list, locations and file  *)
(* names: what a run that stops may have touched, and what a run that      *)
(* reports success has written.                                            *)
(***************************************************************************)
EXTENDS EcosystemScan, Recursion_proofs

----------------------------------------------------------------------------
(* The names of the target list.                                           *)

N == Len(Config)

LEMMA ConfigShape ==
  /\ N \in Nat
  /\ \A k \in 1..N : /\ Config[k] \in [name : Names, location : Repos]
                     /\ Config[k].name \in ConfigNames /\ Config[k].name \in Names
                     /\ NewName(k) \in Seq(ConfigNames)
<1> DEFINE T == [name : Names, location : Repos]
<1>1. Config \in Seq(T)
  BY EcosystemAssumption
<1>2. N \in Nat /\ \A k \in 1..N : Config[k] \in T
  <2> HIDE DEF T
  <2> QED
    BY <1>1 DEF N
<1>3. ASSUME NEW k \in 1..N
      PROVE  Config[k].name \in ConfigNames /\ Config[k].name \in Names
  BY <1>2 DEF ConfigNames, N
<1>4. ASSUME NEW k \in 1..N
      PROVE  NewName(k) \in Seq(ConfigNames)
  BY <1>3 DEF NewName
<1> QED
  BY <1>2, <1>3, <1>4

\* The recursive definition has a solution, so it may be unfolded.
LEMMA NamesUptoUnfolds ==
  /\ NamesUpto[0] = <<>>
  /\ \A k \in 1..N : NamesUpto[k] = NamesUpto[k - 1] \o NewName(k)
<1> DEFINE S == Seq(ConfigNames)
<1> DEFINE step == [k \in 1..N |-> [s \in S |-> s \o NewName(k)]]
<1> DEFINE rec(f) == [k \in 0..N |-> IF k = 0 THEN <<>> ELSE f[k - 1] \o NewName(k)]
<1>1. step \in [1..N -> [S -> S]]
  <2>1. ASSUME NEW k \in 1..N, NEW s \in S PROVE s \o NewName(k) \in S
    BY <2>1, ConfigShape, ConcatProperties
  <2> QED
    BY <2>1
<1>2. PICK f \in [0..N -> S] : f[0] = <<>> /\ \A k \in 1..N : f[k] = step[k][f[k - 1]]
  <2>1. <<>> \in S
    OBVIOUS
  <2>2. N \in Nat
    BY ConfigShape
  <2>3. \E f \in [0..N -> S] : Recursion(f, N, <<>>, step)
    <3> HIDE DEF S, step
    <3> QED
      BY <1>1, <2>1, <2>2, SegmentRecursion, Zenon
  <2> QED
    BY <2>3 DEF Recursion
<1>3. f = rec(f)
  <2>1. \A k \in 1..N : f[k] = f[k - 1] \o NewName(k)
    <3> TAKE k \in 1..N
    <3>1. k - 1 \in 0..N
      BY ConfigShape
    <3>2. f[k - 1] \in S
      BY <1>2, <3>1
    <3> QED
      BY <1>2, <3>2
  <2>2. ASSUME NEW k \in 0..N
        PROVE  f[k] = IF k = 0 THEN <<>> ELSE f[k - 1] \o NewName(k)
    <3>1. CASE k = 0
      BY <1>2, <3>1
    <3>2. CASE k # 0
      <4>1. k \in 1..N
        BY <3>2, ConfigShape
      <4> QED
        BY <2>1, <3>2, <4>1, Zenon
    <3> QED
      BY <3>1, <3>2
  <2> QED
    BY <2>2
<1>4. NamesUpto = rec(NamesUpto)
  BY <1>3 DEF NamesUpto, N
<1>5. \A k \in 0..N : NamesUpto[k] = rec(NamesUpto)[k]
  BY <1>4
<1> HIDE DEF step
<1>6. NamesUpto[0] = <<>>
  BY <1>5, ConfigShape
<1>7. ASSUME NEW k \in 1..N
      PROVE  NamesUpto[k] = NamesUpto[k - 1] \o NewName(k)
  <2>1. k \in 0..N /\ k # 0
    BY ConfigShape
  <2>2. rec(NamesUpto)[k] = NamesUpto[k - 1] \o NewName(k)
    BY <2>1
  <2> QED
    BY <1>5, <2>1, <2>2, Zenon
<1> QED
  BY <1>6, <1>7

LEMMA ToSetOfConcat ==
  ASSUME NEW S, NEW s \in Seq(S), NEW t \in Seq(S)
  PROVE  ToSet(s \o t) = ToSet(s) \cup ToSet(t)
<1>1. Len(s) \in Nat /\ Len(t) \in Nat /\ Len(s \o t) = Len(s) + Len(t)
  BY ConcatProperties, LenProperties
<1>2. \A i \in 1..Len(s) : (s \o t)[i] = s[i]
  BY ConcatProperties, <1>1
<1>3. \A i \in 1..Len(t) : (s \o t)[i + Len(s)] = t[i]
  BY ConcatProperties, <1>1
<1>4. ASSUME NEW e \in ToSet(s \o t) PROVE e \in ToSet(s) \cup ToSet(t)
  <2>1. PICK i \in 1..Len(s) + Len(t) : e = (s \o t)[i]
    BY <1>1 DEF ToSet
  <2>2. CASE i <= Len(s)
    <3>1. i \in 1..Len(s)
      BY <2>2, <1>1
    <3> QED
      BY <2>1, <3>1, <1>2 DEF ToSet
  <2>3. CASE i > Len(s)
    <3>1. i - Len(s) \in 1..Len(t) /\ (i - Len(s)) + Len(s) = i
      BY <2>3, <1>1
    <3>2. (s \o t)[i] = t[i - Len(s)]
      BY <3>1, <1>3, Zenon
    <3> QED
      BY <2>1, <3>1, <3>2 DEF ToSet
  <2> QED
    BY <2>2, <2>3, <1>1
<1>5. ASSUME NEW e \in ToSet(s) PROVE e \in ToSet(s \o t)
  <2>1. PICK i \in 1..Len(s) : e = s[i]
    BY DEF ToSet
  <2>2. i \in 1..Len(s \o t)
    BY <1>1
  <2> QED
    BY <2>1, <2>2, <1>2 DEF ToSet
<1>6. ASSUME NEW e \in ToSet(t) PROVE e \in ToSet(s \o t)
  <2>1. PICK i \in 1..Len(t) : e = t[i]
    BY DEF ToSet
  <2>2. i + Len(s) \in 1..Len(s \o t)
    BY <1>1
  <2>3. DOMAIN (s \o t) = 1..Len(s \o t)
    BY ConcatProperties, LenProperties
  <2>4. (s \o t)[i + Len(s)] = e
    BY <2>1, <1>3, Zenon
  <2> QED
    BY <2>2, <2>3, <2>4 DEF ToSet
<1> QED
  BY <1>4, <1>5, <1>6

\* The dict has each name of the target list as a key, and no other.
LEMMA NameSeqHasAllNames ==
  NameSeq \in Seq(ConfigNames) /\ ToSet(NameSeq) = ConfigNames
<1> DEFINE NamesIn(k) == {Config[j].name : j \in 1..k}
<1> DEFINE P == {k \in 0..N : /\ NamesUpto[k] \in Seq(ConfigNames)
                              /\ ToSet(NamesUpto[k]) = NamesIn(k)}
<1>1. 0 \in P
  <2>1. ToSet(<<>>) = {} /\ NamesIn(0) = {} /\ <<>> \in Seq(ConfigNames)
    BY DEF ToSet
  <2>2. 0 \in 0..N
    BY ConfigShape
  <2> HIDE DEF NamesIn
  <2> QED
    BY <2>1, <2>2, NamesUptoUnfolds
<1>2. ASSUME NEW k \in 1..N, k - 1 \in P PROVE k \in P
  <2> DEFINE old == NamesUpto[k - 1]
  <2>1. old \in Seq(ConfigNames) /\ ToSet(old) = NamesIn(k - 1)
    BY <1>2
  <2>2. NamesUpto[k] = old \o NewName(k)
    BY NamesUptoUnfolds
  <2>3. NewName(k) \in Seq(ConfigNames)
    BY ConfigShape
  <2>4. NamesUpto[k] \in Seq(ConfigNames)
        /\ ToSet(NamesUpto[k]) = NamesIn(k - 1) \cup ToSet(NewName(k))
    <3> DEFINE new == NewName(k)
    <3>1. old \in Seq(ConfigNames) /\ new \in Seq(ConfigNames)
      BY <2>1, <2>3
    <3>2. old \o new \in Seq(ConfigNames)
      <4> HIDE DEF old, new
      <4> QED
        BY <3>1, ConcatProperties, Zenon
    <3>3. ToSet(old \o new) = ToSet(old) \cup ToSet(new)
      <4> HIDE DEF old, new
      <4> QED
        BY <3>1, ToSetOfConcat, Zenon
    <3>4. NamesUpto[k] = old \o new /\ ToSet(old) = NamesIn(k - 1)
      BY <2>1, <2>2
    <3>5. /\ NamesUpto[k] \in Seq(ConfigNames)
          /\ ToSet(NamesUpto[k]) = NamesIn(k - 1) \cup ToSet(new)
      <4> HIDE DEF old, new, NamesIn
      <4> QED
        BY <3>2, <3>3, <3>4, Zenon
    <3> QED
      BY <3>5
  <2>5. NamesIn(k) = NamesIn(k - 1) \cup {Config[k].name}
    <3>1. 1..k = (1..k - 1) \cup {k}
      OBVIOUS
    <3> QED
      BY <3>1
  <2>6. NamesIn(k - 1) \cup ToSet(NewName(k)) = NamesIn(k)
    <3>1. CASE \E j \in 1..k - 1 : Config[j].name = Config[k].name
      <4>1. ToSet(NewName(k)) = {}
        BY <3>1 DEF NewName, ToSet
      <4>2. Config[k].name \in NamesIn(k - 1)
        BY <3>1
      <4> HIDE DEF NamesIn
      <4> QED
        BY <4>1, <4>2, <2>5
    <3>2. CASE ~\E j \in 1..k - 1 : Config[j].name = Config[k].name
      <4>1. NewName(k) = <<Config[k].name>>
        BY <3>2 DEF NewName
      <4>2. ToSet(<<Config[k].name>>) = {Config[k].name}
        BY DEF ToSet
      <4> HIDE DEF NamesIn
      <4> QED
        BY <4>1, <4>2, <2>5
    <3> QED
      BY <3>1, <3>2
  <2>7. k \in 0..N
    BY ConfigShape
  <2> HIDE DEF NamesIn
  <2> QED
    BY <2>4, <2>6, <2>7
<1>3. N \in P
  <2> HIDE DEF P
  <2>1. \A k \in 0..N : k \in P
    BY <1>1, <1>2, ConfigShape, SegmentInduction, Zenon
  <2> QED
    BY <2>1, ConfigShape
<1>4. NamesIn(N) = ConfigNames
  BY DEF ConfigNames, N
<1>5. NamesUpto[N] \in Seq(ConfigNames) /\ ToSet(NamesUpto[N]) = NamesIn(N)
  BY <1>3
<1> HIDE DEF NamesIn
<1> QED
  BY <1>4, <1>5 DEF NameSeq, N

\* What is left after a step of a loop over a sequence.
LEMMA LoopStep ==
  ASSUME NEW S, NEW s \in Seq(S), NEW t \in Suffixes(s), t # <<>>
  PROVE  /\ t \in Seq(S) /\ Head(t) \in ToSet(s)
         /\ Tail(t) \in Suffixes(s)
         /\ ToSet(t) = {Head(t)} \cup ToSet(Tail(t))
<1>1. PICK m \in 1..Len(s) : t = SubSeq(s, m, Len(s))
  BY DEF Suffixes
<1>2. Head(t) = s[m] /\ Tail(t) = SubSeq(s, m + 1, Len(s))
  BY <1>1, HeadTailOfSubSeq
<1>3. Tail(t) \in Suffixes(s)
  <2>1. CASE m = Len(s)
    BY <1>2, <2>1, SubSeqEmpty DEF Suffixes
  <2>2. CASE m # Len(s)
    <3>1. m + 1 \in 1..Len(s)
      BY <2>2
    <3> QED
      BY <1>2, <3>1 DEF Suffixes
  <2> QED
    BY <2>1, <2>2
<1>4. t \in Seq(S)
  BY <1>1, SubSeqProperties
<1>5. ToSet(t) = {Head(t)} \cup ToSet(Tail(t))
  <2>1. /\ Len(t) \in Nat \ {0} /\ Head(t) = t[1] /\ Len(Tail(t)) = Len(t) - 1
        /\ \A i \in 1..Len(t) - 1 : Tail(t)[i] = t[i + 1]
        /\ Tail(t) \in Seq(S)
    BY <1>4
  <2>2. DOMAIN t = 1..Len(t) /\ DOMAIN Tail(t) = 1..Len(t) - 1
    BY <1>4, <2>1
  <2>3. ASSUME NEW i \in 1..Len(t) PROVE t[i] \in {Head(t)} \cup ToSet(Tail(t))
    <3>1. CASE i = 1
      BY <2>1, <3>1
    <3>2. CASE i # 1
      <4>1. i - 1 \in 1..Len(t) - 1 /\ (i - 1) + 1 = i
        BY <2>1, <3>2
      <4>2. Tail(t)[i - 1] = t[i]
        BY <2>1, <4>1, Zenon
      <4> QED
        BY <2>2, <4>1, <4>2 DEF ToSet
    <3> QED
      BY <3>1, <3>2
  <2>4. ASSUME NEW i \in 1..Len(t) - 1 PROVE Tail(t)[i] \in ToSet(t)
    <3>1. i + 1 \in 1..Len(t) /\ Tail(t)[i] = t[i + 1]
      BY <2>1
    <3> QED
      BY <2>2, <3>1 DEF ToSet
  <2>5. Head(t) \in ToSet(t)
    BY <2>1, <2>2 DEF ToSet
  <2> QED
    BY <2>2, <2>3, <2>4, <2>5 DEF ToSet
<1> QED
  BY <1>2, <1>3, <1>4, <1>5, LenProperties DEF ToSet

LEMMA WholeIsSuffix ==
  ASSUME NEW S, NEW s \in Seq(S)
  PROVE  s \in Suffixes(s) /\ <<>> \in Suffixes(s)
<1>1. CASE s = <<>>
  BY <1>1 DEF Suffixes
<1>2. CASE s # <<>>
  BY <1>2, SubSeqFull DEF Suffixes
<1> QED
  BY <1>1, <1>2 DEF Suffixes

----------------------------------------------------------------------------
(* The invariant of a run.                                                 *)

Complete == \A n \in ConfigNames : Has(results, n)

\* What a target is resolved for, and what the writes of a run rest on.
ResultsInv ==
  /\ phase = "resolve" => \A n \in ConfigNames :
                            Has(results, n) \/ \E t \in ToSet(left) : t.name = n
  /\ phase \in {"reports", "notes"} => Complete /\ disk.raw = results

RunInv == TypeOK /\ ResultsInv

\* No document overwrites that of another target.
SlugsApart == \A m, n \in ConfigNames : SlugOf[m] = SlugOf[n] => m = n

Reported(n) == disk.reports[SlugOf[n]] = Written(n)
Disclosed(n) == results[n] = "flagged" => disk.notes[SlugOf[n]] = Written(n)

DocumentsInv ==
  /\ phase = "reports" => \A n \in ConfigNames : n \in ToSet(left) \/ Reported(n)
  /\ phase = "notes" => /\ disk.aggregate = results
                        /\ \A n \in ConfigNames :
                             Reported(n) /\ (n \in ToSet(left) \/ Disclosed(n))
  /\ SuccessIsComplete

LEMMA ConfigTargets ==
  ASSUME NEW t \in ToSet(Config)
  PROVE  t.name \in ConfigNames /\ t.name \in Names /\ t.location \in Repos
<1>1. PICK k \in 1..N : t = Config[k]
  BY EcosystemAssumption DEF ToSet, N
<1> QED
  BY <1>1, ConfigShape

LEMMA NamesOfTargets ==
  ASSUME NEW n \in ConfigNames
  PROVE  n \in Names /\ \E t \in ToSet(Config) : t.name = n
<1>1. PICK k \in 1..N : n = Config[k].name
  BY DEF ConfigNames, N
<1>2. Config[k] \in ToSet(Config)
  BY EcosystemAssumption DEF ToSet, N
<1> QED
  BY <1>1, <1>2, ConfigShape

\* The sequences a run works off.
LEMMA WorkLists ==
  /\ Config \in Suffixes(Config) /\ <<>> \in Suffixes(Config)
  /\ NameSeq \in Suffixes(NameSeq) /\ <<>> \in Suffixes(NameSeq)
<1>1. Config \in Seq([name : Names, location : Repos])
  BY EcosystemAssumption
<1> QED
  BY <1>1, NameSeqHasAllNames, WholeIsSuffix

LEMMA TargetInHand ==
  ASSUME TypeOK, Resolving
  PROVE  /\ Target.name \in ConfigNames /\ Target.name \in Names
         /\ Target.location \in Repos /\ Dest \in Slugs
         /\ Tail(left) \in Suffixes(Config)
         /\ ToSet(left) = {Target} \cup ToSet(Tail(left))
<1>1. Config \in Seq([name : Names, location : Repos])
  BY EcosystemAssumption
<1>2. left \in Suffixes(Config) /\ left # <<>>
  BY DEF TypeOK, Resolving
<1>3. /\ Head(left) \in ToSet(Config) /\ Tail(left) \in Suffixes(Config)
      /\ ToSet(left) = {Head(left)} \cup ToSet(Tail(left))
  BY <1>1, <1>2, LoopStep
<1> QED
  BY <1>3, ConfigTargets, EcosystemAssumption DEF Target, Dest

LEMMA NameInHand ==
  ASSUME TypeOK, phase \in {"reports", "notes"}, left # <<>>
  PROVE  /\ Head(left) \in ConfigNames /\ Head(left) \in Names
         /\ SlugOf[Head(left)] \in Slugs
         /\ Tail(left) \in Suffixes(NameSeq)
         /\ ToSet(left) = {Head(left)} \cup ToSet(Tail(left))
<1>1. left \in Suffixes(NameSeq)
  BY DEF TypeOK
<1>2. /\ Head(left) \in ConfigNames /\ Tail(left) \in Suffixes(NameSeq)
      /\ ToSet(left) = {Head(left)} \cup ToSet(Tail(left))
  BY <1>1, NameSeqHasAllNames, LoopStep
<1> QED
  BY <1>2, NamesOfTargets, EcosystemAssumption

LEMMA RunInvInit ==
  Init => RunInv
<1> SUFFICES ASSUME Init PROVE RunInv
  OBVIOUS
<1>1. Empty \in Results
  BY DEF Empty, Results
<1>2. disk \in Disk
  BY DEF Init, Disk
<1>3. remote \in [Repos -> Content] /\ scratch \in [Slugs -> Content \cup {None}]
  BY DEF Init
<1> QED
  BY <1>1, <1>2, <1>3, WorkLists DEF Init, RunInv, TypeOK, ResultsInv

LEMMA WrittenDocument ==
  ASSUME TypeOK, Complete, NEW n \in ConfigNames
  PROVE  Written(n) \in Document /\ results[n] \in Content
<1>1. n \in Names
  BY NamesOfTargets
<1>2. results[n] \in Content
  BY <1>1 DEF TypeOK, Results, Complete, Has
<1> QED
  BY <1>1, <1>2 DEF Written, Document

\* The steps that resolve a target.
LEMMA ScanStep ==
  ASSUME RunInv, ScanLocal \/ CloneAndScan
  PROVE  /\ RunInv' /\ phase' = phase /\ disk' = disk /\ outcome' = outcome
         /\ phase = "resolve"
<1>0. Resolving /\ phase = "resolve" /\ phase' = phase /\ disk' = disk /\ outcome' = outcome
      /\ remote' = remote /\ TypeOK /\ ResultsInv /\ left' = Tail(left)
  BY DEF ScanLocal, CloneAndScan, Cloning, Resolving, RunInv, Scanned
<1>1. remote[Target.location] \in Content
  BY <1>0, TargetInHand DEF TypeOK
<1>2. results' = [results EXCEPT ![Target.name] = remote[Target.location]]
  BY DEF ScanLocal, CloneAndScan, Cloning, Scanned
<1>3. scratch' \in [Slugs -> Content \cup {None}]
  BY <1>0, <1>1, TargetInHand DEF ScanLocal, CloneAndScan, Cloning, TypeOK
<1>4. results' \in Results
  BY <1>0, <1>1, <1>2 DEF TypeOK, Results
<1>5. TypeOK'
  BY <1>0, <1>3, <1>4, TargetInHand DEF TypeOK
<1>6. ASSUME NEW n \in ConfigNames
      PROVE  Has(results', n) \/ \E t \in ToSet(left') : t.name = n
  <2>1. n \in Names
    BY NamesOfTargets
  <2>2. CASE n = Target.name
    <3>1. results'[n] = remote[Target.location]
      BY <1>0, <1>2, <2>1, <2>2 DEF TypeOK, Results
    <3> QED
      BY <1>1, <3>1, EcosystemAssumption DEF Has
  <2>3. CASE n # Target.name
    <3>1. results'[n] = results[n]
      BY <1>0, <1>2, <2>1, <2>3 DEF TypeOK, Results
    <3>2. Has(results, n) \/ \E t \in ToSet(left) : t.name = n
      BY <1>0 DEF ResultsInv
    <3> QED
      BY <1>0, <2>3, <3>1, <3>2, TargetInHand DEF Has
  <2> QED
    BY <2>2, <2>3
<1> QED
  BY <1>0, <1>5, <1>6 DEF RunInv, ResultsInv

\* The steps that end a run.
LEMMA StopStep ==
  ASSUME RunInv, CloneRefused \/ Unavailable \/ Finish \/ Kill
  PROVE  /\ RunInv' /\ phase' = "idle" /\ disk' = disk
         /\ outcome' = "ok" => phase = "notes" /\ left = <<>>
<1>1. Empty \in Results
  BY DEF Empty, Results
<1>2. /\ phase' = "idle" /\ left' = <<>> /\ results' = Empty
      /\ remote' = remote /\ disk' = disk
      /\ outcome' \in {"ok", "occupied", "unavailable", "killed"}
      /\ outcome' = "ok" => phase = "notes" /\ left = <<>>
  BY DEF CloneRefused, Unavailable, Finish, Kill, Stop, Cloning
<1>3. TypeOK
  BY DEF RunInv
<1>4. scratch' \in [Slugs -> Content \cup {None}]
  <2>1. CASE scratch' = scratch
    BY <1>3, <2>1 DEF TypeOK
  <2>2. CASE Resolving /\ scratch' = [scratch EXCEPT ![Dest] = remote[Target.location]]
    <3>1. remote[Target.location] \in Content
      BY <1>3, <2>2, TargetInHand DEF TypeOK
    <3> QED
      BY <1>3, <2>2, <3>1 DEF TypeOK
  <2> QED
    BY <2>1, <2>2 DEF CloneRefused, Unavailable, Finish, Kill, Cloning
<1>5. TypeOK'
  BY <1>1, <1>2, <1>3, <1>4, WorkLists DEF TypeOK
<1> QED
  BY <1>2, <1>5 DEF RunInv, ResultsInv

\* The steps that write an artifact.
LEMMA WriteStep ==
  ASSUME RunInv, WriteRaw \/ WriteReport \/ WriteAggregate \/ WriteNote
  PROVE  /\ RunInv' /\ Complete /\ disk'.raw = results
         /\ phase' \in {"reports", "notes"} /\ results' = results
<1>1. TypeOK /\ ResultsInv
  BY DEF RunInv
<1>2. /\ results' = results /\ remote' = remote /\ scratch' = scratch /\ outcome' = outcome
      /\ phase' \in {"reports", "notes"}
  BY DEF WriteRaw, WriteReport, WriteAggregate, WriteNote
<1>3. Complete
  <2>1. CASE phase = "resolve" /\ left = <<>>
    <3>1. ToSet(left) = {}
      BY <2>1 DEF ToSet
    <3> QED
      BY <1>1, <2>1, <3>1 DEF ResultsInv, Complete
  <2>2. CASE phase \in {"reports", "notes"}
    BY <1>1, <2>2 DEF ResultsInv
  <2> QED
    BY <2>1, <2>2 DEF WriteRaw, WriteReport, WriteAggregate, WriteNote
<1>4. left' \in Suffixes(NameSeq)
  <2>1. CASE WriteRaw \/ WriteAggregate
    BY <2>1, WorkLists DEF WriteRaw, WriteAggregate
  <2>2. CASE WriteReport \/ WriteNote
    BY <1>1, <2>2, NameInHand DEF WriteReport, WriteNote
  <2> QED
    BY <2>1, <2>2
<1>5. disk' \in Disk /\ disk'.raw = results
  <2>0. disk \in Disk /\ results \in Results
    BY <1>1 DEF TypeOK
  <2>1. CASE WriteRaw
    BY <2>0, <2>1 DEF WriteRaw, Disk
  <2>2. CASE WriteAggregate
    BY <1>1, <2>0, <2>2 DEF WriteAggregate, Disk, ResultsInv
  <2>3. CASE WriteReport
    <3>1. Written(Head(left)) \in Document /\ SlugOf[Head(left)] \in Slugs
      BY <1>1, <1>3, <2>3, NameInHand, WrittenDocument DEF WriteReport
    <3>2. disk' = [disk EXCEPT !.reports[SlugOf[Head(left)]] = Written(Head(left))]
          /\ disk.raw = results
      BY <1>1, <2>3 DEF WriteReport, ResultsInv
    <3> QED
      BY <2>0, <3>1, <3>2 DEF Disk
  <2>4. CASE WriteNote
    <3>1. Written(Head(left)) \in Document /\ SlugOf[Head(left)] \in Slugs
      BY <1>1, <1>3, <2>4, NameInHand, WrittenDocument DEF WriteNote
    <3>2. \/ disk' = [disk EXCEPT !.notes[SlugOf[Head(left)]] = Written(Head(left))]
          \/ disk' = disk
      BY <2>4 DEF WriteNote
    <3>3. disk.raw = results
      BY <1>1, <2>4 DEF WriteNote, ResultsInv
    <3> QED
      BY <2>0, <3>1, <3>2, <3>3 DEF Disk
  <2> QED
    BY <2>1, <2>2, <2>3, <2>4
<1>6. TypeOK'
  BY <1>1, <1>2, <1>4, <1>5 DEF TypeOK
<1>7. ResultsInv'
  BY <1>2, <1>3, <1>5 DEF ResultsInv, Complete
<1> QED
  BY <1>2, <1>3, <1>5, <1>6, <1>7 DEF RunInv

\* Starting a run, and what happens around it.
LEMMA OtherStep ==
  ASSUME RunInv, Start \/ Push \/ ClearScratch \/ UNCHANGED vars
  PROVE  /\ RunInv' /\ disk' = disk /\ outcome' = outcome
         /\ \/ phase' = phase /\ left' = left /\ results' = results
            \/ phase = "idle" /\ phase' = "resolve"
<1>1. TypeOK /\ ResultsInv
  BY DEF RunInv
<1>2. CASE Start
  <2>1. Empty \in Results
    BY DEF Empty, Results
  <2>2. TypeOK'
    BY <1>1, <1>2, <2>1, WorkLists DEF TypeOK, Start
  <2>3. ResultsInv'
    BY <1>2, NamesOfTargets DEF Start, ResultsInv
  <2> QED
    BY <1>2, <2>2, <2>3 DEF Start, RunInv
<1>3. CASE Push
  BY <1>1, <1>3 DEF Push, TypeOK, ResultsInv, RunInv, Complete
<1>4. CASE ClearScratch
  BY <1>1, <1>4 DEF ClearScratch, TypeOK, ResultsInv, RunInv, Complete
<1>5. CASE UNCHANGED vars
  BY <1>1, <1>5 DEF vars, TypeOK, ResultsInv, RunInv, Complete
<1> QED
  BY <1>2, <1>3, <1>4, <1>5

----------------------------------------------------------------------------
(* The invariant holds of every run.                                       *)

LEMMA RunInvStep ==
  RunInv /\ [Next]_vars => RunInv'
<1> SUFFICES ASSUME RunInv, [Next]_vars PROVE RunInv'
  OBVIOUS
<1>1. CASE ScanLocal \/ CloneAndScan
  BY <1>1, ScanStep
<1>2. CASE CloneRefused \/ Unavailable \/ Finish \/ Kill
  BY <1>2, StopStep
<1>3. CASE WriteRaw \/ WriteReport \/ WriteAggregate \/ WriteNote
  BY <1>3, WriteStep
<1>4. CASE Start \/ Push \/ ClearScratch \/ UNCHANGED vars
  BY <1>4, OtherStep
<1> QED
  BY <1>1, <1>2, <1>3, <1>4 DEF Next, RunStep, ReturningStep

(* What is resolved, written and left agree at every step of every run,    *)
(* however it ends (scan_targets, run_ecosystem_scan).                     *)
THEOREM RunInvariant == Spec => []RunInv
<1>1. Init => RunInv
  BY RunInvInit
<1>2. RunInv /\ [Next]_vars => RunInv'
  BY RunInvStep
<1> QED
  BY <1>1, <1>2, PTL DEF Spec

(* Every variable of a batch run keeps its type; what is left is always a  *)
(* suffix of the list the loop goes over (run_ecosystem_scan).             *)
THEOREM BatchTypeCorrect == Spec => []TypeOK
<1>1. RunInv => TypeOK
  BY DEF RunInv
<1> QED
  BY <1>1, RunInvariant, PTL

(* A run that cannot resolve all its targets changes no artifact, for any  *)
(* target list (scan_targets raises before the first write).               *)
THEOREM FailureTouchesNothing == Spec => FailedRunTouchesNothing
<1>1. RunInv /\ [Next]_vars => [disk' # disk => \A n \in ConfigNames : Has(results, n)]_vars
  <2> SUFFICES ASSUME RunInv, Next, disk' # disk
               PROVE  \A n \in ConfigNames : Has(results, n)
    OBVIOUS
  <2>1. CASE ScanLocal \/ CloneAndScan
    BY <2>1, ScanStep
  <2>2. CASE CloneRefused \/ Unavailable \/ Finish \/ Kill
    BY <2>2, StopStep
  <2>3. CASE WriteRaw \/ WriteReport \/ WriteAggregate \/ WriteNote
    BY <2>3, WriteStep DEF Complete
  <2>4. CASE Start \/ Push \/ ClearScratch
    BY <2>4, OtherStep
  <2> QED
    BY <2>1, <2>2, <2>3, <2>4 DEF Next, RunStep, ReturningStep
<1> QED
  BY <1>1, RunInvariant, PTL DEF Spec, FailedRunTouchesNothing

(* A report or a note is only ever written beside the raw results it is    *)
(* drawn from (the order of writes in run_ecosystem_scan).                 *)
THEOREM DocumentsAreTraceable == Spec => DocumentsFollowRawResults
<1> DEFINE Follows ==
      \A s \in Slugs :
        \/ disk'.notes[s] = disk.notes[s] /\ disk'.reports[s] = disk.reports[s]
        \/ disk'.raw = results /\ \E n \in Names : SlugOf[n] = s /\ Has(results, n)
<1>1. RunInv /\ [Next]_vars => [Follows]_vars
  <2> SUFFICES ASSUME RunInv, Next PROVE Follows
    OBVIOUS
  <2>1. CASE disk' = disk
    BY <2>1
  <2>2. CASE WriteRaw \/ WriteReport \/ WriteAggregate \/ WriteNote
    <3>0. disk \in Disk /\ TypeOK /\ disk'.raw = results /\ Complete
      BY <2>2, WriteStep DEF RunInv, TypeOK
    <3>1. CASE WriteRaw \/ WriteAggregate
      BY <3>0, <3>1 DEF WriteRaw, WriteAggregate, Disk
    <3>2. CASE WriteReport \/ WriteNote
      <4> DEFINE n == Head(left)
      <4>1. n \in ConfigNames /\ n \in Names
        BY <3>0, <3>2, NameInHand DEF WriteReport, WriteNote
      <4>2. Has(results, n)
        BY <3>0, <4>1 DEF Complete
      <4>3. \A s \in Slugs : s # SlugOf[n] => /\ disk'.notes[s] = disk.notes[s]
                                              /\ disk'.reports[s] = disk.reports[s]
        BY <3>0, <3>2 DEF WriteReport, WriteNote, Disk
      <4> HIDE DEF n
      <4> QED
        BY <3>0, <4>1, <4>2, <4>3
    <3> QED
      BY <2>2, <3>1, <3>2
  <2>3. CASE ScanLocal \/ CloneAndScan
    BY <2>1, <2>3, ScanStep
  <2>4. CASE CloneRefused \/ Unavailable \/ Finish \/ Kill
    BY <2>1, <2>4, StopStep
  <2>5. CASE Start \/ Push \/ ClearScratch
    BY <2>1, <2>5, OtherStep
  <2> QED
    BY <2>2, <2>3, <2>4, <2>5 DEF Next, RunStep, ReturningStep
<1> QED
  BY <1>1, RunInvariant, PTL DEF Spec, DocumentsFollowRawResults

----------------------------------------------------------------------------
(* What a run that succeeds has written.                                   *)

LEMMA DocumentsInvWrite ==
  ASSUME SlugsApart, RunInv, DocumentsInv, WriteRaw \/ WriteReport \/ WriteAggregate \/ WriteNote
  PROVE  DocumentsInv'
<1>1. TypeOK /\ disk \in Disk /\ phase' \in {"reports", "notes"} /\ results' = results
  BY WriteStep DEF RunInv, TypeOK
<1>2. SuccessIsComplete'
  BY <1>1 DEF SuccessIsComplete
<1>3. \A n \in ConfigNames : n \in Names /\ SlugOf[n] \in Slugs
  BY NamesOfTargets, EcosystemAssumption
<1>4. CASE WriteRaw
  <2>1. phase' = "reports" /\ ToSet(left') = ConfigNames
    BY <1>4, NameSeqHasAllNames DEF WriteRaw
  <2> QED
    BY <1>2, <2>1 DEF DocumentsInv
<1>5. CASE WriteAggregate
  <2>1. phase' = "notes" /\ ToSet(left') = ConfigNames /\ ToSet(left) = {}
    BY <1>5, NameSeqHasAllNames DEF WriteAggregate, ToSet
  <2>2. disk'.aggregate = results /\ disk'.reports = disk.reports
    BY <1>1, <1>5 DEF WriteAggregate, Disk
  <2>3. \A n \in ConfigNames : Reported(n)
    BY <1>5, <2>1 DEF WriteAggregate, DocumentsInv
  <2>4. \A n \in ConfigNames : Reported(n)'
    BY <1>1, <2>2, <2>3 DEF Reported, Written
  <2> QED
    BY <1>1, <1>2, <2>1, <2>2, <2>4 DEF DocumentsInv
<1>6. CASE WriteReport
  <2> DEFINE h == Head(left)
  <2>1. phase' = "reports" /\ phase = "reports" /\ left' = Tail(left)
        /\ h \in ConfigNames /\ ToSet(left) = {h} \cup ToSet(left')
        /\ disk' = [disk EXCEPT !.reports[SlugOf[h]] = Written(h)]
    BY <1>1, <1>6, NameInHand DEF WriteReport
  <2> HIDE DEF h
  <2>2. ASSUME NEW n \in ConfigNames, n \notin ToSet(left')
        PROVE  Reported(n)'
    <3>1. CASE n = h
      <4>1. disk'.reports[SlugOf[n]] = Written(n)
        BY <1>1, <1>3, <2>1, <3>1 DEF Disk
      <4> QED
        BY <1>1, <4>1 DEF Reported, Written
    <3>2. CASE n # h
      <4>1. SlugOf[n] # SlugOf[h]
        BY <2>1, <3>2 DEF SlugsApart
      <4>2. disk'.reports[SlugOf[n]] = disk.reports[SlugOf[n]]
        BY <1>1, <1>3, <2>1, <4>1 DEF Disk
      <4>3. Reported(n)
        BY <2>1, <2>2, <3>2 DEF DocumentsInv
      <4> QED
        BY <1>1, <4>2, <4>3 DEF Reported, Written
    <3> QED
      BY <3>1, <3>2
  <2> QED
    BY <1>2, <2>1, <2>2 DEF DocumentsInv
<1>7. CASE WriteNote
  <2> DEFINE h == Head(left)
  <2>1. phase' = "notes" /\ phase = "notes" /\ left' = Tail(left)
        /\ h \in ConfigNames /\ ToSet(left) = {h} \cup ToSet(left')
        /\ disk' = IF results[h] = "flagged"
                   THEN [disk EXCEPT !.notes[SlugOf[h]] = Written(h)] ELSE disk
    BY <1>1, <1>7, NameInHand DEF WriteNote
  <2> HIDE DEF h
  <2>2. disk'.aggregate = disk.aggregate /\ disk'.reports = disk.reports
    BY <1>1, <2>1 DEF Disk
  <2>3. disk.aggregate = results /\ \A n \in ConfigNames : Reported(n)
    BY <2>1 DEF DocumentsInv
  <2>4. \A n \in ConfigNames : Reported(n)'
    BY <1>1, <2>2, <2>3 DEF Reported, Written
  <2>5. ASSUME NEW n \in ConfigNames, n \notin ToSet(left')
        PROVE  Disclosed(n)'
    <3>1. CASE n = h
      <4>1. results[n] = "flagged" => disk'.notes[SlugOf[n]] = Written(n)
        BY <1>1, <1>3, <2>1, <3>1 DEF Disk
      <4> QED
        BY <1>1, <4>1 DEF Disclosed, Written
    <3>2. CASE n # h
      <4>1. SlugOf[n] # SlugOf[h]
        BY <2>1, <3>2 DEF SlugsApart
      <4>2. disk'.notes[SlugOf[n]] = disk.notes[SlugOf[n]]
        BY <1>1, <1>3, <2>1, <4>1 DEF Disk
      <4>3. Disclosed(n)
        BY <2>1, <2>5, <3>2 DEF DocumentsInv
      <4> QED
        BY <1>1, <4>2, <4>3 DEF Disclosed, Written
    <3> QED
      BY <3>1, <3>2
  <2> QED
    BY <1>1, <1>2, <2>1, <2>2, <2>3, <2>4, <2>5 DEF DocumentsInv
<1> QED
  BY <1>4, <1>5, <1>6, <1>7

LEMMA DocumentsInvStop ==
  ASSUME RunInv, DocumentsInv, CloneRefused \/ Unavailable \/ Finish \/ Kill
  PROVE  DocumentsInv'
<1>1. /\ phase' = "idle" /\ disk' = disk
      /\ outcome' = "ok" => phase = "notes" /\ left = <<>>
  BY StopStep
<1>2. ASSUME outcome' = "ok" PROVE SuccessIsComplete'
  <2>1. phase = "notes" /\ ToSet(left) = {}
    BY <1>1, <1>2 DEF ToSet
  <2>2. disk.raw = results /\ disk.aggregate = results
        /\ \A n \in ConfigNames : Reported(n) /\ Disclosed(n)
    BY <2>1 DEF RunInv, ResultsInv, DocumentsInv
  <2>3. results # None
    BY EcosystemAssumption DEF RunInv, TypeOK
  <2> QED
    BY <1>1, <2>2, <2>3 DEF SuccessIsComplete, Reported, Disclosed, Written
<1>3. SuccessIsComplete'
  BY <1>2 DEF SuccessIsComplete
<1> QED
  BY <1>1, <1>3 DEF DocumentsInv

LEMMA DocumentsInvStep ==
  ASSUME SlugsApart, RunInv, DocumentsInv, [Next]_vars
  PROVE  DocumentsInv'
<1>1. CASE ScanLocal \/ CloneAndScan
  BY <1>1, ScanStep DEF DocumentsInv, SuccessIsComplete
<1>2. CASE CloneRefused \/ Unavailable \/ Finish \/ Kill
  BY <1>2, DocumentsInvStop
<1>3. CASE WriteRaw \/ WriteReport \/ WriteAggregate \/ WriteNote
  BY <1>3, DocumentsInvWrite
<1>4. CASE Start \/ Push \/ ClearScratch \/ UNCHANGED vars
  <2>1. disk' = disk /\ outcome' = outcome
        /\ \/ phase' = phase /\ left' = left /\ results' = results
           \/ phase = "idle" /\ phase' = "resolve"
    BY <1>4, OtherStep
  <2>2. CASE phase = "idle" /\ phase' = "resolve"
    BY <2>2 DEF DocumentsInv, SuccessIsComplete
  <2>3. CASE phase' = phase /\ left' = left /\ results' = results
    <3>1. SuccessIsComplete'
      BY <2>1, <2>3 DEF DocumentsInv, SuccessIsComplete
    <3>2. \A n \in ConfigNames : (Reported(n) <=> Reported(n)') /\ (Disclosed(n) <=> Disclosed(n)')
      BY <2>1, <2>3 DEF Reported, Disclosed, Written
    <3> QED
      BY <2>1, <2>3, <3>1, <3>2 DEF DocumentsInv
  <2> QED
    BY <2>1, <2>2, <2>3
<1> QED
  BY <1>1, <1>2, <1>3, <1>4 DEF Next, RunStep, ReturningStep

(* A run that reports success has written every artifact from its own raw  *)
(* results, whatever the runs before it left behind, if the names of the   *)
(* targets have different slugs (run_ecosystem_scan).                      *)
THEOREM SuccessWritesEverything ==
  ASSUME SlugsApart
  PROVE  Spec => []SuccessIsComplete
<1>1. Init => DocumentsInv
  BY DEF Init, DocumentsInv, SuccessIsComplete
<1>2. RunInv /\ DocumentsInv /\ [Next]_vars => DocumentsInv'
  BY SlugsApart, DocumentsInvStep
<1>3. DocumentsInv => SuccessIsComplete
  BY DEF DocumentsInv
<1> QED
  BY <1>1, <1>2, <1>3, RunInvariant, PTL DEF Spec
=============================================================================
