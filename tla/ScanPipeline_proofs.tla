------------------------ MODULE ScanPipeline_proofs ------------------------
(***************************************************************************)
(* Theorems about the scan pipeline, for any files, detectors and reports: *)
(* what the three passes and their crashes may do to a finding, and what   *)
(* the gate makes of it.                                                   *)
(***************************************************************************)
EXTENDS ScanPipeline, FiniteSetTheorems, SequenceTheorems, TLAPS

WorkItem == [kind : {"file", "detector", "pass"},
             item : ToSet(FileSeq) \cup ToSet(Detectors) \cup Axes]

Crashed(axis) == <<"pass", axis>> \in errors

\* The confidence after the nudges of the two labels, reachability's first.
Nudged(f) ==
  LET first == IF f.reach = "reachable" THEN Raise(f.rep.conf)
               ELSE IF f.reach = "unknown" THEN f.rep.conf ELSE Lower(f.rep.conf)
  IN  IF f.taint = "tainted" THEN Raise(first)
      ELSE IF f.taint = "unknown" THEN first ELSE Lower(first)

\* Whichever passes have run: each label is the pass's own or none, and
\* severity and confidence follow from the labels.
Consistent(f) ==
  /\ f \in Finding
  /\ Possible(f.rep)
  /\ f.reach \in {"unknown", Reach(f.rep)}
  /\ f.taint \in {"unknown", TaintOf(f.rep)}
  /\ IF f.grade = "graded" THEN f.sev = f.rep.sev /\ f.conf = Nudged(f)
     ELSE /\ Undecided(f)
          /\ f.sev = (IF Capped(f) /\ f.rep.sev < 2 THEN 2 ELSE f.rep.sev)
          /\ f.conf = (IF Capped(f) THEN 0 ELSE f.rep.conf)

\* A label is there only if its pass is over and has not crashed; a finding
\* without any is graded only until the honesty pass is over.
LabelledInTime(f) ==
  /\ f.reach # "unknown" => Len(agenda) <= 2 /\ ~Crashed("reachability")
  /\ f.taint # "unknown" => Len(agenda) <= 1 /\ ~Crashed("taint")
  /\ f.grade = "ungraded" => agenda = <<>>
  /\ agenda = <<>> /\ Undecided(f) => f.grade = "ungraded" \/ Crashed("honesty")

\* The passes are the last three items of the agenda.
ErrorsInTime ==
  /\ Crashed("reachability") => Len(agenda) <= 2
  /\ Crashed("taint") => Len(agenda) <= 1
  /\ Crashed("honesty") => Len(agenda) = 0

CoverageInv ==
  /\ coverage # <<>> => agenda = <<>> /\ coverage[1] + coverage[2] = Len(findings)
  /\ agenda = <<>> => coverage # <<>> \/ Crashed("honesty")

\* A running pass has relabelled the first findings of the list.
PendingInv ==
  /\ pending # <<>> => Doing("pass")
  /\ \A k \in 1..Len(pending) : pending[k] = Relabelled(findings[k])

FindingsInv ==
  /\ Doing("file") => findings = <<>>
  /\ \A f \in ToSet(findings) : Consistent(f) /\ LabelledInTime(f)

PipelineInv == TypeOK /\ ErrorsInTime /\ CoverageInv /\ PendingInv /\ FindingsInv

----------------------------------------------------------------------------
(* The agenda.                                                             *)

F == Len(FileSeq)
D == Len(Detectors)

LEMMA WorkOfSeq ==
  ASSUME NEW kind \in {"file", "detector", "pass"},
         NEW S \in SUBSET (ToSet(FileSeq) \cup ToSet(Detectors) \cup Axes),
         NEW items \in Seq(S)
  PROVE  /\ Work(kind, items) \in Seq(WorkItem)
         /\ Len(Work(kind, items)) = Len(items)
         /\ \A i \in 1..Len(items) :
              Work(kind, items)[i] = [kind |-> kind, item |-> items[i]]
<1>1. \A i \in 1..Len(items) : [kind |-> kind, item |-> items[i]] \in WorkItem
  BY DEF WorkItem
<1> QED
  BY <1>1 DEF Work

LEMMA ConcatShape ==
  ASSUME NEW S, NEW s \in Seq(S), NEW t \in Seq(S)
  PROVE  /\ s \o t \in Seq(S) /\ Len(s \o t) = Len(s) + Len(t)
         /\ \A i \in 1..Len(s) : (s \o t)[i] = s[i]
         /\ \A i \in Len(s) + 1..Len(s) + Len(t) : (s \o t)[i] = t[i - Len(s)]
<1>1. Len(s) \in Nat /\ Len(t) \in Nat
  OBVIOUS
<1> QED
  BY <1>1, ConcatProperties, SMT

(* First the files, then the detectors, then the three passes.             *)
LEMMA AgendaShape ==
  /\ F \in Nat /\ D \in Nat
  /\ Agenda \in Seq(WorkItem)
  /\ Len(Agenda) = F + D + 3
  /\ \A i \in 1..F : Agenda[i].kind = "file" /\ Agenda[i].item \in ToSet(FileSeq)
  /\ \A i \in F + 1..F + D : Agenda[i].kind = "detector" /\ Agenda[i].item \in ToSet(Detectors)
  /\ Agenda[F + D + 1] = [kind |-> "pass", item |-> "reachability"]
  /\ Agenda[F + D + 2] = [kind |-> "pass", item |-> "taint"]
  /\ Agenda[F + D + 3] = [kind |-> "pass", item |-> "honesty"]
<1> DEFINE A == Work("file", FileSeq)
           B == Work("detector", Detectors)
           C == Work("pass", <<"reachability", "taint", "honesty">>)
<1>1. F \in Nat /\ D \in Nat
  BY PipelineAssumption DEF F, D
<1>2. /\ A \in Seq(WorkItem) /\ Len(A) = F
      /\ \A i \in 1..F : A[i] = [kind |-> "file", item |-> FileSeq[i]]
  BY PipelineAssumption, WorkOfSeq DEF F
<1>3. /\ B \in Seq(WorkItem) /\ Len(B) = D
      /\ \A i \in 1..D : B[i] = [kind |-> "detector", item |-> Detectors[i]]
  BY PipelineAssumption, WorkOfSeq DEF D
<1>4. /\ C \in Seq(WorkItem) /\ Len(C) = 3
      /\ C[1] = [kind |-> "pass", item |-> "reachability"]
      /\ C[2] = [kind |-> "pass", item |-> "taint"]
      /\ C[3] = [kind |-> "pass", item |-> "honesty"]
  <2> DEFINE axes == <<"reachability", "taint", "honesty">>
  <2>1. axes \in Seq(Axes) /\ Len(axes) = 3 /\ axes[1] = "reachability"
          /\ axes[2] = "taint" /\ axes[3] = "honesty"
    BY DEF Axes
  <2>2. C = Work("pass", axes)
    OBVIOUS
  <2> HIDE DEF axes, C
  <2> QED
    BY <2>1, <2>2, WorkOfSeq
<1>5. Agenda = A \o B \o C
  BY DEF Agenda
<1> HIDE DEF A, B, C
<1>6. /\ A \o B \in Seq(WorkItem) /\ Len(A \o B) = F + D
      /\ \A i \in 1..F : (A \o B)[i] = A[i]
      /\ \A i \in F + 1..F + D : (A \o B)[i] = B[i - F]
  <2>1. /\ A \o B \in Seq(WorkItem) /\ Len(A \o B) = Len(A) + Len(B)
        /\ \A i \in 1..Len(A) : (A \o B)[i] = A[i]
        /\ \A i \in Len(A) + 1..Len(A) + Len(B) : (A \o B)[i] = B[i - Len(A)]
    BY <1>2, <1>3, ConcatShape, Zenon
  <2> QED
    BY <1>2, <1>3, <2>1, Zenon
<1>7. /\ Agenda \in Seq(WorkItem) /\ Len(Agenda) = F + D + 3
      /\ \A i \in 1..F + D : Agenda[i] = (A \o B)[i]
      /\ \A i \in F + D + 1..F + D + 3 : Agenda[i] = C[i - (F + D)]
  <2> DEFINE AB == A \o B
  <2>1. AB \in Seq(WorkItem) /\ Len(AB) = F + D
    BY <1>6
  <2>2. Agenda = AB \o C
    BY <1>5
  <2> HIDE DEF AB
  <2>3. /\ AB \o C \in Seq(WorkItem) /\ Len(AB \o C) = Len(AB) + Len(C)
        /\ \A i \in 1..Len(AB) : (AB \o C)[i] = AB[i]
        /\ \A i \in Len(AB) + 1..Len(AB) + Len(C) : (AB \o C)[i] = C[i - Len(AB)]
    BY <1>4, <2>1, ConcatShape, Zenon
  <2> QED
    BY <1>4, <2>1, <2>2, <2>3, Zenon DEF AB
<1>8. \A i \in 1..F : FileSeq[i] \in ToSet(FileSeq)
  BY PipelineAssumption DEF ToSet, F
<1>9. \A i \in 1..D : Detectors[i] \in ToSet(Detectors)
  BY PipelineAssumption DEF ToSet, D
<1>10. \A i \in 1..F : Agenda[i].kind = "file" /\ Agenda[i].item \in ToSet(FileSeq)
  <2> SUFFICES ASSUME NEW i \in 1..F
               PROVE  Agenda[i].kind = "file" /\ Agenda[i].item \in ToSet(FileSeq)
    OBVIOUS
  <2>1. i \in 1..F + D
    BY <1>1
  <2>2. Agenda[i] = [kind |-> "file", item |-> FileSeq[i]]
    BY <1>2, <1>6, <1>7, <2>1
  <2> QED
    BY <1>8, <2>2
<1>11. \A i \in F + 1..F + D : Agenda[i].kind = "detector" /\ Agenda[i].item \in ToSet(Detectors)
  <2> SUFFICES ASSUME NEW i \in F + 1..F + D
               PROVE  Agenda[i].kind = "detector" /\ Agenda[i].item \in ToSet(Detectors)
    OBVIOUS
  <2>1. i \in 1..F + D /\ i - F \in 1..D
    BY <1>1
  <2>2. Agenda[i] = [kind |-> "detector", item |-> Detectors[i - F]]
    BY <1>3, <1>6, <1>7, <2>1
  <2> QED
    BY <1>9, <2>1, <2>2
<1>12. /\ Agenda[F + D + 1] = C[1] /\ Agenda[F + D + 2] = C[2] /\ Agenda[F + D + 3] = C[3]
  <2>1. \A j \in 1..3 : F + D + j \in F + D + 1..F + D + 3 /\ (F + D + j) - (F + D) = j
    BY <1>1
  <2>2. \A j \in 1..3 : Agenda[F + D + j] = C[j]
    BY <1>7, <2>1
  <2>3. 1 \in 1..3 /\ 2 \in 1..3 /\ 3 \in 1..3
    OBVIOUS
  <2> QED
    BY <2>2, <2>3
<1> QED
  BY <1>1, <1>4, <1>7, <1>10, <1>11, <1>12

AgendaOK == \E k \in 0..Len(Agenda) : agenda = SubSeq(Agenda, k + 1, Len(Agenda))

(* What is being done tells how much is left, and the other way round.     *)
LEMMA AgendaNow ==
  ASSUME AgendaOK
  PROVE  /\ agenda \in Seq(WorkItem) /\ Len(agenda) \in Nat
         /\ agenda # <<>> => /\ Item \in ToSet(FileSeq) \cup ToSet(Detectors) \cup Axes
                             /\ Doing("file") \/ Doing("detector") \/ Doing("pass")
         /\ Doing("file") => Item \in ToSet(FileSeq) /\ Len(agenda) > D + 3
         /\ Doing("detector") => Item \in ToSet(Detectors) /\ Len(agenda) \in 4..D + 3
         /\ Doing("pass") =>
              \/ Len(agenda) = 3 /\ Item = "reachability"
              \/ Len(agenda) = 2 /\ Item = "taint"
              \/ Len(agenda) = 1 /\ Item = "honesty"
<1>1. PICK k \in 0..Len(Agenda) : agenda = SubSeq(Agenda, k + 1, Len(Agenda))
  BY DEF AgendaOK
<1>2. /\ F \in Nat /\ D \in Nat /\ Agenda \in Seq(WorkItem) /\ Len(Agenda) = F + D + 3
  BY AgendaShape
<1>3. agenda \in Seq(WorkItem) /\ Len(agenda) = Len(Agenda) - k
  BY <1>1, <1>2
<1>4. ASSUME agenda # <<>>
      PROVE  k + 1 \in 1..Len(Agenda) /\ Head(agenda) = Agenda[k + 1]
  <2>1. k + 1 \in 1..Len(Agenda)
    BY <1>1, <1>2, <1>3, <1>4
  <2> QED
    BY <1>1, <1>2, <2>1, HeadTailOfSubSeq
<1>5. CASE agenda = <<>>
  BY <1>3, <1>5 DEF Doing
<1>6. CASE agenda # <<>> /\ k + 1 \in 1..F
  BY <1>2, <1>3, <1>4, <1>6, AgendaShape DEF Doing, Item
<1>7. CASE agenda # <<>> /\ k + 1 \in F + 1..F + D
  BY <1>2, <1>3, <1>4, <1>7, AgendaShape DEF Doing, Item
<1>8. CASE agenda # <<>> /\ k + 1 = F + D + 1
  BY <1>2, <1>3, <1>4, <1>8, AgendaShape DEF Doing, Item, Axes
<1>9. CASE agenda # <<>> /\ k + 1 = F + D + 2
  BY <1>2, <1>3, <1>4, <1>9, AgendaShape DEF Doing, Item, Axes
<1>10. CASE agenda # <<>> /\ k + 1 = F + D + 3
  <2>1. Head(agenda).kind = "pass" /\ Item = "honesty"
    <3>1. Agenda[k + 1].kind = "pass" /\ Agenda[k + 1].item = "honesty"
      BY <1>10, AgendaShape
    <3>2. Head(agenda) = Agenda[k + 1]
      BY <1>4, <1>10
    <3> QED
      BY <3>1, <3>2, Zenon DEF Item
  <2>2. Len(agenda) = 1
    BY <1>2, <1>3, <1>10
  <2>3. Doing("pass") /\ ~Doing("file") /\ ~Doing("detector")
    BY <1>10, <2>1, Zenon DEF Doing
  <2>4. agenda \in Seq(WorkItem) /\ Len(agenda) \in Nat
    BY <1>3
  <2>5. Item \in Axes
    BY <2>1 DEF Axes
  <2> QED
    BY <2>1, <2>2, <2>3, <2>4, <2>5, Zenon
<1> QED
  BY <1>2, <1>4, <1>5, <1>6, <1>7, <1>8, <1>9, <1>10

LEMMA AgendaAdvances ==
  ASSUME AgendaOK, agenda # <<>>, Advance
  PROVE  /\ AgendaOK' /\ Len(agenda') = Len(agenda) - 1
         /\ ~Doing("file") => ~Doing("file")'
<1>1. PICK k \in 0..Len(Agenda) : agenda = SubSeq(Agenda, k + 1, Len(Agenda))
  BY DEF AgendaOK
<1>2. Agenda \in Seq(WorkItem) /\ Len(Agenda) \in Nat
  BY AgendaShape
<1>3. Len(agenda) = Len(Agenda) - k /\ k + 1 \in 1..Len(Agenda)
  BY <1>1, <1>2
<1>4. agenda' = SubSeq(Agenda, (k + 1) + 1, Len(Agenda))
  BY <1>1, <1>2, <1>3, HeadTailOfSubSeq DEF Advance
<1>5. k + 1 \in 0..Len(Agenda)
  BY <1>2, <1>3
<1>6. Len(agenda') = Len(Agenda) - (k + 1)
  BY <1>2, <1>4, <1>5
<1>7. Agenda' = Agenda
  BY DEF Agenda, Work
<1>8. AgendaOK'
  BY <1>4, <1>5, <1>7 DEF AgendaOK
<1>9. ASSUME ~Doing("file"), agenda' # <<>> PROVE Head(agenda').kind # "file"
  <2>1. Head(agenda) = Agenda[k + 1]
    BY <1>1, <1>2, <1>3, HeadTailOfSubSeq
  <2>2. F \in Nat /\ k + 1 \notin 1..F
    BY <1>9, <2>1, AgendaShape DEF Doing
  <2>3. k + 2 \in F + 1..Len(Agenda)
    <3>1. agenda' \in Seq(WorkItem)
      BY <1>2, <1>4, <1>5, HeadTailOfSubSeq
    <3>2. Len(agenda') > 0
      BY <1>9, <3>1
    <3> QED
      BY <1>1, <1>2, <1>3, <1>6, <2>2, <3>2
  <2>4. Head(agenda') = Agenda[k + 2]
    BY <1>2, <1>4, <2>2, <2>3, HeadTailOfSubSeq
  <2>5. CASE k + 2 \in F + 1..F + D
    BY <2>4, <2>5, AgendaShape
  <2>6. CASE k + 2 \in F + D + 1..F + D + 3
    <3>1. k + 2 \in {F + D + 1, F + D + 2, F + D + 3}
      BY <1>1, <2>6, AgendaShape
    <3>2. \A r, item : r = [kind |-> "pass", item |-> item] => r.kind = "pass"
      OBVIOUS
    <3>3. /\ Agenda[F + D + 1].kind = "pass"
          /\ Agenda[F + D + 2].kind = "pass"
          /\ Agenda[F + D + 3].kind = "pass"
      BY <3>2, AgendaShape, Zenon
    <3>4. Agenda[k + 2].kind = "pass"
      BY <3>1, <3>3, Zenon
    <3> QED
      BY <2>4, <3>4
  <2> QED
    BY <1>1, <2>3, <2>5, <2>6, AgendaShape
<1> QED
  BY <1>1, <1>2, <1>3, <1>6, <1>8, <1>9 DEF Doing

----------------------------------------------------------------------------
(* What each pass does to one finding.                                     *)

LEMMA VerdictTypes ==
  ASSUME NEW r
  PROVE  /\ Reach(r) \in {"reachable", "cli-only", "uncalled", "unknown"}
         /\ TaintOf(r) \in {"tainted", "untainted", "unknown"}
         /\ Reason(r) \in {"not-read", "surface", "unparsed", "no-tools",
                           "whole-file", "could-not-decide"}
<1>1. AstReach(r) \in {"reachable", "cli-only", "uncalled", "unknown"}
  BY DEF AstReach
<1> QED
  BY <1>1 DEF Reach, TaintOf, Reason

LEMMA StrongIsReachable ==
  ASSUME NEW r, r.at = "strong", repo.tools = "handled"
  PROVE  Reach(r) = "reachable"
<1>1. r.at \in InFunction
  BY DEF InFunction
<1>2. AstReach(r) = "reachable"
  BY <1>1 DEF AstReach
<1> QED
  BY <1>2 DEF Reach

LEMMA NudgeTypes ==
  ASSUME NEW c \in Confidences
  PROVE  /\ Raise(c) \in Confidences /\ Lower(c) \in Confidences
         /\ Raise(c) >= c /\ Lower(c) <= c
         /\ Raise(Lower(c)) >= c /\ Lower(Raise(c)) <= c
  BY DEF Confidences, Raise, Lower

LEMMA WithReachFields ==
  ASSUME NEW f \in Finding
  PROVE  /\ WithReach(f) \in Finding
         /\ WithReach(f).rep = f.rep /\ WithReach(f).sev = f.sev
         /\ WithReach(f).taint = f.taint /\ WithReach(f).grade = f.grade
         /\ WithReach(f).reach = Reach(f.rep)
         /\ WithReach(f).conf = IF Reach(f.rep) = "reachable" THEN Raise(f.conf)
                                ELSE IF Reach(f.rep) = "unknown" THEN f.conf ELSE Lower(f.conf)
<1>1. f.conf \in Confidences
  BY DEF Finding
<1> QED
  BY <1>1, VerdictTypes, NudgeTypes DEF WithReach, Finding

LEMMA WithTaintFields ==
  ASSUME NEW f \in Finding
  PROVE  /\ WithTaint(f) \in Finding
         /\ WithTaint(f).rep = f.rep /\ WithTaint(f).sev = f.sev
         /\ WithTaint(f).reach = f.reach /\ WithTaint(f).grade = f.grade
         /\ WithTaint(f).taint = TaintOf(f.rep)
         /\ WithTaint(f).conf = IF TaintOf(f.rep) = "tainted" THEN Raise(f.conf)
                                ELSE IF TaintOf(f.rep) = "unknown" THEN f.conf ELSE Lower(f.conf)
<1>1. f.conf \in Confidences
  BY DEF Finding
<1> QED
  BY <1>1, VerdictTypes, NudgeTypes DEF WithTaint, Finding

LEMMA WithGradeFields ==
  ASSUME NEW f \in Finding
  PROVE  /\ WithGrade(f) \in Finding
         /\ WithGrade(f).rep = f.rep /\ WithGrade(f).reach = f.reach
         /\ WithGrade(f).taint = f.taint
         /\ ~Undecided(f) => /\ WithGrade(f).grade = "graded"
                             /\ WithGrade(f).sev = f.sev /\ WithGrade(f).conf = f.conf
         /\ Undecided(f) =>
              /\ WithGrade(f).grade = "ungraded"
              /\ WithGrade(f).sev = (IF Capped(f) /\ f.sev < 2 THEN 2 ELSE f.sev)
              /\ WithGrade(f).conf = (IF Capped(f) THEN 0 ELSE f.conf)
<1>1. f.conf \in Confidences /\ f.sev \in Severities
  BY DEF Finding
<1>2. CASE Undecided(f)
  <2> DEFINE sev == IF Capped(f) /\ f.sev < 2 THEN 2 ELSE f.sev
             conf == IF Capped(f) THEN 0 ELSE f.conf
             reason == Reason(f.rep)
  <2>1. sev \in Severities /\ conf \in Confidences
    BY <1>1 DEF Severities, Confidences
  <2>2. reason \in {"not-read", "surface", "unparsed", "no-tools", "whole-file", "could-not-decide"}
    BY VerdictTypes
  <2>3. WithGrade(f) = [f EXCEPT !.grade = "ungraded", !.reason = reason,
                                 !.sev = sev, !.conf = conf]
    BY <1>2 DEF WithGrade
  <2>4. WithGrade(f).sev = sev /\ WithGrade(f).conf = conf
    <3> HIDE DEF sev, conf, reason
    <3> QED
      BY <2>3 DEF Finding
  <2>5. /\ WithGrade(f) \in Finding /\ WithGrade(f).grade = "ungraded"
        /\ WithGrade(f).rep = f.rep /\ WithGrade(f).reach = f.reach
        /\ WithGrade(f).taint = f.taint
    <3> HIDE DEF sev, conf, reason
    <3> QED
      BY <2>1, <2>2, <2>3 DEF Finding
  <2> QED
    BY <1>2, <2>4, <2>5
<1>3. CASE ~Undecided(f)
  BY <1>1, <1>3 DEF WithGrade, Finding
<1> QED
  BY <1>2, <1>3

LEMMA RelabelledFields ==
  ASSUME NEW f \in Finding, Item \in Axes
  PROVE  Relabelled(f) \in Finding /\ Relabelled(f).rep = f.rep
  BY WithReachFields, WithTaintFields, WithGradeFields DEF Relabelled, Axes

(* A pass that relabels a consistent finding leaves it consistent.         *)
LEMMA ReachabilityRelabels ==
  ASSUME NEW f, Consistent(f), Item = "reachability",
         f.reach = "unknown", f.taint = "unknown", f.grade = "graded"
  PROVE  /\ Consistent(Relabelled(f))
         /\ Relabelled(f).taint = "unknown" /\ Relabelled(f).grade = "graded"
<1>1. f \in Finding /\ Relabelled(f) = WithReach(f)
  BY DEF Consistent, Relabelled
<1> QED
  BY <1>1, WithReachFields DEF Consistent, Nudged

LEMMA TaintRelabels ==
  ASSUME NEW f, Consistent(f), Item = "taint", f.taint = "unknown", f.grade = "graded"
  PROVE  /\ Consistent(Relabelled(f))
         /\ Relabelled(f).reach = f.reach /\ Relabelled(f).grade = "graded"
<1>1. f \in Finding /\ Relabelled(f) = WithTaint(f)
  BY DEF Consistent, Relabelled
<1> QED
  BY <1>1, WithTaintFields DEF Consistent, Nudged

LEMMA HonestyRelabels ==
  ASSUME NEW f, Consistent(f), Item = "honesty", f.grade = "graded"
  PROVE  /\ Consistent(Relabelled(f))
         /\ Relabelled(f).reach = f.reach /\ Relabelled(f).taint = f.taint
         /\ Undecided(f) => Relabelled(f).grade = "ungraded"
<1>1. f \in Finding /\ Relabelled(f) = WithGrade(f)
  BY DEF Consistent, Relabelled
<1>2. Undecided(Relabelled(f)) <=> Undecided(f)
  BY <1>1, WithGradeFields DEF Undecided
<1>3. Capped(Relabelled(f)) <=> Capped(f)
  BY <1>1, WithGradeFields DEF Capped
<1>4. Undecided(f) => Nudged(f) = f.rep.conf
  BY DEF Undecided, Nudged
<1>5. ~Undecided(f) => Nudged(Relabelled(f)) = Nudged(f)
  BY <1>1, WithGradeFields DEF Nudged
<1> QED
  BY <1>1, <1>2, <1>3, <1>4, <1>5, WithGradeFields DEF Consistent

----------------------------------------------------------------------------
(* The steps.                                                              *)

LEMMA ConsistentStays ==
  ASSUME UNCHANGED <<repo, files, trees>>, NEW f, Consistent(f)
  PROVE  Consistent(f)'
  BY DEF Consistent, Possible, Reach, AstReach, Capped

LEMMA NothingInEmpty == ToSet(<<>>) = {}
  BY DEF ToSet

LEMMA PipelineInvInit == Init => PipelineInv
<1> SUFFICES ASSUME Init PROVE PipelineInv
  OBVIOUS
<1>1. /\ agenda = Agenda /\ files = {} /\ trees = {} /\ errors = {}
      /\ findings = <<>> /\ pending = <<>> /\ coverage = <<>>
  BY DEF Init
<1>2. Agenda \in Seq(WorkItem) /\ Len(Agenda) \in Nat /\ Len(Agenda) > 0
  BY AgendaShape
<1>3. 0 \in 0..Len(Agenda) /\ agenda = SubSeq(Agenda, 0 + 1, Len(Agenda))
  BY <1>1, <1>2
<1>4. AgendaOK /\ agenda # <<>>
  BY <1>1, <1>2, <1>3 DEF AgendaOK
<1>5. TypeOK
  BY <1>1, <1>4 DEF TypeOK, AgendaOK, Init
<1> QED
  BY <1>1, <1>4, <1>5, NothingInEmpty
     DEF PipelineInv, ErrorsInTime, Crashed, CoverageInv, PendingInv, FindingsInv

LEMMA ReadFileKeepsInv ==
  ASSUME PipelineInv, NEW outcome \in {"oversize", "unreadable", "unparsed", "read"},
         ReadFile(outcome)
  PROVE  PipelineInv'
<1>1. AgendaOK /\ Doing("file") /\ agenda # <<>> /\ Advance
  BY DEF PipelineInv, TypeOK, AgendaOK, ReadFile, Doing
<1>2. Item \in ToSet(FileSeq) /\ Len(agenda) > D + 3 /\ Len(agenda) \in Nat /\ D \in Nat
  BY <1>1, AgendaNow, AgendaShape
<1>3. AgendaOK' /\ Len(agenda') = Len(agenda) - 1
  BY <1>1, AgendaAdvances
<1>4. agenda' # <<>>
  BY <1>2, <1>3
<1>5. /\ findings = <<>> /\ pending = <<>> /\ coverage = <<>>
      /\ UNCHANGED <<repo, findings, pending, coverage>>
  <2>1. findings = <<>>
    BY <1>1 DEF PipelineInv, FindingsInv
  <2>2. pending = <<>>
    BY <1>1 DEF PipelineInv, PendingInv, Doing
  <2>3. coverage = <<>>
    BY <1>1 DEF PipelineInv, CoverageInv
  <2> QED
    BY <2>1, <2>2, <2>3 DEF ReadFile
<1>6. errors' \in {errors, errors \cup {<<"file", Item>>}}
  BY DEF ReadFile, Failed
<1>7. TypeOK'
  <2>1. trees' \subseteq files' \cap PyFiles /\ files' \subseteq ToSet(FileSeq)
    BY <1>2 DEF ReadFile, PipelineInv, TypeOK
  <2>2. errors' \subseteq {"file", "detector", "pass"}
                            \X (ToSet(FileSeq) \cup ToSet(Detectors) \cup Axes)
    BY <1>2, <1>6 DEF PipelineInv, TypeOK
  <2> QED
    BY <1>3, <1>5, <2>1, <2>2 DEF PipelineInv, TypeOK, AgendaOK
<1>8. ErrorsInTime'
  BY <1>2, <1>3, <1>6 DEF PipelineInv, ErrorsInTime, Crashed
<1>9. FindingsInv'
  <2>1. findings' = <<>>
    BY <1>5
  <2>2. ToSet(findings)' = {}
    BY <2>1, NothingInEmpty DEF ToSet
  <2> QED
    BY <2>1, <2>2 DEF FindingsInv
<1> QED
  BY <1>4, <1>5, <1>7, <1>8, <1>9 DEF PipelineInv, CoverageInv, PendingInv

LEMMA ToSetOfConcat ==
  ASSUME NEW S, NEW s \in Seq(S), NEW t \in Seq(S)
  PROVE  s \o t \in Seq(S) /\ ToSet(s \o t) = ToSet(s) \cup ToSet(t)
<1>1. \A u : ToSet(u) = Range(u)
  BY DEF ToSet, Range
<1>2. Range(s \o t) = Range(s) \cup Range(t)
  BY RangeConcatenation, Zenon
<1> QED
  BY <1>1, <1>2

LEMMA FreshConsistent ==
  ASSUME NEW r \in Report, Possible(r)
  PROVE  /\ Consistent(Fresh(r))
         /\ Fresh(r) \in Finding
         /\ Fresh(r).reach = "unknown" /\ Fresh(r).taint = "unknown"
         /\ Fresh(r).grade = "graded"
<1>1. r.sev \in Severities /\ r.conf \in Confidences
  BY DEF Report
<1>2. Fresh(r) \in Finding /\ Fresh(r).rep = r
  BY <1>1 DEF Fresh, Finding
<1> QED
  BY <1>1, <1>2 DEF Consistent, Fresh, Nudged

LEMMA DetectorKeepsInv ==
  ASSUME PipelineInv, RunDetector \/ CrashDetector
  PROVE  PipelineInv'
<1>1. AgendaOK /\ Doing("detector") /\ agenda # <<>> /\ Advance
  BY DEF PipelineInv, TypeOK, AgendaOK, RunDetector, CrashDetector, Doing
<1>2. /\ Item \in ToSet(Detectors) /\ Len(agenda) \in 4..D + 3
      /\ Len(agenda) \in Nat /\ D \in Nat
  BY <1>1, AgendaNow, AgendaShape
<1>3. AgendaOK' /\ Len(agenda') = Len(agenda) - 1
  BY <1>1, AgendaAdvances
<1>4. agenda' # <<>> /\ ~Doing("file")' /\ Len(agenda') \in 3..D + 2 /\ ~Doing("pass")
  <2>1. Len(agenda') \in 3..D + 2 /\ agenda' # <<>>
    BY <1>2, <1>3
  <2>2. ~Doing("file") /\ ~Doing("pass")
    BY <1>1 DEF Doing
  <2> QED
    BY <1>1, <2>1, <2>2, AgendaAdvances
<1>5. /\ pending = <<>> /\ coverage = <<>>
      /\ UNCHANGED <<repo, files, trees, pending, coverage>>
  <2>1. pending = <<>>
    BY <1>4 DEF PipelineInv, PendingInv
  <2>2. coverage = <<>>
    BY <1>1 DEF PipelineInv, CoverageInv
  <2> QED
    BY <2>1, <2>2 DEF RunDetector, CrashDetector
<1>6. errors' \in {errors, errors \cup {<<"detector", Item>>}}
  BY DEF RunDetector, CrashDetector, Failed
<1>7. /\ findings' \in Seq(Finding)
      /\ \A f \in ToSet(findings') :
           /\ Consistent(f)
           /\ \/ f \in ToSet(findings)
              \/ f.reach = "unknown" /\ f.taint = "unknown" /\ f.grade = "graded"
  <2>1. findings \in Seq(Finding) /\ \A f \in ToSet(findings) : Consistent(f)
    BY DEF PipelineInv, TypeOK, FindingsInv
  <2>2. CASE CrashDetector
    BY <2>1, <2>2 DEF CrashDetector
  <2>3. CASE RunDetector
    <3>1. PICK reps \in Reports[Item] :
            /\ \A k \in 1..Len(reps) : Possible(reps[k])
            /\ findings' = findings \o [k \in 1..Len(reps) |-> Fresh(reps[k])]
      BY <2>3 DEF RunDetector
    <3>2. reps \in Seq(Report)
      <4>1. PICK j \in 1..Len(Detectors) : Item = Detectors[j]
        BY <1>2, PipelineAssumption DEF ToSet
      <4> QED
        BY <4>1, PipelineAssumption
    <3> DEFINE new == [k \in 1..Len(reps) |-> Fresh(reps[k])]
    <3>3. \A k \in 1..Len(reps) :
            /\ Consistent(Fresh(reps[k])) /\ Fresh(reps[k]) \in Finding
            /\ Fresh(reps[k]).reach = "unknown" /\ Fresh(reps[k]).taint = "unknown"
            /\ Fresh(reps[k]).grade = "graded"
      BY <3>1, <3>2, FreshConsistent
    <3>4. /\ new \in Seq(Finding)
          /\ \A f \in ToSet(new) : /\ Consistent(f) /\ f.reach = "unknown"
                                   /\ f.taint = "unknown" /\ f.grade = "graded"
      BY <3>2, <3>3 DEF ToSet
    <3> HIDE DEF new
    <3>5. findings' = findings \o new
      BY <3>1 DEF new
    <3>6. findings' \in Seq(Finding) /\ ToSet(findings') = ToSet(findings) \cup ToSet(new)
      BY <2>1, <3>4, <3>5, ToSetOfConcat
    <3> QED
      BY <2>1, <3>4, <3>6
  <2> QED
    BY <2>2, <2>3
<1>8. TypeOK'
  <2>1. errors' \subseteq {"file", "detector", "pass"}
                            \X (ToSet(FileSeq) \cup ToSet(Detectors) \cup Axes)
    BY <1>2, <1>6 DEF PipelineInv, TypeOK
  <2>2. pending' \in Seq(Finding) /\ Len(pending') <= Len(findings')
    BY <1>5, <1>7
  <2> QED
    BY <1>3, <1>5, <1>7, <2>1, <2>2 DEF PipelineInv, TypeOK, AgendaOK
<1>9. ErrorsInTime'
  BY <1>2, <1>3, <1>6 DEF PipelineInv, ErrorsInTime, Crashed
<1>10. \A f \in ToSet(findings') : Consistent(f)'
  BY <1>5, <1>7, ConsistentStays
<1>11. \A f \in ToSet(findings') : LabelledInTime(f)'
  <2>1. \A f \in ToSet(findings) : LabelledInTime(f)
    BY DEF PipelineInv, FindingsInv
  <2>2. \A f : LabelledInTime(f) => f.reach = "unknown" /\ f.taint = "unknown" /\ f.grade # "ungraded"
    BY <1>1, <1>2 DEF LabelledInTime
  <2>3. \A f \in ToSet(findings') : /\ f.reach = "unknown" /\ f.taint = "unknown"
                                    /\ f.grade # "ungraded"
    BY <1>7, <2>1, <2>2
  <2> QED
    BY <1>4, <2>3 DEF LabelledInTime
<1>12. FindingsInv'
  BY <1>4, <1>10, <1>11 DEF FindingsInv, ToSet
<1> QED
  BY <1>4, <1>5, <1>8, <1>9, <1>12 DEF PipelineInv, CoverageInv, PendingInv

(* A running pass: which one it is, and what it has done so far.           *)
LEMMA PassNow ==
  ASSUME PipelineInv, Doing("pass")
  PROVE  /\ AgendaOK /\ agenda # <<>> /\ Item \in Axes
         /\ \/ Len(agenda) = 3 /\ Item = "reachability"
            \/ Len(agenda) = 2 /\ Item = "taint"
            \/ Len(agenda) = 1 /\ Item = "honesty"
         /\ findings \in Seq(Finding) /\ pending \in Seq(Finding)
         /\ Len(findings) \in Nat /\ Len(pending) \in Nat
         /\ ~Doing("file")
<1>1. AgendaOK /\ agenda # <<>>
  BY DEF PipelineInv, TypeOK, AgendaOK, Doing
<1>2. findings \in Seq(Finding) /\ pending \in Seq(Finding)
  BY DEF PipelineInv, TypeOK
<1> QED
  BY <1>1, <1>2, AgendaNow DEF Axes, Doing

LEMMA GradeOneKeepsInv ==
  ASSUME PipelineInv, GradeOne PROVE PipelineInv'
<1>1. Doing("pass") /\ Len(pending) < Len(findings)
  BY DEF GradeOne
<1>2. /\ Item \in Axes
      /\ findings \in Seq(Finding) /\ pending \in Seq(Finding)
      /\ Len(findings) \in Nat /\ Len(pending) \in Nat
  BY <1>1, PassNow
<1> DEFINE n == Len(pending) + 1
           g == Relabelled(findings[n])
<1>3. findings[n] \in Finding
  BY <1>1, <1>2
<1>4. g \in Finding
  BY <1>2, <1>3, RelabelledFields
<1>5. pending' = Append(pending, g) /\ UNCHANGED <<repo, agenda, files, trees, errors, findings, coverage>>
  BY DEF GradeOne
<1>6. \A k \in 1..Len(pending) : pending[k] = Relabelled(findings[k])
  BY DEF PipelineInv, PendingInv
<1>7. /\ pending' \in Seq(Finding) /\ Len(pending') = n /\ n <= Len(findings)
      /\ \A k \in 1..n : pending'[k] = Relabelled(findings[k])
  <2>1. /\ pending' \in Seq(Finding) /\ Len(pending') = n /\ n <= Len(findings)
        /\ pending'[n] = g /\ \A k \in 1..n : k \in 1..Len(pending) \/ k = n
        /\ \A k \in 1..Len(pending) : pending'[k] = pending[k]
    <3> HIDE DEF g
    <3> QED
      BY <1>1, <1>2, <1>4, <1>5
  <2> QED
    BY <1>6, <2>1
<1>8. \A f : Relabelled(f)' = Relabelled(f)
  BY <1>5 DEF Relabelled, Item, WithReach, Reach, AstReach, WithTaint, TaintOf,
              WithGrade, Undecided, Capped, Reason
<1>9. PendingInv'
  <2>1. ASSUME NEW k \in 1..n PROVE (pending[k] = Relabelled(findings[k]))'
    <3>1. PICK f : f = findings[k]
      OBVIOUS
    <3>2. f = findings'[k] /\ pending'[k] = Relabelled(f)
      BY <1>5, <1>7, <3>1
    <3>3. Relabelled(f)' = Relabelled(f)
      BY <1>8
    <3> QED
      BY <3>2, <3>3
  <2> QED
    BY <1>1, <1>5, <1>7, <2>1 DEF PendingInv, Doing
<1>10. FindingsInv'
  <2>1. \A f \in ToSet(findings) : Consistent(f)'
    BY <1>5, ConsistentStays DEF PipelineInv, FindingsInv
  <2> QED
    BY <1>5, <2>1 DEF PipelineInv, FindingsInv, Doing, ToSet, LabelledInTime, Crashed
<1> QED
  BY <1>5, <1>7, <1>9, <1>10
     DEF PipelineInv, TypeOK, Agenda, Work, ErrorsInTime, Crashed, CoverageInv

LEMMA WhichPass ==
  ASSUME PipelineInv, Doing("pass")
  PROVE  /\ Len(agenda) \in 1..3
         /\ Item = "reachability" <=> Len(agenda) = 3
         /\ Item = "taint" <=> Len(agenda) = 2
         /\ Item = "honesty" <=> Len(agenda) = 1
<1>1. \/ Len(agenda) = 3 /\ Item = "reachability"
      \/ Len(agenda) = 2 /\ Item = "taint"
      \/ Len(agenda) = 1 /\ Item = "honesty"
  BY PassNow
<1>2. CASE Len(agenda) = 3 /\ Item = "reachability"
  BY <1>2
<1>3. CASE Len(agenda) = 2 /\ Item = "taint"
  BY <1>3
<1>4. CASE Len(agenda) = 1 /\ Item = "honesty"
  BY <1>4
<1> QED
  BY <1>1, <1>2, <1>3, <1>4

(* What a finished pass has built: consistent findings with its labels.    *)
LEMMA PassBuilt ==
  ASSUME PipelineInv, Doing("pass"), Len(pending) = Len(findings),
         NEW g \in ToSet(pending)
  PROVE  /\ Consistent(g)
         /\ Item = "reachability" => g.taint = "unknown" /\ g.grade = "graded"
         /\ Item = "taint" => /\ g.grade = "graded"
                              /\ g.reach # "unknown" => ~Crashed("reachability")
         /\ Item = "honesty" => /\ g.reach # "unknown" => ~Crashed("reachability")
                                /\ g.taint # "unknown" => ~Crashed("taint")
                                /\ Undecided(g) => g.grade = "ungraded"
<1>1. /\ Item \in Axes /\ findings \in Seq(Finding) /\ pending \in Seq(Finding)
      /\ \/ Len(agenda) = 3 /\ Item = "reachability"
         \/ Len(agenda) = 2 /\ Item = "taint"
         \/ Len(agenda) = 1 /\ Item = "honesty"
      /\ agenda # <<>>
  BY PassNow
<1>2. PICK k \in 1..Len(pending) : g = pending[k]
  BY <1>1 DEF ToSet
<1>3. PICK f \in ToSet(findings) : g = Relabelled(f)
  BY <1>1, <1>2 DEF PipelineInv, PendingInv, ToSet
<1>4. Consistent(f) /\ LabelledInTime(f)
  BY <1>3 DEF PipelineInv, FindingsInv
<1>5. f.grade = "graded"
  BY <1>1, <1>4 DEF Consistent, Finding, LabelledInTime
<1>6. CASE Item = "reachability"
  <2>1. Len(agenda) = 3
    BY <1>1, <1>6
  <2>2. f.reach = "unknown" /\ f.taint = "unknown"
    BY <1>4, <2>1 DEF LabelledInTime
  <2> QED
    BY <1>3, <1>4, <1>5, <1>6, <2>2, ReachabilityRelabels
<1>7. CASE Item = "taint"
  <2>1. Len(agenda) = 2
    BY <1>1, <1>7
  <2>2. f.taint = "unknown" /\ (f.reach # "unknown" => ~Crashed("reachability"))
    BY <1>4, <2>1 DEF LabelledInTime
  <2> QED
    BY <1>3, <1>4, <1>5, <1>7, <2>2, TaintRelabels
<1>8. CASE Item = "honesty"
  <2>1. /\ f.reach # "unknown" => ~Crashed("reachability")
        /\ f.taint # "unknown" => ~Crashed("taint")
    BY <1>4 DEF LabelledInTime
  <2> QED
    BY <1>3, <1>4, <1>5, <1>8, <2>1, HonestyRelabels DEF Undecided
<1> QED
  BY <1>1, <1>6, <1>7, <1>8

LEMMA CoverageCounts ==
  ASSUME NEW s \in Seq(Finding)
  PROVE  /\ CountUngraded(s) \in Nat
         /\ Len(s) - CountUngraded(s) \in Nat
<1> DEFINE U == {k \in 1..Len(s) : s[k].grade = "ungraded"}
<1>0. Len(s) \in Nat
  OBVIOUS
<1>1. IsFiniteSet(1..Len(s)) /\ Cardinality(1..Len(s)) = Len(s) /\ Len(s) \in Nat
  <2> DEFINE n == Len(s)
  <2>1. n \in Nat
    BY <1>0
  <2> HIDE DEF n
  <2>2. IsFiniteSet(1..n) /\ Cardinality(1..n) = IF 1 > n THEN 0 ELSE n - 1 + 1
    BY <2>1, FS_Interval
  <2> QED
    BY <2>1, <2>2 DEF n
<1>2. IsFiniteSet(U) /\ Cardinality(U) <= Len(s)
  BY <1>1, FS_Subset
<1>3. Cardinality(U) \in Nat
  BY <1>2, FS_CardinalityType
<1> QED
  BY <1>1, <1>2, <1>3 DEF CountUngraded

(* The end of a pass, whether it commits, crashes, or crashes after it has *)
(* assigned the findings.                                                  *)
LEMMA PassEndsKeepsInv ==
  ASSUME PipelineInv, CommitPass \/ CrashPass \/ CrashCoverage
  PROVE  PipelineInv'
<1>1. Doing("pass") /\ Advance /\ pending' = <<>> /\ UNCHANGED <<repo, files, trees>>
  BY DEF CommitPass, CrashPass, CrashCoverage
<1>2. /\ AgendaOK /\ agenda # <<>> /\ Item \in Axes /\ ~Doing("file")
      /\ findings \in Seq(Finding) /\ pending \in Seq(Finding)
      /\ Len(findings) \in Nat /\ Len(pending) \in Nat
  BY <1>1, PassNow
<1>0. /\ Len(agenda) \in 1..3
      /\ Item = "reachability" <=> Len(agenda) = 3
      /\ Item = "taint" <=> Len(agenda) = 2
      /\ Item = "honesty" <=> Len(agenda) = 1
  BY <1>1, WhichPass
<1>3. AgendaOK' /\ Len(agenda') = Len(agenda) - 1 /\ ~Doing("file")'
  BY <1>1, <1>2, AgendaAdvances
<1>4. agenda' = <<>> <=> Item = "honesty"
  <2>1. agenda' \in Seq(WorkItem)
    BY <1>1, <1>2, AgendaNow DEF Advance
  <2>2. agenda' = <<>> <=> Len(agenda') = 0
    BY <2>1
  <2> QED
    BY <1>0, <1>3, <2>2
<1>5. /\ CommitPass => errors' = errors
      /\ CrashPass \/ CrashCoverage => errors' = errors \cup {<<"pass", Item>>}
      /\ CrashCoverage => Item = "honesty"
  BY DEF CommitPass, CrashPass, CrashCoverage, Failed
<1>6. /\ Crashed("reachability")' =>
           Crashed("reachability") \/ (Item = "reachability" /\ (CrashPass \/ CrashCoverage))
      /\ Crashed("taint")' =>
           Crashed("taint") \/ (Item = "taint" /\ (CrashPass \/ CrashCoverage))
      /\ Crashed("honesty")' =>
           Crashed("honesty") \/ (Item = "honesty" /\ (CrashPass \/ CrashCoverage))
  <2>1. CASE CommitPass
    BY <1>5, <2>1 DEF Crashed
  <2>2. CASE CrashPass \/ CrashCoverage
    BY <1>5, <2>2 DEF Crashed
  <2> QED
    BY <2>1, <2>2
<1>7. (CrashPass \/ CrashCoverage) /\ Item = "honesty" => Crashed("honesty")'
  BY <1>5 DEF Crashed
<1>8. ErrorsInTime'
  <2>1. ErrorsInTime
    BY DEF PipelineInv
  <2>2. Len(agenda') <= 2
    <3>1. Len(agenda) \in 1..3 /\ Len(agenda') = Len(agenda) - 1
      BY <1>0, <1>3
    <3> QED
      BY <3>1
  <2>3. Crashed("taint")' => Len(agenda') <= 1
    BY <1>0, <1>3, <1>6, <2>1 DEF ErrorsInTime
  <2>4. Crashed("honesty")' => Len(agenda') = 0
    BY <1>0, <1>3, <1>6, <2>1 DEF ErrorsInTime
  <2> QED
    BY <2>2, <2>3, <2>4 DEF ErrorsInTime
<1>9. coverage = <<>>
  BY <1>2 DEF PipelineInv, CoverageInv
<1>10. /\ findings' \in {findings, pending} /\ Len(findings') = Len(findings)
       /\ CrashPass => findings' = findings
       /\ ~CrashPass => findings' = pending /\ Len(pending) = Len(findings)
  BY DEF CommitPass, CrashPass, CrashCoverage
<1>11. CoverageInv' /\ coverage' \in {<<>>} \cup (Nat \X Nat)
  <2>1. CASE CommitPass /\ Item = "honesty"
    <3> DEFINE c == CountUngraded(pending)
    <3>1. c \in Nat /\ Len(pending) - c \in Nat
      BY <1>2, CoverageCounts
    <3>2. coverage' = <<Len(pending) - c, c>> /\ findings' = pending
      BY <2>1 DEF CommitPass
    <3> HIDE DEF c
    <3>3. coverage' \in Nat \X Nat /\ coverage' # <<>> /\ coverage'[1] + coverage'[2] = Len(pending)
      BY <1>2, <3>1, <3>2
    <3> QED
      BY <1>4, <2>1, <3>2, <3>3 DEF CoverageInv
  <2>2. CASE ~(CommitPass /\ Item = "honesty")
    <3>1. coverage' = <<>>
      BY <1>9, <2>2 DEF CommitPass, CrashPass, CrashCoverage
    <3>2. agenda' = <<>> => Crashed("honesty")'
      BY <1>4, <1>7, <2>2
    <3> QED
      BY <3>1, <3>2 DEF CoverageInv
  <2> QED
    BY <2>1, <2>2
<1>left. /\ Item = "reachability" => ~(Len(agenda) <= 2) /\ Len(agenda') <= 2
         /\ Item = "taint" => ~(Len(agenda) <= 1) /\ Len(agenda') <= 1
         /\ Item = "honesty" => Len(agenda') <= 0
         /\ Len(agenda') \in Nat
  <2>1. agenda \in Seq(WorkItem)
    BY <1>2, AgendaNow
  <2> QED
    BY <1>0, <1>3, <2>1
<1>12. \A f \in ToSet(findings') : Consistent(f)' /\ LabelledInTime(f)'
  <2> SUFFICES ASSUME NEW f \in ToSet(findings')
               PROVE  Consistent(f)' /\ LabelledInTime(f)'
    OBVIOUS
  <2>1. CASE CrashPass
    <3>1. f \in ToSet(findings)
      BY <1>10, <2>1
    <3>2. Consistent(f) /\ LabelledInTime(f)
      BY <3>1 DEF PipelineInv, FindingsInv
    <3>3. Consistent(f)'
      BY <1>1, <3>2, ConsistentStays
    <3>4. /\ f.reach # "unknown" => Len(agenda) <= 2 /\ ~Crashed("reachability")
          /\ f.taint # "unknown" => Len(agenda) <= 1 /\ ~Crashed("taint")
          /\ f.grade # "ungraded"
      BY <1>2, <3>2 DEF LabelledInTime
    <3>5. agenda' = <<>> => Crashed("honesty")'
      BY <1>4, <1>7, <2>1
    <3>6. f.reach # "unknown" => Len(agenda') <= 2 /\ ~Crashed("reachability")'
      BY <1>0, <1>3, <1>6, <3>4
    <3>7. f.taint # "unknown" => Len(agenda') <= 1 /\ ~Crashed("taint")'
      BY <1>0, <1>3, <1>6, <3>4
    <3> QED
      BY <3>3, <3>4, <3>5, <3>6, <3>7 DEF LabelledInTime
  <2>2. CASE ~CrashPass
    <3>1. f \in ToSet(pending) /\ Len(pending) = Len(findings)
      BY <1>10, <2>2
    <3>2. /\ Consistent(f)
          /\ Item = "reachability" => f.taint = "unknown" /\ f.grade = "graded"
          /\ Item = "taint" => /\ f.grade = "graded"
                               /\ f.reach # "unknown" => ~Crashed("reachability")
          /\ Item = "honesty" => /\ f.reach # "unknown" => ~Crashed("reachability")
                                 /\ f.taint # "unknown" => ~Crashed("taint")
                                 /\ Undecided(f) => f.grade = "ungraded"
      BY <1>1, <3>1, PassBuilt
    <3>3. Consistent(f)'
      BY <1>1, <3>2, ConsistentStays
    <3>4. /\ Item = "reachability" => ~Crashed("reachability")'
          /\ Item = "taint" => ~Crashed("taint")'
      <4>1. ErrorsInTime
        BY DEF PipelineInv
      <4>2. Item = "reachability" => ~Crashed("reachability")
        BY <1>left, <4>1 DEF ErrorsInTime
      <4>3. Item = "taint" => ~Crashed("taint")
        BY <1>left, <4>1 DEF ErrorsInTime
      <4> QED
        BY <1>5, <1>6, <2>2, <4>2, <4>3
    <3>5. /\ f.reach # "unknown" => Len(agenda') <= 2 /\ ~Crashed("reachability")'
          /\ f.taint # "unknown" => Len(agenda') <= 1 /\ ~Crashed("taint")'
      <4>1. CASE Item = "reachability"
        BY <1>left, <3>2, <3>4, <4>1
      <4>2. CASE Item = "taint"
        BY <1>left, <1>6, <3>2, <3>4, <4>2
      <4>3. CASE Item = "honesty"
        BY <1>left, <1>6, <3>2, <4>3
      <4> QED
        BY <1>2, <4>1, <4>2, <4>3 DEF Axes
    <3>6. /\ f.grade = "ungraded" => agenda' = <<>>
          /\ agenda' = <<>> /\ Undecided(f) => f.grade = "ungraded"
      BY <1>2, <1>4, <3>2 DEF Axes
    <3> QED
      BY <3>3, <3>5, <3>6 DEF LabelledInTime, Undecided
  <2> QED
    BY <2>1, <2>2
<1>13. FindingsInv'
  BY <1>3, <1>12 DEF FindingsInv, ToSet
<1>14. TypeOK'
  <2>1. errors' \subseteq {"file", "detector", "pass"}
                            \X (ToSet(FileSeq) \cup ToSet(Detectors) \cup Axes)
    BY <1>2, <1>5 DEF PipelineInv, TypeOK
  <2>2. findings' \in Seq(Finding) /\ pending' \in Seq(Finding) /\ Len(pending') <= Len(findings')
    BY <1>1, <1>2, <1>10
  <2> QED
    BY <1>1, <1>3, <1>11, <2>1, <2>2 DEF PipelineInv, TypeOK, AgendaOK
<1>15. PendingInv'
  BY <1>1 DEF PendingInv
<1> QED
  BY <1>8, <1>11, <1>13, <1>14, <1>15 DEF PipelineInv

LEMMA PipelineInvStep ==
  ASSUME PipelineInv, [Next]_vars PROVE PipelineInv'
<1>1. CASE UNCHANGED vars
  <2>1. UNCHANGED <<repo, agenda, files, trees, errors, findings, pending, coverage>>
    BY <1>1 DEF vars
  <2>2. \A f \in ToSet(findings) : Consistent(f)'
    BY <2>1, ConsistentStays DEF PipelineInv, FindingsInv
  <2>3. FindingsInv'
    BY <2>1, <2>2 DEF PipelineInv, FindingsInv, Doing, ToSet, LabelledInTime, Crashed
  <2>4. PendingInv'
    <3>1. \A f : Relabelled(f)' = Relabelled(f)
      BY <2>1 DEF Relabelled, Item, WithReach, Reach, AstReach, WithTaint, TaintOf,
                  WithGrade, Undecided, Capped, Reason
    <3>2. ASSUME NEW k \in 1..Len(pending) PROVE (pending[k] = Relabelled(findings[k]))'
      <4>1. PICK f : f = findings[k]
        OBVIOUS
      <4>2. f = findings'[k] /\ pending'[k] = Relabelled(f)
        BY <2>1, <4>1 DEF PipelineInv, PendingInv
      <4> QED
        BY <3>1, <4>2
    <3> QED
      BY <2>1, <3>2 DEF PipelineInv, PendingInv, Doing
  <2> QED
    BY <2>1, <2>3, <2>4
       DEF PipelineInv, TypeOK, Agenda, Work, ErrorsInTime, Crashed, CoverageInv
<1> QED
  BY <1>1, ReadFileKeepsInv, DetectorKeepsInv, GradeOneKeepsInv, PassEndsKeepsInv DEF Next

(* Wherever a scan is, each finding carries the labels of the passes that  *)
(* have committed and no others, and its severity and confidence follow    *)
(* from them.                                                              *)
THEOREM PipelineInvariant == Spec => []PipelineInv
  BY PipelineInvInit, PipelineInvStep, PTL DEF Spec

(* The pipeline's variables stay well typed for any files and detectors.   *)
THEOREM PipelineTypeCorrect == Spec => []TypeOK
<1>1. PipelineInv => TypeOK
  BY DEF PipelineInv
<1> QED
  BY <1>1, PipelineInvariant, PTL

----------------------------------------------------------------------------
(* What the invariant says of the report.                                  *)

LEMMA FindingsHold ==
  ASSUME PipelineInv, NEW k \in 1..Len(findings)
  PROVE  /\ Consistent(findings[k]) /\ LabelledInTime(findings[k])
         /\ findings[k].rep \in Report
         /\ findings[k].rep.sev \in Severities /\ findings[k].rep.conf \in Confidences
<1>1. findings[k] \in ToSet(findings)
  BY DEF PipelineInv, TypeOK, ToSet
<1>2. Consistent(findings[k]) /\ LabelledInTime(findings[k])
  BY <1>1 DEF PipelineInv, FindingsInv
<1>3. findings[k].rep \in Report
  BY <1>2 DEF Consistent, Finding
<1> QED
  BY <1>2, <1>3 DEF Report

LEMMA CrashLeavesNoTrace == PipelineInv => CrashedPassLeavesNoTrace
<1> SUFFICES ASSUME PipelineInv, NEW k \in 1..Len(findings)
             PROVE  /\ Crashed("reachability") => findings[k].reach = "unknown"
                    /\ Crashed("taint") => findings[k].taint = "unknown"
                    /\ Crashed("reachability") /\ Crashed("taint")
                         => findings[k].conf \in {findings[k].rep.conf, 0}
  BY DEF CrashedPassLeavesNoTrace, Crashed
<1> DEFINE f == findings[k]
<1>1. Consistent(f) /\ LabelledInTime(f)
  BY FindingsHold
<1> HIDE DEF f
<1>2. /\ Crashed("reachability") => f.reach = "unknown"
      /\ Crashed("taint") => f.taint = "unknown"
  BY <1>1 DEF LabelledInTime
<1>3. f.reach = "unknown" /\ f.taint = "unknown" => f.conf \in {f.rep.conf, 0}
  BY <1>1 DEF Consistent, Nudged
<1> QED
  BY <1>2, <1>3 DEF f

LEMMA GateCatches == PipelineInv => GateCatchesToolReachable
<1> SUFFICES ASSUME PipelineInv, NEW k \in 1..Len(findings),
                    NEW failOn \in Severities, NEW cli \in BOOLEAN,
                    findings[k].rep.at = "strong", findings[k].rep.sev <= failOn
             PROVE  ExitCode(failOn, cli) = 2
  BY DEF GateCatchesToolReachable
<1> DEFINE f == findings[k]
<1>1. Consistent(f) /\ f.rep.at = "strong" /\ f.rep.sev <= failOn
  BY FindingsHold
<1> HIDE DEF f
<1>2. f.rep.file \in trees /\ repo.tools = "handled"
  BY <1>1 DEF Consistent, Possible, InFunction
<1>3. Reach(f.rep) = "reachable"
  BY <1>1, <1>2, StrongIsReachable
<1>4. f.reach # "cli-only"
  BY <1>1, <1>3 DEF Consistent
<1>5. f.sev = f.rep.sev
  BY <1>1, <1>2 DEF Consistent, Capped
<1> QED
  BY <1>1, <1>4, <1>5 DEF ExitCode, f

LEMMA DataflowLast == PipelineInv => DataflowHasLastWord
<1> SUFFICES ASSUME PipelineInv, NEW k \in 1..Len(findings)
             PROVE  /\ findings[k].taint = "tainted" => findings[k].conf >= findings[k].rep.conf
                    /\ findings[k].taint = "untainted" => findings[k].conf <= findings[k].rep.conf
  BY DEF DataflowHasLastWord
<1> DEFINE f == findings[k]
<1>1. Consistent(f) /\ f.rep.conf \in Confidences
  BY FindingsHold
<1> HIDE DEF f
<1>2. f.taint # "unknown" => f.conf = Nudged(f)
  BY <1>1 DEF Consistent, Undecided
<1>3. /\ f.taint = "tainted" => Nudged(f) >= f.rep.conf
      /\ f.taint = "untainted" => Nudged(f) <= f.rep.conf
  BY <1>1 DEF Nudged, Raise, Lower, Confidences
<1> QED
  BY <1>2, <1>3 DEF f

LEMMA GradesMatch == PipelineInv => GradeMatchesAxes
<1> SUFFICES ASSUME PipelineInv, Done
             PROVE  /\ \A k \in 1..Len(findings) :
                         LET f == findings[k]
                         IN  /\ f.grade = "ungraded" => Undecided(f)
                             /\ Undecided(f) => f.grade = "ungraded" \/ Crashed("honesty")
                    /\ coverage # <<>> => coverage[1] + coverage[2] = Len(findings)
                    /\ coverage = <<>> => Crashed("honesty")
  BY DEF GradeMatchesAxes, Crashed
<1>1. ASSUME NEW k \in 1..Len(findings)
      PROVE  /\ findings[k].grade = "ungraded" => Undecided(findings[k])
             /\ Undecided(findings[k]) => findings[k].grade = "ungraded" \/ Crashed("honesty")
  <2>1. Consistent(findings[k]) /\ LabelledInTime(findings[k])
    BY <1>1, FindingsHold
  <2> QED
    BY <2>1 DEF Consistent, LabelledInTime, Done
<1>2. CoverageInv
  BY DEF PipelineInv
<1> QED
  BY <1>1, <1>2 DEF CoverageInv, Done

(* No finding shows a label of a pass that has crashed (the guard around   *)
(* each pass in scan_repo).                                                *)
THEOREM CrashesLeaveNoTrace == Spec => []CrashedPassLeavesNoTrace
  BY CrashLeavesNoTrace, PipelineInvariant, PTL

(* A finding in code that a tool reaches by exact edges fails the build at *)
(* every threshold its detector's severity meets (_exit_code).             *)
THEOREM GateHolds == Spec => []GateCatchesToolReachable
  BY GateCatches, PipelineInvariant, PTL

(* The dataflow verdict decides where the axes disagree.                   *)
THEOREM DataflowDecides == Spec => []DataflowHasLastWord
  BY DataflowLast, PipelineInvariant, PTL

(* The grade of the honesty pass agrees with the two axes and with the     *)
(* coverage it reports (grading.grade_result).                             *)
THEOREM GradesMatchAxes == Spec => []GradeMatchesAxes
  BY GradesMatch, PipelineInvariant, PTL

----------------------------------------------------------------------------
(* Findings are never lost.                                                *)

LEMMA ReportedPrefix ==
  ASSUME NEW s \in Seq(Finding), NEW t \in Seq(Finding), Len(s) <= Len(t),
         \A k \in 1..Len(s) : s[k].rep = t[k].rep
  PROVE  IsPrefix(Reported(s), Reported(t))
<1> DEFINE rs == Reported(s)
           rt == Reported(t)
           n == Len(s)
<1>1. /\ n \in Nat /\ Len(t) \in Nat /\ n <= Len(t)
      /\ \A k \in 1..n : s[k].rep \in Report
      /\ \A k \in 1..Len(t) : t[k].rep \in Report
  <2>1. \A f \in Finding : f.rep \in Report
    BY DEF Finding
  <2>2. (\A k \in 1..Len(s) : s[k] \in Finding) /\ (\A k \in 1..Len(t) : t[k] \in Finding)
    OBVIOUS
  <2> QED
    BY <2>1, <2>2
<1>2. rs \in Seq(Report) /\ Len(rs) = n /\ rt \in Seq(Report) /\ Len(rt) = Len(t)
  BY <1>1 DEF Reported
<1>3. \A k \in 1..n : rs[k] = rt[k]
  BY <1>1 DEF Reported
<1> HIDE DEF rs, rt, n
<1>4. SubSeq(rs, 1, n) = SubSeq(rt, 1, n)
  BY <1>1, <1>2, <1>3
<1> QED
  BY <1>1, <1>2, <1>4 DEF IsPrefix, rs, rt, n

LEMMA StepDropsNothing ==
  ASSUME PipelineInv, [Next]_vars
  PROVE  IsPrefix(Reported(findings), Reported(findings'))
<1>1. findings \in Seq(Finding) /\ findings' \in Seq(Finding)
  <2>1. PipelineInv'
    BY PipelineInvStep
  <2> QED
    BY <2>1 DEF PipelineInv, TypeOK
<1>2. CASE findings' = findings
  BY <1>1, <1>2, ReportedPrefix
<1>3. CASE RunDetector
  <2>1. PICK new : findings' = findings \o new /\ new \in Seq(Finding)
    <3>1. Doing("detector") /\ AgendaOK
      BY <1>3 DEF RunDetector, PipelineInv, TypeOK, AgendaOK
    <3>2. Item \in ToSet(Detectors)
      BY <3>1, AgendaNow
    <3>3. PICK j \in 1..Len(Detectors) : Item = Detectors[j]
      BY <3>2, PipelineAssumption DEF ToSet
    <3>4. PICK reps \in Reports[Item] :
            /\ \A k \in 1..Len(reps) : Possible(reps[k])
            /\ findings' = findings \o [k \in 1..Len(reps) |-> Fresh(reps[k])]
      BY <1>3 DEF RunDetector
    <3>5. reps \in Seq(Report)
      BY <3>3, PipelineAssumption
    <3>6. \A k \in 1..Len(reps) : Fresh(reps[k]) \in Finding
      BY <3>4, <3>5, FreshConsistent
    <3>7. [k \in 1..Len(reps) |-> Fresh(reps[k])] \in Seq(Finding)
      BY <3>5, <3>6
    <3> QED
      BY <3>4, <3>7
  <2>2. /\ Len(findings') = Len(findings) + Len(new)
        /\ \A k \in 1..Len(findings) : findings'[k] = findings[k]
    BY <1>1, <2>1
  <2>3. Len(findings) <= Len(findings')
    BY <1>1, <2>1, <2>2
  <2>4. \A k \in 1..Len(findings) : findings[k].rep = findings'[k].rep
    BY <2>2
  <2> QED
    BY <1>1, <2>3, <2>4, ReportedPrefix
<1>4. CASE CommitPass \/ CrashCoverage
  <2>1. Doing("pass") /\ Len(pending) = Len(findings) /\ findings' = pending
    BY <1>4 DEF CommitPass, CrashCoverage
  <2>2. Item \in Axes
    BY <2>1, PassNow
  <2>3. \A k \in 1..Len(findings) : pending[k].rep = findings[k].rep
    <3> SUFFICES ASSUME NEW k \in 1..Len(findings) PROVE pending[k].rep = findings[k].rep
      OBVIOUS
    <3>1. findings[k] \in Finding /\ pending[k] = Relabelled(findings[k])
      BY <1>1, <2>1 DEF PipelineInv, PendingInv
    <3> QED
      BY <2>2, <3>1, RelabelledFields
  <2> QED
    BY <1>1, <2>1, <2>3, ReportedPrefix
<1> QED
  BY <1>2, <1>3, <1>4 DEF Next, vars, ReadFile, CrashDetector, GradeOne, CrashPass

(* No step of the scan drops, reorders or replaces a finding (README).     *)
THEOREM FindingsAreKept == Spec => NothingDropped
<1>1. PipelineInv /\ [Next]_vars => [IsPrefix(Reported(findings), Reported(findings'))]_vars
  BY StepDropsNothing
<1> QED
  BY <1>1, PipelineInvariant, PTL DEF Spec, NothingDropped
=============================================================================
