------------------------------- MODULE Triage -------------------------------
(***************************************************************************)
(* Finding identity across scans: finding_identity.assign_finding_ids, the *)
(* emitted order of models.ScanResult and the join of the human triage     *)
(* file with a later scan (report_generator.build_report_model).           *)
(*                                                                         *)
(* A site is a defect in the scanned repository.  Edits move it in the     *)
(* order findings are emitted in (severity, confidence, file, line), make  *)
(* it appear or make it go away.  Two sites with the same class, file and  *)
(* title have the same spine, and only the spine is hashed.                *)
(***************************************************************************)
EXTENDS Integers, FiniteSets, SequencesExt

CONSTANTS
  Sites,     (* defects that may be present in the repository              *)
  Spines,    (* hashes of (class, file, normalized title)                  *)
  SpineOf,   (* the spine of each site                                     *)
  DetectSeq, (* the sites, each once, in the order the detectors meet them *)
  Verdicts,  (* verdicts the reviewer uses                                 *)
  TopCount,  (* findings in the executive summary; 3 in the code           *)
  MaxRank    (* bound: ranks 0..MaxRank in the emitted order               *)

ASSUME TriageAssumption ==
  /\ IsFiniteSet(Sites)
  /\ SpineOf \in [Sites -> Spines]
  /\ DetectSeq \in Seq(Sites) /\ ToSet(DetectSeq) = Sites /\ IsInjective(DetectSeq)
  /\ Verdicts \subseteq {"confirmed", "false-positive", "accepted-risk", "mitigated"}
  /\ TopCount \in Nat /\ MaxRank \in Nat

Unreviewed == "unreviewed"
Absent == -1

VARIABLES
  rank,         (* sort key of each site's finding; Absent if not present  *)
  scan,         (* the last scan: its sites in emitted order               *)
  annotations,  (* triage.toml: verdict per finding id                     *)
  judged        (* what the reviewer last said of each site                *)

vars == <<rank, scan, annotations, judged>>

----------------------------------------------------------------------------
\* A spine with its collision suffix; suffix 1 is the bare hash.
Ids == Spines \X (1..Cardinality(Sites))

\* Bug variant: no collision suffix.
IdAtBare(s, k) == <<SpineOf[s[k]], 1>>

\* Bug variant: the suffix is the position in the scan.
IdAtPosition(s, k) == <<SpineOf[s[k]], k>>

\* The n-th finding of a spine in emitted order gets suffix n.
IdAt(s, k) ==
  <<SpineOf[s[k]], Cardinality({j \in 1..k : SpineOf[s[j]] = SpineOf[s[k]]})>>

KnownIds(s) == {IdAt(s, k) : k \in 1..Len(s)}

\* The elements of s that are in S, in the order of s.
Those(s, S) == FlattenSeq([k \in 1..Len(s) |-> IF s[k] \in S THEN <<s[k]>> ELSE <<>>])

\* Bug variant: a finding is emitted again in every later tier.
EmittedOrderCumulative ==
  LET UpTo(r) == Those(DetectSeq, {x \in Sites : rank[x] \in 0..r})
  IN  FlattenSeq([r \in 1..MaxRank + 1 |-> UpTo(r - 1)])

\* sorted() is stable: findings with equal keys stay in detection order.
EmittedOrder ==
  LET OfRank(r) == Those(DetectSeq, {x \in Sites : rank[x] = r})
  IN  FlattenSeq([r \in 1..MaxRank + 1 |-> OfRank(r - 1)])

----------------------------------------------------------------------------
(* build_report_model                                                      *)

Shown(k) == annotations[IdAt(scan, k)]

\* Bug variant: only unknown ids of spines still in the scan are reported.
UnknownOfKnownSpines ==
  {id \in Ids : /\ annotations[id] # Unreviewed /\ id \notin KnownIds(scan)
                /\ \E k \in 1..Len(scan) : SpineOf[scan[k]] = id[1]}

UnknownAnnotations ==
  {id \in Ids : annotations[id] # Unreviewed /\ id \notin KnownIds(scan)}

\* The positions of the findings shown with verdict v.
Having(v) == Those([k \in 1..Len(scan) |-> k], {k \in 1..Len(scan) : Shown(k) = v})

Least(m, n) == IF m < n THEN m ELSE n

\* Bug variant: unreviewed findings never make the top risks.
TopConfirmed == SubSeq(Having("confirmed"), 1, Least(Len(Having("confirmed")), TopCount))

\* Positions of the top risks: confirmed first, then unreviewed.
TopRisks ==
  LET candidates == Having("confirmed") \o Having(Unreviewed)
  IN  SubSeq(candidates, 1, Least(Len(candidates), TopCount))

----------------------------------------------------------------------------
Init ==
  /\ rank \in [Sites -> Absent..MaxRank]
  /\ scan = <<>>
  /\ annotations = [id \in Ids |-> Unreviewed]
  /\ judged = [x \in Sites |-> Unreviewed]

\* An edit of the scanned repository, or of what the precision passes can
\* see there: it changes the sort key of one finding.
Edit(x) ==
  /\ \E r \in Absent..MaxRank : rank' = [rank EXCEPT ![x] = r]
  /\ UNCHANGED <<scan, annotations, judged>>

Scan ==
  /\ scan' = EmittedOrder
  /\ UNCHANGED <<rank, annotations, judged>>

\* The reviewer judges a finding of the last scan, under the id it shows.
Review(k, v) ==
  /\ annotations' = [annotations EXCEPT ![IdAt(scan, k)] = v]
  /\ judged' = [judged EXCEPT ![scan[k]] = v]
  /\ UNCHANGED <<rank, scan>>

Next ==
  \/ \E x \in Sites : Edit(x)
  \/ Scan
  \/ \E k \in 1..Len(scan), v \in Verdicts : Review(k, v)

Spec == Init /\ [][Next]_vars

----------------------------------------------------------------------------
TypeOK ==
  /\ rank \in [Sites -> Absent..MaxRank]
  /\ scan \in Seq(Sites) /\ IsInjective(scan)
  /\ annotations \in [Ids -> Verdicts \cup {Unreviewed}]
  /\ judged \in [Sites -> Verdicts \cup {Unreviewed}]

(* Every finding of a scan has an id of its own (finding_identity.py).     *)
IdsUnique ==
  \A j, k \in 1..Len(scan) : IdAt(scan, j) = IdAt(scan, k) => j = k

(* A finding whose class, file and title no other finding ever shares      *)
(* shows the reviewer's verdict and no other, wherever edits and rescans   *)
(* have moved it and whatever became of its neighbours.                    *)
SoleFindingKeepsVerdict ==
  \A k \in 1..Len(scan) :
    (\A x \in Sites \ {scan[k]} : SpineOf[x] # SpineOf[scan[k]])
      => Shown(k) = judged[scan[k]]

(* No annotation is lost in a report: it is some finding's verdict or is   *)
(* listed as unknown, and then fewer findings of its class, file and title *)
(* are left than there were when it was written.                           *)
AnnotationsAccountedFor ==
  \A id \in Ids : annotations[id] # Unreviewed =>
    \/ \E k \in 1..Len(scan) : IdAt(scan, k) = id /\ Shown(k) = annotations[id]
    \/ /\ id \in UnknownAnnotations
       /\ Cardinality({k \in 1..Len(scan) : SpineOf[scan[k]] = id[1]}) < id[2]

(* The executive summary hides nothing open: a finding it leaves out was   *)
(* dismissed, or TopCount findings at least as pressing are shown.         *)
TopRisksHideNothing ==
  \A k \in 1..Len(scan) :
    Shown(k) \in {"confirmed", Unreviewed} /\ k \notin ToSet(TopRisks) =>
      /\ Len(TopRisks) = TopCount
      /\ \A n \in 1..TopCount : \/ Shown(TopRisks[n]) = "confirmed"
                                \/ Shown(k) = Unreviewed /\ TopRisks[n] < k
=============================================================================
