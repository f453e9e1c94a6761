---------------------------- MODULE ScanPipeline ----------------------------
(***************************************************************************)
(* scanner.scan_repo and the gate of cli._exit_code: files are read, every *)
(* detector runs over them, then the reachability, taint and honesty       *)
(* passes relabel the findings one after the other.  Each detector and     *)
(* each pass is guarded: it may crash at any point, which is recorded as   *)
(* an error and sinks nothing else.                                        *)
(*                                                                         *)
(* What the two analyses would find out about a location is part of the    *)
(* report (at, flow): ReachabilityWalk and TaintPropagation model how they *)
(* find it out.                                                            *)
(***************************************************************************)
EXTENDS Integers, FiniteSets, SequencesExt

CONSTANTS
  FileSeq,    (* the repository's source files in the order they are read  *)
  PyFiles,    (* those with suffix .py or .pyw                             *)
  TestFiles,  (* files at a test/spec/fixture path (is_test_path)          *)
  Tracked,    (* tracked files that are not source files, never read       *)
  Outcomes,   (* what reading each file may lead to                        *)
  Detectors,  (* the detectors, in the order of ALL_DETECTORS              *)
  Reports     (* the findings each detector may report                     *)

Axes == {"reachability", "taint", "honesty"}
Severities == 0..3    \* rank: P0 is 0
Confidences == 0..2   \* low, medium, high

\* A finding as its detector reports it.  at: the kind of place it points to;
\* flow: what the taint engine can see of the arguments on its line.
Report == [file : ToSet(FileSeq) \cup Tracked, dataflow : BOOLEAN,
           sev : Severities, conf : Confidences,
           at : {"whole", "module", "strong", "weak", "called", "uncalled"},
           flow : {"tainted", "clean", "unseen"}]

ASSUME PipelineAssumption ==
  /\ FileSeq \in Seq(ToSet(FileSeq)) /\ Detectors \in Seq(ToSet(Detectors))
  /\ PyFiles \subseteq ToSet(FileSeq)
  /\ Tracked \cap ToSet(FileSeq) = {}
  /\ \A f \in ToSet(FileSeq) :
       Outcomes[f] \subseteq {"oversize", "unreadable", "read"}
                               \cup (IF f \in PyFiles THEN {"unparsed"} ELSE {})
  /\ \A k \in 1..Len(Detectors) : Reports[Detectors[k]] \in SUBSET Seq(Report)

VARIABLES
  repo,      (* tools: how tools are registered; hidden: a call that cannot
                be resolved, or a Python tool without a root, exists       *)
  agenda,    (* work left: files, then detectors, then passes              *)
  files,     (* files in the RepoContext                                   *)
  trees,     (* those of them with an AST                                  *)
  errors,    (* recorded errors, as <<kind, who>>                          *)
  findings,  (* result.findings                                            *)
  pending,   (* a running pass's own list of relabelled findings           *)
  coverage   (* findings the honesty pass counted, or the empty tuple      *)

vars == <<repo, agenda, files, trees, errors, findings, pending, coverage>>

Work(kind, items) == [k \in 1..Len(items) |-> [kind |-> kind, item |-> items[k]]]

\* Bug variant: the two axes are graded in the other order.
AgendaTaintFirst == Work("file", FileSeq) \o Work("detector", Detectors)
                      \o Work("pass", <<"taint", "reachability", "honesty">>)

\* Bug variant: the honesty pass runs before the verdicts it reads.
AgendaHonestyFirst == Work("file", FileSeq) \o Work("detector", Detectors)
                        \o Work("pass", <<"honesty", "reachability", "taint">>)

Agenda == Work("file", FileSeq) \o Work("detector", Detectors)
            \o Work("pass", <<"reachability", "taint", "honesty">>)

Doing(kind) == agenda # <<>> /\ Head(agenda).kind = kind
Item == Head(agenda).item
Advance == agenda' = Tail(agenda)
Failed(kind) == errors' = errors \cup {<<kind, Item>>}
Done == agenda = <<>>

Init ==
  /\ repo \in [tools : {"none", "handlerless", "handled"}, hidden : BOOLEAN]
  /\ agenda = Agenda
  /\ files = {} /\ trees = {} /\ errors = {}
  /\ findings = <<>> /\ pending = <<>> /\ coverage = <<>>

----------------------------------------------------------------------------
(* build_context                                                           *)

ReadFile(outcome) ==
  /\ Doing("file") /\ outcome \in Outcomes[Item] /\ Advance
  /\ files' = IF outcome \in {"read", "unparsed"} THEN files \cup {Item} ELSE files
  /\ trees' = IF outcome = "read" /\ Item \in PyFiles THEN trees \cup {Item} ELSE trees
  /\ IF outcome \in {"unreadable", "unparsed"} THEN Failed("file") ELSE errors' = errors
  /\ UNCHANGED <<repo, findings, pending, coverage>>

----------------------------------------------------------------------------
(* Detectors: run() returns its whole list or raises.                      *)

InFunction == {"strong", "weak", "called", "uncalled"}

\* A report is about a file the detector was shown, or a tracked file as a
\* whole; only a parsed file has functions, only handlers reach any.
Possible(r) ==
  /\ \/ r.file \in files
     \/ r.file \in Tracked /\ r.at = "whole"
  /\ r.at \in InFunction => r.file \in trees
  /\ r.at \in {"strong", "weak"} => repo.tools = "handled"
  /\ r.flow # "unseen" => r.dataflow /\ r.at \in {"strong", "weak"}

Fresh(r) == [rep |-> r, sev |-> r.sev, conf |-> r.conf, reach |-> "unknown",
             taint |-> "unknown", grade |-> "graded", reason |-> "none"]

RunDetector ==
  /\ Doing("detector") /\ Advance
  /\ \E reps \in Reports[Item] :
       /\ \A k \in 1..Len(reps) : Possible(reps[k])
       /\ findings' = findings \o [k \in 1..Len(reps) |-> Fresh(reps[k])]
  /\ UNCHANGED <<repo, files, trees, errors, pending, coverage>>

CrashDetector ==
  /\ Doing("detector") /\ Advance /\ Failed("detector")
  /\ UNCHANGED <<repo, files, trees, findings, pending, coverage>>

----------------------------------------------------------------------------
(* The three passes, finding by finding.                                   *)

\* Bug variant: high is raised as well.
RaiseUnbounded(conf) == conf + 1

Raise(conf) == IF conf = 2 THEN 2 ELSE conf + 1
Lower(conf) == IF conf = 0 THEN 0 ELSE conf - 1

AstReach(r) ==
  IF repo.tools # "handled" \/ r.at \notin InFunction THEN "unknown"
  ELSE IF r.at = "strong" THEN "reachable"
  ELSE IF r.at = "weak" THEN IF r.file \in TestFiles THEN "unknown" ELSE "reachable"
  ELSE IF repo.hidden THEN "unknown"
  ELSE IF r.at = "called" THEN "cli-only" ELSE "uncalled"

Reach(r) == IF AstReach(r) = "unknown" /\ r.file \in TestFiles
            THEN "cli-only" ELSE AstReach(r)

WithReach(f) ==
  LET label == Reach(f.rep)
  IN  [f EXCEPT !.reach = label,
                !.conf = IF label = "reachable" THEN Raise(@)
                         ELSE IF label = "unknown" THEN @ ELSE Lower(@)]

TaintOf(r) == CASE r.flow = "tainted" -> "tainted"
                [] r.flow = "clean"   -> "untainted"
                [] OTHER              -> "unknown"

WithTaint(f) ==
  LET label == TaintOf(f.rep)
  IN  [f EXCEPT !.taint = label,
                !.conf = IF label = "tainted" THEN Raise(@)
                         ELSE IF label = "unknown" THEN @ ELSE Lower(@)]

Undecided(f) == f.reach = "unknown" /\ f.taint = "unknown"

\* The first wall the analyses met.
Reason(r) ==
  IF r.file \notin files         THEN "not-read"
  ELSE IF r.file \notin PyFiles  THEN "surface"
  ELSE IF r.file \notin trees    THEN "unparsed"
  ELSE IF repo.tools = "none"    THEN "no-tools"
  ELSE IF r.at = "whole"         THEN "whole-file" ELSE "could-not-decide"

\* Bug variant: "both axes UNKNOWN" alone triggers the cap.
CappedWhenUndecided(f) == f.rep.dataflow

\* Only a file no pass could analyse, and a class whose severity claims a
\* dataflow, is capped at P2 and low confidence.
Capped(f) == f.rep.file \notin trees /\ f.rep.dataflow

WithGrade(f) ==
  IF ~Undecided(f) THEN [f EXCEPT !.grade = "graded", !.reason = "none"]
  ELSE [f EXCEPT !.grade = "ungraded", !.reason = Reason(f.rep),
                 !.sev = IF Capped(f) /\ @ < 2 THEN 2 ELSE @,
                 !.conf = IF Capped(f) THEN 0 ELSE @]

Relabelled(f) == CASE Item = "reachability" -> WithReach(f)
                   [] Item = "taint"        -> WithTaint(f)
                   [] Item = "honesty"      -> WithGrade(f)

GradeOne ==
  /\ Doing("pass") /\ Len(pending) < Len(findings)
  /\ pending' = Append(pending, Relabelled(findings[Len(pending) + 1]))
  /\ UNCHANGED <<repo, agenda, files, trees, errors, findings, coverage>>

CountUngraded(fs) == Cardinality({k \in 1..Len(fs) : fs[k].grade = "ungraded"})

CommitPass ==
  /\ Doing("pass") /\ Len(pending) = Len(findings) /\ Advance
  /\ findings' = pending /\ pending' = <<>>
  /\ coverage' = IF Item = "honesty"
                 THEN <<Len(pending) - CountUngraded(pending), CountUngraded(pending)>>
                 ELSE coverage
  /\ UNCHANGED <<repo, files, trees, errors>>

\* Bug variant: a pass relabels in place, so a crash leaves it half done.
CrashPassInPlace ==
  /\ Doing("pass") /\ Advance /\ Failed("pass")
  /\ findings' = pending \o SubSeq(findings, Len(pending) + 1, Len(findings))
  /\ pending' = <<>>
  /\ UNCHANGED <<repo, files, trees, coverage>>

\* Bug variant: the list built so far is assigned even if the pass crashes.
CrashPassCommits ==
  /\ Doing("pass") /\ Advance /\ Failed("pass")
  /\ findings' = pending /\ pending' = <<>>
  /\ UNCHANGED <<repo, files, trees, coverage>>

\* Bug variant: a crashed pass is tried again.
CrashPassRetries ==
  /\ Doing("pass") /\ Failed("pass")
  /\ pending' = <<>>
  /\ UNCHANGED <<repo, agenda, files, trees, findings, coverage>>

CrashPass ==
  /\ Doing("pass") /\ Advance /\ Failed("pass")
  /\ pending' = <<>>
  /\ UNCHANGED <<repo, files, trees, findings, coverage>>

\* grading.grade_result assigns the findings before it builds the coverage.
CrashCoverage ==
  /\ Doing("pass") /\ Item = "honesty" /\ Len(pending) = Len(findings)
  /\ Advance /\ Failed("pass")
  /\ findings' = pending /\ pending' = <<>>
  /\ UNCHANGED <<repo, files, trees, coverage>>

Next ==
  \/ \E outcome \in {"oversize", "unreadable", "unparsed", "read"} : ReadFile(outcome)
  \/ RunDetector
  \/ CrashDetector
  \/ GradeOne
  \/ CommitPass
  \/ CrashPass
  \/ CrashCoverage

\* One process runs the scan and every step of it returns or raises.
Spec == Init /\ [][Next]_vars /\ WF_vars(Next)

----------------------------------------------------------------------------
\* cli._exit_code for one result: 2 fails the build.
ExitCode(failOn, includeCliOnly) ==
  IF \E k \in 1..Len(findings) :
       /\ findings[k].sev <= failOn
       /\ findings[k].reach = "cli-only" => includeCliOnly
  THEN 2 ELSE 0

----------------------------------------------------------------------------
Finding == [rep : Report, sev : Severities, conf : Confidences,
            reach : {"reachable", "cli-only", "uncalled", "unknown"},
            taint : {"tainted", "untainted", "unknown"},
            grade : {"graded", "ungraded"},
            reason : {"none", "not-read", "surface", "unparsed", "no-tools",
                      "whole-file", "could-not-decide"}]

TypeOK ==
  /\ repo \in [tools : {"none", "handlerless", "handled"}, hidden : BOOLEAN]
  /\ \E k \in 0..Len(Agenda) : agenda = SubSeq(Agenda, k + 1, Len(Agenda))
  /\ trees \subseteq files \cap PyFiles /\ files \subseteq ToSet(FileSeq)
  /\ errors \subseteq {"file", "detector", "pass"}
                        \X (ToSet(FileSeq) \cup ToSet(Detectors) \cup Axes)
  /\ findings \in Seq(Finding)
  /\ pending \in Seq(Finding) /\ Len(pending) <= Len(findings)
  /\ coverage \in {<<>>} \cup (Nat \X Nat)

Reported(fs) == [k \in 1..Len(fs) |-> fs[k].rep]

(* The one law of the README: no pass, and no crash in the middle of one,  *)
(* ever drops, reorders or replaces a finding a detector has reported.     *)
NothingDropped == [][IsPrefix(Reported(findings), Reported(findings'))]_vars

(* A pass that crashed has relabelled none of the findings, however far it *)
(* came: the report never mixes graded with not yet graded findings.       *)
CrashedPassLeavesNoTrace ==
  \A k \in 1..Len(findings) :
    LET f == findings[k]
    IN  /\ <<"pass", "reachability">> \in errors => f.reach = "unknown"
        /\ <<"pass", "taint">> \in errors => f.taint = "unknown"
        /\ {<<"pass", "reachability">>, <<"pass", "taint">>} \subseteq errors
             => f.conf \in {f.rep.conf, 0}

(* A finding in code that a tool handler reaches by exact edges fails the  *)
(* build at every threshold its detector's severity meets, whichever of    *)
(* the three passes crash: neither the cap nor the CLI_ONLY exclusion can  *)
(* let it through.                                                         *)
GateCatchesToolReachable ==
  Done => \A k \in 1..Len(findings), failOn \in Severities, cli \in BOOLEAN :
            findings[k].rep.at = "strong" /\ findings[k].rep.sev <= failOn
              => ExitCode(failOn, cli) = 2

(* Where the two axes pull the confidence in different directions, the     *)
(* dataflow verdict decides: saturation of the first nudge never lets an   *)
(* untainted sink end above the detector's confidence or a tainted below.  *)
DataflowHasLastWord ==
  Done => \A k \in 1..Len(findings) :
    LET f == findings[k]
    IN  /\ f.taint = "tainted" => f.conf >= f.rep.conf
        /\ f.taint = "untainted" => f.conf <= f.rep.conf

(* Once the scan is over, a finding shows as ungraded only if both axes    *)
(* left it undecided, and one left undecided shows as graded only if the   *)
(* errors say that the honesty pass crashed; the coverage agrees.          *)
GradeMatchesAxes ==
  Done => /\ \A k \in 1..Len(findings) :
               LET f == findings[k]
               IN  /\ f.grade = "ungraded" => Undecided(f)
                   /\ Undecided(f) => \/ f.grade = "ungraded"
                                      \/ <<"pass", "honesty">> \in errors
          /\ coverage # <<>> => coverage[1] + coverage[2] = Len(findings)
          /\ coverage = <<>> => <<"pass", "honesty">> \in errors

(* A crash never sinks the scan: a result is always returned.              *)
ScanCompletes == <>Done
=============================================================================
