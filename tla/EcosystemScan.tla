---------------------------- MODULE EcosystemScan ----------------------------
(***************************************************************************)
(* ecosystem_scan.run_ecosystem_scan, run again and again over one target  *)
(* list: targets are resolved (URL targets cloned into the scratch         *)
(* directory) and scanned one after the other, then the artifacts are      *)
(* written.  Both directories outlive a run.  A run may fail at any target *)
(* and may be killed between any two steps.                                *)
(***************************************************************************)
EXTENDS Naturals, FiniteSets, SequencesExt

CONSTANTS
  Names,    (* target names                                                *)
  Repos,    (* target locations, local paths and git URLs                  *)
  Urls,     (* the locations that are git URLs                             *)
  Config,   (* the target list, records [name, location]                   *)
  Slugs,    (* file-system names                                           *)
  SlugOf,   (* _safe_slug                                                  *)
  None

\* What a scan finds in a repository: nothing above low confidence, or a
\* disclosure candidate.
Content == {"clean", "flagged"}
Document == [name : Names, content : Content]
Results == [Names -> Content \cup {None}]

ASSUME EcosystemAssumption ==
  /\ Urls \subseteq Repos
  /\ Config \in Seq([name : Names, location : Repos]) /\ Config # <<>>
  /\ SlugOf \in [Names -> Slugs]
  /\ None \notin Names \cup Content \cup Document \cup Results

VARIABLES
  remote,   (* content of each location now                                *)
  scratch,  (* content of each clone; None if the directory does not exist *)
  phase,    (* what the running process does next                          *)
  left,     (* targets left to resolve, or names left to write for         *)
  results,  (* the run's scan results, per name                            *)
  disk,     (* the artifacts: raw-results.json, the aggregate, and the
               reports and disclosure notes by slug                        *)
  outcome   (* how the last run ended                                      *)

vars == <<remote, scratch, phase, left, results, disk, outcome>>

ConfigNames == {Config[k].name : k \in 1..Len(Config)}

\* Keys of a dict in insertion order: the first target of each name.
NewName(k) == IF \E j \in 1..k - 1 : Config[j].name = Config[k].name
              THEN <<>> ELSE <<Config[k].name>>

NamesUpto[k \in 0..Len(Config)] == IF k = 0 THEN <<>> ELSE NamesUpto[k - 1] \o NewName(k)

NameSeq == NamesUpto[Len(Config)]

Empty == [n \in Names |-> None]
Has(rs, n) == rs[n] # None

Init ==
  /\ remote \in [Repos -> Content]
  /\ scratch = [s \in Slugs |-> None]
  /\ phase = "idle" /\ left = <<>> /\ results = Empty
  /\ disk = [raw |-> None, aggregate |-> None,
             reports |-> [s \in Slugs |-> None], notes |-> [s \in Slugs |-> None]]
  /\ outcome = "never ran"

----------------------------------------------------------------------------
Start ==
  /\ phase = "idle"
  /\ phase' = "resolve" /\ left' = Config /\ results' = Empty
  /\ UNCHANGED <<remote, scratch, disk, outcome>>

\* Bug variant: the work list of a failed run is kept.
StopKeepingWork(how) ==
  /\ phase' = "idle" /\ left' = left /\ results' = Empty
  /\ outcome' = how

Stop(how) ==
  /\ phase' = "idle" /\ left' = <<>> /\ results' = Empty
  /\ outcome' = how

Target == Head(left)
Dest == SlugOf[Target.name]
Resolving == phase = "resolve" /\ left # <<>>

\* A scan of what was resolved; a later target of the same name replaces it.
Scanned(content) ==
  /\ results' = [results EXCEPT ![Target.name] = content]
  /\ left' = Tail(left)
  /\ UNCHANGED <<remote, phase, disk, outcome>>

ScanLocal ==
  /\ Resolving /\ Target.location \notin Urls
  /\ Scanned(remote[Target.location])
  /\ UNCHANGED scratch

\* "git clone" is under way.  It runs without a timeout.
Cloning == Resolving /\ Target.location \in Urls /\ scratch[Dest] = None

CloneAndScan ==
  /\ Cloning
  /\ scratch' = [scratch EXCEPT ![Dest] = remote[Target.location]]
  /\ Scanned(remote[Target.location])

\* Bug variant: a run that is refused starts over, with the clone still there.
CloneRefusedRetried ==
  /\ Resolving /\ Target.location \in Urls
  /\ scratch[Dest] # None
  /\ left' = Config /\ results' = Empty
  /\ UNCHANGED <<remote, scratch, phase, disk, outcome>>

\* git refuses to clone into a directory that exists and is not empty.
CloneRefused ==
  /\ Resolving /\ Target.location \in Urls
  /\ scratch[Dest] # None
  /\ Stop("occupied")
  /\ UNCHANGED <<remote, scratch, disk>>

\* The location does not exist or does not answer.
Unavailable ==
  /\ Resolving
  /\ Stop("unavailable")
  /\ UNCHANGED <<remote, scratch, disk>>

----------------------------------------------------------------------------
\* Bug variant: the raw results are written before all targets are scanned.
WriteRawEarly ==
  /\ phase = "resolve"
  /\ disk' = [disk EXCEPT !.raw = results]
  /\ phase' = "reports" /\ left' = NameSeq
  /\ UNCHANGED <<remote, scratch, results, outcome>>

\* Bug variant: the documents are written without the raw results.
WriteRawNever ==
  /\ phase = "resolve" /\ left = <<>>
  /\ phase' = "reports" /\ left' = NameSeq
  /\ UNCHANGED <<remote, scratch, results, disk, outcome>>

WriteRaw ==
  /\ phase = "resolve" /\ left = <<>>
  /\ disk' = [disk EXCEPT !.raw = results]
  /\ phase' = "reports" /\ left' = NameSeq
  /\ UNCHANGED <<remote, scratch, results, outcome>>

Written(n) == [name |-> n, content |-> results[n]]

\* Bug variant: an existing report is not replaced.
WriteReportOnce ==
  /\ phase = "reports" /\ left # <<>>
  /\ disk' = IF disk.reports[SlugOf[Head(left)]] # None THEN disk
             ELSE [disk EXCEPT !.reports[SlugOf[Head(left)]] = Written(Head(left))]
  /\ left' = Tail(left)
  /\ UNCHANGED <<remote, scratch, phase, results, outcome>>

WriteReport ==
  /\ phase = "reports" /\ left # <<>>
  /\ disk' = [disk EXCEPT !.reports[SlugOf[Head(left)]] = Written(Head(left))]
  /\ left' = Tail(left)
  /\ UNCHANGED <<remote, scratch, phase, results, outcome>>

WriteAggregate ==
  /\ phase = "reports" /\ left = <<>>
  /\ disk' = [disk EXCEPT !.aggregate = results]
  /\ phase' = "notes" /\ left' = NameSeq
  /\ UNCHANGED <<remote, scratch, results, outcome>>

\* No note is written for a clean target, and none is removed.
WriteNote ==
  /\ phase = "notes" /\ left # <<>>
  /\ disk' = IF results[Head(left)] = "flagged"
             THEN [disk EXCEPT !.notes[SlugOf[Head(left)]] = Written(Head(left))]
             ELSE disk
  /\ left' = Tail(left)
  /\ UNCHANGED <<remote, scratch, phase, results, outcome>>

Finish ==
  /\ phase = "notes" /\ left = <<>>
  /\ Stop("ok")
  /\ UNCHANGED <<remote, scratch, disk>>

----------------------------------------------------------------------------
(* Around the program.                                                     *)

\* A clone under way when the process is killed is left behind.
Kill ==
  /\ phase # "idle"
  /\ Stop("killed")
  /\ \/ scratch' = scratch
     \/ /\ Cloning
        /\ scratch' = [scratch EXCEPT ![Dest] = remote[Target.location]]
  /\ UNCHANGED <<remote, disk>>

Push ==
  /\ \E r \in Repos, c \in Content : remote' = [remote EXCEPT ![r] = c]
  /\ UNCHANGED <<scratch, phase, left, results, disk, outcome>>

\* The operator may empty the scratch directory between runs.
ClearScratch ==
  /\ phase = "idle"
  /\ scratch' = [s \in Slugs |-> None]
  /\ UNCHANGED <<remote, phase, left, results, disk, outcome>>

\* The steps that end by themselves: work on local files, and git's refusal,
\* which precedes any use of the network.
ReturningStep == ScanLocal \/ CloneRefused
                   \/ WriteRaw \/ WriteReport \/ WriteAggregate \/ WriteNote \/ Finish

RunStep == ReturningStep \/ CloneAndScan \/ Unavailable

Next == Start \/ RunStep \/ Kill \/ Push \/ ClearScratch

\* Nothing forces a clone to end, in success or in failure, nor a run to be
\* started, killed or its scratch directory to be emptied.
Spec == Init /\ [][Next]_vars /\ WF_vars(ReturningStep)

----------------------------------------------------------------------------
Disk == [raw : Results \cup {None}, aggregate : Results \cup {None},
         reports : [Slugs -> Document \cup {None}], notes : [Slugs -> Document \cup {None}]]

TypeOK ==
  /\ remote \in [Repos -> Content]
  /\ scratch \in [Slugs -> Content \cup {None}]
  /\ phase \in {"idle", "resolve", "reports", "notes"}
  /\ left \in IF phase = "resolve" THEN Suffixes(Config) ELSE Suffixes(NameSeq)
  /\ results \in Results
  /\ disk \in Disk
  /\ outcome \in {"never ran", "ok", "occupied", "unavailable", "killed"}

(* A run that cannot resolve all of its targets leaves every artifact of   *)
(* the runs before it as it was: artifacts change only when each target of *)
(* the list has a result.                                                  *)
FailedRunTouchesNothing ==
  [][disk' # disk => \A n \in ConfigNames : Has(results, n)]_vars

(* After a run that reports success the artifacts are of that run: the     *)
(* aggregate counts the raw results, each target has a report of them and  *)
(* each candidate among them a note (the docs of run_ecosystem_scan).      *)
SuccessIsComplete ==
  phase = "idle" /\ outcome = "ok" =>
    /\ disk.raw # None /\ disk.aggregate = disk.raw
    /\ \A n \in ConfigNames :
         LET doc == [name |-> n, content |-> disk.raw[n]]
         IN  /\ disk.reports[SlugOf[n]] = doc
             /\ disk.raw[n] = "flagged" => disk.notes[SlugOf[n]] = doc

(* A run writes its raw results before any document drawn from them, so a  *)
(* report or note that a killed run has left can be traced to a finding in *)
(* raw-results.json (the order of writes in run_ecosystem_scan).           *)
DocumentsFollowRawResults ==
  [][\A s \in Slugs :
       \/ disk'.notes[s] = disk.notes[s] /\ disk'.reports[s] = disk.reports[s]
       \/ disk'.raw = results /\ \E n \in Names : SlugOf[n] = s /\ Has(results, n)]_vars

(* Every run ends, whatever is refused or fails and whatever earlier runs  *)
(* left behind, unless it hangs for ever in one "git clone" (shallow_clone *)
(* sets no timeout): nothing else is ever waited for or tried again.       *)
RunsEnd == phase # "idle" ~> (phase = "idle" \/ []Cloning)

----------------------------------------------------------------------------
(* Documented: a repeatable batch scanner.  After a run that succeeded the *)
(* next one is not refused because of the clones the first left behind.    *)
Repeatable == [][outcome = "ok" => outcome' # "occupied"]_vars
=============================================================================
