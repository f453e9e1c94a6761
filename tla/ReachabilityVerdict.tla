------------------------ MODULE ReachabilityVerdict ------------------------
(***************************************************************************)
(* What the reachability axis promises (class Reachability of models.py    *)
(* and the module docs of reachability.py), without worklist or evidence:  *)
(* the findings get one verdict each, in order, and the verdict depends    *)
(* only on which functions the registered tools transitively call.         *)
(***************************************************************************)
EXTENDS CallGraph, Sequences

CONSTANTS
  TestFiles,  (* files at a test/spec/fixture path (is_test_path)          *)
  WholeFile,  (* location of a finding with no line                        *)
  Findings    (* the scan's findings, as records [file, at]                *)

VARIABLES sites, roots, flags, verdicts

verdictVars == <<sites, roots, flags, verdicts>>

\* Inside a tool handler or transitively called from one; a test file needs
\* better evidence than a cross-file name guess.
ToolReachable(x) ==
  /\ x.at \in Reachable(sites, roots)
  /\ x.file \in TestFiles => x.at \in ExactlyReachable(sites, roots)

\* A Python function of a repository whose tools have Python handlers.
Located(x) == flags.hasTools /\ roots # {} /\ x.file \in Files /\ x.at \in Funcs

\* Nothing may be said of an unreached function while a call that cannot be
\* resolved, or a tool without a root, might reach it.
Decidable == ~flags.dynamic /\ ~flags.unrooted

HasCaller(x) == CallersOutside(sites, x.at) # {}

Verdict(x) ==
  LET unreached == Located(x) /\ Decidable /\ x.at \notin Reachable(sites, roots)
  IN  CASE Located(x) /\ ToolReachable(x)     -> "reachable"
        [] unreached /\ ~HasCaller(x)         -> "uncalled"
        [] unreached /\ HasCaller(x)          -> "cli-only"
        [] OTHER -> IF x.file \in TestFiles THEN "cli-only" ELSE "unknown"

VerdictInit ==
  /\ sites \in SUBSET Sites
  /\ roots \in SUBSET Funcs
  /\ flags \in [hasTools : BOOLEAN, unrooted : BOOLEAN, dynamic : BOOLEAN]
  /\ verdicts = <<>>

GiveVerdict ==
  /\ Len(verdicts) < Len(Findings)
  /\ verdicts' = Append(verdicts, Verdict(Findings[Len(verdicts) + 1]))
  /\ UNCHANGED <<sites, roots, flags>>

VerdictSpec ==
  VerdictInit /\ [][GiveVerdict]_verdictVars /\ WF_verdictVars(GiveVerdict)
=============================================================================
