------------------------ MODULE ReachabilityGrading ------------------------
(***************************************************************************)
(* reachability.grade_result: after the walk each finding is labelled in   *)
(* order (_grade_one, _grade_ast).  A finding in code that has callers but *)
(* none from a tool gets its caller chain as evidence; the chain follows   *)
(* the first caller of the call-site index, of which only the membership   *)
(* is modelled: any caller may be the first one.                           *)
(***************************************************************************)
EXTENDS ReachabilityWalk, Sequences

CONSTANTS
  TestFiles,  (* files at a test/spec/fixture path (is_test_path)          *)
  WholeFile,  (* location of a finding with no line                        *)
  Findings,   (* the scan's findings, as records [file, at]                *)
  MaxDepth    (* hops of caller_chain; 5 in the code                       *)

Labels == {"reachable", "cli-only", "uncalled", "unknown"}

ASSUME FindingsAssumption ==
  /\ MaxDepth \in Nat \ {0}
  /\ WholeFile \notin Scopes
  /\ Len(Findings) \in Nat
  /\ \A i \in 1..Len(Findings) : Findings[i].at \in Scopes \cup {WholeFile}

VARIABLES
  flags,    (* hasTools, unrooted (a Python tool without a root), dynamic  *)
  graded,   (* graded findings so far, as [label, chain]                   *)
  current,  (* function whose callers the chain follows; WholeFile if none *)
  chain     (* links of the chain being built, as [kind, fn]               *)

gradeVars == <<flags, graded, current, chain>>
vars == <<walkVars, gradeVars>>

Link(kind, fn) == [kind |-> kind, fn |-> fn]
Finding == Findings[Len(graded) + 1]
NoChain == current = WholeFile

\* Functions the chain has passed through, the flagged one included.
ChainSeen == {Finding.at} \cup {chain[i].fn : i \in 1..Len(chain)}

GradingInit ==
  /\ WalkInit
  /\ flags \in [hasTools : BOOLEAN, unrooted : BOOLEAN, dynamic : BOOLEAN]
  /\ roots # {} => flags.hasTools
  /\ graded = <<>>
  /\ current = WholeFile
  /\ chain = <<>>

----------------------------------------------------------------------------
\* Bug variant: the legacy grade is still emitted.
AstLabelLegacy(x) ==
  IF ~flags.hasTools \/ x.file \notin Files \/ x.at \notin Funcs \/ roots = {}
    THEN "unknown"
  ELSE IF x.at \in visited THEN "reachable"
  ELSE IF flags.dynamic \/ flags.unrooted THEN "unknown"
  ELSE IF CallersOutside(sites, x.at) # {} THEN "cli-only" ELSE "unreachable-by-tools"

\* Bug variant: a function reached by a name guess counts as unreached.
AstLabelStrongOnly(x) ==
  IF ~flags.hasTools \/ x.file \notin Files \/ x.at \notin Funcs \/ roots = {}
    THEN "unknown"
  ELSE IF x.at \in strong THEN "reachable"
  ELSE IF flags.dynamic \/ flags.unrooted THEN "unknown"
  ELSE IF CallersOutside(sites, x.at) # {} THEN "cli-only" ELSE "uncalled"

AstLabel(x) ==
  IF ~flags.hasTools \/ x.file \notin Files \/ x.at \notin Funcs \/ roots = {}
    THEN "unknown"
  ELSE IF x.at \in visited
    THEN IF x.at \notin strong /\ x.file \in TestFiles THEN "unknown" ELSE "reachable"
  ELSE IF flags.dynamic \/ flags.unrooted
    THEN "unknown"
  ELSE IF CallersOutside(sites, x.at) # {} THEN "cli-only" ELSE "uncalled"

\* Bug variant: the path shape outranks the call graph.
PathFallbackFirst(x) == IF x.file \in TestFiles THEN "cli-only" ELSE AstLabel(x)

\* The path-shape fallback is asked only where the call graph said UNKNOWN.
PathFallback(x) ==
  IF AstLabel(x) = "unknown" /\ x.file \in TestFiles THEN "cli-only" ELSE AstLabel(x)

Ready == WalkDone /\ NoChain /\ Len(graded) < Len(Findings)

GradeFinding ==
  /\ Ready
  /\ AstLabel(Finding) # "cli-only"
  /\ graded' = Append(graded, [label |-> PathFallback(Finding), chain |-> <<>>])
  /\ UNCHANGED <<walkVars, flags, current, chain>>

StartChain ==
  /\ Ready
  /\ AstLabel(Finding) = "cli-only"
  /\ current' = Finding.at
  /\ UNCHANGED <<walkVars, flags, graded, chain>>

\* Bug variant: the cycle check is missing.
FollowCallerAgain ==
  /\ ~NoChain
  /\ Len(chain) < MaxDepth
  /\ \E s \in CallersOutside(sites, current) :
       /\ s[1] \in Funcs
       /\ chain' = Append(chain, Link("caller", s[1]))
       /\ current' = s[1]
  /\ UNCHANGED <<walkVars, flags, graded>>

\* One hop outward: the caller is a function the chain has not seen.
FollowCaller ==
  /\ ~NoChain
  /\ Len(chain) < MaxDepth
  /\ \E s \in CallersOutside(sites, current) :
       /\ s[1] \in Funcs \ ChainSeen
       /\ chain' = Append(chain, Link("caller", s[1]))
       /\ current' = s[1]
  /\ UNCHANGED <<walkVars, flags, graded>>

EndChain(links) ==
  /\ graded' = Append(graded, [label |-> "cli-only", chain |-> chain \o links])
  /\ current' = WholeFile
  /\ chain' = <<>>
  /\ UNCHANGED <<walkVars, flags>>

StopAtCaller ==
  /\ ~NoChain
  /\ Len(chain) < MaxDepth
  /\ \/ CallersOutside(sites, current) = {} /\ EndChain(<<>>)
     \/ \E s \in CallersOutside(sites, current) :
          \/ s[1] = ModuleLevel /\ EndChain(<<Link("module", ModuleLevel)>>)
          \/ s[1] \in ChainSeen /\ EndChain(<<Link("cycle", s[1])>>)

StopAtDepth ==
  /\ ~NoChain
  /\ Len(chain) = MaxDepth
  /\ EndChain(<<Link("depth", ModuleLevel)>>)

GradingNext ==
  \/ WalkNext /\ UNCHANGED gradeVars
  \/ GradeFinding
  \/ StartChain
  \/ FollowCaller
  \/ StopAtCaller
  \/ StopAtDepth

\* A sequential pass over finite data: it keeps taking the step it can take.
GradingSpec == GradingInit /\ [][GradingNext]_vars /\ WF_vars(GradingNext)

----------------------------------------------------------------------------
LinkSet == [kind : {"caller", "module", "cycle", "depth"}, fn : Scopes]

GradingTypeOK ==
  /\ WalkTypeOK
  /\ flags \in [hasTools : BOOLEAN, unrooted : BOOLEAN, dynamic : BOOLEAN]
  /\ graded \in Seq([label : Labels, chain : Seq(LinkSet)])
  /\ Len(graded) <= Len(Findings)
  /\ current \in Funcs \cup {WholeFile}
  /\ chain \in Seq(LinkSet)

(* The evidence of a CLI_ONLY grade never names a function a tool reaches, *)
(* nor one nested in such a function (callers_outside: "any caller found   *)
(* here is guaranteed non-tool-descended").                                *)
ChainNeverToolDescended ==
  \A i \in 1..Len(graded) : \A k \in 1..Len(graded[i].chain) :
    Encl[graded[i].chain[k].fn] \cap Reachable(sites, roots) = {}

(* A chain is a real call path: each link is the scope of a call of the    *)
(* function before it, and only a closing link repeats a function          *)
(* (caller_chain).                                                         *)
EvidenceIsACallPath ==
  \A i \in 1..Len(graded) :
    LET links == graded[i].chain
        Before(k) == IF k = 1 THEN Findings[i].at ELSE links[k - 1].fn
        Callers(k) == {s[1] : s \in CallersOutside(sites, Before(k))}
    IN  \A k \in 1..Len(links) :
          /\ links[k].kind # "depth" => links[k].fn \in Callers(k)
          /\ links[k].kind = "caller" =>
               links[k].fn \notin {Before(j) : j \in 1..k}
          /\ links[k].kind # "caller" => k = Len(links)

\* Labels only, in order: what the abstract specification shows.
VerdictsSoFar == [i \in 1..Len(graded) |-> graded[i].label]

Promise == INSTANCE ReachabilityVerdict WITH verdicts <- VerdictsSoFar

(* Walk, fallback and evidence together implement the one-step verdicts:   *)
(* the grade of a finding is a function of the repository, not of the      *)
(* order the worklist was popped in, and every finding gets one.           *)
GradesAsPromised == Promise!VerdictSpec
=============================================================================
