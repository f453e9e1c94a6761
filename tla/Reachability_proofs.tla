------------------------- MODULE Reachability_proofs --------------------------
(***************************************************************************)
(* Theorems about the reachability walk and the grading of findings, for   *)
(* every repository.  First the walk: its types, and the inductive         *)
(* invariant that relates the worklist to the two least closed sets.  Then *)
(* grading: its types, and what the evidence of a grade is worth.          *)
(***************************************************************************)
EXTENDS ReachabilityGrading, SequenceTheorems, TLAPS

\* Functions of the pending items, and of the strong ones among them.
Pending == {item[1] : item \in stack}
PendingStrong == {item[1] : item \in {i \in stack : i[2]}}

\* Nothing outside the least closed sets is ever marked or pushed.
Sound ==
  /\ visited \cup Pending \subseteq Reachable(sites, roots)
  /\ strong \cup PendingStrong \subseteq ExactlyReachable(sites, roots)

\* Whatever a marked function calls is marked or still pending.
Covered ==
  /\ strong \subseteq visited
  /\ roots \subseteq strong \cup PendingStrong
  /\ \A f \in visited : Callees(sites, f) \subseteq visited \cup Pending
  /\ \A f \in strong : ExactCallees(sites, f) \subseteq strong \cup PendingStrong

WalkInv == WalkTypeOK /\ Sound /\ Covered

\* A function walked twice was first walked weakly, then strongly.
ExpansionsInv ==
  \A f \in Funcs : /\ f \notin visited => expanded[f] = 0
                   /\ f \notin strong => expanded[f] <= 1
                   /\ expanded[f] <= 2

----------------------------------------------------------------------------
(* The least closed sets contain the roots and are closed.                 *)
LEMMA ReachableClosed ==
  ASSUME NEW s, NEW r \in SUBSET Funcs
  PROVE  /\ r \subseteq Reachable(s, r)
         /\ \A f \in Reachable(s, r) : Callees(s, f) \subseteq Reachable(s, r)
  BY DEF Reachable, Closed, Callees

LEMMA ExactlyReachableClosed ==
  ASSUME NEW s, NEW r \in SUBSET Funcs
  PROVE  /\ r \subseteq ExactlyReachable(s, r)
         /\ \A f \in ExactlyReachable(s, r) :
              ExactCallees(s, f) \subseteq ExactlyReachable(s, r)
  BY DEF ExactlyReachable, ExactClosed, ExactCallees, Callees

(* What an expansion pushes are callees; only exact ones of a strong item  *)
(* are pushed strong; and what is not pushed was already marked.           *)
LEMMA PushesOfExpansion ==
  ASSUME NEW f \in Funcs, NEW b \in BOOLEAN, NEW vis, NEW str
  PROVE  /\ Pushes(f, b, vis, str) \subseteq Funcs \X BOOLEAN
         /\ \A i \in Pushes(f, b, vis, str) :
              /\ i[1] \in Callees(sites, f)
              /\ i[2] => b /\ i[1] \in ExactCallees(sites, f)
         /\ \A g \in Callees(sites, f) :
              g \in vis \/ g \in str \/ \E c \in BOOLEAN : <<g, c>> \in Pushes(f, b, vis, str)
         /\ b => \A g \in ExactCallees(sites, f) :
                   g \in str \/ <<g, TRUE>> \in Pushes(f, b, vis, str)
<1> DEFINE exact == IF b THEN ExactCallees(sites, f) ELSE {}
           weak  == Callees(sites, f) \ exact
           P     == Pushes(f, b, vis, str)
<1>1. P = ((exact \ str) \X {TRUE}) \cup ((weak \ vis) \X {FALSE})
  BY DEF Pushes
<1>2. exact \subseteq Callees(sites, f) /\ Callees(sites, f) \subseteq Funcs
  BY DEF Callees, ExactCallees
<1>3. b => exact = ExactCallees(sites, f)
  OBVIOUS
<1>4. ~b => exact = {}
  OBVIOUS
<1> HIDE DEF exact, P
<1>5. \A i \in P : \/ i[1] \in exact /\ i[2] = TRUE
                   \/ i[1] \in weak /\ i[2] = FALSE
  <2>1. \A i \in (exact \ str) \X {TRUE} : i[1] \in exact /\ i[2] = TRUE
    OBVIOUS
  <2>2. \A i \in (weak \ vis) \X {FALSE} : i[1] \in weak /\ i[2] = FALSE
    OBVIOUS
  <2>3. QED
    BY <1>1, <2>1, <2>2
<1>6. /\ \A g \in exact : g \in str \/ <<g, TRUE>> \in P
      /\ \A g \in weak : g \in vis \/ <<g, FALSE>> \in P
  BY <1>1
<1>7. P \subseteq Funcs \X BOOLEAN
  BY <1>1, <1>2
<1>8. \A i \in P : /\ i[1] \in Callees(sites, f)
                   /\ i[2] => b /\ i[1] \in ExactCallees(sites, f)
  BY <1>2, <1>3, <1>4, <1>5
<1>9. \A g \in Callees(sites, f) : g \in vis \/ g \in str \/ \E c \in BOOLEAN : <<g, c>> \in P
  BY <1>2, <1>6
<1>10. QED
  BY <1>3, <1>6, <1>7, <1>8, <1>9 DEF P

----------------------------------------------------------------------------
LEMMA WalkInitTypes == WalkInit => WalkTypeOK
<1> SUFFICES ASSUME WalkInit PROVE WalkTypeOK
  OBVIOUS
<1>1. roots \subseteq Funcs /\ sites \subseteq Sites
  BY SitesAssumption DEF WalkInit
<1>2. stack \subseteq Funcs \X BOOLEAN
  BY <1>1 DEF WalkInit
<1>3. visited \subseteq Funcs /\ strong \subseteq Funcs
  BY DEF WalkInit
<1>4. expanded \in [Funcs -> Nat]
  BY DEF WalkInit
<1>5. QED
  BY <1>1, <1>2, <1>3, <1>4 DEF WalkTypeOK

LEMMA WalkTypeStep ==
  ASSUME WalkTypeOK, [WalkNext]_walkVars PROVE WalkTypeOK'
<1>1. ASSUME NEW item \in stack, Skip(item) PROVE WalkTypeOK'
  BY <1>1 DEF Skip, WalkTypeOK
<1>2. ASSUME NEW item \in stack, Expand(item) PROVE WalkTypeOK'
  <2>1. item[1] \in Funcs /\ item[2] \in BOOLEAN
    BY DEF WalkTypeOK
  <2>2. Pushes(item[1], item[2], visited', strong') \subseteq Funcs \X BOOLEAN
    BY <2>1, PushesOfExpansion
  <2>3. expanded' \in [Funcs -> Nat]
    BY <1>2, <2>1 DEF Expand, WalkTypeOK
  <2>4. QED
    BY <1>2, <2>1, <2>2, <2>3 DEF Expand, WalkTypeOK
<1>3. CASE UNCHANGED walkVars
  BY <1>3 DEF walkVars, WalkTypeOK
<1>4. QED
  BY <1>1, <1>2, <1>3 DEF WalkNext

(* The state of the walk always has its declared types.                    *)
THEOREM WalkTypeCorrect == WalkSpec => []WalkTypeOK
  BY WalkInitTypes, WalkTypeStep, PTL DEF WalkSpec

LEMMA WalkInvInit == WalkInit => WalkInv
<1> SUFFICES ASSUME WalkInit PROVE WalkInv
  OBVIOUS
<1>1. WalkTypeOK
  BY WalkInitTypes
<1>2. Pending = roots /\ PendingStrong = roots
  <2>1. stack = roots \X {TRUE}
    BY DEF WalkInit
  <2>2. \A i \in stack : i[1] \in roots /\ i[2]
    BY <2>1
  <2>3. \A r \in roots : /\ <<r, TRUE>> \in stack
                        /\ <<r, TRUE>>[1] = r /\ <<r, TRUE>>[2] = TRUE
    BY <2>1
  <2>4. QED
    BY <2>2, <2>3 DEF Pending, PendingStrong
<1>3. roots \subseteq Reachable(sites, roots) /\ roots \subseteq ExactlyReachable(sites, roots)
  BY <1>1, ReachableClosed, ExactlyReachableClosed DEF WalkTypeOK
<1>4. Sound /\ Covered
  BY <1>2, <1>3 DEF WalkInit, Sound, Covered
<1>5. QED
  BY <1>1, <1>4 DEF WalkInv

(* Discarding a seen item leaves nothing uncovered.                        *)
LEMMA SkipKeepsInv ==
  ASSUME WalkInv, NEW item \in stack, Skip(item)
  PROVE  Sound' /\ Covered'
<1>1. /\ UNCHANGED <<sites, roots, visited, strong>>
      /\ stack' = stack \ {item}
  BY DEF Skip
<1>2. Pending' \subseteq Pending /\ PendingStrong' \subseteq PendingStrong
  BY <1>1 DEF Pending, PendingStrong
<1>3. Pending \subseteq visited \cup Pending'
  BY <1>1 DEF Pending, Skip, Seen, WalkInv, Covered
<1>4. PendingStrong \subseteq strong \cup PendingStrong'
  BY <1>1 DEF PendingStrong, Skip, Seen
<1>5. Sound'
  BY <1>1, <1>2 DEF Sound, WalkInv
<1>6. Covered'
  BY <1>1, <1>3, <1>4 DEF Covered, WalkInv
<1>7. QED
  BY <1>5, <1>6

(* Expanding an item marks its function and makes its callees pending.     *)
LEMMA ExpandKeepsInv ==
  ASSUME WalkInv, NEW item \in stack, Expand(item)
  PROVE  Sound' /\ Covered'
<1> DEFINE f == item[1]
           b == item[2]
           new == Pushes(f, b, visited', strong')
<1>1. /\ f \in Funcs /\ b \in BOOLEAN
      /\ f \in Pending /\ (b => f \in PendingStrong)
  BY DEF WalkInv, WalkTypeOK, Pending, PendingStrong
<1>2. /\ UNCHANGED <<sites, roots>>
      /\ visited' = visited \cup {f}
      /\ strong' = IF b THEN strong \cup {f} ELSE strong
      /\ stack' = (stack \ {item}) \cup new
  BY DEF Expand
<1>3. strong' \subseteq visited'
  BY <1>2 DEF WalkInv, Covered
<1> HIDE DEF f, b
<1> HIDE DEF new
<1>4. /\ \A i \in new : /\ i[1] \in Callees(sites, f)
                        /\ i[2] => b /\ i[1] \in ExactCallees(sites, f)
      /\ \A g \in Callees(sites, f) :
           g \in visited' \/ g \in strong' \/ \E c \in BOOLEAN : <<g, c>> \in new
      /\ b => \A g \in ExactCallees(sites, f) : g \in strong' \/ <<g, TRUE>> \in new
  <2> DEFINE V == visited'
             S == strong'
  <2>1. new = Pushes(f, b, V, S)
    BY DEF new
  <2> HIDE DEF V, S
  <2>2. /\ \A i \in Pushes(f, b, V, S) :
              /\ i[1] \in Callees(sites, f)
              /\ i[2] => b /\ i[1] \in ExactCallees(sites, f)
        /\ \A g \in Callees(sites, f) :
              g \in V \/ g \in S \/ \E c \in BOOLEAN : <<g, c>> \in Pushes(f, b, V, S)
        /\ b => \A g \in ExactCallees(sites, f) :
                  g \in S \/ <<g, TRUE>> \in Pushes(f, b, V, S)
    BY <1>1, PushesOfExpansion
  <2>3. QED
    BY <2>1, <2>2 DEF V, S
<1>5. roots \in SUBSET Funcs
  BY DEF WalkInv, WalkTypeOK
<1>6. Sound'
  <2>1. Pending' \subseteq Pending \cup Callees(sites, f)
    BY <1>2, <1>4 DEF Pending
  <2>2. PendingStrong' \subseteq PendingStrong \cup (IF b THEN ExactCallees(sites, f) ELSE {})
    BY <1>2, <1>4 DEF PendingStrong
  <2>3. Callees(sites, f) \subseteq Reachable(sites, roots)
    BY <1>1, <1>5, ReachableClosed DEF WalkInv, Sound
  <2>4. b => ExactCallees(sites, f) \subseteq ExactlyReachable(sites, roots)
    BY <1>1, <1>5, ExactlyReachableClosed DEF WalkInv, Sound
  <2>5. QED
    BY <1>1, <1>2, <2>1, <2>2, <2>3, <2>4 DEF WalkInv, Sound
<1>7. Covered'
  <2>1. Pending \subseteq visited' \cup Pending'
    BY <1>2 DEF Pending, f
  <2>2. PendingStrong \subseteq strong' \cup PendingStrong'
    BY <1>2 DEF PendingStrong, f, b
  <2>3. Callees(sites, f) \subseteq visited' \cup Pending'
    <3> SUFFICES ASSUME NEW g \in Callees(sites, f), g \notin visited'
                 PROVE  g \in Pending'
      OBVIOUS
    <3>1. PICK c \in BOOLEAN : <<g, c>> \in stack'
      BY <1>2, <1>3, <1>4
    <3>2. <<g, c>>[1] = g
      OBVIOUS
    <3>3. QED
      BY <3>1, <3>2 DEF Pending
  <2>4. b => ExactCallees(sites, f) \subseteq strong' \cup PendingStrong'
    <3> SUFFICES ASSUME b, NEW g \in ExactCallees(sites, f), g \notin strong'
                 PROVE  g \in PendingStrong'
      OBVIOUS
    <3>1. <<g, TRUE>> \in stack'
      BY <1>2, <1>4
    <3>2. <<g, TRUE>>[1] = g /\ <<g, TRUE>>[2] = TRUE
      OBVIOUS
    <3>3. QED
      BY <3>1, <3>2 DEF PendingStrong
  <2>5. QED
    BY <1>2, <1>3, <2>1, <2>2, <2>3, <2>4 DEF WalkInv, Covered
<1>8. QED
  BY <1>6, <1>7

(* WalkInv is inductive.                                                   *)
LEMMA WalkInvStep ==
  ASSUME WalkInv, [WalkNext]_walkVars PROVE WalkInv'
<1>1. WalkTypeOK'
  BY WalkTypeStep DEF WalkInv
<1>2. ASSUME NEW item \in stack, Skip(item) \/ Expand(item) PROVE Sound' /\ Covered'
  BY <1>2, SkipKeepsInv, ExpandKeepsInv
<1>3. CASE UNCHANGED walkVars
  BY <1>1, <1>3 DEF walkVars, WalkInv, Sound, Covered, Pending, PendingStrong
<1>4. QED
  BY <1>1, <1>2, <1>3 DEF WalkNext, WalkInv

(* At every step the marked and pending functions lie within the least     *)
(* closed sets, and what a marked function calls is marked or pending.     *)
THEOREM WalkInvariant == WalkSpec => []WalkInv
  BY WalkInvInit, WalkInvStep, PTL DEF WalkSpec

----------------------------------------------------------------------------
LEMMA WalkInvAnswers == WalkInv => WalkCorrect
<1> SUFFICES ASSUME WalkInv, WalkDone
             PROVE  /\ visited = Reachable(sites, roots)
                    /\ strong = ExactlyReachable(sites, roots)
  BY DEF WalkCorrect
<1>1. Pending = {} /\ PendingStrong = {}
  BY DEF WalkDone, Pending, PendingStrong
<1>2. Closed(sites, visited) /\ ExactClosed(sites, strong)
  BY <1>1 DEF WalkInv, Covered, Closed, ExactClosed
<1>3. roots \subseteq visited /\ roots \subseteq strong
  BY <1>1 DEF WalkInv, Covered
<1>4. visited \in SUBSET Funcs /\ strong \in SUBSET Funcs
  BY DEF WalkInv, WalkTypeOK
<1>5. Reachable(sites, roots) \subseteq visited
  BY <1>2, <1>3, <1>4 DEF Reachable
<1>6. ExactlyReachable(sites, roots) \subseteq strong
  BY <1>2, <1>3, <1>4 DEF ExactlyReachable
<1>7. QED
  BY <1>5, <1>6 DEF WalkInv, Sound

(* Whatever order items are popped in, the finished walk has computed      *)
(* exactly the two least closed sets (reachable_from_graded).              *)
THEOREM WalkComputesClosures == WalkSpec => []WalkCorrect
  BY WalkInvAnswers, WalkInvariant, PTL

(* callers_outside may call every caller it finds non-tool-descended.      *)
THEOREM UnreachedCallers == WalkSpec => []CallersOfUnreachedAreUnreached
<1>1. WalkInv => CallersOfUnreachedAreUnreached
  <2> SUFFICES ASSUME WalkInv, WalkDone, NEW f \in Funcs \ visited,
                      NEW s \in CallersOutside(sites, f),
                      NEW g \in Encl[s[1]], g \in visited
               PROVE  FALSE
    BY DEF CallersOfUnreachedAreUnreached
  <2>1. f \in Callees(sites, g)
    BY DEF Callees, CalledIn, CallersOutside
  <2>2. Callees(sites, g) \subseteq visited
    BY DEF WalkDone, WalkInv, Covered, Pending
  <2>3. QED
    BY <2>1, <2>2
<1>2. QED
  BY <1>1, WalkInvariant, PTL

(* The re-expansion of a weakly reached function is bounded.               *)
THEOREM BoundedExpansion == WalkSpec => []ExpandedAtMostTwice
<1>1. WalkInit => ExpansionsInv
  BY DEF WalkInit, ExpansionsInv
<1>2. WalkInv /\ ExpansionsInv /\ [WalkNext]_walkVars => ExpansionsInv'
  <2> SUFFICES ASSUME WalkInv, ExpansionsInv, [WalkNext]_walkVars PROVE ExpansionsInv'
    OBVIOUS
  <2>1. ASSUME NEW item \in stack, Skip(item) PROVE ExpansionsInv'
    BY <2>1 DEF Skip, ExpansionsInv
  <2>2. ASSUME NEW item \in stack, Expand(item) PROVE ExpansionsInv'
    <3>1. item[1] \in Funcs /\ item[2] \in BOOLEAN
      BY DEF WalkInv, WalkTypeOK
    <3>2. expanded \in [Funcs -> Nat] /\ strong \subseteq visited
      BY DEF WalkInv, WalkTypeOK, Covered
    <3>3. IF item[2] THEN item[1] \notin strong
                     ELSE item[1] \notin visited /\ item[1] \notin strong
      BY <2>2, <3>2 DEF Expand, Seen
    <3>4. QED
      BY <2>2, <3>1, <3>2, <3>3 DEF Expand, ExpansionsInv
  <2>3. CASE UNCHANGED walkVars
    BY <2>3 DEF walkVars, ExpansionsInv
  <2>4. QED
    BY <2>1, <2>2, <2>3 DEF WalkNext
<1>3. ExpansionsInv => ExpandedAtMostTwice
  BY DEF ExpansionsInv, ExpandedAtMostTwice
<1>4. QED
  BY <1>1, <1>2, <1>3, WalkInvariant, PTL DEF WalkSpec

----------------------------------------------------------------------------
(* Grading.                                                               *)

\* A scope no tool reaches, lexically or by calls.
Untouched(scope) == Encl[scope] \cap visited = {}

\* Grading works on the finished walk, and every function a chain follows or
\* names is untouched by it.
ChainInv ==
  /\ (current # WholeFile \/ graded # <<>>) => WalkDone
  /\ current # WholeFile => Len(graded) < Len(Findings)
  /\ current = WholeFile => chain = <<>>
  /\ current \in Funcs => current \notin visited
  /\ \A k \in 1..Len(chain) : Untouched(chain[k].fn)
  /\ \A i \in 1..Len(graded) : \A k \in 1..Len(graded[i].chain) :
       Untouched(graded[i].chain[k].fn)

GradingInv == WalkInv /\ GradingTypeOK /\ ChainInv

----------------------------------------------------------------------------
(* A step of grading is a step of the walk or leaves the walk alone.       *)
LEMMA GradingStepIsWalkStep ==
  ASSUME [GradingNext]_vars PROVE [WalkNext]_walkVars
  BY DEF GradingNext, vars, gradeVars, GradeFinding, StartChain, FollowCaller,
         StopAtCaller, StopAtDepth, EndChain

LEMMA AppendKeeps ==
  ASSUME NEW S, NEW s \in Seq(S), NEW e \in S
  PROVE  /\ Append(s, e) \in Seq(S)
         /\ Len(Append(s, e)) = Len(s) + 1
         /\ \A i \in 1..Len(s) : Append(s, e)[i] = s[i]
         /\ Append(s, e)[Len(s) + 1] = e
  OBVIOUS

LEMMA LinksTyped == \A kind \in {"caller", "module", "cycle", "depth"}, fn \in Scopes :
                      Link(kind, fn) \in LinkSet /\ Link(kind, fn).fn = fn
  BY DEF Link, LinkSet

(* A caller found for an unreached function is untouched, and so is        *)
(* module-level code.                                                      *)
LEMMA CallersUntouched ==
  ASSUME WalkInv, WalkDone, NEW f \in Funcs, f \notin visited,
         NEW s \in CallersOutside(sites, f)
  PROVE  s[1] \in Scopes /\ Untouched(s[1])
<1>1. s \in sites /\ s[2] = NameOf[f]
  BY DEF CallersOutside
<1>2. s[1] \in Scopes
  BY <1>1 DEF WalkInv, WalkTypeOK, Sites
<1>3. ASSUME NEW g \in Encl[s[1]], g \in visited PROVE FALSE
  <2>1. f \in Callees(sites, g)
    BY <1>1, <1>3 DEF Callees, CalledIn
  <2>2. Callees(sites, g) \subseteq visited
    BY <1>3 DEF WalkDone, WalkInv, Covered, Pending
  <2>3. QED
    BY <2>1, <2>2
<1>4. QED
  BY <1>2, <1>3 DEF Untouched

LEMMA ModuleLevelUntouched == Untouched(ModuleLevel) /\ ModuleLevel \in Scopes
  BY NestingAssumption DEF Untouched, Scopes

----------------------------------------------------------------------------
(* Ending a chain with untouched links keeps the invariant.                *)
LEMMA EndChainKeepsInv ==
  ASSUME GradingInv, ~NoChain,
         NEW links \in Seq(LinkSet),
         \A k \in 1..Len(links) : Untouched(links[k].fn), EndChain(links)
  PROVE  GradingTypeOK' /\ ChainInv'
<1> DEFINE entry == [label |-> "cli-only", chain |-> chain \o links]
<1>1. /\ graded' = Append(graded, entry)
      /\ current' = WholeFile /\ chain' = <<>>
      /\ UNCHANGED <<sites, roots, stack, visited, strong, expanded, flags>>
  BY DEF EndChain, walkVars
<1>2. chain \in Seq(LinkSet) /\ graded \in Seq([label : Labels, chain : Seq(LinkSet)])
  BY DEF GradingInv, GradingTypeOK
<1>3. entry \in [label : Labels, chain : Seq(LinkSet)]
  BY <1>2 DEF Labels
<1>4. \A k \in 1..Len(chain \o links) : Untouched((chain \o links)[k].fn)
  BY <1>2 DEF GradingInv, ChainInv
<1> HIDE DEF entry
<1>5. /\ graded' \in Seq([label : Labels, chain : Seq(LinkSet)])
      /\ Len(graded') = Len(graded) + 1
      /\ \A i \in 1..Len(graded) : graded'[i] = graded[i]
      /\ graded'[Len(graded) + 1] = entry
  BY <1>1, <1>2, <1>3, AppendKeeps
<1>6. GradingTypeOK'
  BY <1>1, <1>5, FindingsAssumption
     DEF GradingInv, GradingTypeOK, WalkTypeOK, ChainInv, NoChain
<1>7. WalkDone'
  BY <1>1 DEF GradingInv, ChainInv, NoChain, WalkDone
<1>8. \A i \in 1..Len(graded') : \A k \in 1..Len(graded'[i].chain) :
        Encl[graded'[i].chain[k].fn] \cap visited = {}
  <2>1. \A k \in 1..Len(entry.chain) : Untouched(entry.chain[k].fn)
    BY <1>4 DEF entry
  <2>2. \A i \in 1..Len(graded') : i \in 1..Len(graded) \/ i = Len(graded) + 1
    BY <1>2, <1>5
  <2>3. QED
    BY <1>5, <2>1, <2>2 DEF GradingInv, ChainInv, Untouched
<1>9. QED
  BY <1>1, <1>6, <1>7, <1>8, FindingsAssumption DEF ChainInv, Untouched, Scopes

(* A grade given without a chain touches no link.                          *)
LEMMA GradeFindingKeepsInv ==
  ASSUME GradingInv, GradeFinding PROVE GradingTypeOK' /\ ChainInv'
<1> DEFINE entry == [label |-> PathFallback(Finding), chain |-> <<>>]
<1>1. /\ graded' = Append(graded, entry)
      /\ WalkDone /\ current = WholeFile
      /\ Len(graded) < Len(Findings)
      /\ UNCHANGED <<sites, roots, stack, visited, strong, expanded, flags, current, chain>>
  BY DEF GradeFinding, Ready, NoChain, walkVars
<1>2. graded \in Seq([label : Labels, chain : Seq(LinkSet)])
  BY DEF GradingInv, GradingTypeOK
<1>3. PathFallback(Finding) \in Labels
  BY DEF PathFallback, AstLabel, Labels
<1>4. entry \in [label : Labels, chain : Seq(LinkSet)] /\ Len(entry.chain) = 0
  BY <1>3
<1> HIDE DEF entry
<1>5. /\ graded' \in Seq([label : Labels, chain : Seq(LinkSet)])
      /\ Len(graded') = Len(graded) + 1
      /\ \A i \in 1..Len(graded) : graded'[i] = graded[i]
      /\ graded'[Len(graded) + 1] = entry
  BY <1>1, <1>2, <1>4, AppendKeeps
<1>6. GradingTypeOK'
  BY <1>1, <1>5, FindingsAssumption DEF GradingInv, GradingTypeOK, WalkTypeOK
<1>7. WalkDone'
  BY <1>1 DEF WalkDone
<1>8. \A i \in 1..Len(graded') : \A k \in 1..Len(graded'[i].chain) :
        Encl[graded'[i].chain[k].fn] \cap visited = {}
  <2>1. \A i \in 1..Len(graded') : i \in 1..Len(graded) \/ i = Len(graded) + 1
    BY <1>2, <1>5
  <2> SUFFICES ASSUME NEW i \in 1..Len(graded'), NEW k \in 1..Len(graded'[i].chain)
               PROVE  Encl[graded'[i].chain[k].fn] \cap visited = {}
    OBVIOUS
  <2>2. CASE i \in 1..Len(graded)
    <3>1. graded'[i] = graded[i]
      BY <1>5, <2>2
    <3>2. QED
      BY <2>2, <3>1 DEF GradingInv, ChainInv, Untouched
  <2>3. CASE i = Len(graded) + 1
    BY <1>4, <1>5, <2>3
  <2>4. QED
    BY <2>1, <2>2, <2>3
<1>9. QED
  BY <1>1, <1>6, <1>7, <1>8 DEF GradingInv, ChainInv, Untouched

LEMMA StartChainKeepsInv ==
  ASSUME GradingInv, StartChain PROVE GradingTypeOK' /\ ChainInv'
<1>1. /\ Finding.at \in Funcs /\ Finding.at \notin visited
  BY DEF StartChain, AstLabel
<1>2. QED
  BY <1>1 DEF StartChain, Ready, NoChain, GradingInv, GradingTypeOK, ChainInv,
              WalkTypeOK, WalkDone, Untouched, walkVars

LEMMA FollowCallerKeepsInv ==
  ASSUME GradingInv, FollowCaller PROVE GradingTypeOK' /\ ChainInv'
<1>1. current \in Funcs /\ current \notin visited /\ WalkDone
  BY DEF FollowCaller, NoChain, GradingInv, GradingTypeOK, ChainInv
<1>2. PICK s \in CallersOutside(sites, current) :
        /\ s[1] \in Funcs
        /\ chain' = Append(chain, Link("caller", s[1]))
        /\ current' = s[1]
  BY DEF FollowCaller
<1>3. s[1] \in Scopes /\ Untouched(s[1])
  BY <1>1, <1>2, CallersUntouched DEF GradingInv
<1>4. s[1] \notin visited
  BY <1>2, <1>3, NestingAssumption DEF Untouched
<1>5. Link("caller", s[1]) \in LinkSet /\ Link("caller", s[1]).fn = s[1]
  BY <1>3, LinksTyped
<1>6. chain \in Seq(LinkSet)
  BY DEF GradingInv, GradingTypeOK
<1>7. /\ chain' \in Seq(LinkSet)
      /\ Len(chain') = Len(chain) + 1
      /\ \A k \in 1..Len(chain) : chain'[k] = chain[k]
      /\ chain'[Len(chain) + 1].fn = s[1]
  BY <1>2, <1>5, <1>6, AppendKeeps
<1>8. \A k \in 1..Len(chain') : Untouched(chain'[k].fn)
  <2>1. \A k \in 1..Len(chain') : k \in 1..Len(chain) \/ k = Len(chain) + 1
    BY <1>6, <1>7
  <2>2. QED
    BY <1>3, <1>7, <2>1 DEF GradingInv, ChainInv
<1>9. UNCHANGED <<sites, roots, stack, visited, strong, expanded, flags, graded>>
  BY DEF FollowCaller, walkVars
<1>10. s[1] # WholeFile /\ current # WholeFile
  BY <1>1, <1>2, FindingsAssumption DEF Scopes
<1>11. GradingTypeOK'
  BY <1>2, <1>7, <1>9 DEF GradingInv, GradingTypeOK, WalkTypeOK
<1>12. ChainInv'
  BY <1>1, <1>2, <1>4, <1>8, <1>9, <1>10 DEF GradingInv, ChainInv, WalkDone, Untouched
<1>13. QED
  BY <1>11, <1>12

LEMMA StopKeepsInv ==
  ASSUME GradingInv, StopAtCaller \/ StopAtDepth PROVE GradingTypeOK' /\ ChainInv'
<1>1. ~NoChain
  BY DEF StopAtCaller, StopAtDepth
<1>2. current \in Funcs /\ current \notin visited /\ WalkDone
  BY <1>1 DEF NoChain, GradingInv, GradingTypeOK, ChainInv
<1>3. ASSUME NEW kind \in {"module", "cycle", "depth"}, NEW fn \in Scopes,
             Untouched(fn), EndChain(<<Link(kind, fn)>>)
      PROVE  GradingTypeOK' /\ ChainInv'
  <2>1. Link(kind, fn) \in LinkSet /\ Link(kind, fn).fn = fn
    BY LinksTyped
  <2> DEFINE links == <<Link(kind, fn)>>
  <2>2. links \in Seq(LinkSet) /\ \A k \in 1..Len(links) : Untouched(links[k].fn)
    BY <1>3, <2>1
  <2> HIDE DEF links
  <2>3. EndChain(links)
    BY <1>3 DEF links
  <2>4. QED
    BY <1>1, <2>2, <2>3, EndChainKeepsInv
<1>4. ASSUME EndChain(<<>>) PROVE GradingTypeOK' /\ ChainInv'
  <2> DEFINE links == <<>>
  <2>1. links \in Seq(LinkSet) /\ \A k \in 1..Len(links) : Untouched(links[k].fn)
    OBVIOUS
  <2> HIDE DEF links
  <2>2. EndChain(links)
    BY <1>4 DEF links
  <2>3. QED
    BY <1>1, <2>1, <2>2, EndChainKeepsInv
<1>5. CASE StopAtDepth
  BY <1>3, <1>5, ModuleLevelUntouched DEF StopAtDepth
<1>6. ASSUME NEW s \in CallersOutside(sites, current),
             \/ s[1] = ModuleLevel /\ EndChain(<<Link("module", ModuleLevel)>>)
             \/ EndChain(<<Link("cycle", s[1])>>)
      PROVE  GradingTypeOK' /\ ChainInv'
  <2>1. s[1] \in Scopes /\ Untouched(s[1])
    BY <1>2, CallersUntouched DEF GradingInv
  <2>2. QED
    BY <1>3, <1>6, <2>1, ModuleLevelUntouched
<1>7. CASE StopAtCaller
  BY <1>4, <1>6, <1>7 DEF StopAtCaller
<1>8. QED
  BY <1>5, <1>7

(* The walk takes no step once grading has begun.                          *)
LEMMA WalkStepKeepsInv ==
  ASSUME GradingInv, WalkTypeOK', WalkNext, UNCHANGED gradeVars
  PROVE  GradingTypeOK' /\ ChainInv'
<1>1. ~WalkDone
  BY DEF WalkNext, WalkDone
<1>2. current = WholeFile /\ graded = <<>> /\ chain = <<>>
  BY <1>1 DEF GradingInv, ChainInv
<1>3. UNCHANGED <<flags, graded, current, chain>>
  BY DEF gradeVars
<1>4. QED
  BY <1>2, <1>3, FindingsAssumption DEF GradingInv, GradingTypeOK, ChainInv, Scopes

LEMMA GradingInvInit == GradingInit => GradingInv
<1> SUFFICES ASSUME GradingInit PROVE GradingInv
  OBVIOUS
<1>1. WalkInv
  BY WalkInvInit DEF GradingInit
<1>2. GradingTypeOK /\ ChainInv
  BY <1>1, FindingsAssumption DEF GradingInit, GradingTypeOK, ChainInv, WalkInv, Scopes
<1>3. QED
  BY <1>1, <1>2 DEF GradingInv

LEMMA GradingInvStep ==
  ASSUME GradingInv, [GradingNext]_vars PROVE GradingInv'
<1>1. WalkInv'
  BY GradingStepIsWalkStep, WalkInvStep DEF GradingInv
<1>2. CASE WalkNext /\ UNCHANGED gradeVars
  BY <1>1, <1>2, WalkStepKeepsInv DEF WalkInv, GradingInv
<1>3. CASE UNCHANGED vars
  <2>1. /\ visited' = visited /\ stack' = stack /\ flags' = flags
        /\ graded' = graded /\ current' = current /\ chain' = chain
    BY <1>3 DEF vars, walkVars, gradeVars
  <2>2. GradingTypeOK'
    BY <1>1, <2>1 DEF GradingInv, GradingTypeOK, WalkInv
  <2>3. ChainInv'
    BY <2>1 DEF GradingInv, ChainInv, WalkDone, Untouched
  <2>4. QED
    BY <1>1, <2>2, <2>3 DEF GradingInv
<1>4. QED
  BY <1>1, <1>2, <1>3, GradeFindingKeepsInv, StartChainKeepsInv, FollowCallerKeepsInv,
     StopKeepsInv DEF GradingNext, GradingInv

----------------------------------------------------------------------------
(* The state of grading always has its declared types.                     *)
THEOREM GradingTypeCorrect == GradingSpec => []GradingTypeOK
<1>1. GradingInv => GradingTypeOK
  BY DEF GradingInv
<1>2. QED
  BY <1>1, GradingInvInit, GradingInvStep, PTL DEF GradingSpec

(* No link of any caller chain attached to a finding is reachable from a   *)
(* registered tool, nor lexically inside a function that is                *)
(* (callers_outside, caller_chain).                                        *)
THEOREM ChainsNeverToolDescended == GradingSpec => []ChainNeverToolDescended
<1>1. GradingInv => ChainNeverToolDescended
  <2> SUFFICES ASSUME GradingInv, NEW i \in 1..Len(graded), NEW k \in 1..Len(graded[i].chain)
               PROVE  Encl[graded[i].chain[k].fn] \cap Reachable(sites, roots) = {}
    BY DEF ChainNeverToolDescended
  <2>1. WalkDone
    BY DEF GradingInv, ChainInv, GradingTypeOK
  <2>2. visited = Reachable(sites, roots)
    BY <2>1, WalkInvAnswers DEF GradingInv, WalkCorrect
  <2>3. QED
    BY <2>2 DEF GradingInv, ChainInv, Untouched
<1>2. QED
  BY <1>1, GradingInvInit, GradingInvStep, PTL DEF GradingSpec

----------------------------------------------------------------------------
(* Evidence as a call path.                                                *)

\* What the k-th link of a chain is a caller of.
Before(at, links, k) == IF k = 1 THEN at ELSE links[k - 1].fn

CallersIn(ss, f) == {s[1] : s \in CallersOutside(ss, f)}

CallPath(ss, at, links) ==
  \A k \in 1..Len(links) :
    /\ links[k].kind # "depth" => links[k].fn \in CallersIn(ss, Before(at, links, k))
    /\ links[k].kind = "caller" => links[k].fn \notin {Before(at, links, j) : j \in 1..k}
    /\ links[k].kind # "caller" => k = Len(links)

Open(links) == \A k \in 1..Len(links) : links[k].kind = "caller"

\* A chain under way is a call path from the flagged function to the one
\* whose callers it follows, and the finding is one that gets a chain.
PathInv ==
  /\ \A i \in 1..Len(graded) : CallPath(sites, Findings[i].at, graded[i].chain)
  /\ current # WholeFile =>
       /\ AstLabel(Finding) = "cli-only"
       /\ CallPath(sites, Finding.at, chain) /\ Open(chain)
       /\ current = Before(Finding.at, chain, Len(chain) + 1)

(* One more link makes a longer path, if it names a caller of the last     *)
(* function and one that is new unless it closes the chain.                *)
LEMMA PathExtended ==
  ASSUME NEW ss, NEW at, NEW links \in Seq(LinkSet), NEW e \in LinkSet,
         CallPath(ss, at, links), Open(links),
         e.kind # "depth" => e.fn \in CallersIn(ss, Before(at, links, Len(links) + 1)),
         e.kind = "caller" => e.fn \notin {at} \cup {links[i].fn : i \in 1..Len(links)}
  PROVE  /\ CallPath(ss, at, Append(links, e))
         /\ e.kind = "caller" => Open(Append(links, e))
         /\ Before(at, Append(links, e), Len(Append(links, e)) + 1) = e.fn
<1> DEFINE n == Len(links)
           new == Append(links, e)
<1>1. /\ n \in Nat /\ Len(new) = n + 1 /\ new[n + 1] = e
      /\ \A i \in 1..n : new[i] = links[i]
  BY AppendKeeps
<1> HIDE DEF new
<1>2. ASSUME NEW k \in 1..n + 1 PROVE Before(at, new, k) = Before(at, links, k)
  <2>1. k # 1 => k - 1 \in 1..n
    BY <1>1
  <2> QED
    BY <1>1, <2>1 DEF Before
<1>3. ASSUME NEW k \in 1..n + 1
      PROVE  {Before(at, new, j) : j \in 1..k} = {Before(at, links, j) : j \in 1..k}
  <2>1. \A j \in 1..k : j \in 1..n + 1
    BY <1>1
  <2> QED
    BY <1>2, <2>1
<1>4. {Before(at, links, j) : j \in 1..n + 1} \subseteq {at} \cup {links[i].fn : i \in 1..n}
  <2> SUFFICES ASSUME NEW j \in 1..n + 1
               PROVE  Before(at, links, j) \in {at} \cup {links[i].fn : i \in 1..n}
    OBVIOUS
  <2>1. j # 1 => j - 1 \in 1..n
    BY <1>1
  <2> QED
    BY <2>1 DEF Before
<1>5. ASSUME NEW k \in 1..Len(new)
      PROVE  /\ new[k].kind # "depth" => new[k].fn \in CallersIn(ss, Before(at, new, k))
             /\ new[k].kind = "caller" => new[k].fn \notin {Before(at, new, j) : j \in 1..k}
             /\ new[k].kind # "caller" => k = Len(new)
  <2>0. k \in 1..n + 1
    BY <1>1
  <2>1. CASE k = n + 1
    <3>1. Before(at, new, k) = Before(at, links, n + 1)
      BY <1>2, <2>0, <2>1
    <3>2. {Before(at, new, j) : j \in 1..k} \subseteq {at} \cup {links[i].fn : i \in 1..n}
      BY <1>3, <1>4, <2>0, <2>1
    <3> QED
      BY <1>1, <2>1, <3>1, <3>2
  <2>2. CASE k # n + 1
    <3>1. k \in 1..n
      BY <1>1, <2>0, <2>2
    <3>2. new[k] = links[k] /\ links[k].kind = "caller"
      BY <1>1, <3>1 DEF Open
    <3>3. links[k].fn \in CallersIn(ss, Before(at, links, k))
          /\ links[k].fn \notin {Before(at, links, j) : j \in 1..k}
      BY <3>1, <3>2 DEF CallPath
    <3> QED
      BY <1>2, <1>3, <2>0, <3>2, <3>3
  <2> QED
    BY <2>1, <2>2
<1>6. e.kind = "caller" => Open(new)
  <2>1. \A k \in 1..Len(new) : k \in 1..n \/ k = n + 1
    BY <1>1
  <2> QED
    BY <1>1, <2>1 DEF Open
<1>7. Before(at, new, Len(new) + 1) = e.fn
  BY <1>1 DEF Before
<1> QED
  BY <1>5, <1>6, <1>7 DEF CallPath, new

LEMMA SeenByChain ==
  ChainSeen = {Finding.at} \cup {chain[i].fn : i \in 1..Len(chain)}
  BY DEF ChainSeen

\* The label of a finding is the same after every step that leaves the
\* repository and the finished walk alone.
LEMMA LabelStays ==
  ASSUME UNCHANGED <<sites, roots, visited, strong, flags, graded>>
  PROVE  AstLabel(Finding)' = AstLabel(Finding) /\ Finding' = Finding
  BY DEF AstLabel, Finding

LEMMA PathInvFollow ==
  ASSUME GradingInv, PathInv, FollowCaller PROVE PathInv'
<1>0. /\ UNCHANGED <<sites, roots, stack, visited, strong, expanded, flags, graded>>
      /\ current # WholeFile
  BY DEF FollowCaller, walkVars, NoChain
<1>1. PICK s \in CallersOutside(sites, current) :
        /\ s[1] \in Funcs \ ChainSeen
        /\ chain' = Append(chain, Link("caller", s[1]))
        /\ current' = s[1]
  BY DEF FollowCaller
<1> DEFINE at == Finding.at
           e == Link("caller", s[1])
<1>2. e \in LinkSet /\ e.fn = s[1] /\ e.kind = "caller"
  BY <1>1, LinksTyped DEF Scopes, Link
<1>3. chain \in Seq(LinkSet)
  BY DEF GradingInv, GradingTypeOK
<1>4. /\ AstLabel(Finding) = "cli-only" /\ CallPath(sites, at, chain) /\ Open(chain)
      /\ current = Before(at, chain, Len(chain) + 1)
  BY <1>0 DEF PathInv
<1>5. e.fn \in CallersIn(sites, current)
  BY <1>1, <1>2 DEF CallersIn
<1>6. e.fn \notin {at} \cup {chain[i].fn : i \in 1..Len(chain)}
  BY <1>1, <1>2, SeenByChain
<1> HIDE DEF e, at
<1>7. /\ CallPath(sites, at, Append(chain, e)) /\ Open(Append(chain, e))
      /\ Before(at, Append(chain, e), Len(Append(chain, e)) + 1) = e.fn
  BY <1>2, <1>3, <1>4, <1>5, <1>6, PathExtended
<1>8. chain' = Append(chain, e) /\ current' = e.fn
  BY <1>1, <1>2 DEF e
<1>9. AstLabel(Finding)' = "cli-only" /\ Finding'.at = at
  BY <1>0, <1>4, LabelStays DEF at
<1> QED
  BY <1>0, <1>7, <1>8, <1>9 DEF PathInv

LEMMA PathInvEnd ==
  ASSUME GradingInv, PathInv, ~NoChain, NEW links \in Seq(LinkSet), EndChain(links),
         CallPath(sites, Finding.at, chain \o links)
  PROVE  PathInv'
<1>1. /\ UNCHANGED <<sites>> /\ current' = WholeFile
      /\ graded' = Append(graded, [label |-> "cli-only", chain |-> chain \o links])
  BY DEF EndChain, walkVars
<1> DEFINE entry == [label |-> "cli-only", chain |-> chain \o links]
<1>2. chain \in Seq(LinkSet) /\ graded \in Seq([label : Labels, chain : Seq(LinkSet)])
  BY DEF GradingInv, GradingTypeOK
<1>3. entry \in [label : Labels, chain : Seq(LinkSet)] /\ entry.chain = chain \o links
  BY <1>2 DEF Labels
<1> HIDE DEF entry
<1>4. /\ Len(graded') = Len(graded) + 1 /\ Len(graded) \in Nat
      /\ \A i \in 1..Len(graded) : graded'[i] = graded[i]
      /\ graded'[Len(graded) + 1] = entry
  BY <1>1, <1>2, <1>3, AppendKeeps DEF entry
<1>5. ASSUME NEW i \in 1..Len(graded')
      PROVE  CallPath(sites, Findings[i].at, graded'[i].chain)
  <2>1. CASE i = Len(graded) + 1
    BY <1>3, <1>4, <2>1 DEF Finding
  <2>2. CASE i # Len(graded) + 1
    <3>1. i \in 1..Len(graded)
      BY <1>4, <2>2
    <3> QED
      BY <1>4, <3>1 DEF PathInv
  <2> QED
    BY <2>1, <2>2
<1> QED
  BY <1>1, <1>5 DEF PathInv

LEMMA PathInvStop ==
  ASSUME GradingInv, PathInv, StopAtCaller \/ StopAtDepth PROVE PathInv'
<1>1. ~NoChain /\ current # WholeFile
  BY DEF StopAtCaller, StopAtDepth, NoChain
<1>2. /\ CallPath(sites, Finding.at, chain) /\ Open(chain)
      /\ current = Before(Finding.at, chain, Len(chain) + 1)
  BY <1>1 DEF PathInv
<1>3. chain \in Seq(LinkSet)
  BY DEF GradingInv, GradingTypeOK
<1>4. ASSUME NEW kind \in {"module", "cycle", "depth"}, NEW fn \in Scopes,
             kind # "depth" => fn \in CallersIn(sites, current),
             EndChain(<<Link(kind, fn)>>)
      PROVE  PathInv'
  <2> DEFINE e == Link(kind, fn)
  <2>1. e \in LinkSet /\ e.fn = fn /\ e.kind = kind
    BY LinksTyped DEF Link
  <2>2. EndChain(<<e>>) /\ (e.kind # "depth" => e.fn \in CallersIn(sites, current))
        /\ e.kind # "caller"
    BY <1>4, <2>1
  <2> HIDE DEF e
  <2>3. CallPath(sites, Finding.at, Append(chain, e))
    BY <1>2, <1>3, <2>1, <2>2, PathExtended
  <2>4. Append(chain, e) = chain \o <<e>> /\ <<e>> \in Seq(LinkSet)
    BY <1>3, <2>1
  <2> QED
    BY <1>1, <2>2, <2>3, <2>4, PathInvEnd
<1>5. ASSUME EndChain(<<>>) PROVE PathInv'
  <2>1. chain \o <<>> = chain /\ <<>> \in Seq(LinkSet)
    BY <1>3, ConcatEmptySeq
  <2> QED
    BY <1>1, <1>2, <1>5, <2>1, PathInvEnd
<1>6. ASSUME NEW s \in CallersOutside(sites, current),
             \/ s[1] = ModuleLevel /\ EndChain(<<Link("module", ModuleLevel)>>)
             \/ EndChain(<<Link("cycle", s[1])>>)
      PROVE  PathInv'
  <2>1. s[1] \in Scopes
    BY DEF CallersOutside, GradingInv, GradingTypeOK, WalkTypeOK, Sites
  <2>2. s[1] \in CallersIn(sites, current)
    BY DEF CallersIn
  <2> QED
    BY <1>4, <1>6, <2>1, <2>2
<1>7. CASE StopAtDepth
  BY <1>4, <1>7, ModuleLevelUntouched DEF StopAtDepth
<1>8. CASE StopAtCaller
  BY <1>5, <1>6, <1>8 DEF StopAtCaller
<1> QED
  BY <1>7, <1>8

LEMMA PathInvOther ==
  ASSUME GradingInv, PathInv,
         \/ WalkNext /\ UNCHANGED gradeVars
         \/ GradeFinding \/ StartChain \/ UNCHANGED vars
  PROVE  PathInv'
<1>1. CASE WalkNext /\ UNCHANGED gradeVars
  <2>1. graded = <<>> /\ current = WholeFile
    BY <1>1 DEF WalkNext, WalkDone, GradingInv, ChainInv
  <2> QED
    BY <1>1, <2>1 DEF gradeVars, PathInv
<1>2. CASE GradeFinding
  <2> DEFINE entry == [label |-> PathFallback(Finding), chain |-> <<>>]
  <2>1. /\ graded' = Append(graded, entry) /\ current' = WholeFile /\ sites' = sites
    BY <1>2 DEF GradeFinding, Ready, NoChain, walkVars
  <2>2. Len(entry.chain) = 0
    OBVIOUS
  <2>3. graded \in Seq([label : Labels, chain : Seq(LinkSet)])
        /\ entry \in [label : Labels, chain : Seq(LinkSet)]
    BY DEF GradingInv, GradingTypeOK, PathFallback, AstLabel, Labels
  <2> HIDE DEF entry
  <2>4. /\ Len(graded') = Len(graded) + 1 /\ Len(graded) \in Nat
        /\ \A i \in 1..Len(graded) : graded'[i] = graded[i]
        /\ graded'[Len(graded) + 1] = entry
    BY <2>1, <2>3, AppendKeeps
  <2>5. ASSUME NEW i \in 1..Len(graded')
        PROVE  CallPath(sites, Findings[i].at, graded'[i].chain)
    <3>1. CASE i = Len(graded) + 1
      BY <2>2, <2>4, <3>1 DEF CallPath
    <3>2. CASE i # Len(graded) + 1
      <4>1. i \in 1..Len(graded)
        BY <2>4, <3>2
      <4> QED
        BY <2>4, <4>1 DEF PathInv
    <3> QED
      BY <3>1, <3>2
  <2> QED
    BY <2>1, <2>5 DEF PathInv
<1>3. CASE StartChain
  <2>1. /\ UNCHANGED <<sites, roots, visited, strong, flags, graded, chain>>
        /\ AstLabel(Finding) = "cli-only" /\ current' = Finding.at /\ chain = <<>>
    BY <1>3 DEF StartChain, Ready, NoChain, walkVars, GradingInv, ChainInv
  <2>2. AstLabel(Finding)' = "cli-only" /\ Finding' = Finding
    BY <2>1, LabelStays
  <2>3. /\ CallPath(sites, Finding.at, chain) /\ Open(chain)
        /\ Before(Finding.at, chain, Len(chain) + 1) = Finding.at
    BY <2>1 DEF CallPath, Open, Before
  <2> QED
    BY <2>1, <2>2, <2>3 DEF PathInv
<1>4. CASE UNCHANGED vars
  <2>1. UNCHANGED <<sites, roots, visited, strong, flags, graded, chain, current>>
    BY <1>4 DEF vars, walkVars, gradeVars
  <2>2. AstLabel(Finding)' = AstLabel(Finding) /\ Finding' = Finding
    BY <2>1, LabelStays
  <2> QED
    BY <2>1, <2>2 DEF PathInv
<1> QED
  BY <1>1, <1>2, <1>3, <1>4

LEMMA PathInvStep ==
  ASSUME GradingInv, PathInv, [GradingNext]_vars PROVE PathInv'
  BY PathInvFollow, PathInvStop, PathInvOther DEF GradingNext

LEMMA PathInvInit == GradingInit => PathInv
  BY DEF GradingInit, PathInv

LEMMA PathInvHolds == GradingSpec => [](GradingInv /\ PathInv)
  BY GradingInvInit, GradingInvStep, PathInvInit, PathInvStep, PTL DEF GradingSpec

(* The evidence of every grade is a real call path: each link calls the    *)
(* function before it, and no function occurs twice unless the chain ends  *)
(* there (caller_chain).                                                   *)
THEOREM EvidenceIsReal == GradingSpec => []EvidenceIsACallPath
<1>1. PathInv => EvidenceIsACallPath
  BY DEF PathInv, EvidenceIsACallPath, CallPath, CallersIn, Before
<1> QED
  BY <1>1, PathInvHolds, PTL

----------------------------------------------------------------------------
(* Grading implements the one-step verdicts of ReachabilityVerdict.        *)

(* Both modules name the same call graph.                                  *)
LEMMA SameGraph ==
  ASSUME NEW ss, NEW rs
  PROVE  /\ Promise!Reachable(ss, rs) = Reachable(ss, rs)
         /\ Promise!ExactlyReachable(ss, rs) = ExactlyReachable(ss, rs)
         /\ \A f : Promise!CallersOutside(ss, f) = CallersOutside(ss, f)
  BY DEF Promise!Reachable, Reachable, Promise!ExactlyReachable, ExactlyReachable,
         Promise!Closed, Closed, Promise!ExactClosed, ExactClosed,
         Promise!ExactCallees, ExactCallees, Promise!Callees, Callees,
         Promise!CalledIn, CalledIn, Promise!CallersOutside, CallersOutside

(* On the finished walk the label, with its fallback, is the verdict.      *)
LEMMA LabelIsVerdict ==
  ASSUME WalkInv, WalkDone, NEW x
  PROVE  PathFallback(x) = Promise!Verdict(x)
<1>1. visited = Reachable(sites, roots) /\ strong = ExactlyReachable(sites, roots)
  BY WalkInvAnswers DEF WalkCorrect
<1>2. visited = Promise!Reachable(sites, roots)
      /\ strong = Promise!ExactlyReachable(sites, roots)
      /\ CallersOutside(sites, x.at) = Promise!CallersOutside(sites, x.at)
  BY <1>1, SameGraph
<1>3. Promise!Located(x) <=> flags.hasTools /\ roots # {} /\ x.file \in Files /\ x.at \in Funcs
  BY DEF Promise!Located
<1>4. Promise!ToolReachable(x) <=> x.at \in visited /\ (x.file \in TestFiles => x.at \in strong)
  BY <1>2 DEF Promise!ToolReachable
<1>5. Promise!Decidable <=> ~flags.dynamic /\ ~flags.unrooted
  BY DEF Promise!Decidable
<1>6. Promise!HasCaller(x) <=> CallersOutside(sites, x.at) # {}
  BY <1>2 DEF Promise!HasCaller
<1>7. Promise!Verdict(x) =
        IF Promise!Located(x) /\ Promise!ToolReachable(x) THEN "reachable"
        ELSE IF Promise!Located(x) /\ Promise!Decidable /\ x.at \notin visited
        THEN IF Promise!HasCaller(x) THEN "cli-only" ELSE "uncalled"
        ELSE IF x.file \in TestFiles THEN "cli-only" ELSE "unknown"
  BY <1>2, <1>4 DEF Promise!Verdict
<1> QED
  BY <1>3, <1>4, <1>5, <1>6, <1>7 DEF PathFallback, AstLabel

(* Grading starts where the abstract specification starts.                 *)
LEMMA PromiseInit == GradingInit => Promise!VerdictInit
<1> SUFFICES ASSUME GradingInit PROVE Promise!VerdictInit
  OBVIOUS
<1>1. sites \in SUBSET Promise!Sites /\ roots \in SUBSET Funcs
  BY SitesAssumption DEF GradingInit, WalkInit, Promise!Sites, Sites, Promise!Scopes, Scopes
<1>2. VerdictsSoFar = <<>>
  BY DEF GradingInit, VerdictsSoFar
<1> QED
  BY <1>1, <1>2 DEF GradingInit, Promise!VerdictInit

(* A step that grades a finding with its verdict is the abstract step.     *)
LEMMA GradeIsVerdict ==
  ASSUME GradingInv, NEW label \in Labels, NEW links \in Seq(LinkSet),
         graded' = Append(graded, [label |-> label, chain |-> links]),
         label = Promise!Verdict(Finding), Len(graded) < Len(Findings),
         UNCHANGED <<sites, roots, flags>>
  PROVE  Promise!GiveVerdict
<1> DEFINE entry == [label |-> label, chain |-> links]
           old == VerdictsSoFar
           n == Len(graded)
<1>1. entry \in [label : Labels, chain : Seq(LinkSet)] /\ entry.label = label
  OBVIOUS
<1>2. graded \in Seq([label : Labels, chain : Seq(LinkSet)])
  BY DEF GradingInv, GradingTypeOK
<1> HIDE DEF entry
<1>3. /\ n \in Nat /\ Len(graded') = n + 1
      /\ \A i \in 1..n : graded'[i] = graded[i]
      /\ graded'[n + 1] = entry
  BY <1>1, <1>2, AppendKeeps DEF entry
<1>4. old = [i \in 1..n |-> graded[i].label]
  BY DEF VerdictsSoFar
<1>5. \A i \in 1..n : graded[i].label \in Labels
  <2> DEFINE Entries == [label : Labels, chain : Seq(LinkSet)]
  <2>0. graded \in Seq(Entries)
    BY <1>2
  <2>1. \A i \in 1..n : graded[i] \in Entries
    <3> HIDE DEF Entries
    <3> QED
      BY <2>0, ElementOfSeq
  <2>2. \A e \in Entries : e.label \in Labels
    OBVIOUS
  <2> HIDE DEF Entries
  <2> QED
    BY <2>1, <2>2
<1>6. old \in Seq(Labels) /\ Len(old) = n
  <2>1. old \in [1..n -> Labels]
    BY <1>4, <1>5
  <2>2. old \in Seq(Labels)
    BY <1>3, <2>1
  <2>3. DOMAIN old = 1..n
    BY <1>4
  <2>4. DOMAIN old = 1..Len(old) /\ Len(old) \in Nat
    <3> HIDE DEF old
    <3> QED
      BY <2>2, LenProperties, Zenon
  <2> HIDE DEF old, n
  <2> QED
    BY <1>3, <2>2, <2>3, <2>4
<1>7. VerdictsSoFar' = [i \in 1..n + 1 |-> IF i = n + 1 THEN label ELSE graded[i].label]
  <2>1. VerdictsSoFar' = [i \in 1..n + 1 |-> graded'[i].label]
    BY <1>3 DEF VerdictsSoFar
  <2>2. \A i \in 1..n + 1 :
          graded'[i].label = IF i = n + 1 THEN label ELSE graded[i].label
    <3> SUFFICES ASSUME NEW i \in 1..n + 1
                 PROVE  graded'[i].label = IF i = n + 1 THEN label ELSE graded[i].label
      OBVIOUS
    <3>1. i # n + 1 => i \in 1..n
      BY <1>3
    <3> QED
      BY <1>1, <1>3, <3>1
  <2> QED
    BY <2>1, <2>2
<1>8. Append(old, label) = [i \in 1..n + 1 |-> IF i = n + 1 THEN label ELSE graded[i].label]
  <2>1. \A i \in 1..n : old[i] = graded[i].label
    BY <1>4
  <2> HIDE DEF old
  <2>2. Append(old, label) \in Seq(Labels) /\ Len(Append(old, label)) = n + 1
        /\ \A i \in 1..n : Append(old, label)[i] = old[i]
        /\ Append(old, label)[n + 1] = label
    BY <1>6, AppendKeeps
  <2>3. Append(old, label) = [i \in 1..n + 1 |-> Append(old, label)[i]]
    <3> DEFINE longer == Append(old, label)
    <3>1. longer \in Seq(Labels) /\ Len(longer) = n + 1
      BY <2>2
    <3> HIDE DEF longer
    <3>2. longer \in [1..n + 1 -> Labels]
      BY <3>1, LenProperties
    <3>3. longer = [i \in 1..n + 1 |-> longer[i]]
      BY <3>2
    <3> QED
      BY <3>3 DEF longer
  <2>4. \A i \in 1..n + 1 :
          Append(old, label)[i] = IF i = n + 1 THEN label ELSE graded[i].label
    <3> SUFFICES ASSUME NEW i \in 1..n + 1
                 PROVE  Append(old, label)[i] = IF i = n + 1 THEN label ELSE graded[i].label
      OBVIOUS
    <3>1. i # n + 1 => i \in 1..n
      BY <1>3
    <3> QED
      BY <2>1, <2>2, <3>1
  <2> QED
    BY <2>3, <2>4
<1> QED
  BY <1>6, <1>7, <1>8 DEF Promise!GiveVerdict, Finding

LEMMA PromiseStep ==
  ASSUME GradingInv, PathInv, [GradingNext]_vars
  PROVE  [Promise!GiveVerdict]_(Promise!verdictVars)
<1>1. ASSUME UNCHANGED <<sites, roots, flags, graded>>
      PROVE  UNCHANGED Promise!verdictVars
  BY <1>1 DEF Promise!verdictVars, VerdictsSoFar
<1>2. CASE GradeFinding
  <2>1. /\ WalkDone /\ Len(graded) < Len(Findings)
        /\ graded' = Append(graded, [label |-> PathFallback(Finding), chain |-> <<>>])
        /\ UNCHANGED <<sites, roots, flags>>
    BY <1>2 DEF GradeFinding, Ready, walkVars
  <2>2. PathFallback(Finding) = Promise!Verdict(Finding)
    BY <2>1, LabelIsVerdict DEF GradingInv
  <2>3. PathFallback(Finding) \in Labels /\ <<>> \in Seq(LinkSet)
    BY DEF PathFallback, AstLabel, Labels
  <2> QED
    BY <2>1, <2>2, <2>3, GradeIsVerdict
<1>3. ASSUME NEW links \in Seq(LinkSet), ~NoChain, EndChain(links)
      PROVE  Promise!GiveVerdict
  <2>1. /\ graded' = Append(graded, [label |-> "cli-only", chain |-> chain \o links])
        /\ UNCHANGED <<sites, roots, flags>>
    BY <1>3 DEF EndChain, walkVars
  <2>2. WalkDone /\ Len(graded) < Len(Findings) /\ AstLabel(Finding) = "cli-only"
    BY <1>3 DEF NoChain, GradingInv, ChainInv, PathInv
  <2>3. PathFallback(Finding) = "cli-only"
    BY <2>2 DEF PathFallback
  <2>4. "cli-only" = Promise!Verdict(Finding)
    BY <2>2, <2>3, LabelIsVerdict DEF GradingInv
  <2>5. chain \o links \in Seq(LinkSet) /\ "cli-only" \in Labels
    BY ConcatProperties DEF GradingInv, GradingTypeOK, Labels
  <2> QED
    BY <2>1, <2>2, <2>4, <2>5, GradeIsVerdict
<1>4. CASE StopAtDepth
  <2>1. <<Link("depth", ModuleLevel)>> \in Seq(LinkSet)
    BY LinksTyped, ModuleLevelUntouched
  <2> QED
    BY <1>3, <1>4, <2>1 DEF StopAtDepth
<1>5. CASE StopAtCaller
  <2>1. <<>> \in Seq(LinkSet) /\ <<Link("module", ModuleLevel)>> \in Seq(LinkSet)
    BY LinksTyped, ModuleLevelUntouched
  <2>2. \A s \in CallersOutside(sites, current) : <<Link("cycle", s[1])>> \in Seq(LinkSet)
    <3> SUFFICES ASSUME NEW s \in CallersOutside(sites, current)
                 PROVE  <<Link("cycle", s[1])>> \in Seq(LinkSet)
      OBVIOUS
    <3>1. s[1] \in Scopes
      BY DEF CallersOutside, GradingInv, GradingTypeOK, WalkTypeOK, Sites
    <3> QED
      BY <3>1, LinksTyped
  <2> QED
    BY <1>3, <1>5, <2>1, <2>2 DEF StopAtCaller
<1>6. CASE WalkNext /\ UNCHANGED gradeVars
  BY <1>1, <1>6 DEF WalkNext, Skip, Expand, gradeVars
<1>7. CASE StartChain \/ FollowCaller
  BY <1>1, <1>7 DEF StartChain, FollowCaller, walkVars
<1>8. CASE UNCHANGED vars
  BY <1>1, <1>8 DEF vars, walkVars, gradeVars
<1> QED
  BY <1>2, <1>4, <1>5, <1>6, <1>7, <1>8 DEF GradingNext

(* The grades are the promised verdicts, given one by one and in order:    *)
(* the walk, the fallback and the chains implement ReachabilityVerdict     *)
(* step by step (the safety part of GradesAsPromised; grade_result).       *)
THEOREM GradingImplementsVerdicts ==
  GradingSpec => Promise!VerdictInit /\ [][Promise!GiveVerdict]_(Promise!verdictVars)
  BY PromiseInit, PromiseStep, PathInvHolds, PTL DEF GradingSpec
=============================================================================
