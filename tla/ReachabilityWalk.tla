-------------------------- MODULE ReachabilityWalk --------------------------
(***************************************************************************)
(* CallGraph.reachable_from_graded: the worklist that computes which       *)
(* functions are reachable from the registered tool handlers, and which of *)
(* them by a path of exactly resolved (same-file) edges only.              *)
(*                                                                         *)
(* The stack is a set of pending <<function, strong>> items and any of     *)
(* them may be popped: the code's LIFO order is one of the orders, and a   *)
(* second copy of an item is one that Skip discards.  sites and roots are  *)
(* the repository under scan; they never change.                           *)
(***************************************************************************)
EXTENDS CallGraph

CONSTANT PossibleSites  (* bound: the call sites that may be present        *)

ASSUME SitesAssumption == PossibleSites \subseteq Sites

VARIABLES
  sites,     (* call sites of the repository                               *)
  roots,     (* handler nodes of the registered tools                      *)
  stack,     (* pending <<function, reached by an all-exact path>>         *)
  visited,   (* reached by any path                                        *)
  strong,    (* reached by an all-exact path                               *)
  expanded   (* history: how often each function's body has been walked    *)

walkVars == <<sites, roots, stack, visited, strong, expanded>>

WalkInit ==
  /\ sites \in SUBSET PossibleSites
  /\ roots \in SUBSET Funcs
  /\ stack = roots \X {TRUE}
  /\ visited = {}
  /\ strong = {}
  /\ expanded = [f \in Funcs |-> 0]

\* Bug variant: a weak visit blocks the strong one.
SeenAtAnyStrength(item) == item[1] \in visited

\* The item was expanded before, at this strength or (weak item) at any.
Seen(item) == IF item[2] THEN item[1] \in strong ELSE item[1] \in visited

\* The edges out of f pushed after f is marked: an edge is strong when f was
\* popped strong and the callee is in f's file; callees already marked at
\* that strength are not pushed.
Pushes(f, isStrong, vis, str) ==
  LET exact == IF isStrong THEN ExactCallees(sites, f) ELSE {}
      weak  == Callees(sites, f) \ exact
  IN  ((exact \ str) \X {TRUE}) \cup ((weak \ vis) \X {FALSE})

Skip(item) ==
  /\ Seen(item)
  /\ stack' = stack \ {item}
  /\ UNCHANGED <<sites, roots, visited, strong, expanded>>

Expand(item) ==
  /\ ~Seen(item)
  /\ strong'  = IF item[2] THEN strong \cup {item[1]} ELSE strong
  /\ visited' = visited \cup {item[1]}
  /\ stack' = (stack \ {item}) \cup Pushes(item[1], item[2], visited', strong')
  /\ expanded' = [expanded EXCEPT ![item[1]] = @ + 1]
  /\ UNCHANGED <<sites, roots>>

WalkNext == \E item \in stack : Skip(item) \/ Expand(item)

WalkDone == stack = {}

\* The walk stops only when the worklist is empty, so the spec allows it to.
WalkSpec == WalkInit /\ [][WalkNext]_walkVars /\ WF_walkVars(WalkNext)

----------------------------------------------------------------------------
WalkTypeOK ==
  /\ sites \subseteq Sites
  /\ roots \subseteq Funcs
  /\ stack \subseteq Funcs \X BOOLEAN
  /\ visited \subseteq Funcs
  /\ strong \subseteq Funcs
  /\ expanded \in [Funcs -> Nat]

(* When the walk ends it has computed exactly the two least closed sets:   *)
(* nothing reachable is missed whatever order items are popped in, and no  *)
(* weak edge has leaked into the strong set (reachable_from_graded).       *)
WalkCorrect ==
  WalkDone => /\ visited = Reachable(sites, roots)
              /\ strong = ExactlyReachable(sites, roots)

(* Each function is expanded at most twice (once per flag), the bound the  *)
(* comment in reachable_from_graded claims for the re-expansion.           *)
ExpandedAtMostTwice == \A f \in Funcs : expanded[f] <= 2

(* Whatever calls an unreached function is itself unreached: the premise   *)
(* on which callers_outside calls every caller it finds non-tool-descended.*)
CallersOfUnreachedAreUnreached ==
  WalkDone => \A f \in Funcs \ visited : \A s \in CallersOutside(sites, f) :
                Encl[s[1]] \cap visited = {}
=============================================================================
