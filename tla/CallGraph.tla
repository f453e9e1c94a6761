----------------------------- MODULE CallGraph -----------------------------
(***************************************************************************)
(* The static call graph of a scanned repository, as the class CallGraph   *)
(* of mcp_scanner/reachability.py indexes it: functions, the file and the  *)
(* short name of each, and the call sites found in their bodies.  A call   *)
(* site is <<scope, short>>: the innermost function it sits in (or         *)
(* ModuleLevel) and the last component of the called dotted name.          *)
(*                                                                         *)
(* Lines and spans are abstracted to lexical nesting: Encl[s] is the set   *)
(* of functions whose span contains a line of the scope s.                 *)
(***************************************************************************)
EXTENDS Naturals, FiniteSets

CONSTANTS
  Funcs,        (* function definitions (AST nodes) of the repository      *)
  Files,        (* files that were parsed to an AST                        *)
  Names,        (* short names that occur at call sites or definitions     *)
  ModuleLevel,  (* the scope of code outside every function                *)
  NameOf,       (* the name each function is defined under                 *)
  FileOf,       (* the file each function lives in                         *)
  Encl          (* per scope, the functions whose span contains it         *)

Scopes == Funcs \cup {ModuleLevel}

ASSUME GraphAssumption ==
  /\ ModuleLevel \notin Funcs
  /\ NameOf \in [Funcs -> Names]
  /\ FileOf \in [Funcs -> Files]
  /\ Encl \in [Scopes -> SUBSET Funcs]

\* A function's span contains its own body, nothing contains module-level
\* code, and spans nest.
ASSUME NestingAssumption ==
  /\ Encl[ModuleLevel] = {}
  /\ \A f \in Funcs : f \in Encl[f] /\ Encl[f] \subseteq {g \in Funcs : FileOf[g] = FileOf[f]}
  /\ \A f \in Funcs : \A g \in Encl[f] : Encl[g] \subseteq Encl[f]

Sites == Scopes \X Names

----------------------------------------------------------------------------
\* Bug variant: calls in nested definitions are overlooked.
CalledInOwnScope(sites, f) == {s[2] : s \in {t \in sites : t[1] = f}}

\* ast.walk(node) visits the whole body, nested definitions included, so the
\* names called in f are those of every site whose scope lies within f.
CalledIn(sites, f) == {s[2] : s \in {t \in sites : f \in Encl[t[1]]}}

\* Every repo-wide function of a called name is a candidate callee.
Callees(sites, f) == {g \in Funcs : NameOf[g] \in CalledIn(sites, f)}

\* Exactly resolved edges: the callee lives in the caller's own file.
ExactCallees(sites, f) == {g \in Callees(sites, f) : FileOf[g] = FileOf[f]}

\* Call sites that invoke f by name, except those lexically inside f.
CallersOutside(sites, f) ==
  {s \in sites : s[2] = NameOf[f] /\ f \notin Encl[s[1]]}

----------------------------------------------------------------------------
(* Reference definitions: the least sets closed under the two edge kinds,  *)
(* that is, the functions no closed set of functions with the roots avoids.*)

Closed(sites, S) == \A f \in S : Callees(sites, f) \subseteq S

ExactClosed(sites, S) == \A f \in S : ExactCallees(sites, f) \subseteq S

Reachable(sites, roots) ==
  {f \in Funcs : \A S \in SUBSET (Funcs \ {f}) :
                   roots \subseteq S => ~Closed(sites, S)}

ExactlyReachable(sites, roots) ==
  {f \in Funcs : \A S \in SUBSET (Funcs \ {f}) :
                   roots \subseteq S => ~ExactClosed(sites, S)}
=============================================================================
