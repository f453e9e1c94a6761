-------------------------- MODULE DispatchSegments --------------------------
(***************************************************************************)
(* tool_registry.dispatch_segments: how the body of a low-level call_tool  *)
(* handler is divided among the tools it serves, by the if/elif chain that *)
(* compares one expression with the tools' names.  Two detectors read the  *)
(* segments: tool_scope_creep and secret_leak_response.                    *)
(*                                                                         *)
(* A statement of the handler is a chain of links with an else; one that   *)
(* is no "if" has no links, and its text is the else.  What stands inside  *)
(* a branch, nested ifs included, is one block.                            *)
(***************************************************************************)
EXTENDS Naturals, FiniteSets, Sequences

CONSTANTS
  Blocks,       (* pieces of the handler's text                            *)
  Subjects,     (* expressions that are compared with a literal            *)
  FirstParam,   (* the handler's first parameter, one of the subjects or
                   NoSubject                                               *)
  Literals,     (* the literals: names of tools, among others              *)
  NoSubject,    (* a test that is not <expr> == "literal"                  *)
  NoTool,       (* a segment that cannot be attributed to one tool         *)
  NoBlock       (* no else                                                 *)

ASSUME DispatchAssumption ==
  /\ FirstParam \in Subjects \cup {NoSubject}
  /\ NoSubject \notin Subjects
  /\ NoTool \notin Literals
  /\ NoBlock \notin Blocks

Link == [subject : Subjects, literal : Literals, block : Blocks]
          \cup [subject : {NoSubject}, literal : {NoTool}, block : Blocks]
Statement == [links : Seq(Link), orelse : Blocks \cup {NoBlock}]

BlocksOf(s) == ({s.links[k].block : k \in DOMAIN s.links} \cup {s.orelse}) \ {NoBlock}

----------------------------------------------------------------------------
\* The top-level ifs of a handler whose test is a plain comparison.
Candidates(h) == {i \in DOMAIN h : h[i].links # <<>> /\ h[i].links[1].subject # NoSubject}

First(S) == CHOOSE i \in S : \A j \in S : i <= j

\* The dispatch chain: the first candidate that compares the handler's
\* first parameter, else the first one; 0 if there is none.
FindDispatchChain(h) ==
  LET onParam == {i \in Candidates(h) : h[i].links[1].subject = FirstParam}
  IN  CASE Candidates(h) = {} -> 0
        [] onParam # {}       -> First(onParam)
        [] OTHER              -> First(Candidates(h))

\* A link names its literal as long as it and all before it compare the
\* subject of the first link.
LinkTool(links, k) ==
  IF \A j \in 1..k : links[j].subject = links[1].subject THEN links[k].literal ELSE NoTool

Segment(tool, blocks, shared) ==
  IF blocks = {} THEN <<>> ELSE <<[tool |-> tool, blocks |-> blocks, shared |-> shared]>>

\* The segments, in order: what precedes the chain (shared by all of its
\* branches), the links, the else, what follows.
Segments(h) ==
  LET d     == FindDispatchChain(h)
      Text(I) == UNION {BlocksOf(h[i]) : i \in I}
  IN  IF d = 0
      THEN <<[tool |-> NoTool, blocks |-> Text(DOMAIN h), shared |-> FALSE]>>
      ELSE Segment(NoTool, Text(1..(d - 1)), TRUE)
             \o [k \in DOMAIN h[d].links |->
                   [tool |-> LinkTool(h[d].links, k), blocks |-> {h[d].links[k].block},
                    shared |-> FALSE]]
             \o Segment(NoTool, {h[d].orelse} \ {NoBlock}, FALSE)
             \o Segment(NoTool, Text((d + 1)..Len(h)), FALSE)

----------------------------------------------------------------------------
(* What a call of the handler executes, given the values of the subjects.  *)

MayHold(link, env) == link.subject = NoSubject \/ env[link.subject] = link.literal
MustHold(link, env) == link.subject # NoSubject /\ env[link.subject] = link.literal

\* The blocks of a statement one of which may be executed.
Enterable(s, env) ==
  {s.links[k].block : k \in {k \in DOMAIN s.links :
       MayHold(s.links[k], env) /\ \A j \in 1..(k - 1) : ~MustHold(s.links[j], env)}}
    \cup (IF \E k \in DOMAIN s.links : MustHold(s.links[k], env) THEN {} ELSE {s.orelse})

\* The executions: which block of each statement is executed.
Paths(h, env) ==
  {path \in [DOMAIN h -> Blocks \cup {NoBlock}] : \A i \in DOMAIN h : path[i] \in Enterable(h[i], env)}

\* A piece of the text stands in one place.
OnePlaceEach(h) ==
  /\ \A i, j \in DOMAIN h : i # j => BlocksOf(h[i]) \cap BlocksOf(h[j]) = {}
  /\ \A i \in DOMAIN h : \A k \in DOMAIN h[i].links :
       /\ h[i].links[k].block # h[i].orelse
       /\ \A j \in DOMAIN h[i].links : j # k => h[i].links[j].block # h[i].links[k].block

\* What the segments may be named after: the first parameter, which holds the
\* tool's name, wherever a top-level if compares that; without such an if
\* whatever the handler compares, which is a heuristic of the code.
Discriminants(h) ==
  LET compared == {h[j].links[1].subject : j \in Candidates(h)}
  IN  IF FirstParam \in compared THEN {FirstParam} ELSE compared

\* A segment that names a tool runs only in calls for which one of these
\* expressions equals that name.
AttributedRightly(h, segment) ==
  segment.tool # NoTool =>
    \E subject \in Discriminants(h) :
      \A env \in [Subjects -> Literals], i \in DOMAIN h :
        Enterable(h[i], env) \cap segment.blocks # {} => env[subject] = segment.tool
=============================================================================
