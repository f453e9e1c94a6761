---------------------------- MODULE ToolRegistry ----------------------------
(***************************************************************************)
(* tool_registry.extract_tool_registry: the registrations of MCP tools in  *)
(* a repository and the functions they are rooted at.  Its result is what  *)
(* reachability.grade_result starts from: the roots of the walk, whether   *)
(* there are tools at all and whether some Python tool has no root.        *)
(*                                                                         *)
(* Each registration is modelled together with the function that runs when *)
(* the tool is called, which the extraction does not know: it reads names. *)
(* What a name denotes is decided by the bindings of its file.             *)
(***************************************************************************)
EXTENDS CallGraph

CONSTANTS
  NoNode,           (* no function: node=None                              *)
  JsFiles,          (* JS/TS files, known by their text only               *)
  Manifest,         (* server.json                                         *)
  TestFiles,        (* files at a test/spec/fixture path                   *)
  PossibleSites,    (* call sites that may be present in the repository    *)
  PossibleImports,  (* which of the packages below each file may import    *)
  PossibleDecos,    (* which decorators each function may have             *)
  PossibleCalls,    (* calls x.tool(handler, ...), as Call records         *)
  PossibleTools,    (* constructions Tool(...), as Construction records    *)
  PossibleBindings, (* names that a file binds other than by def: imports,
                       assignments, parameters, as Binding records         *)
  Methods           (* functions that their bare name does not denote      *)

Packages == {"mcp", "fastmcp"}
Call == [file : Files, arg : Names \cup {NoNode}, runs : Funcs \cup {NoNode}]
Construction == [file : Files, nr : Nat, runs : Funcs \cup {NoNode}]
Binding == [file : Files, name : Names, to : Funcs \cup {NoNode}]
Decorators == {"tool", "call_tool"}

ASSUME RegistryAssumption ==
  /\ NoNode \notin Funcs \cup Names
  /\ JsFiles \cap Files = {}
  /\ PossibleSites \subseteq Sites
  /\ PossibleImports \subseteq [Files -> SUBSET Packages]
  /\ PossibleDecos \subseteq [Funcs -> SUBSET Decorators]
  /\ PossibleCalls \subseteq Call
  /\ PossibleTools \subseteq Construction
  /\ PossibleBindings \subseteq Binding
  /\ Methods \subseteq Funcs

VARIABLES
  program,   (* the repository: imports of each file, decorators of each
                function, calls, constructions, other bindings, whether a
                call cannot be resolved, JS files and manifest that declare
                tools                                                      *)
  sites,     (* its call sites                                             *)
  todo,      (* extraction steps left, as <<step, file>>                   *)
  registry   (* the registrations found so far                             *)

vars == <<program, sites, todo, registry>>

Registration(source, f, handler, node, runs) ==
  [source |-> source, file |-> f, handler |-> handler, node |-> node, runs |-> runs]

----------------------------------------------------------------------------
DefsOf(f, n) == {g \in Funcs : FileOf[g] = f /\ NameOf[g] = n}

Dispatchers(f) == {g \in Funcs : FileOf[g] = f /\ "call_tool" \in program.deco[g]}

\* What the name n may denote in file f when the program runs.
Denotations(f, n) ==
  (DefsOf(f, n) \ Methods) \cup {b.to : b \in {b \in program.bound : b.file = f /\ b.name = n}}

\* Bug variant: with several candidates the first one found is taken.
RootAmongFirst(S) == IF S # {} THEN CHOOSE g \in S : TRUE ELSE NoNode

\* Never guess a root: none or several candidates claim none.
RootAmong(S) == IF \E g \in S : S = {g} THEN CHOOSE g \in S : TRUE ELSE NoNode

\* @x.tool / @x.tool(...)
Decorated(f) ==
  {Registration("py-decorator", f, NameOf[g], g, g) :
     g \in {g \in Funcs : FileOf[g] = f /\ "tool" \in program.deco[g]}}

\* x.tool(handler, ...) in a file that imports mcp or fastmcp; the handler
\* is a name (arg) or some other expression (NoNode).
ByCall(f) ==
  {Registration("py-call", f, c.arg, RootAmong(DefsOf(f, c.arg)), c.runs) :
     c \in {c \in program.calls : c.file = f /\ program.imports[f] # {}}}

\* Tool(...) in a file that imports mcp, served by a @x.call_tool function.
\* The field handler repeats the root's name.
LowLevel(f) ==
  {Registration("py-lowlevel-sdk", f, NoNode, RootAmong(Dispatchers(f)), c.runs) :
     c \in {c \in program.tools : c.file = f /\ "mcp" \in program.imports[f]}}

\* JS and manifest registrations never have a root, nor a Python function
\* that runs: what a manifest declares is taken to be one of the others.
Rootless(source, f) == {Registration(source, f, NoNode, NoNode, NoNode)}

----------------------------------------------------------------------------
Steps == ({"file"} \X (Files \cup JsFiles)) \cup ({"low-level"} \X Files)
           \cup {<<"manifest", Manifest>>}

Init ==
  /\ program \in [imports : PossibleImports, deco : PossibleDecos,
               calls : SUBSET PossibleCalls, tools : SUBSET PossibleTools,
               bound : SUBSET PossibleBindings, dynamic : BOOLEAN,
               declaring : SUBSET (JsFiles \cup {Manifest})]
  /\ \A c \in program.calls : c.arg # NoNode => c.runs \in Denotations(c.file, c.arg)
  /\ sites \in SUBSET PossibleSites
  /\ todo = Steps
  /\ registry = {}

\* First sweep: the decorators and calls of a Python file, ...
ExtractFile(f) ==
  /\ <<"file", f>> \in todo
  /\ todo' = todo \ {<<"file", f>>}
  /\ registry' = registry \cup Decorated(f) \cup ByCall(f)
  /\ UNCHANGED <<program, sites>>

\* ... or the idioms of a JS file.
ExtractJs(f) ==
  /\ <<"file", f>> \in todo
  /\ todo' = todo \ {<<"file", f>>}
  /\ registry' = registry \cup (IF f \in program.declaring THEN Rootless("js-regex", f) ELSE {})
  /\ UNCHANGED <<program, sites>>

\* Second sweep, when the first is over.
ExtractLowLevel(f) ==
  /\ <<"low-level", f>> \in todo
  /\ \A step \in todo : step[1] # "file"
  /\ todo' = todo \ {<<"low-level", f>>}
  /\ registry' = registry \cup LowLevel(f)
  /\ UNCHANGED <<program, sites>>

ExtractManifest ==
  /\ todo = {<<"manifest", Manifest>>}
  /\ todo' = {}
  /\ registry' = registry \cup
       (IF Manifest \in program.declaring THEN Rootless("manifest", Manifest) ELSE {})
  /\ UNCHANGED <<program, sites>>

Next ==
  \/ \E f \in Files : ExtractFile(f) \/ ExtractLowLevel(f)
  \/ \E f \in JsFiles : ExtractJs(f)
  \/ ExtractManifest

Spec == Init /\ [][Next]_vars

----------------------------------------------------------------------------
(* What reachability.grade_result makes of the registry.                   *)

Roots == {r.node : r \in registry} \ {NoNode}

\* Bug variant: only the low-level SDK may leave a tool without a root.
UnrootedLowLevelOnly == \E r \in registry : r.node = NoNode /\ r.source = "py-lowlevel-sdk"

Unrooted == \E r \in registry : r.node = NoNode /\ r.source \in {"py-lowlevel-sdk", "py-call"}

Flags == [hasTools |-> registry # {}, unrooted |-> Unrooted, dynamic |-> program.dynamic]

Grade == INSTANCE ReachabilityVerdict
           WITH roots <- Roots, flags <- Flags, verdicts <- <<>>,
                Findings <- <<>>, WholeFile <- NoNode

----------------------------------------------------------------------------
TypeOK ==
  /\ program \in [imports : [Files -> SUBSET Packages], deco : [Funcs -> SUBSET Decorators],
               calls : SUBSET PossibleCalls, tools : SUBSET PossibleTools,
               bound : SUBSET PossibleBindings, dynamic : BOOLEAN,
               declaring : SUBSET (JsFiles \cup {Manifest})]
  /\ sites \subseteq Sites
  /\ todo \subseteq Steps
  /\ registry \subseteq
       [source : {"py-decorator", "py-call", "py-lowlevel-sdk", "js-regex", "manifest"},
        file : Files \cup JsFiles \cup {Manifest}, handler : Names \cup {NoNode},
        node : Funcs \cup {NoNode}, runs : Funcs \cup {NoNode}]

\* The registry looks for the code of a tool in the file of its registration.
\* It is there if the file binds the handler's name by definitions only, and
\* if a file that has dispatchers declares the tools of one of these.
HandledHere(r) ==
  CASE r.source = "py-call" /\ r.handler # NoNode ->
         Denotations(r.file, r.handler) \subseteq DefsOf(r.file, r.handler)
    [] r.source = "py-lowlevel-sdk" /\ Dispatchers(r.file) # {} -> r.runs \in Dispatchers(r.file)
    [] OTHER -> TRUE

\* The functions behind the tools of which this holds.
RunAsTools == {r.runs : r \in {r \in registry : HandledHere(r)}} \ {NoNode}

(* Code that a registered tool reaches is never graded down to CLI_ONLY or *)
(* UNCALLED outside of test files: of several definitions none is taken    *)
(* for the handler, and whichever registration the registry could not root,*)
(* the downgrade is withheld (grade_result, "soundness over decidability").*)
(* It speaks of the tools that are HandledHere, whatever else the          *)
(* repository registers: a name that an import or an assignment binds too  *)
(* is taken for the one definition that the file has.                      *)
NoDowngradeOfToolCode ==
  \A f \in Reachable(sites, RunAsTools) :
    FileOf[f] \notin TestFiles =>
      Grade!Verdict([file |-> FileOf[f], at |-> f]) \notin {"cli-only", "uncalled"}
=============================================================================
