# A specification of mcp-security-scanner

TLA+ modules, TLC configurations and TLAPS proofs for the core of
`mcp_scanner`, a static scanner for MCP servers.  The scanner's promise is that
it *labels* and never hides: a finding once reported stays in the report, the
precision passes may move its confidence, and nothing a registered tool can
reach may slip past the build gate.  The same holds inside the detectors that
weigh signs against a finding: a gate, a test path or a comment may lower or
withdraw a finding only where the sign really belongs to it.  The modules state
what that promise consists of and check it against the code, pass by pass.

## The system

| part (source) | state it keeps | operations | what makes it correct |
|---|---|---|---|
| tool registry (`tool_registry.py`) | list of registrations, some with a root function | four extractors, manifest, `dispatch_segments` | no root guessed among several definitions; a tool without root is declared as such |
| call graph, reachability (`reachability.py`) | function and call-site indexes, worklist, two reached sets | `reachable_from_graded`, `callers_outside`, `caller_chain`, `_grade_one` | exact closures; no downgrade where a path could be hidden; evidence is real |
| taint engine (`taint.py`) | worklist with budget, merged seeds, entered functions | `propagate`, `_resolve_callee`, `_grade_one` | hop budget respected and used; completeness in a file; ends |
| pipeline (`scanner.py`, `grading.py`, `models.py`) | context, findings, errors, coverage | read, detect, three guarded passes | crash isolation; nothing dropped; cap in scope |
| gate (`cli.py`) | none | `_exit_code` | tool-reachable findings always count |
| tool-scope creep (`detectors/tool_scope_creep.py`) | sink names and receivers of each file, function index | resolve a call, inspect a function, a segment, a JS window | no credit without a gate; no mutation in sight goes unreported |
| secret handling (`detectors/secret_handling.py`) | key pairs found, copies seen | tracked files, literals, logging | signs demote, never silence; each demotion has its sign |
| secret-leak response (`detectors/secret_leak_response.py`) | resolved literals, brace depth | return statements of tools and segments, JS windows | every returned secret told, under a tool that returns it |
| parameter injection (`detectors/param_injection.py`) | import aliases and proven HTTP clients of a file, JS scopes | check a call, scan a JS file | no request invented, none lost, severity independent of names; in JS only matches of regular expressions are silent |
| other detectors (`job_hazards.py`, `auth_posture.py`, `codegen_injection.py`) | none across lines | `run` | patterns, one finding at a time |
| identity and triage (`finding_identity.py`, `report_generator.py`) | ids, `triage.toml` | assign ids, join, top risks | unique ids; verdicts and annotations not lost |
| ecosystem scan (`ecosystem_scan.py`) | scratch clones, artifact directory | resolve, scan, write | artifacts consistent over failures, kills and re-runs |
| rendering, watch, scripts (`reporting.py`, `client_report.py`, `watch_summary.py`, `scripts/`, `action/`) | none | format, summarise | plain formatting |

The interaction is a pipeline: `build_context` feeds the detectors (two of which
share `dispatch_segments` of the tool registry, and none of which sees what another
found), their findings go through reachability, taint and honesty in that order (each pass
recomputes registry and call graph for itself and is guarded by an `except
Exception`), `to_dict` orders them and assigns ids, and the report generator
joins a scan with human annotations from an earlier scan.  The ecosystem scan
runs the pipeline over a target list and keeps clones and artifacts on disk.

There are no threads.  What is hard is order and partial failure: the order in
which worklists meet nodes, passes that crash half-way, verdicts of one pass read
by the next, artifacts of a killed run, identities that must survive edits; and, in
the detectors, resolution steps whose order decides which code is looked at, and
loops over text that carry state from line to line.
`PROJECT.json` lists these hazards at the lines where they bite.

## Modules

* **CallGraph** - the index built by `CallGraph.__init__` as constants and
  operators.  Lines and spans are abstracted to lexical nesting (`Encl`); a call
  site is the innermost scope it lies in and the called short name, which is all
  `enclosing_function`, `reachable_from_graded` and `callers_outside` use.
  `Reachable` and `ExactlyReachable` are reference definitions: least sets closed
  under all edges, and under same-file edges.
* **ReachabilityWalk** - the worklist of `reachable_from_graded`.  `Skip` is the
  `continue` on a seen item, `Expand` marks a node and pushes its callees with
  the strength of the edge.  The repository (sites and roots) is chosen in
  `WalkInit`.  The stack is a *set* and any item may be popped: LIFO is one of the
  orders, so what holds here holds for the code's, and a duplicate on the code's
  stack is one that `Skip` would drop.
* **ReachabilityVerdict** - the abstract specification of the axis: verdicts are
  given in order and are a function of the repository alone.
* **ReachabilityGrading** - `grade_result`, `_grade_one`, `_grade_ast` and
  `caller_chain` on top of the walk, with one step per hop of a chain.  The code
  follows `sites[0]`; the model follows any caller.  `GradesAsPromised` is the
  refinement of ReachabilityVerdict under the mapping `VerdictsSoFar`.
* **TaintPropagation** - `TaintEngine.propagate` with the real LIFO stack,
  budgets, merged seeds and callee resolution (same file first and exclusive,
  then from-imports and dotted calls).  A call site carries `feeds`: which
  parameter of the caller taints which parameter of the callee.  This replaces
  `_expr_tainted` and the local fixpoint, which distribute over unions of tainted
  names.
* **ScanPipeline** - `build_context`, `scan_repo`, the relabelling of the three
  passes, cap and coverage of `grading.py`, and `_exit_code`.  Files, detectors
  and passes are one agenda; each may fail at each finding.  What the two
  analyses find out about a place (`at`, `flow`) is an input here.
* **Triage** - `assign_finding_ids`, `sorted_findings` and `build_report_model`
  across edits of the repository, re-scans and reviews.  `judged` is a history
  variable: what the reviewer meant, by defect and not by id.
* **EcosystemScan** - `run_ecosystem_scan` over and over, with the scratch and
  artifact directories that outlive a run; environment actions push commits, kill
  the process and clear the scratch directory.  `Cloning` is the state in which
  `git clone` runs, which may take for ever.
* **ToolRegistry** - `extract_tool_registry`: the first sweep (decorators,
  `.tool(handler)` calls, JS idioms) file by file, then the low-level SDK's
  `Tool(...)` constructions and the manifest.  Files are taken in any order within
  a sweep.  Each call and construction carries `runs`, the function that really runs
  when the tool is called; the extraction reads names only.  What a name may denote is
  `Denotations`: the definitions of its file that are no methods, and whatever an import,
  an assignment or a parameter binds it to (`program.bound`).  `ReachabilityVerdict` is
  instantiated with the registry's output, so that roots and withholding are judged by
  the grades they lead to.  The property speaks of the tools that are `HandledHere`:
  those whose handler's name the file binds by definitions only, however many, and
  those declared in a file whose dispatchers, if it has any, serve them.
* **DispatchSegments** - `dispatch_segments`: the body of a low-level handler as
  statements of blocks, the choice of the chain, the segments, and next to them what a
  call of the handler may execute (`Enterable`, `Paths`).  A test that compares
  nothing is `NoSubject`; nested code is part of its block.  `Discriminants` is what the
  segments may be named after: the first parameter if a top-level `if` compares it, else
  whatever the handler compares (the code's fallback, tool_registry.py:576-577).
* **CalleeResolution** - `_resolve_call_targets` and the sink tests with the tables
  they are made from: imports with relative levels, instances and their reassignment,
  classes, the fallback by bare name.  A repository is a record of such facts.
  `Runs` says what a call denotes when the program runs, by Python's rules; the code's
  functions read names only, and the properties compare the two.
* **ToolScopeCreep** - the detector on top of these two.  A decorated tool is
  inspected call by call (`BeginTool`, `FollowCall`, `ConcludeTool`); a segment of
  the handler and a JS registration are inspected in a step each.  `repo.gated` holds
  the bodies in whose text a gate pattern is found.
* **SecretShapes** - what `_name_looks_secret`, the value patterns and
  `_compose_demotion` say of names and values.  A name is a sequence of words with a
  flag for camel case; a value is described by what the patterns tell apart: its
  segments, upper case, word characters, whether it is a published placeholder.
* **SecretHandling** - the detector's `run`: tracked files with `IsDemotedTestCert`
  and the search for the certificate of a key, literals line by line with
  `ValueFindings` and the folding of copies, logging.  Assignments of a line are judged
  one at a time (`JudgeAssignment`) for Python in the order of `ast.walk`, by depth.
  A PEM file holds a certificate, a private key, or both (a bundle).
* **SecretLeakResponse** - `_check_return` over tools, segments and the functions
  that a segment calls, and `_js_return_object_keys` with its brace depth.  Which lines
  make up a JS window is `Window` of ToolScopeCreep.
* **ParamInjection** - how the detector finds out whether a call fetches a URL: the
  import aliases of a file (`CanonicalHttpName`), the receivers that it proves to be
  clients (`HttpClientReceivers`, `BoundOtherwise` for the conflicting bindings), URL
  argument, allowlist and severity.  A dotted name is a sequence.  `Denotes` and
  `IsClient` say by Python's rules what a name denotes, and the properties compare.
* **JsExecCalls** - the JS side: a text is a sequence of the tokens that matter with
  their lines.  `BraceBlocks` and `JsBindingsByScope` work on lines as the code does;
  `DeclaredAt` is what JS means, by position.
* **MCDetectors** - parameter injection (inputs in MCParamInjection) and the two
  secret detectors (inputs in MCSecrets), one after the other as `scan_repo` runs them.
* The theorems: **Reachability_proofs** (walk, grading, refinement),
  **TaintPropagation_proofs**, **ScanPipeline_proofs**, **Triage_proofs**,
  **EcosystemScan_proofs**, **DispatchDetectors_proofs** (segments and the two
  detectors that use them), **FileScans_proofs** (tool registry, secret handling,
  parameter injection), and **Recursion_proofs**, the lemmas on induction, recursive
  functions and flattened sequences that the others cite.

In each module an operator whose comment starts with "Bug variant" is not part of
the model: it is a plausible mistake in the code, kept to demonstrate that a named
property would notice it.

## Runs

Passing runs, with their bounds.  The small scopes are chosen so that each branch
of the code is taken; TLC's coverage shows that every action and disjunct fires.

* **reachability_grading**: a handler, a helper nested in it, a main function and a
  test double that shares the helper's name; *every* subset of six possible call
  sites (`PossibleSites`: recursion, calls out of the nested function, from the test
  file and from module level), every root set, all flags; findings in three functions
  and in a script.  Weak and strong edges, re-expansion, shadowed names and cycles
  all occur.  `MaxDepth` is 2 instead of 5, so that a chain of three functions
  hits the limit while the fourth is the root.  The invariants of the walk are
  checked here too: the walk is the first phase of the run.
* **taint**: a handler and its helper in one file, two modules that import each
  other, the helper and the handler; up to two calls in the handler and one in each
  other function, `HopBudget` 2 as in the code.  A call passes on nothing or one
  parameter, a call from the second module always one.
* **scan_pipeline**: a Python server, a Python test file, a TypeScript test file
  and a tracked `.env`, each with its ways to fail; a detector that may report any
  one finding and one that adds a second.  Confidence, severity, place and flow vary over
  their whole ranges, so saturation and the cap's boundary are reached.
* **triage**: two defects that share class, file and title and one that does not,
  two ranks, `TopCount` 2 so that a candidate can be left out.
* **ecosystem_scan**: a local target, a URL target, and a second local target with
  the first one's name.  `RunsEnd` fails without its exception for a clone that hangs.
* **tool_registry**: a server module with a method `find`, two functions named `serve`
  that may be decorated as tools or dispatchers, and a module with the function that the
  server may register by an expression or, under an import, by the name `find`; a JS file
  and a manifest; all imports, decorators, calls, constructions, bindings and call sites
  within that.  So a handler's name may denote a definition among several or an import
  next to a method, and a file may have no, one or two dispatchers.
* **tool_scope_creep**: three families.  (1) A tool with one or two of ten calls, over
  three import tables, thirteen ways to bind or shadow the receiver, four helpers
  that run a process and eight sets of gated helpers; two files with a class each,
  a class without methods and a function of a method's name.  (2) Dispatch handlers of up to three
  statements with a second link that may compare something else, an else, and one
  gated and one mutating block or helper.  (3) *All* JS files of four lines, with
  `WindowMax` 1 instead of 40, so that a window may end at its limit, at the next
  registration or at the end of the file.
* **detectors**: three detectors, one after the other.  *Parameter injection*: a Python
  file that calls each of twelve names, (1) under up to two of twelve imports (module and
  function aliases, relative, unlisted modules) with four argument lists, or
  (2) under one import and up to two of twenty bindings of the receivers; JS texts of
  five lines of six kinds or three lines of twenty-one kinds, so that a scope may be
  closed, reopened, shadowed or never closed before a call; three files in a row.
  *Secrets*: six families of repositories (two values on a line; three assignments with
  copies, at two depths; every kind of name and value; two files; logging; five
  tracked files with certificates of two keys, keys and bundles of both) and three of
  servers (a tool with a nested function, handlers with two callable helpers, *all* windows of four out of twelve
  kinds of JS lines).

The type invariants of the grading and of SecretHandling are theorems and need no run;
in the other detectors only the inputs are typed (the assumption `WorldsAssumption`,
`ServersOK`, `InjectionReposOK`), since their states are sets of findings.

For parameter injection the properties speak of files as its comments describe them.
`PlainSource`: no name is imported as two things or bound again, and no known module
name denotes something else (the comments call shadowing a stated limit).  `LaidOut`: a
line of JS has one declaration or call, and its braces stand on the usual side of it.
With `Unseen` off they do not speak of receivers that a tuple or `:=` binds, nor of
a JS declaration in a comment or one that is neither a regular expression nor
child_process: the code looks at none of these.  The run `receiver_guess` turns it on.

Two restrictions of tool_scope_creep are assumptions about the scanned program
rather than bounds.  With `Confusable` off, the repositories are those in which a name
means one thing (`Exclusive`): what runs outside of the repository has no namesake in
the file (`OutsideIsUnknown`), a name that an import and an assignment both bind, or a
variable that is also a class, does not occur (`OneMeaning`), a method called on a new
object of an imported class has no namesake either (`ConstructedHere`), no function
calls itself under a name that resolves to another one, and a handler's branch calls
functions, not methods of the same name.  The run `tool_scope_namesake` shows
what happens where the first or the third fails.  And a branch of a
handler that calls a function with a gated namesake counts as guarded, as
`_inspect_stmts` has it.

Violation runs check one statement of a doc or comment each and show, as a trace,
where the code does something else (`findings` in `PROJECT.json`):

* **taint_two_hops** - a function is entered first with a spent budget; the item
  that arrives with budget left brings no new taint and is dropped.
* **ecosystem_repeat** - the second run fails on the first one's clone.
* **tool_scope_namesake** - a tool that calls `os.remove` is silent because a gated
  method `remove` exists in its file: the last resort of the resolver takes the method
  for what the sink call runs.  A second family of the run violates it in another way:
  in `Client().put(x)` with an imported `Client` the resolver knows no method and takes
  any `put` of the calling file, and a gate there silences the tool.  For an instance
  held in a variable the code stops at this point, and says why it must.
* **receiver_guess** - a name that one function binds to `httpx.Client()` and another
  binds as part of a tuple stays proven to be a client, although every other binding is
  to count as a conflict: a method of the other value is reported as a request.

Behaviours that are modelled but that no run calls wrong, because the documents
disagree with each other or state nothing, are hazards with a note in `PROJECT.json`.

`CHECK_DEADLOCK FALSE` is used where a scan, a pass or a detector ends; EcosystemScan
never stops, and its deadlock check is on.

## Fairness

All worklists and the pipeline are sequential loops over finite data, so weak
fairness of their next-state relation says that the process keeps running.  In
EcosystemScan only `ReturningStep` is fair: scans of local files, writes, and the
refusal of git to clone into a directory that is not empty, which needs no network.
`git clone` itself runs without a timeout (ecosystem_scan.py:124), so neither
`CloneAndScan` nor `Unavailable` is fair, and `RunsEnd` excepts a clone that hangs for
ever; nobody has to start a run, kill it, push a commit or clear a directory.  Triage
and the detectors state no liveness: each of their loops consumes a finite list.

## Proofs

The constants are restricted by the `ASSUME`s only: functions have a name and a
file, spans nest and stay in one file, findings are located in known scopes.
`Funcs` need not be finite for the safety theorems.  The theorems about the
detectors are about *any* set of repositories, servers or files to scan that are
well formed (`WellFormed`, `ServerOK`: fields have their types, names and values are made
of words, a block stands in one place of the handler; `WellFormedSources`); `MCDetectors`
has TLC check that its families are.

* `WalkInv` (Reachability_proofs) strengthens correctness of the walk to an
  inductive invariant: what is visited or pending is reachable (strong items
  exactly reachable), every root is visited or pending, and each callee of a
  visited function is visited or pending, with the strong edges in the strong
  sets.  With an empty stack it collapses to equality with the least closures.  A
  type invariant alone does not do, since `WalkCorrect` speaks only of the end.
  The bound on expansions counts, for each function, the flags already set.
* `GradingInv` adds that a chain under way, and every chain in a grade, consists of
  scopes whose enclosing functions are not reachable.  The step that follows a
  caller needs `CallersUntouched`: a call site outside an unreached function has
  only unreached functions around it - this is where nesting of spans and
  `ast.walk` visiting nested bodies matter.
* `PathInv` says of the chain under way that each scope is called in the one behind it
  and that it ends in the function of the finding; `EvidenceIsReal` is what it says of
  a finished one.
* `GradingImplementsVerdicts` is the refinement of ReachabilityVerdict without its
  fairness.  Initial states map to initial states; the walk and the hops of a chain map
  to stuttering, and the step that ends a grade is `Give`, because with `WalkInv` the
  computed sets are the closures which the abstract verdict is defined by.  It needs
  that a chain is under way only for a finding whose label is already decided as
  CLI_ONLY.  That verdicts keep being given (the fairness of ReachabilityVerdict) stays
  with TLC, as `GradesAsPromised`.
* `RegistryInv` (FileScans_proofs): a registration whose tool is handled where the
  registry looks (`HandledHere`) is rooted at the function that runs, or has no root and
  either runs no Python function or comes from a source that withholds.  The case that
  counts is a call with several definitions of the handler's name in the file: the name
  denotes one of them, so only "none or several claim none" (`RootAmong`) is safe.
  `NoDowngradeOfToolCode` follows: with an unrooted tool nothing is decidable; without,
  the functions behind these tools are roots, and more roots (those of the other tools)
  reach more.
* `TaintInv` (TaintPropagation_proofs): the taint of every root, and all that a computed
  function passes on within its file (`PassedOn`), has arrived at the callee or lies on the
  stack with at least that seed (`Arrives`).  An item dropped because it brings nothing new
  has arrived; one that does is merged, and its function is pushed again.  With an empty
  stack everything has arrived, and `SameFileTransitive` follows by induction on the
  number of calls from the root, since what it compares with is built up in rounds.
* `PipelineInv` (ScanPipeline_proofs) says of each finding that its labels are those of the
  passes or none, that severity and confidence follow from the report and the labels
  (`Consistent`), and that a label or a cap is there only after a pass that could give it
  (`LabelledInTime`).  A pass under way holds a relabelled prefix (`PendingInv`), which
  is why a crash in the middle leaves nothing behind.  The gate, crash and dataflow
  theorems are then cases of one finding; `FindingsAreKept` is the action property.
* `FindingIdsUnique` is a statement about `assign_finding_ids` for lists of any
  length: the later of two findings of a spine has strictly more peers before it.
  `SoleInv` is that property for the annotation behind the id.  `SuffixesFill` (the
  suffixes of a spine are 1 up to their number) is what `AnnotationsKept` needs, and for
  `SummaryHidesNothing` the order of `sorted_findings` is shown to be one (`Ordered`).
  All rest on the detectors' meeting each site once (`IsInjective(DetectSeq)`).
* `RunInv` (EcosystemScan_proofs): the results collected so far are those of the
  configuration's targets up to the current one, and artifacts are written in a phase that
  only a complete list reaches.  `DocumentsInv` adds that whatever was written since is of
  this run.  `SuccessWritesEverything` has the hypothesis `SlugsApart`: two targets
  with one slug write to the same files, and the later one wins.
* `SegmentsAttributedRightly` (DispatchDetectors_proofs) is about handlers of any length.
  A segment that names a tool is a link of the chosen chain; every link up to it compares
  the chain's subject; so whatever enters its block has that subject equal to its
  literal.  The subject is the first parameter wherever any top-level `if` compares that;
  where none does, it is what the first chain compares, and that this holds the name of
  the tool is a guess of the code which nothing here confirms.  That the text stands in
  one place (`OnePlaceEach`) excludes that another statement enters the same block.
* `SecretInv` and `CompleteInv` (FileScans_proofs).  The first says of each finding
  that its confidence follows from the signs at its place: `RealSecretStaysHigh` and
  `TestCertNeedsAllSignals` are read off it (for a bundle the latter is about its
  certificate alone).  Of a demotion the ladder itself is
  analysed first (`DemotionNeedsASign`).  The second is what `SignalsNeverSilence`
  needs before the end: what lies before the current line and what is no longer
  pending has its finding, where a copy counts as told by the finding at its first place.
  It needs that the places of a file are finite and ordered, so that there is a first one.
* `LeakInv` and `ReadInv` (DispatchDetectors_proofs).  Each leak comes from a text that
  was checked under its label, and with `SegmentsAttributedRightly` that label is the
  right one; conversely everything read is contained in the leaks.  That this amounts to
  `NoLeakIsSilent` needs `ResolvesToCredential`: if a text assigns only credentials to a
  name, the literal that the code picks for it is one.
* `FieldsInv` (DispatchDetectors_proofs) says that the fields reported of a JS window are
  those that the lines read so far show.  `DepthIsWithin` turns the depth that the code
  carries from line to line, which falls back to zero and adds up over several objects,
  into what it stands for: it is positive exactly where one "return {" exists since which
  more braces were opened than closed at every line.  In one direction the depth is never
  below that count; in the other the witness is the line where the depth last left zero.
* `ScopeInv` (DispatchDetectors_proofs): hits of a tool under inspection come from calls
  already followed (`InspectionInv`), and what is due of an inspected tool, segment or
  registration has been reported (`ReportedInv`).  The substance is in the lemmas about
  the resolver: what it finds inside the repository is among what runs
  (`InternalIsInside`, `CallOnVariable`, `CallOnInstance`), what runs outside it does not
  take for one of its functions (`OutsideIsMissed`), what runs inside within one hop it
  finds (`InsideIsFound`).  These are statements about all combinations of import,
  class and instance tables at once, under `~Confusable`.  The attempt to prove
  `CreditIsEarned` showed that this assumption had been stated too weakly: nothing
  excluded a method called on a new object of an imported class, which no family of
  the run contained and for which the statement is false; the assumption now names that
  case, and `tool_scope_namesake` shows it.  `BranchSinksAreReported` combines
  `SegmentShape` (a block executed belongs to a segment of the tool) with the fact
  that no other executed block has a gate.
* `ScannedInv` (FileScans_proofs): the findings of the files passed so far are
  exactly those of `CheckCalls` and `ExecLines`.  What is left is about one call of one file.
  `SoundName` and `CompleteName` compare the canonical name with what Python's imports
  denote: a canonical name of the known surface is the denoted one, and a denoted one
  is the canonical one unless an import renamed it in a way the code does not resolve.
  With that, `ReportedRequestsAreReal` and `RequestsAreReported` follow by cases on
  module functions and methods of clients; for a proven receiver it is the
  subtraction of `BoundOtherwise` that rules out every noted second binding.
* `ExecsAreJudgedByScope` is about one JS text of any length.  The code keeps scopes as
  ranges of lines and takes the smallest range around a line; JS means the braces around
  a position.  `BlocksFound` is the induction over the tokens: the stack holds the lines
  of the open braces, the spans are those of matching ones, and a brace closed nothing
  exactly if a prefix closes more than it opens; so what the code rejects is what does
  not balance (`AcceptsBalanced`).  If a line has one item and no brace closes before or
  opens behind it (`LaidOut`), a span covers the item's line exactly if its braces
  surround the item (`LinesTell`), and the braces around an item are nested as their
  spans are by size (`ScopeIsInnermostBlock`, `ScopeCovers`, `SmallerIsInner`).  Hence
  the kind of the smallest span that covers a call is that of its innermost declaration
  (`ScopeJudged`).  The end of the file, for a declaration outside of all blocks, is
  the code's line 10**9; `Numbered` assumes that no file has that many, which the proof
  needs for such a declaration to be the outermost.

Recursive functions over `0..n` or lists (`dispatch_segments`, the flattening of a
tree, the rounds of a closure, the depth of braces) are reasoned about with the lemmas of
Recursion_proofs, which state induction for *sets* of naturals and recursion for a given
step *function*, so that no operator has to be passed: `SegmentInduction`,
`SegmentRecursion` (the function exists, hence the definition has its equation) and
`FlattenOrdered`.

Only model-checked: liveness and `ENABLED` (out of reach for the prover), among them
`TaintTerminates`, `ScanCompletes`, `RunsEnd` and the fairness in `GradesAsPromised`.
`RECURSIVE` operators are used nowhere.

## Not modelled

* Regular expressions, `ast` shapes and text formatting: the models start from what a
  text contains.  `git ls-files` and the directory walk.
* Job hazards, auth posture, codegen injection, and of parameter injection the other
  sinks (processes, eval, pickle, yaml, files; in JS eval, fetch and fs): patterns over
  one line or one call, with no state that a later step could spoil.  In ScanPipeline
  they are part of the reports a detector may make.
* Methods called on the result of a call (`f().post(url)` is rendered as `post`), URLs
  passed by keyword, and functions imported from modules that the code does not list:
  the code names these as limits or ignores them, and the properties exclude them
  (`Unresolved`, `of`).
* A suppress comment on the first of several copies of a literal demotes the one finding
  that stands for all of them; SecretHandling models the folding, but no property
  promises the confidence of the others.
* A handler's name that the file defines once and an import or an assignment binds too:
  the code takes the definition (tool_registry.py:392), which may not be what runs.
  ToolRegistry models it, but `NoDowngradeOfToolCode` leaves such tools out.
* The key in a PEM bundle with a test certificate is never compared with the
  certificate (secret_handling.py:858-859): SecretHandling models such files, and
  `TestCertNeedsAllSignals` promises nothing about their keys.
* Nested containers in returned values, fields on the line that opens a returned object
  and shorthand properties in JS are not read by the code, and so are outside of
  `NoLeakIsSilent` and `ReturnedFieldsAreSeen`.
* Report rendering, watch mode, the CI action and the README count gate: formatting and
  shell glue.  Exceptions that `build_context` does not catch end the process.
* In the model of a segment one block assigns a given name; the code keeps the last
  assignment over all of them.

## Plan

Done: call graph, walk, verdicts, grading, registry; taint propagation; pipeline and
gate; triage; ecosystem scan; dispatch segments; tool-scope creep; the two secret
detectors; parameter injection; all with proofs of their safety invariants.

What a continuation would take up, in this order:

1. *Watch and CI action*: order of scan, summary, report and gate with failing
   steps.
