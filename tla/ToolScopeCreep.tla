--------------------------- MODULE ToolScopeCreep ---------------------------
(***************************************************************************)
(* detectors/tool_scope_creep.py: which tools that change something show   *)
(* no permission gate.  Three inspections: of the functions with a tool    *)
(* decorator, call by call (InspectBody); of the segments of a low-level   *)
(* dispatch handler (_inspect_stmts); of the lines from one registration   *)
(* to the next in a JS file (_scan_js).                                    *)
(*                                                                         *)
(* Finding nothing for a tool is the claim that matters, since nobody      *)
(* looks at a tool that is not reported.                                   *)
(***************************************************************************)
EXTENDS CalleeResolution, DispatchSegments

CONSTANTS
  Tools,         (* functions that may have a tool decorator               *)
  Handler,       (* the function with the call_tool decorator              *)
  VerbNames,     (* tools and literals whose name starts with a mutating verb *)
  WindowMax,     (* _JS_WINDOW_MAX_LINES                                   *)
  Worlds,        (* families of what may be scanned: a repository, the body of its
                    handler, the lines of its JS file                      *)
  Confusable     (* may a name that the resolver looks up in the file
                    denote something else?                                 *)

ASSUME ScopeAssumption ==
  /\ Sections = Blocks /\ Handler \in Funcs /\ Tools \subseteq Funcs
  /\ \A b \in Blocks : FileOf[b] = FileOf[Handler]
  /\ WindowMax \in Nat /\ Confusable \in BOOLEAN
  /\ NoTool \notin Funcs

\* A line of a JS file: does it register a tool, what else is on it.
Line == [registers : {"no", "tool", "mutating tool"},
         text : {"other", "sink", "gate", "gate in comment", "sink in comment"}]

\* What may be inspected.
WorldOK(w) == w.repo \in RepoType /\ w.handler \in Seq(Statement) /\ w.lines \in Seq(Line)

ASSUME WorldsAssumption == \A family \in DOMAIN Worlds : \A w \in Worlds[family] : WorldOK(w)

VARIABLES
  handler,    (* the body of the handler                                   *)
  lines,      (* the lines of a JS file                                    *)
  todo,       (* tools, segments and registrations left to inspect         *)
  at,         (* the tool being inspected, or NoTool                       *)
  calls,      (* its calls not followed yet                                *)
  hits,       (* what was seen of it                                       *)
  findings

vars == <<repo, handler, lines, todo, at, calls, hits, findings>>

NoHits == [sink |-> FALSE, gate |-> FALSE, high |-> FALSE]

----------------------------------------------------------------------------
\* Bug variant: one gated candidate gates the call.
AllGatedSome(C) == C \cap repo.gated # {}

\* Candidates that disagree credit no gate.
AllGated(C) == C \subseteq repo.gated

Candidate(b, c) == ResolveCallTargets(b, c) \ {b}

\* The verdict on one subject: a finding unless harmless or gated.
Report(subject, byName, seen, gated) ==
  IF (byName \/ seen.sink) /\ ~gated
  THEN {[subject |-> subject, high |-> seen.high]}
  ELSE {}

\* Decorated functions.
BeginTool(t) ==
  /\ at = NoTool /\ <<"tool", t>> \in todo
  /\ at' = t
  /\ calls' = repo.calls[t]
  /\ hits' = [sink |-> BodyHasMutatingSink(t, TRUE), gate |-> FALSE,
              high |-> BodyHasHighRiskSink(t, TRUE)]
  /\ UNCHANGED <<repo, handler, lines, todo, findings>>

FollowCall(c) ==
  /\ at # NoTool /\ c \in calls
  /\ calls' = calls \ {c}
  /\ LET C == Candidate(at, c)
     IN  hits' = IF C = {} THEN hits
                 ELSE [sink |-> hits.sink \/ \E g \in C : BodyHasMutatingSink(g, TRUE),
                       gate |-> hits.gate \/ AllGated(C),
                       high |-> hits.high \/ \E g \in C : BodyHasHighRiskSink(g, TRUE)]
  /\ UNCHANGED <<repo, handler, lines, todo, at, findings>>

ConcludeTool ==
  /\ at # NoTool /\ calls = {}
  /\ findings' = findings \cup
       Report(<<"tool", at>>, at \in VerbNames, hits,
              at \in repo.gated \/ hits.gate \/ FileOf[at] \in repo.moduleGate)
  /\ todo' = todo \ {<<"tool", at>>}
  /\ at' = NoTool /\ hits' = NoHits
  /\ UNCHANGED <<repo, handler, lines, calls>>

----------------------------------------------------------------------------
(* The low-level SDK: same-file names only, and a name is gated if any     *)
(* function of that name is.                                               *)

Called(B) == UNION {FunctionsNamed(FileOf[Handler], c.name) : c \in UNION {repo.calls[b] : b \in B}}

\* Bug variant: a gate anywhere in the handler gates all of its branches.
SharedGateOfAny ==
  \/ Handler \in repo.gated \/ FileOf[Handler] \in repo.moduleGate
  \/ \E k \in DOMAIN Segments(handler) : Segments(handler)[k].blocks \cap repo.gated # {}

\* A gate all branches share: on the handler, at module level, or ahead of
\* the chain.
SharedGate ==
  \/ Handler \in repo.gated \/ FileOf[Handler] \in repo.moduleGate
  \/ \E k \in DOMAIN Segments(handler) :
       Segments(handler)[k].shared /\ Segments(handler)[k].blocks \cap repo.gated # {}

InspectStmts(B) ==
  [sink |-> \E b \in B \cup Called(B) : BodyHasMutatingSink(b, FALSE),
   gate |-> Called(B) \cap repo.gated # {},
   high |-> \E b \in B \cup Called(B) : BodyHasHighRiskSink(b, FALSE)]

InspectSegment(k) ==
  /\ at = NoTool /\ <<"segment", k>> \in todo
  /\ \A j \in 1..(k - 1) : <<"segment", j>> \notin todo
  /\ LET s == Segments(handler)[k]
         seen == InspectStmts(s.blocks)
     IN  findings' = findings \cup
           Report(<<"segment", k>>, s.tool \in VerbNames, seen,
                  SharedGate \/ seen.gate \/ s.blocks \cap repo.gated # {})
  /\ todo' = todo \ {<<"segment", k>>}
  /\ UNCHANGED <<repo, handler, lines, at, calls, hits>>

----------------------------------------------------------------------------
(* JS: the lines from a registration to the next.                          *)

Registrations == {n \in DOMAIN lines : lines[n].registers # "no"}

\* Bug variant: the window ends with the line of the next registration.
WindowToNext(n) ==
  {m \in DOMAIN lines : n <= m /\ m <= n + WindowMax /\ \A r \in Registrations : r > n => m <= r}

Window(n) ==
  {m \in DOMAIN lines : n <= m /\ m <= n + WindowMax /\ \A r \in Registrations : r > n => m < r}

\* Comments count as sinks but never as gates.
InspectRegistration(n) ==
  /\ at = NoTool /\ <<"js", n>> \in todo
  /\ \A m \in Registrations : m < n => <<"js", m>> \notin todo
  /\ LET sink == \E m \in Window(n) : lines[m].text \in {"sink", "sink in comment"}
     IN  findings' = findings \cup
           Report(<<"js", n>>, lines[n].registers = "mutating tool",
                  [sink |-> sink, gate |-> FALSE, high |-> sink],
                  \E m \in Window(n) : lines[m].text = "gate")
  /\ todo' = todo \ {<<"js", n>>}
  /\ UNCHANGED <<repo, handler, lines, at, calls, hits>>

----------------------------------------------------------------------------
Work ==
  ({"tool"} \X Tools) \cup ({"segment"} \X DOMAIN Segments(handler)) \cup ({"js"} \X Registrations)

(* Every name the resolver looks up denotes what it finds.                 *)

\* Outside code is called by no name the file knows; a method of a known
\* instance may have a function's name.
OutsideIsUnknown(b, c) ==
  External \in Runs(b, c) =>
    /\ Imported(FileOf[b], Dotted(c)[1]) = {}
    /\ ~(c.form = "on" /\ IsInstance(b, c.on)) => FunctionsNamed(FileOf[b], c.name) = {}

\* The name a call starts with has one meaning: an import, a function, a
\* class, a variable or a parameter.
OneMeaning(b, c) ==
  LET n == Dotted(c)[1]
      imports == Imported(FileOf[b], n)
  IN  /\ imports # {} => /\ c.form \in {"bare", "on"} /\ \E t \in imports : imports = {t}
                         /\ TopLevel(FileOf[b], n) = {} /\ Ctors(repo.locals[b], n) = {}
      /\ c.form = "on" /\ LocalBindingValues(b, n) # {} =>
           n \notin ClassNames[FileOf[b]] \cup repo.others[b]

\* Imported().name(): the class is not of the file, so no function of the
\* file has that name.
ConstructedHere(b, c) ==
  c.form = "new" /\ c.on \notin ClassNames[FileOf[b]] => FunctionsNamed(FileOf[b], c.name) = {}

Exclusive ==
  \A b \in Bodies : \A c \in repo.calls[b] :
    /\ OutsideIsUnknown(b, c) /\ OneMeaning(b, c) /\ ConstructedHere(b, c)
    /\ b \in Sections => FunctionsNamed(FileOf[b], c.name) \subseteq Runs(b, c)
    /\ b \in Runs(b, c) => Candidate(b, c) = {}

Init ==
  /\ \E k \in DOMAIN Worlds : \E w \in Worlds[k] :
       repo = w.repo /\ handler = w.handler /\ lines = w.lines
  /\ ~Confusable => Exclusive
  /\ todo = Work
  /\ at = NoTool /\ calls = {} /\ hits = NoHits /\ findings = {}

Next ==
  \/ \E t \in Tools : BeginTool(t)
  \/ \E c \in calls : FollowCall(c)
  \/ ConcludeTool
  \/ \E k \in DOMAIN Segments(handler) : InspectSegment(k)
  \/ \E n \in Registrations : InspectRegistration(n)

Spec == Init /\ [][Next]_vars

----------------------------------------------------------------------------
\* A call that changes something outside of the repository.
Mutates(b, c) ==
  /\ External \in Runs(b, c)
  /\ \/ ResolvedSinkName(FileOf[b], c) \in ExactSinks
     \/ c.name \in ShortSinks
     \/ c.name = "open" /\ c.marked

\* The calls whose target is within one hop of what the resolver reads: not
\* a method of an imported class, nor of a variable with two constructors.
InSight(b, c) ==
  /\ External \notin Runs(b, c)
  /\ c.form = "new" => c.on \in ClassNames[FileOf[b]]
  /\ c.form = "on" => /\ \A t \in Imported(FileOf[b], c.on) : t.symbol = NoId
                      /\ IsInstance(b, c.on) => InstanceClass(b, c.on) # {}

\* Functions that a body calls: in the resolver's sight, or by their name in
\* the handler's file.
Helpers(b) == UNION {Runs(b, c) : c \in {c \in repo.calls[b] : InSight(b, c)}}
Siblings(b) == UNION {Runs(b, c) \cap FunctionsNamed(FileOf[Handler], c.name) : c \in repo.calls[b]}

Exposed(b, called) == \E g \in {b} \cup called : \E c \in repo.calls[g] : Mutates(g, c)

Guarded(b) ==
  b \in repo.gated \/ FileOf[b] \in repo.moduleGate
    \/ \E c \in repo.calls[b] : Runs(b, c) \cap repo.gated # {}

Reported(kind, x) == \E f \in findings : f.subject = <<kind, x>>

(* A tool is credited with a gate only if one of its calls really runs     *)
(* gated code, whichever function its names suggest (the module docstring: *)
(* ambiguous candidates withhold credit, an instance is never graded by a  *)
(* namesake).                                                              *)
CreditRestsOnAGate ==
  at # NoTool /\ hits.gate => \E c \in repo.calls[at] \ calls : Runs(at, c) \subseteq repo.gated

(* A tool that changes something outside of the repository, itself or in a *)
(* function it calls in the resolver's sight, is reported unless a gate is *)
(* in its text, in its file's or in a function it calls (the docstring's   *)
(* step 3).  It rests on ~Confusable.                                      *)
UngatedSinkIsReported ==
  \A t \in Tools :
    /\ <<"tool", t>> \notin todo
    /\ ~Guarded(t)
    /\ Exposed(t, Helpers(t))
    => Reported("tool", t)

\* Gates in branches that the splitting does not take apart are out of scope.
GatesAreSplit ==
  \A i \in DOMAIN handler \ {FindDispatchChain(handler)} :
    handler[i].links = <<>> \/ \A b \in BlocksOf(handler[i]) : ~Guarded(b)

(* Whatever a call of the handler executes: a sink in it is reported in    *)
(* the segment it stands in, unless a gate is executed in that same call.  *)
(* A check in one tool's branch never silences another's.                  *)
BranchSinkIsReported ==
  \A env \in [Subjects -> Literals] : \A path \in Paths(handler, env) : \A i \in DOMAIN handler :
    /\ \A item \in todo : item[1] # "segment"
    /\ GatesAreSplit
    /\ Handler \notin repo.gated
    /\ path[i] # NoBlock
    /\ \A j \in DOMAIN handler : path[j] # NoBlock => ~Guarded(path[j])
    /\ Exposed(path[i], Siblings(path[i]))
    => \E k \in DOMAIN Segments(handler) :
         path[i] \in Segments(handler)[k].blocks /\ Reported("segment", k)

\* The registration a line belongs to, if it is near enough.
BelongsTo(m, n) ==
  n <= m /\ m - n <= WindowMax /\ ~\E r \in Registrations : n < r /\ r <= m

(* A line of a JS file counts for the registration it belongs to and for   *)
(* no other, as a sink and as a gate; text in a comment is never a gate.   *)
JsLinesCountOnce ==
  \A n \in Registrations :
    <<"js", n>> \notin todo =>
      (Reported("js", n) <=>
         /\ \/ lines[n].registers = "mutating tool"
            \/ \E m \in DOMAIN lines : BelongsTo(m, n) /\ lines[m].text \in {"sink", "sink in comment"}
         /\ ~\E m \in DOMAIN lines : BelongsTo(m, n) /\ lines[m].text = "gate")
=============================================================================
