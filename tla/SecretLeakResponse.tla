------------------------- MODULE SecretLeakResponse -------------------------
(***************************************************************************)
(* detectors/secret_leak_response.py: secrets that a tool returns to the   *)
(* calling model.  What is read are the return statements of decorated     *)
(* tools; of the segments of a low-level dispatch handler and of the       *)
(* functions of the same file that they call; and the lines from one       *)
(* registration to the next of a JS file.                                  *)
(***************************************************************************)
EXTENDS Integers, SecretShapes, DispatchSegments

CONSTANTS
  Functions,      (* the functions of the file but the handler             *)
  CalledAs,       (* their names                                           *)
  Returns         (* return statements                                     *)

ASSUME LeakAssumption ==
  /\ Functions \cap Blocks = {}
  /\ CalledAs \in [Functions -> STRING]
  /\ NoTool \notin Functions

WholeObjects == {<<"config">>, <<"env">>}

\* A position of a returned dict, tuple or list, or the bare expression.
\* dump: vars(x), asdict(x); nested: a container within the container.
Leaf == [form : {"environ", "dump", "__dict__", "nested", "call"}]
          \cup [form : {"name", "attribute"}, name : Name]
          \cup [form : {"literal"}, value : Value]

\* What the text of a block or function has: its return statements (inner:
\* in a nested def), its assignments to plain names in the order of
\* ast.walk, the names that it calls.
NoLiteral == [form |-> "no literal"]
Return == [id : Returns, leaves : SUBSET Leaf, keys : SUBSET Name, inner : BOOLEAN]
Body == [returns : SUBSET Return, assigns : Seq([name : Name, value : Value \cup {NoLiteral}]),
         calls : SUBSET STRING]

\* A line of a JS window.  form: "opens" has "return {", "object" has all of
\* "return {...}", "field" starts with "key:".  braces: opened less closed
\* outside of strings, strays: in strings.
Field == [key : Name, shaped : BOOLEAN]
JsLine == [form : {"opens", "object", "field", "return env", "return whole", "return name", "other"},
           fields : SUBSET Field, braces : Int, strays : Int, comment : BOOLEAN]

\* A server as it can be.
ServerOK(s) ==
  /\ s.tools \subseteq Functions
  /\ s.handler \in Seq(Statement) /\ OnePlaceEach(s.handler)
  /\ s.text \in [Blocks \cup Functions -> Body]
  /\ s.window \in Seq(JsLine)

VARIABLES
  server,     (* the decorated tools, the body of the handler, the text of each
                 block and function, the JS window                         *)
  unread,     (* tools, segments and window lines not read yet             *)
  leaks

slVars == <<server, unread, leaks>>

----------------------------------------------------------------------------
(* Python                                                                  *)

\* A name with the literal last assigned to it in the text, if there is one.
\* (In the model one block of a segment assigns a name.)
Resolved(S, n) ==
  LET Literal(b) == {i \in DOMAIN server.text[b].assigns :
                       server.text[b].assigns[i].name = n /\ server.text[b].assigns[i].value # NoLiteral}
  IN  {server.text[b].assigns[CHOOSE i \in Literal(b) : \A j \in Literal(b) : j <= i].value :
         b \in {b \in S : Literal(b) # {}}}

Leaking(S, leaf) ==
  CASE leaf.form \in {"environ", "dump", "__dict__"} -> {leaf.form}
    [] leaf.form = "name" /\ leaf.name.words \in WholeObjects -> {"whole"}
    [] leaf.form \in {"nested", "call"} -> {}
    [] leaf.form = "literal" -> Tagged(IF HasFakeMarker(leaf.value) THEN "fake literal" ELSE "literal",
                                       leaf.value.shaped)
    [] OTHER -> Tagged("secret name", LooksSecret(leaf.name))
                  \cup UNION {Tagged(IF HasFakeMarker(v) THEN "fake resolved" ELSE "resolved", v.shaped) :
                                v \in IF leaf.form = "name" THEN Resolved(S, leaf.name) ELSE {}}

\* Bug variant: the return statements of nested functions as well.
DirectReturnsDeep(S) == UNION {server.text[b].returns : b \in S}

\* The return statements of the text itself.
DirectReturns(S) == {r \in UNION {server.text[b].returns : b \in S} : ~r.inner}

CheckReturn(label, S, r) ==
  {[label |-> label, at |-> r.id, what |-> w] :
     w \in (UNION {Leaking(S, leaf) : leaf \in r.leaves})
             \cup Tagged("secret key", \E k \in r.keys : LooksSecret(k))}

CheckText(label, S) == UNION {CheckReturn(label, S, r) : r \in DirectReturns(S)}

\* Bug variant: a function is looked into for the first segment that calls it.
OneHopDispatchedFuncsOnce(i) ==
  LET Calls(j) == UNION {server.text[b].calls : b \in Segments(server.handler)[j].blocks}
  IN  {g \in Functions : CalledAs[g] \in Calls(i) /\ \A j \in 1..(i - 1) : CalledAs[g] \notin Calls(j)}

\* The functions of the file that a segment calls, by name.
OneHopDispatchedFuncs(i) ==
  {g \in Functions : CalledAs[g] \in UNION {server.text[b].calls : b \in Segments(server.handler)[i].blocks}}

CheckTool(t) ==
  /\ <<"tool", t>> \in unread
  /\ unread' = unread \ {<<"tool", t>>}
  /\ leaks' = leaks \cup CheckText(CalledAs[t], {t})
  /\ UNCHANGED server

\* A segment and what it calls, under the name of its tool, or of the handler.
CheckSegment(i) ==
  /\ <<"segment", i>> \in unread
  /\ unread' = unread \ {<<"segment", i>>}
  /\ LET segment == Segments(server.handler)[i]
     IN  leaks' = leaks \cup CheckText(segment.tool, segment.blocks)
                    \cup UNION {CheckText(segment.tool, {g}) : g \in OneHopDispatchedFuncs(i)}
  /\ UNCHANGED server

----------------------------------------------------------------------------
(* JS                                                                      *)

\* Bug variant: braces in strings count.
BracesWithStrings(l) == l.braces + l.strays

\* Strings are taken out before braces are counted.
Braces(l) == l.braces

\* The depth of braces after each line, since a "return {" was seen; 0 if
\* none was, or it is closed.
Depth(window) ==
  LET depth[i \in 0..Len(window)] ==
        IF i = 0 THEN 0
        ELSE LET l == window[i]
                 d == IF depth[i - 1] > 0 \/ l.form = "opens" THEN depth[i - 1] + Braces(l) ELSE 0
             IN  IF l.comment THEN depth[i - 1] ELSE IF d > 0 THEN d ELSE 0
  IN  depth

\* The fields read on a line: those of an object that it returns, or its own
\* if it lies within one.
ObjectKeys(window, i) ==
  LET l == window[i]
  IN  IF \/ l.comment
         \/ (l.form = "object") # (Depth(window)[i - 1] = 0)
         \/ l.form \notin {"object", "field"}
      THEN {}
      ELSE l.fields

JsLeaks(window, i) ==
  LET l == window[i]
  IN  {"field" : k \in {k \in ObjectKeys(window, i) : LooksSecret(k.key)}}
        \cup {"shaped field" : k \in {k \in ObjectKeys(window, i) : k.shaped}}
        \cup Tagged(l.form, ~l.comment /\ l.form \in {"return env", "return whole"})
        \cup Tagged(l.form, ~l.comment /\ l.form = "return name" /\ \E k \in l.fields : LooksSecret(k.key))

CheckJsLine(i) ==
  /\ <<"line", i>> \in unread
  /\ unread' = unread \ {<<"line", i>>}
  /\ leaks' = leaks \cup {[label |-> "window", at |-> i, what |-> w] : w \in JsLeaks(server.window, i)}
  /\ UNCHANGED server

----------------------------------------------------------------------------
\* The start, on one of the given servers.
InitSecretLeak(servers) ==
  /\ server \in servers
  /\ unread = {<<"tool", t>> : t \in server.tools}
                \cup {<<"segment", i>> : i \in {i \in DOMAIN Segments(server.handler) : server.handler # <<>>}}
                \cup {<<"line", i>> : i \in DOMAIN server.window}
  /\ leaks = {}

NextSecretLeak ==
  \/ \E t \in Functions : CheckTool(t)
  \/ \E i \in DOMAIN Segments(server.handler) : CheckSegment(i)
  \/ \E i \in DOMAIN server.window : CheckJsLine(i)

LeakSpec(servers) == InitSecretLeak(servers) /\ [][NextSecretLeak]_slVars

----------------------------------------------------------------------------
(* Properties                                                              *)

\* What the text S assigns to a name.
Given(S, n) ==
  {a \in UNION {{server.text[b].assigns[i] : i \in DOMAIN server.text[b].assigns} : b \in S} : a.name = n}

\* Does the leaf hand a secret back, for all that the text S shows?  A name
\* does if it says so, or if nothing but credentials is assigned to it.
HandsBack(S, leaf) ==
  CASE leaf.form \in {"environ", "dump", "__dict__"} -> TRUE
    [] leaf.form \in {"nested", "call"} -> FALSE
    [] leaf.form = "literal"   -> leaf.value.shaped
    [] leaf.form = "attribute" -> LooksSecret(leaf.name)
    [] leaf.form = "name"      ->
         \/ LooksSecret(leaf.name)
         \/ Given(S, leaf.name) # {} /\ \A a \in Given(S, leaf.name) : a.value # NoLiteral /\ a.value.shaped

\* What the text S hands back is reported under the label.
Told(label, S) ==
  \A b \in S : \A r \in server.text[b].returns :
    /\ ~r.inner
    /\ (\E leaf \in r.leaves : HandsBack(S, leaf)) \/ (\E k \in r.keys : LooksSecret(k))
    => \E g \in leaks : g.label = label /\ g.at = r.id

\* Every secret that a return statement of a tool hands back is reported,
\* whatever the variable is called, under the tool's name; so is one in a
\* function that two branches call, for either of them.  (run and
\* _scan_low_level_sdk with _one_hop_dispatched_funcs and the value-shape
\* backstop of _check_return.)
NoLeakIsSilent ==
  unread = {} =>
    /\ \A t \in server.tools : Told(CalledAs[t], {t})
    /\ \A i \in DOMAIN Segments(server.handler) :
         LET segment == Segments(server.handler)[i]
         IN  /\ Told(segment.tool, segment.blocks)
             /\ \A g \in Functions :
                  CalledAs[g] \in UNION {server.text[b].calls : b \in segment.blocks}
                  => Told(segment.tool, {g})

\* A leak outside of JS windows is reported of a return statement of the named
\* tool itself, not of a nested function, or of one in a branch of the handler
\* that runs only where the expression the handler dispatches on equals the
\* name (the tool's name where a top-level if compares the first parameter,
\* else a guess of the code), or in a function called there.  A made-up
\* culprit is what dispatch_segments and _direct_returns guard against.
LeaksAreNotInvented ==
  \A g \in leaks : g.label # "window" =>
    LET Holds(S) == \E b \in S : \E r \in server.text[b].returns : r.id = g.at /\ ~r.inner
    IN  \/ \E t \in server.tools : CalledAs[t] = g.label /\ Holds({t})
        \/ \E i \in DOMAIN Segments(server.handler) :
             LET segment == Segments(server.handler)[i]
             IN  /\ segment.tool = g.label /\ AttributedRightly(server.handler, segment)
                 /\ \/ Holds(segment.blocks)
                    \/ \E f \in Functions : Holds({f})
                         /\ \E b \in segment.blocks : CalledAs[f] \in server.text[b].calls

\* The braces opened less those closed from line o to the line before j.
OpenedSince(window, o) ==
  LET count[j \in o..Len(window)] ==
        IF j = o THEN 0 ELSE count[j - 1] + (IF window[j - 1].comment THEN 0 ELSE window[j - 1].braces)
  IN  count

\* The line is within an object: the brace of a "return {" before it is still open.
Within(window, i) ==
  \E o \in 1..(i - 1) :
    /\ window[o].form = "opens" /\ ~window[o].comment
    /\ \A j \in (o + 1)..i : OpenedSince(window, o)[j] > 0

\* In a JS window the fields that are read are those of the objects that are
\* returned: those on lines after a "return {" whose brace is still open,
\* and on lines that hold a whole one.  A brace in a string opens and closes
\* nothing.  (_js_return_object_keys.)
ReturnedFieldsAreSeen ==
  unread = {} =>
    LET w == server.window
    IN  \A i \in DOMAIN w :
          (\E g \in leaks : g.label = "window" /\ g.at = i /\ g.what \in {"field", "shaped field"})
          <=> /\ ~w[i].comment
              /\ \/ w[i].form = "field" /\ Within(w, i)
                 \/ w[i].form = "object" /\ ~Within(w, i)
              /\ \E k \in w[i].fields : k.shaped \/ LooksSecret(k.key)
=============================================================================
