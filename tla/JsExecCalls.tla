----------------------------- MODULE JsExecCalls -----------------------------
(***************************************************************************)
(* detectors/param_injection.py for JS: whether cp.exec(x) runs a shell or *)
(* matches a regular expression.  There is no parser for JS: scopes are    *)
(* found by braces and kept as ranges of lines.                            *)
(***************************************************************************)
EXTENDS Integers, FiniteSets, Sequences

CONSTANT
  Unseen      (* do the properties speak of what the code does not note?   *)

ASSUME UnseenAssumption == Unseen \in BOOLEAN

\* What a text holds, in order: braces, also in strings and regular expressions;
\* declarations of cp, also in a comment or as something else; calls of exec.
JsToken == {"open", "close", "brace-in-text", "regexp", "cp_module", "regexp-in-comment", "cp-other",
            "cp.exec", "child_process.exec", "exec", "/x/.exec"}
JsSource == [language : {"js"}, imports : BOOLEAN, text : Seq([token : JsToken, line : Nat])]

\* The line that stands for the end of the file.
HugeLine == 1000000000

\* Lines are counted from 1, and no file has that many.
Numbered(text) ==
  /\ \A p \in DOMAIN text : text[p].line \in 1..(HugeLine - 1)
  /\ \A p, q \in DOMAIN text : p <= q => text[p].line <= text[q].line

Lines(text) == {text[p].line : p \in DOMAIN text}
OnLine(text, l, tokens) == {p \in DOMAIN text : text[p].line = l /\ text[p].token \in tokens}

----------------------------------------------------------------------------
\* Bug variant: braces in strings and regular expressions count.
BraceWithNoise(t) == IF t = "brace-in-text" THEN "open" ELSE t

\* What is left of the text without strings, comments and regular expressions.
StripJsNoise(t) == IF t = "brace-in-text" THEN "blank" ELSE t

\* The open blocks by their first lines, the finished ones by their first and
\* last, and whether a brace closed nothing: before the text, one token further,
\* and at its end.
NoBlocks == [stack |-> <<>>, spans |-> {}, stray |-> FALSE]

AfterToken(b, t) ==
  LET brace == StripJsNoise(t.token)
      top == Len(b.stack)
  IN  CASE brace = "open" -> [b EXCEPT !.stack = Append(@, t.line)]
        [] brace = "close" /\ top > 0 ->
             [b EXCEPT !.stack = SubSeq(@, 1, top - 1), !.spans = @ \cup {<<b.stack[top], t.line>>}]
        [] brace = "close" /\ top = 0 -> [b EXCEPT !.stray = TRUE]
        [] OTHER -> b

BraceBlocks(text) ==
  LET after[p \in 0..Len(text)] == IF p = 0 THEN NoBlocks ELSE AfterToken(after[p - 1], text[p])
  IN  after[Len(text)]

Size(span) == span[2] - span[1]

\* The smallest span around a line; a declaration outside of all is seen from
\* the first line to the end.
InnermostSpanContaining(spans, l) ==
  LET around == {s \in spans : s[1] <= l /\ l <= s[2]}
  IN  IF around = {} THEN <<1, HugeLine>>
      ELSE CHOOSE s \in around : \A t \in around : Size(s) <= Size(t)

\* The declarations are looked for in the text as it is.
JsBindings(text, spans) ==
  {[kind |-> IF text[p].token = "cp_module" THEN "cp_module" ELSE "regexp",
    span |-> InnermostSpanContaining(spans, text[p].line)] :
     p \in {p \in DOMAIN text : text[p].token \in {"regexp", "regexp-in-comment", "cp_module"}}}

\* Bug variant: what is known of the blocks is used although a brace is missing.
JsBindingsByScopeOpen(text) == JsBindings(text, BraceBlocks(text).spans)

JsBindingsByScope(text) ==
  LET b == BraceBlocks(text)
  IN  IF b.stack # <<>> \/ b.stray THEN {} ELSE JsBindings(text, b.spans)

\* The kind of the innermost binding seen at a line; child_process if two
\* contradict each other.
ResolveReceiverKind(bindings, l) ==
  LET seen == {b \in bindings : b.span[1] <= l /\ l <= b.span[2]}
      best == {b.kind : b \in {b \in seen : \A c \in seen : Size(b.span) <= Size(c.span)}}
  IN  CASE best = {}            -> "unknown"
        [] "cp_module" \in best -> "cp_module"
        [] OTHER                -> "regexp"

\* The first receiver on the line decides.
JsIsRealExecCall(text, bindings, l) ==
  LET onReceiver == OnLine(text, l, {"cp.exec", "child_process.exec"})
  IN  \/ \E p \in onReceiver :
           /\ \A q \in onReceiver : p <= q
           /\ text[p].token = "child_process.exec" \/ ResolveReceiverKind(bindings, l) # "regexp"
      \/ /\ onReceiver = {} /\ OnLine(text, l, {"/x/.exec"}) = {}
         /\ OnLine(text, l, {"exec"}) # {}

HasChildProcess(f) == f.imports \/ \E p \in DOMAIN f.text : f.text[p].token = "cp_module"

\* The lines reported as running a shell.
ExecLines(f) ==
  LET bindings == JsBindingsByScope(f.text)
  IN  {l \in Lines(f.text) : HasChildProcess(f) /\ JsIsRealExecCall(f.text, bindings, l)}

----------------------------------------------------------------------------
(* The scopes of JS, by position.                                          *)

Count(text, token, first, last) == Cardinality({p \in first..last : text[p].token = token})

\* The braces that are open at p.
Enclosing(text, p) ==
  {o \in 1..(p - 1) : \A q \in o..(p - 1) : Count(text, "open", o, q) > Count(text, "close", o, q)}

Balanced(text) ==
  /\ \A p \in DOMAIN text : Count(text, "open", 1, p) >= Count(text, "close", 1, p)
  /\ Count(text, "open", 1, Len(text)) = Count(text, "close", 1, Len(text))

\* What cp is at p: the declarations of the innermost block around p that has
\* any.
DeclaredAt(text, p) ==
  LET visible == {d \in DOMAIN text : /\ text[d].token \in {"regexp", "cp_module", "cp-other"}
                                      /\ Enclosing(text, d) \subseteq Enclosing(text, p)}
  IN  {text[d].token : d \in {d \in visible : \A e \in visible : Enclosing(text, e) \subseteq Enclosing(text, d)}}

Items == JsToken \ {"open", "close", "brace-in-text"}

\* A text that is laid out the usual way: a line has one declaration or call,
\* and no brace closes before it or opens after it.
LaidOut(text) ==
  \A p \in DOMAIN text : text[p].token \in Items =>
    \A q \in DOMAIN text \ {p} : text[q].line = text[p].line =>
      /\ text[q].token \notin Items
      /\ q < p => text[q].token # "close"
      /\ q > p => text[q].token # "open"
=============================================================================
