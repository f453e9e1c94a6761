--------------------------- MODULE ParamInjection ---------------------------
(***************************************************************************)
(* detectors/param_injection.py, as far as it has to find out what a       *)
(* receiver is: whether client.post(url) is called on an HTTP client, and  *)
(* in JS whether cp.exec(x) runs a shell (JsExecCalls).  Either is decided *)
(* within one file.                                                        *)
(***************************************************************************)
EXTENDS JsExecCalls

CONSTANTS
  Ids,        (* names                                                     *)
  NoId

ASSUME InjectionAssumption == NoId \notin Ids

\* Dotted names are sequences of names.
Dotted == Seq(Ids)
Outer(n) == SubSeq(n, 1, Len(n) - 1)
Final(n) == n[Len(n)]

VerbMethods == {"get", "options", "head", "post", "put", "patch", "delete"}
StateChangingVerbs == {"post", "put", "patch", "delete"}
HttpSinkModules == {<<"httpx">>, <<"requests">>, <<"aiohttp">>, <<"urllib", "request">>}
HttpClientConstructors ==
  {<<"httpx", "Client">>, <<"httpx", "AsyncClient">>, <<"requests", "Session">>,
   <<"requests", "sessions", "Session">>, <<"aiohttp", "ClientSession">>}
SsrfSinks ==
  {<<m, v>> : m \in {"requests", "httpx"}, v \in VerbMethods \cup {"request"}}
    \cup {<<"httpx", "stream">>, <<"urllib", "request", "urlopen">>, <<"urlopen">>}
InstanceSinks == VerbMethods \cup {"request", "stream"}

\* Which argument is the URL.
UrlArg(n) == IF Final(n) \in {"request", "stream"} THEN 2 ELSE 1

\* "import <module> as <as>", "from <level dots><module> import <name> as <as>".
PyImport == [module : Dotted, level : Nat, name : Ids \cup {NoId}, as : Ids \cup {NoId}]

\* What binds a name or an attribute: an assignment or "with ... as" (value,
\* with the dotted name that is called for the value, <<>> if none is); a
\* parameter, a loop, a definition (other); a part of a tuple, := (unnoted).
PyBinding == [target : Dotted, form : {"value", "other", "unnoted"}, made : Dotted]

\* of: whether the dotted name is the whole callee or follows the result of a
\* call, as in f().post(url), which the code renders as post.
PyCall == [of : {"name", "result"}, callee : Dotted, args : Seq({"constant", "variable"})]
PySource == [language : {"python"}, test : BOOLEAN, allowlist : BOOLEAN, imports : SUBSET PyImport,
             bindings : SUBSET PyBinding, calls : Seq(PyCall)]

VARIABLES
  sources,    (* the files                                                 *)
  position,   (* the number of the file at which the scan has arrived      *)
  injections  (* findings                                                  *)

piVars == <<sources, position, injections>>

----------------------------------------------------------------------------
(* Python: what the imports of a file rename.                              *)

ImportedAs(i) ==
  IF i.as # NoId THEN i.as ELSE IF i.name # NoId THEN i.name ELSE i.module[1]

ModuleAliases(f) == {i \in f.imports : i.name = NoId /\ i.as # NoId /\ i.module \in HttpSinkModules}

\* Bug variant: relative imports as well.
SymbolAliasesAnyLevel(f) == {i \in f.imports : i.name # NoId /\ i.module \in HttpSinkModules}

SymbolAliases(f) == {i \in f.imports : i.name # NoId /\ i.level = 0 /\ i.module \in HttpSinkModules}

CanonicalHttpName(f, n) ==
  LET symbol == {i \in SymbolAliases(f) : n = <<ImportedAs(i)>>}
      module == {i \in ModuleAliases(f) : Len(n) > 1 /\ n[1] = i.as}
      s == CHOOSE i \in symbol : TRUE
      m == CHOOSE i \in module : TRUE
  IN  IF symbol # {} THEN Append(s.module, s.name)
      ELSE IF module # {} THEN m.module \o Tail(n)
      ELSE n

MakesClient(f, b) == b.form = "value" /\ CanonicalHttpName(f, b.made) \in HttpClientConstructors

\* Bug variant: parameters, loops and definitions are no evidence.
BoundOtherwiseByValue(f) ==
  {b.target : b \in {b \in f.bindings : b.form = "value" /\ ~MakesClient(f, b)}}

\* Names with evidence of something else.  The target of a tuple has no
\* dotted name, so that its parts are not noted; := is not looked at.
BoundOtherwise(f) ==
  {b.target : b \in {b \in f.bindings : b.form # "unnoted" /\ ~MakesClient(f, b)}}
    \cup {<<ImportedAs(i)>> : i \in f.imports}

HttpClientReceivers(f) == {b.target : b \in {b \in f.bindings : MakesClient(f, b)}} \ BoundOtherwise(f)

\* Bug variant: the severity goes by the name in the text.
SeverityAsWritten(f, n, c) == IF ~f.test /\ Final(c.callee) \in StateChangingVerbs THEN "P1" ELSE "P2"

\* A state-changing verb raises the severity but in tests.
Severity(f, n, c) == IF ~f.test /\ Final(n) \in StateChangingVerbs THEN "P1" ELSE "P2"

\* The URL is there and not constant, and the file has no allowlist.
FreeUrl(f, n, c) == UrlArg(n) \in DOMAIN c.args /\ c.args[UrlArg(n)] = "variable" /\ ~f.allowlist

\* A fetch by a function of a known module or by a method of a proven client.
IsSsrf(f, n, c) ==
  /\ n \in SsrfSinks \/ (Len(n) > 1 /\ Outer(n) \in HttpClientReceivers(f) /\ Final(n) \in InstanceSinks)
  /\ FreeUrl(f, n, c)

SsrfFinding(k, i, severity) == [class |-> "ssrf", file |-> k, at |-> i, severity |-> severity]

CheckCalls(k, f) ==
  LET Name(i) == CanonicalHttpName(f, f.calls[i].callee)
  IN  {SsrfFinding(k, i, Severity(f, Name(i), f.calls[i])) :
         i \in {i \in DOMAIN f.calls : IsSsrf(f, Name(i), f.calls[i])}}

----------------------------------------------------------------------------
ExecFinding(k, l) == [class |-> "shell-injection", file |-> k, at |-> l, severity |-> "P1"]

InitInjection(repos) == sources \in repos /\ position = 1 /\ injections = {}

ScanPyFile ==
  /\ position \in DOMAIN sources /\ sources[position].language = "python"
  /\ injections' = injections \cup CheckCalls(position, sources[position])
  /\ position' = position + 1 /\ UNCHANGED sources

ScanJsFile ==
  /\ position \in DOMAIN sources /\ sources[position].language = "js"
  /\ injections' = injections \cup {ExecFinding(position, l) : l \in ExecLines(sources[position])}
  /\ position' = position + 1 /\ UNCHANGED sources

InjectionDone == position \notin DOMAIN sources

NextInjection == ScanPyFile \/ ScanJsFile

InjectionSpec(repos) == InitInjection(repos) /\ [][NextInjection]_piVars

----------------------------------------------------------------------------
(* What a name denotes in a Python file.                                   *)

\* The name in full; <<>> for what the repository itself defines.
Denotes(f, n) ==
  LET by == {i \in f.imports : n # <<>> /\ ImportedAs(i) = n[1]}
      i == CHOOSE i \in by : TRUE
  IN  IF by = {} THEN n
      ELSE IF i.level > 0 THEN <<>>
      ELSE IF i.name # NoId THEN Append(i.module, i.name) \o Tail(n)
      ELSE IF i.as # NoId THEN i.module \o Tail(n)
      ELSE n

\* The first names of the surface above.
ModuleHeads == {"httpx", "requests", "aiohttp", "urllib", "urlopen"}

\* A file as the rule is made for: no name is imported as two things or bound
\* again, and none that a known module goes by denotes something else.
PlainSource(f) ==
  /\ \A i, j \in f.imports :
       ImportedAs(i) = ImportedAs(j) => i = j \/ \A m \in {i, j} : m.name = NoId /\ m.as = NoId
  /\ \A i \in f.imports :
       /\ i.module # <<>> \/ i.level > 0
       /\ i.name = NoId => i.level = 0
       /\ ImportedAs(i) \in ModuleHeads =>
            (i.name = NoId /\ i.as = NoId) \/ (i \in SymbolAliases(f) /\ ImportedAs(i) = "urlopen")
  /\ \A b \in f.bindings :
       b.target # <<>> /\ b.target[1] \notin ModuleHeads \cup {ImportedAs(i) : i \in f.imports}
  /\ \A n \in DOMAIN f.calls : f.calls[n].callee # <<>>

WellFormedSources(files) ==
  /\ files \in Seq(PySource \cup JsSource)
  /\ \A k \in DOMAIN files : IF files[k].language = "python" THEN PlainSource(files[k])
                                                             ELSE Numbered(files[k].text)

BindingsOf(f, r) == {b \in f.bindings : b.target = r}

\* Whatever the file says of r, in whatever scope, is that it is a client.
IsClient(f, r) ==
  /\ BindingsOf(f, r) # {}
  /\ \A b \in BindingsOf(f, r) : b.form = "value" /\ Denotes(f, b.made) \in HttpClientConstructors

IsRequest(f, c) ==
  \/ Denotes(f, c.callee) \in SsrfSinks
  \/ Len(c.callee) > 1 /\ Final(c.callee) \in InstanceSinks /\ IsClient(f, Outer(c.callee))

\* All bindings of the receiver are of a form that the code looks at.
Noted(f, c) == \A b \in BindingsOf(f, Outer(c.callee)) : b.form # "unnoted"

\* A name that an import renames in a way the code does not resolve: of a module
\* that is not listed, or of a part of a listed one that is a module again.
Unresolved(f, n) ==
  n # <<>> /\ \E i \in f.imports :
    /\ ImportedAs(i) = n[1] /\ ~(i.name = NoId /\ i.as = NoId)
    /\ i.module \notin HttpSinkModules \/ (i.name # NoId /\ Len(n) > 1)

\* No request is invented: what is reported as one denotes by Python's imports a
\* function that fetches, or is a method of something that the file makes a
\* client wherever it binds the name (_http_client_receivers, exclusions 2
\* and 3; relative imports, aliases).
OnlyRequestsAreReported ==
  \A x \in injections : x.class = "ssrf" =>
    LET f == sources[x.file]
        c == f.calls[x.at]
    IN  c.of = "name" /\ (Unseen \/ Noted(f, c)) => IsRequest(f, c)

\* No request is lost, and renaming it does not change its severity: a call that
\* denotes one, of a URL that varies, is reported, as P1 if and only if the verb
\* it denotes changes state and the file is no test (_check_call).
RequestsKeepTheirSeverity ==
  \A k \in DOMAIN sources : k < position /\ sources[k].language = "python" =>
    LET f == sources[k]
    IN  \A n \in DOMAIN f.calls :
          LET c == f.calls[n]
              name == Denotes(f, c.callee)
              raised == ~f.test /\ Final(name) \in StateChangingVerbs
          IN  /\ c.of = "name" /\ Noted(f, c) /\ ~Unresolved(f, c.callee) /\ IsRequest(f, c) /\ FreeUrl(f, name, c)
              /\ \A b \in BindingsOf(f, Outer(c.callee)) : ~Unresolved(f, b.made)
              => SsrfFinding(k, n, IF raised THEN "P1" ELSE "P2") \in injections

\* Of the calls of exec in a file with child_process only matches of a regular
\* expression are silent: a literal, or a name whose innermost declaration by
\* JS's scopes is one, in a text whose braces balance (_js_bindings_by_scope,
\* round-3 fix: fails closed).  Other calls are reported at their line.
ExecSilentOnlyOnRegExp ==
  \A k \in DOMAIN sources : k < position /\ sources[k].language = "js" =>
    LET f == sources[k]
        Silent(p) == \/ f.text[p].token = "/x/.exec"
                     \/ f.text[p].token = "cp.exec" /\ Balanced(f.text) /\ DeclaredAt(f.text, p) = {"regexp"}
    IN  HasChildProcess(f) /\ LaidOut(f.text)
          /\ (Unseen \/ \A p \in DOMAIN f.text : f.text[p].token \notin {"regexp-in-comment", "cp-other"})
        => \A p \in DOMAIN f.text :
             f.text[p].token \in {"cp.exec", "child_process.exec", "exec", "/x/.exec"} =>
               (ExecFinding(k, f.text[p].line) \in injections <=> ~Silent(p))
=============================================================================
