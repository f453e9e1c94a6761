-------------------------- MODULE MCParamInjection --------------------------
(* Files for the parameter-injection detector.                             *)
EXTENDS ParamInjection

SE == INSTANCE SequencesExt

MCIds ==
  {"httpx", "requests", "sessions", "urllib", "request", "hx", "rs", "send", "get", "put", "post", "stream", "urlopen",
   "Client", "AsyncClient", "Session", "Http", "client", "self", "http", "load", "close"}

----------------------------------------------------------------------------
ImportModule(m, as) == [module |-> m, level |-> 0, name |-> NoId, as |-> as]
ImportFrom(level, m, name, as) == [module |-> m, level |-> level, name |-> name, as |-> as]

ImportMenu ==
  {ImportModule(<<"httpx">>, NoId), ImportModule(<<"httpx">>, "hx"), ImportModule(<<"requests", "sessions">>, "rs"),
   ImportFrom(0, <<"httpx">>, "post", "send"), ImportFrom(0, <<"urllib", "request">>, "urlopen", NoId),
   ImportFrom(0, <<"urllib">>, "request", NoId), ImportFrom(0, <<"httpx">>, "AsyncClient", "Http"),
   ImportFrom(0, <<"requests", "sessions">>, "Session", NoId)}
    \cup UNION {{ImportFrom(level, <<"httpx">>, "get", NoId), ImportFrom(level, <<"httpx">>, "Client", NoId)} : level \in 0..1}

Callees ==
  <<<<"httpx", "stream">>, <<"httpx", "put">>, <<"hx", "put">>, <<"send">>, <<"get">>, <<"urlopen">>, <<"request", "urlopen">>,
    <<"client", "post">>, <<"client", "get">>, <<"client", "request">>, <<"client", "close">>, <<"self", "http", "post">>>>
ArgLists == {<<"variable">>, <<"constant">>, <<"constant", "variable">>, <<>>}
Calls(of, args) == [n \in DOMAIN Callees |-> [of |-> of, callee |-> Callees[n], args |-> args]]

Receivers == {<<"client">>, <<"self", "http">>}
Made == {<<"httpx", "Client">>, <<"hx", "AsyncClient">>, <<"Client">>, <<"Http">>, <<"Session">>, <<"rs", "Session">>, <<"load">>}
Bindings ==
  {[target |-> t, form |-> "value", made |-> m] : t \in Receivers, m \in Made}
    \cup {[target |-> t, form |-> form, made |-> <<>>] : t \in Receivers, form \in {"value", "other", "unnoted"}}

PyFile(test, allowlist, imports, bindings, calls) ==
  [language |-> "python", test |-> test, allowlist |-> allowlist, imports |-> imports, bindings |-> bindings, calls |-> calls]

\* Up to two imports, or one and up to two bindings.
NameSources ==
  {f \in {PyFile(test, allowlist, {i, j}, {}, Calls("name", args)) :
            test \in BOOLEAN, allowlist \in BOOLEAN, i \in ImportMenu, j \in ImportMenu, args \in ArgLists} : PlainSource(f)}
ReceiverSources ==
  {PyFile(test, FALSE, {i}, {a, b}, Calls(of, args)) :
     test \in BOOLEAN, i \in ImportMenu, a \in Bindings, b \in Bindings, of \in {"name", "result"},
     args \in {<<"variable">>, <<"constant", "variable">>}}

----------------------------------------------------------------------------
Text(lines) ==
  SE!FlattenSeq([l \in DOMAIN lines |-> [j \in DOMAIN lines[l] |-> [token |-> lines[l][j], line |-> l]]])
JsFile(imports, lines) == [language |-> "js", imports |-> imports, text |-> Text(lines)]

\* Five lines of the commonest kinds, or three of any.
Common == {<<"open">>, <<"close">>, <<"regexp">>, <<"cp_module">>, <<"cp.exec">>, <<"brace-in-text">>}
Rare ==
  Common \cup {<<"open", "cp.exec">>, <<"open", "regexp", "close">>, <<"open", "regexp">>, <<"cp.exec", "close">>,
               <<"close", "open">>, <<"open", "open">>, <<"close", "close">>, <<"open", "regexp", "brace-in-text">>,
               <<"cp.exec", "brace-in-text", "close">>, <<"regexp", "cp.exec">>, <<"exec">>, <<"child_process.exec">>,
               <<"/x/.exec">>, <<"regexp-in-comment">>, <<"cp-other">>}
JsSources ==
  {JsFile(TRUE, lines) : lines \in [1..5 -> Common]} \cup {JsFile(imports, lines) : imports \in BOOLEAN, lines \in [1..3 -> Rare]}

InjectionRepos ==
  <<{<<f>> : f \in NameSources}, {<<f>> : f \in ReceiverSources}, {<<f>> : f \in JsSources},
    {<<f, g, f>> : f \in {JsFile(TRUE, <<<<"regexp">>, <<"cp.exec">>>>), JsFile(TRUE, <<<<"cp_module">>, <<"cp.exec">>>>)},
                   g \in {PyFile(FALSE, FALSE, {}, {[target |-> <<"client">>, form |-> "value", made |-> m]},
                                Calls("name", <<"variable">>)) : m \in Made}}>>

ASSUME InjectionReposOK ==
  \A family \in DOMAIN InjectionRepos : \A files \in InjectionRepos[family] : WellFormedSources(files)
=============================================================================
