-------------------------- MODULE MCToolScopeCreep --------------------------
(* A server with a class Store, a class Bare that has no methods, a        *)
(* function put and a dispatch handler, and a module ops with a function   *)
(* post and a class Client.  What is scanned is one of three families:     *)
(* tools with up to two calls, dispatch handlers, JS files.                *)
EXTENDS ToolScopeCreep, TLC

CONSTANTS erase, put, wipe, storePut, storePost, storeRemove, opsPost, clientPut, dispatch,
          server, ops, b1, b2, b3, b4, b5

MCFuncs == {erase, put, wipe, storePut, storePost, storeRemove, opsPost, clientPut, dispatch}
MCBlocks == {b1, b2, b3, b4, b5}
MCNameOf == erase :> "erase" @@ put :> "put" @@ wipe :> "wipe" @@ storePut :> "put" @@ storePost :> "post" @@
            storeRemove :> "remove" @@ opsPost :> "post" @@ clientPut :> "put" @@ dispatch :> "dispatch"
MCClassOf == clientPut :> "Client" @@ [g \in {erase, storePut, storePost, storeRemove} |-> "Store"]
             @@ [g \in {put, wipe, opsPost, dispatch} |-> NoClass]
MCClassNames == server :> {"Store", "Bare"} @@ ops :> {"Client"}
MCFileOf == [g \in {opsPost, clientPut} |-> ops] @@ [g \in MCFuncs \cup MCBlocks |-> server]
MCModule == server :> <<"pkg", "server">> @@ ops :> <<"pkg", "ops">>
MCDir == [f \in {server, ops} |-> <<"pkg">>]
MCIds == {"erase", "put", "wipe", "post", "remove", "dispatch", "Store", "Bare", "Client", "Foreign", "store",
          "ops", "pkg", "server", "os", "system", "get", "run", "subprocess", "open", "http", "sp"}

MCExactSinks == {<<"os", "remove">>, <<"os", "system">>, <<"subprocess", "run">>}
MCArgvSinks == {<<"subprocess", "run">>}

On(r, n) == [form |-> "on", on |-> r, name |-> n, marked |-> FALSE]
Off(form, n) == [form |-> form, on |-> NoId, name |-> n, marked |-> FALSE]
New(c, n) == [form |-> "new", on |-> c, name |-> n, marked |-> FALSE]
SubprocessRun == On("subprocess", "run")

From(level, module, n) ==
  [form |-> "from", level |-> level, module |-> module, name |-> n, as |-> NoId]
Is(n, ctor) == [id |-> n, ctor |-> ctor]

EmptyRepo ==
  [imports |-> [f \in {server, ops} |-> {}], globals |-> [f \in {server, ops} |-> {}],
   locals |-> [b \in MCFuncs \cup MCBlocks |-> {}], others |-> [b \in MCFuncs \cup MCBlocks |-> {}],
   calls |-> [b \in MCFuncs \cup MCBlocks |-> {}], gated |-> {}, moduleGate |-> {}]

\* Tools: what the server imports, what store is bound to and where, the
\* calls of the tool, one helper that runs a process, the gated helpers.
ToolCalls == {Off("bare", "put"), Off("bare", "post"), Off("self", "put"), On("Store", "put"),
              New("Store", "put"), On("store", "put"), On("store", "post"), On("ops", "post"),
              On("sp", "run"), Off("computed", "run")}
RunsProcess == {put, storePut, opsPost, clientPut}
ToolImports == {{}, {From(1, <<>>, "ops"), From(1, <<"ops">>, "Client")},
                {From(0, <<"pkg", "ops">>, "post"),
                 [form |-> "import", level |-> 0, module |-> <<"subprocess">>, name |-> NoId, as |-> "sp"]}}
Ctor == {<<"Store">>, <<"Bare">>, <<"Client">>, <<"Foreign">>}
Bound == {<<{}, {}, {}>>, <<{}, {}, {"store"}>>, <<{<<>>}, {}, {}>>,
          <<{<<"Store">>, <<"Client">>}, {}, {}>>, <<{}, {<<"Store">>, <<"Client">>}, {}>>}
         \cup {<<{k}, {}, {}>> : k \in Ctor} \cup {<<{<<"Store">>}, {k}, {}>> : k \in Ctor}

\* The bindings matter if store is used.
CallsAndBindings ==
  {p \in {C \in SUBSET ToolCalls : Cardinality(C) \in {1, 2}} \X Bound :
     p[2] = <<{}, {}, {}>> \/ \E c \in p[1] : c.on = "store"}
GatedHelpers ==
  {{}, {put}, {storePut}, {opsPost}, {clientPut}, {put, storePut}, {storePut, clientPut}, {erase}}

ToolWorlds ==
  {[repo |-> [EmptyRepo EXCEPT !.imports[server] = i,
                !.globals[server] = {Is("store", k) : k \in p[2][1]},
                !.locals[erase] = {Is("store", k) : k \in p[2][2]},
                !.others[erase] = p[2][3],
                !.calls[erase] = p[1], !.calls[g] = {SubprocessRun}, !.gated = G],
    handler |-> <<>>, lines |-> <<>>] :
     i \in ToolImports, p \in CallsAndBindings, g \in RunsProcess, G \in GatedHelpers}

\* Dispatch handlers: a statement ahead of the chain, a second link that may
\* compare something else, an else, a statement after the chain.
Plain(b) == [links |-> <<>>, orelse |-> b]
If(subject, lit, b) == [subject |-> subject, literal |-> lit, block |-> b]
Handlers ==
  {pre \o <<[links |-> <<If("name", "put_x", b2), second>>, orelse |-> e]>> \o post :
     pre \in {<<>>, <<Plain(b1)>>, <<[links |-> <<If("mode", "put_x", b1)>>, orelse |-> NoBlock]>>},
     second \in {If("name", "get_x", b3), If("mode", "get_x", b3), If(NoSubject, NoTool, b3)},
     e \in {NoBlock, b4}, post \in {<<>>, <<Plain(b5)>>}}
  \cup {<<Plain(b1), Plain(b2)>>, <<[links |-> <<If("mode", "get_x", b2)>>, orelse |-> b4]>>}

HandlerWorlds ==
  {[repo |-> [EmptyRepo EXCEPT !.calls[b] = {c}, !.calls[wipe] = {On("os", "system")}, !.gated = G],
    handler |-> h, lines |-> <<>>] :
     b \in MCBlocks, c \in {SubprocessRun, Off("bare", "wipe"), On("http", "get")},
     G \in {{}} \cup {{x} : x \in MCBlocks \cup {dispatch, wipe}}, h \in Handlers}

\* JS files of four lines.
JsWorlds ==
  {[repo |-> EmptyRepo, handler |-> <<>>, lines |-> l] :
     l \in [1..4 -> [registers : {"no", "tool"}, text : {"other", "sink", "gate", "gate in comment"}]]
           \cup {<<[registers |-> "mutating tool", text |-> t]>> : t \in {"other", "gate"}}}

MCWorlds == <<ToolWorlds, HandlerWorlds, JsWorlds>>

\* Tools that a namesake gates: one removes a file, in a server with a class
\* whose method remove is gated; one runs a process and calls a method of an
\* imported class on a new object, in a server with functions of that name.
Namesakes(called, imports, gated) ==
  {[repo |-> [EmptyRepo EXCEPT !.imports[server] = imports, !.calls[erase] = called, !.gated = G],
    handler |-> <<>>, lines |-> <<>>] : G \in SUBSET gated}
NamesakeWorlds ==
  <<Namesakes({On("os", "remove")}, {}, {storeRemove, put}),
    Namesakes({New("Client", "put"), SubprocessRun}, {From(1, <<"ops">>, "Client")}, {put, storePut})>>
=============================================================================
