--------------------------- MODULE MCToolRegistry ---------------------------
(* A server module with a method find, and two functions named serve that  *)
(* may be low-level dispatchers.  It registers a function serve, or the    *)
(* function fetch of the tools module by an expression or by the name      *)
(* find, which an import then binds in spite of the method.                *)
EXTENDS ToolRegistry, TLC

CONSTANTS method, search, admin, public, server, tools, frontend

MCFuncs == {method, search, admin, public}
MCNameOf == method :> "find" @@ search :> "fetch" @@ admin :> "serve" @@ public :> "serve"
MCFileOf == search :> tools @@ [f \in MCFuncs |-> server]
MCEncl == ModuleLevel :> {} @@ [f \in MCFuncs |-> {f}]
MCMethods == {method}
MCSites == {<<public, "find">>, <<search, "serve">>}
MCImports == {server :> p @@ tools :> {} : p \in {{}, {"mcp"}, {"fastmcp"}}}
MCDecos == {admin :> a @@ public :> p @@ [f \in MCFuncs |-> {}] :
              a \in SUBSET Decorators, p \in {{}, {"call_tool"}}}
MCCalls == {[file |-> server, arg |-> a, runs |-> search] : a \in {"find", NoNode}}
             \cup {[file |-> server, arg |-> "serve", runs |-> g] : g \in {admin, public}}
MCTools == [file : {server}, nr : {1}, runs : {admin, public}]
MCBindings == [file : {server}, name : {"find"}, to : {search}]
=============================================================================
