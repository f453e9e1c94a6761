----------------------- MODULE MCReachabilityGrading -----------------------
(* A handler with a nested helper and a main function in a production      *)
(* file, a test function that shares the helper's name.  The possible call *)
(* sites include recursion, calls out of the nested function, calls from   *)
(* the test file and from module level; a call of "run" is an exact edge   *)
(* in one file and a name guess for the other.  With MaxDepth 2 a chain of *)
(* three functions meets the depth limit while the fourth is a root.       *)
EXTENDS ReachabilityGrading, TLC

CONSTANTS handler, helper, main, double, server, testpy, script

MCFuncs == {handler, helper, main, double}
MCNameOf == handler :> "handler" @@ helper :> "run" @@ main :> "main" @@ double :> "run"
MCFileOf == [f \in MCFuncs \ {double} |-> server] @@ double :> testpy
MCEncl == helper :> {helper, handler} @@ ModuleLevel :> {} @@ [f \in MCFuncs |-> {f}]
MCSites == {<<handler, "run">>, <<helper, "main">>, <<main, "handler">>,
            <<double, "handler">>, <<double, "run">>, <<ModuleLevel, "run">>}
MCFindings == << [file |-> server, at |-> helper],
                 [file |-> testpy, at |-> double],
                 [file |-> server, at |-> handler],
                 [file |-> script, at |-> WholeFile] >>
MCTestFiles == {testpy}
=============================================================================
