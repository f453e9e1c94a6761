------------------------------ MODULE MCTaint ------------------------------
(* A tool handler and its helper in one file, and two modules that import  *)
(* each other and the helper.  A call passes on nothing or one parameter,  *)
(* from y always one.                                                      *)
EXTENDS TaintPropagation

CONSTANTS handle, step, x, y, fa, fb, fc, p, q

MCFuncs == {handle, step, x, y}
MCFuncSeq == <<handle, step, x, y>>
MCNameOf == handle :> "handle" @@ step :> "step" @@ x :> "x" @@ y :> "y"
MCFileOf == handle :> fa @@ step :> fa @@ x :> fb @@ y :> fc
MCEncl == ModuleLevel :> {} @@ [f \in MCFuncs |-> {f}]
MCParamsOf == handle :> {p, q} @@ [f \in MCFuncs |-> {p}]
MCImports == fa :> ("x" :> "x" @@ "y" :> "y") @@ fb :> ("step" :> "step")
               @@ fc :> ("x" :> "x" @@ "handle" :> "handle")

MCCalls(names) ==
  [short : names, dotted : {FALSE}, feeds : {{}, {<<p, p>>, <<p, q>>}}]

UpTo1(C) == {<<>>} \cup {<<c>> : c \in C}
UpTo2(C) == UpTo1(C) \cup {<<c, d>> : c, d \in C}

MCPrograms ==
  {handle :> a @@ step :> b @@ x :> c @@ y :> d :
     a \in UpTo2(MCCalls({"step", "x"})),
     b \in UpTo1(MCCalls({"y", "handle"})),
     c \in UpTo1(MCCalls({"step", "y"})),
     d \in UpTo1({c \in MCCalls({"x", "handle"}) : c.feeds # {}})}
=============================================================================
