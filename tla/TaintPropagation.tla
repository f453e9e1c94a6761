-------------------------- MODULE TaintPropagation --------------------------
(***************************************************************************)
(* TaintEngine of mcp_scanner/taint.py: the parameters of the registered   *)
(* tool handlers are tainted, and a LIFO worklist carries the taint into   *)
(* the functions they call, across at most HopBudget direct-import hops.   *)
(*                                                                         *)
(* The expression rules (_expr_tainted) and the fixpoint over local names  *)
(* distribute over unions of tainted names, so a call site is modelled by  *)
(* its feeds: <<p, q>> says that the caller's tainted parameter p taints   *)
(* the callee's parameter q there.                                         *)
(***************************************************************************)
EXTENDS CallGraph, SequencesExt

CONSTANTS
  Params,    (* parameter names                                            *)
  ParamsOf,  (* the parameters of each function                            *)
  FuncSeq,   (* the functions in index order: file by file, as walked; the
                order of the registry, too, for decorated handlers         *)
  Imports,   (* per file: local name -> symbol, of its from-imports        *)
  Handlers,  (* functions that may be registered as tools                  *)
  HopBudget, (* _CROSS_FILE_HOP_BUDGET; 2 in the code                      *)
  Programs   (* the repositories to consider: functions to call sequences  *)

Call == [short : Names, dotted : BOOLEAN, feeds : SUBSET (Params \X Params)]

ASSUME TaintAssumption ==
  /\ IsFiniteSet(Params) /\ ParamsOf \in [Funcs -> SUBSET Params]
  /\ FuncSeq \in Seq(Funcs) /\ ToSet(FuncSeq) = Funcs
  /\ \A f \in Files : Imports[f] \in [DOMAIN Imports[f] -> Names]
  /\ Handlers \subseteq Funcs
  /\ HopBudget \in Nat
  /\ Programs \subseteq [Funcs -> Seq(Call)]

VARIABLES
  calls,     (* the calls in each function's body, in ast.walk order       *)
  roots,     (* handler nodes of the registered tools                      *)
  stack,     (* pending [fn, seed, budget]; the last one is popped first   *)
  seeds,     (* tainted parameters merged per function so far              *)
  computed   (* functions the engine has entered                           *)

vars == <<calls, roots, stack, seeds, computed>>

Item(f, seed, budget) == [fn |-> f, seed |-> seed, budget |-> budget]

----------------------------------------------------------------------------
SameFile(f, c) == {g \in Funcs : FileOf[g] = FileOf[f] /\ NameOf[g] = c.short}

\* The imported symbol behind the called name; an attribute call x.f() of an
\* unknown x resolves f repo-wide, a bare name that is not imported nothing.
Targets(f, c) ==
  IF c.short \in DOMAIN Imports[FileOf[f]] THEN {Imports[FileOf[f]][c.short]}
  ELSE IF c.dotted THEN {c.short} ELSE {}

CrossFile(f, c) == {g \in Funcs : FileOf[g] # FileOf[f] /\ NameOf[g] \in Targets(f, c)}

\* Bug variant: imports are followed when the budget is spent.
ResolveCalleeOverBudget(f, c, allowCross) ==
  IF SameFile(f, c) # {} THEN SameFile(f, c) ELSE CrossFile(f, c)

\* Same-file definitions win and are exclusive.
ResolveCallee(f, c, allowCross) ==
  IF SameFile(f, c) # {} THEN SameFile(f, c)
  ELSE IF allowCross THEN CrossFile(f, c) ELSE {}

\* The by-name lists hold their functions in index order: so are the items.
InOrder(items) ==
  FlattenSeq([k \in 1..Len(FuncSeq) |->
                IF FuncSeq[k] \in DOMAIN items THEN <<items[FuncSeq[k]]>> ELSE <<>>])

TaintedParamsPassed(c, g, tainted) ==
  {q \in ParamsOf[g] : \E p \in tainted : <<p, q>> \in c.feeds}

HopTo(f, g) == IF FileOf[g] = FileOf[f] THEN 0 ELSE 1

PushesOf(f, tainted, budget) ==
  LET ForCall(c) ==
        InOrder([g \in ResolveCallee(f, c, budget > 0) |->
                   Item(g, TaintedParamsPassed(c, g, tainted), budget - HopTo(f, g))])
  IN  FlattenSeq([k \in 1..Len(calls[f]) |-> ForCall(calls[f][k])])

----------------------------------------------------------------------------
Init ==
  /\ calls \in Programs
  /\ roots \in SUBSET Handlers
  /\ stack = InOrder([f \in roots |-> Item(f, ParamsOf[f], HopBudget)])
  /\ seeds = [f \in Funcs |-> IF f \in roots THEN ParamsOf[f] ELSE {}]
  /\ computed = {}

\* Bug variant: a function is entered once, whatever taint arrives later.
NoGrowthOnceComputed(item) ==
  /\ item.fn \in computed
  /\ stack' = Front(stack)
  /\ UNCHANGED <<calls, roots, seeds, computed>>

\* Bug variant: an item with nothing new is looked at but not popped.
NoGrowthWithoutPop(item) ==
  /\ item.fn \in computed
  /\ item.seed \subseteq seeds[item.fn]
  /\ UNCHANGED <<calls, roots, stack, seeds, computed>>

\* Nothing new to propagate: the item is dropped whatever budget it carries.
NoGrowth(item) ==
  /\ item.fn \in computed
  /\ item.seed \subseteq seeds[item.fn]
  /\ stack' = Front(stack)
  /\ UNCHANGED <<calls, roots, seeds, computed>>

Grow(item) ==
  /\ ~(item.fn \in computed /\ item.seed \subseteq seeds[item.fn])
  /\ seeds' = [seeds EXCEPT ![item.fn] = @ \cup item.seed]
  /\ computed' = computed \cup {item.fn}
  /\ stack' = Front(stack) \o PushesOf(item.fn, seeds'[item.fn], item.budget)
  /\ UNCHANGED <<calls, roots>>

Next == stack # <<>> /\ (NoGrowth(Last(stack)) \/ Grow(Last(stack)))

Done == stack = <<>>

\* A sequential loop: it takes the step it can take until the stack is empty.
Spec == Init /\ [][Next]_vars /\ WF_vars(Next)

----------------------------------------------------------------------------
(* Reference definitions: rounds of propagation from the tool handlers.    *)
(* <<f, h>> is an entry if f is called from a handler over h import hops.  *)

Callee(f, c, h) == ResolveCallee(f, c, h < HopBudget)
CallsIn(f) == {calls[f][k] : k \in 1..Len(calls[f])}
MaxRounds == Cardinality(Funcs) * (HopBudget + 1)

Entries ==
  LET NextHops(e, c) == {<<g, e[2] + HopTo(e[1], g)>> : g \in Callee(e[1], c, e[2])}
      Round(S) == S \cup UNION {UNION {NextHops(e, c) : c \in CallsIn(e[1])} : e \in S}
      After[n \in 0..MaxRounds] == IF n = 0 THEN roots \X {0} ELSE Round(After[n - 1])
  IN  After[MaxRounds]

\* One round over same-file calls: T holds <<function, its tainted parameters>>.
Entered(T) == {t[1] : t \in T} \cup UNION {UNION {SameFile(t[1], c) : c \in CallsIn(t[1])} : t \in T}

TaintedIn(T, g) ==
  (UNION {t[2] : t \in {u \in T : u[1] = g}})
    \cup UNION {UNION {TaintedParamsPassed(c, g, t[2]) :
                         c \in {d \in CallsIn(t[1]) : g \in SameFile(t[1], d)}} : t \in T}

FlowRound(T) == {<<g, TaintedIn(T, g)>> : g \in Entered(T)}
FlowRounds == Cardinality(Funcs) * (Cardinality(Params) + 1)

\* Functions entered, and taint carried, over same-file calls only.
SameFileFlow ==
  LET After[n \in 0..FlowRounds] ==
        IF n = 0 THEN {<<f, ParamsOf[f]>> : f \in roots} ELSE FlowRound(After[n - 1])
  IN  After[FlowRounds]

----------------------------------------------------------------------------
TypeOK ==
  /\ calls \in Programs
  /\ roots \subseteq Funcs
  /\ stack \in Seq([fn : Funcs, seed : SUBSET Params, budget : 0..HopBudget])
  /\ seeds \in [Funcs -> SUBSET Params]
  /\ computed \subseteq Funcs

(* Within the file of a handler the propagation is transitive and complete *)
(* in both what it enters and what it taints, whatever the order in which  *)
(* shorter and longer paths are met (module docs of taint.py).             *)
SameFileTransitive ==
  Done => \A t \in SameFileFlow : t[1] \in computed /\ t[2] \subseteq seeds[t[1]]

(* The propagation ends on recursive and mutually importing programs.      *)
TaintTerminates == <>Done

(* Documented: dataflow is followed up to two direct-import hops, so every *)
(* function called from a handler within the budget has been analysed.     *)
TwoHopsFollowed ==
  Done => \A e \in Entries : e[1] \in computed
=============================================================================
