-------------------------- MODULE CalleeResolution --------------------------
(***************************************************************************)
(* How detectors/tool_scope_creep.py reads a call: which functions of the  *)
(* repository it may run (one hop, never transitive), and whether it is a  *)
(* mutating sink by itself.  Next to what the code reads from the names    *)
(* stands what the names denote when the program runs (Runs), which the    *)
(* properties compare it with.                                             *)
(***************************************************************************)
EXTENDS Naturals, FiniteSets, Sequences

CONSTANTS
  Files,
  Module,        (* the dotted path of each file, a sequence of Ids        *)
  Dir,           (* the path of its directory                              *)
  Funcs,         (* function definitions, methods included                 *)
  Sections,      (* statements inspected as a unit: blocks of a handler    *)
  FileOf,        (* the file of each function and section                  *)
  NameOf,        (* the name of each function                              *)
  ClassOf,       (* the class a method belongs to, or NoClass              *)
  ClassNames,    (* the classes each file defines, with methods or not     *)
  Ids,           (* identifiers                                            *)
  NoClass, NoId,
  External,      (* code outside of the repository                         *)
  SinkModules,   (* os, subprocess, shutil                                 *)
  ExactSinks,    (* dotted names of mutating functions                     *)
  ArgvSinks,     (* those that run a shell only if told to                 *)
  ShortSinks     (* names that mean mutation on an unknown receiver        *)

ASSUME ResolutionAssumption ==
  /\ Module \in [Files -> Seq(Ids)] /\ Dir \in [Files -> Seq(Ids)]
  /\ NameOf \in [Funcs -> Ids] /\ ClassOf \in [Funcs -> Ids \cup {NoClass}]
  /\ ClassNames \in [Files -> SUBSET Ids]
  /\ \A g \in Funcs : ClassOf[g] \in ClassNames[FileOf[g]] \cup {NoClass}
  /\ FileOf \in [Funcs \cup Sections -> Files]
  /\ NoClass \notin Ids /\ NoId \notin Ids /\ External \notin Funcs
  /\ ArgvSinks \subseteq ExactSinks
  /\ \A g, h \in Funcs : FileOf[g] = FileOf[h] /\ NameOf[g] = NameOf[h]
                           /\ ClassOf[g] = ClassOf[h] => g = h

Bodies == Funcs \cup Sections

\* name(), on.name(), on().name(), self.name(), <expression>.name().  marked:
\* the call passes shell=True, or opens for writing.
Call == [form : {"bare", "on", "new", "self", "computed"},
         on : Ids \cup {NoId}, name : Ids, marked : BOOLEAN]

\* "from <level dots><module> import <name> as <as>", "import <module> as <as>".
Import == [form : {"from", "import"}, level : Nat, module : Seq(Ids), name : Ids \cup {NoId},
           as : Ids \cup {NoId}]

\* What a name is assigned: the call of a constructor, given by the dotted
\* name called, or something else (<<>>).
Binding == [id : Ids, ctor : Seq(Ids)]

VARIABLE
  repo     (* imports and module-level assignments of each file, assignments
              in each body, names each body binds in another way (parameters,
              loops, with), calls in each body, bodies whose text shows a
              gate, files with a gate at module level                      *)

RepoType ==
  [imports : [Files -> SUBSET Import], globals : [Files -> SUBSET Binding],
   locals : [Bodies -> SUBSET Binding], others : [Bodies -> SUBSET Ids],
   calls : [Bodies -> SUBSET Call], gated : SUBSET Bodies, moduleGate : SUBSET Files]

FunctionsNamed(f, n) == {g \in Funcs : FileOf[g] = f /\ NameOf[g] = n}
Method(f, c, n) == {g \in FunctionsNamed(f, n) : ClassOf[g] = c}
TopLevel(f, n) == Method(f, NoClass, n)

----------------------------------------------------------------------------
(* Imports.                                                                *)

Unresolvable == <<NoId>>

Local(i) ==
  IF i.as # NoId THEN i.as ELSE IF i.form = "from" THEN i.name ELSE i.module[1]

\* The path a "from" import starts at; a level above the root has none.
FromBase(f, i) ==
  CASE i.level = 0               -> i.module
    [] i.level - 1 > Len(Dir[f]) -> Unresolvable
    [] OTHER                     -> SubSeq(Dir[f], 1, Len(Dir[f]) - (i.level - 1)) \o i.module

FileAt(path) == {g \in Files : Module[g] = path}

\* What an import binds: a file as a module (symbol NoId) or a name of it;
\* the empty set if the target is not in the repository.
Target(f, i) ==
  LET base == FromBase(f, i)
      Whole(path) == {[file |-> g, symbol |-> NoId] : g \in FileAt(path)}
  IN  IF i.form = "import"
      THEN IF i.as = NoId /\ Len(i.module) > 1 THEN {} ELSE Whole(i.module)
      ELSE IF FileAt(Append(base, i.name)) # {} THEN Whole(Append(base, i.name))
      ELSE {[file |-> g, symbol |-> i.name] : g \in FileAt(base)}

\* What a name is imported as from the repository.
Imported(f, n) == UNION {Target(f, i) : i \in {i \in repo.imports[f] : Local(i) = n}}

ImportedNames(f) == {Local(i) : i \in {i \in repo.imports[f] : Target(f, i) # {}}}

----------------------------------------------------------------------------
(* Instances.                                                              *)

\* The class that a constructor's dotted name denotes, as <<file, class>>.
CtorTargetClass(f, ctor, cross) ==
  CASE Len(ctor) = 1 /\ ctor[1] \in ClassNames[f] -> {<<f, ctor[1]>>}
    [] Len(ctor) = 1 /\ ctor[1] \notin ClassNames[f] /\ cross ->
         {<<t.file, t.symbol>> : t \in {t \in Imported(f, ctor[1]) : t.symbol # NoId}}
    [] Len(ctor) > 1 /\ cross ->
         {<<t.file, ctor[Len(ctor)]>> : t \in {t \in Imported(f, ctor[1]) : t.symbol = NoId}}
    [] OTHER -> {}

Ctors(bindings, n) == {b.ctor : b \in {b \in bindings : b.id = n}}

\* What a name is assigned in the body that uses it, else at module level.
LocalBindingValues(b, n) ==
  IF Ctors(repo.locals[b], n) # {} THEN Ctors(repo.locals[b], n)
                                   ELSE Ctors(repo.globals[FileOf[b]], n)

IsInstance(b, n) == LocalBindingValues(b, n) # {} /\ <<>> \notin LocalBindingValues(b, n)

\* No class if the assignments disagree.
InstanceClass(b, n) ==
  IF \E ctor \in LocalBindingValues(b, n) : LocalBindingValues(b, n) = {ctor}
  THEN UNION {CtorTargetClass(FileOf[b], ctor, TRUE) : ctor \in LocalBindingValues(b, n)}
  ELSE {}

\* Everything a file binds a name to besides assigning it at module level.
BoundElsewhere(f, n) ==
  \/ \E b \in Bodies : FileOf[b] = f /\ (n \in repo.others[b] \/ Ctors(repo.locals[b], n) # {})
  \/ \E i \in repo.imports[f] : Local(i) = n
  \/ FunctionsNamed(f, n) # {} \/ n \in ClassNames[f]

\* The receiver is proven to be an instance of a class that defines the
\* method: it is bound once in the file, at module level, to a constructor.
InternalReceiver(f, c, cross) ==
  /\ c.form = "on"
  /\ ~BoundElsewhere(f, c.on)
  /\ \E ctor \in Ctors(repo.globals[f], c.on) :
       /\ Ctors(repo.globals[f], c.on) = {ctor}
       /\ \E t \in CtorTargetClass(f, ctor, cross) : Method(t[1], t[2], c.name) # {}

----------------------------------------------------------------------------
(* Sinks.  cross: names imported from the repository are known.            *)

Dotted(c) ==
  CASE c.form = "on"   -> <<c.on, c.name>>
    [] c.form = "self" -> <<"self", c.name>>
    [] OTHER           -> <<c.name>>

\* The dotted name with an alias of a sink module, or a function imported
\* from one, replaced by what it stands for.
ResolvedSinkName(f, c) ==
  LET alias  == {i \in repo.imports[f] : /\ i.form = "import" /\ i.as = c.on /\ i.as # NoId
                                         /\ Len(i.module) = 1 /\ i.module[1] \in SinkModules}
      symbol == {i \in repo.imports[f] : /\ i.form = "from" /\ Local(i) = c.name
                                         /\ Len(i.module) = 1 /\ i.module[1] \in SinkModules}
  IN  CASE c.form = "on" /\ alias # {}    -> <<(CHOOSE i \in alias : TRUE).module[1], c.name>>
        [] c.form = "bare" /\ symbol # {} ->
             LET i == CHOOSE i \in symbol : TRUE IN <<i.module[1], i.name>>
        [] OTHER                          -> Dotted(c)

LocalNames(f, cross) ==
  {NameOf[g] : g \in {g \in Funcs : FileOf[g] = f}} \cup (IF cross THEN ImportedNames(f) ELSE {})

IsMutatingSinkCall(f, c, cross) ==
  \/ ResolvedSinkName(f, c) \in ExactSinks
  \/ /\ IF c.form = "bare" THEN c.name \notin LocalNames(f, cross) ELSE ~InternalReceiver(f, c, cross)
     /\ c.name \in ShortSinks \/ (c.name = "open" /\ c.marked)

IsHighRiskSinkCall(f, c, cross) ==
  IF ResolvedSinkName(f, c) \in ArgvSinks THEN c.marked ELSE IsMutatingSinkCall(f, c, cross)

BodyHasMutatingSink(b, cross) == \E c \in repo.calls[b] : IsMutatingSinkCall(FileOf[b], c, cross)
BodyHasHighRiskSink(b, cross) == \E c \in repo.calls[b] : IsHighRiskSinkCall(FileOf[b], c, cross)

----------------------------------------------------------------------------
(* The functions a call may run.  The empty set is an honest miss: no gate *)
(* is credited and no sink followed.                                       *)

\* The class a receiver is read as.
ReceiverClass(b, c) ==
  CASE c.form \in {"on", "new"} -> c.on
    [] c.form = "self"          -> ClassOf[b]
    [] OTHER                    -> NoClass

ByImport(f, c) ==
  UNION {CASE t.symbol = NoId /\ Len(Dotted(c)) = 2 -> FunctionsNamed(t.file, c.name)
           [] t.symbol # NoId /\ Len(Dotted(c)) = 1 -> FunctionsNamed(t.file, t.symbol)
           [] OTHER                                 -> {} : t \in Imported(f, Dotted(c)[1])}

ByClass(b, c) ==
  IF ReceiverClass(b, c) = NoClass THEN {} ELSE Method(FileOf[b], ReceiverClass(b, c), c.name)

\* Bug variant: names are looked up in the file only.
ResolveCallTargetsSameFile(b, c) ==
  IF ByClass(b, c) # {} THEN ByClass(b, c) ELSE FunctionsNamed(FileOf[b], c.name)

\* First match wins: an imported name, a class of the file, an instance
\* (a receiver known to be one is never looked up by name), the bare name.
ResolveCallTargets(b, c) ==
  IF Imported(FileOf[b], Dotted(c)[1]) # {} THEN ByImport(FileOf[b], c)
  ELSE IF ByClass(b, c) # {} THEN ByClass(b, c)
  ELSE IF c.form = "on" /\ IsInstance(b, c.on)
       THEN UNION {Method(t[1], t[2], c.name) : t \in InstanceClass(b, c.on)}
  ELSE FunctionsNamed(FileOf[b], c.name)

----------------------------------------------------------------------------
(* What the names denote when the program runs.                            *)

OrExternal(S) == IF S = {} THEN {External} ELSE S

\* The method an object made by a constructor has.
MethodOfInstance(f, ctor, n) ==
  OrExternal(UNION {Method(t[1], t[2], n) : t \in CtorTargetClass(f, ctor, TRUE)})

\* A receiver the file says nothing of may be anything.
Anything(n) == {External} \cup {g \in Funcs : NameOf[g] = n}

\* What on.n() runs at module level, where "on" is a module, a class or a variable.
RunsAtModuleLevel(f, r, n) ==
  IF Imported(f, r) # {}
  THEN UNION {OrExternal(IF t.symbol = NoId THEN TopLevel(t.file, n) ELSE Method(t.file, t.symbol, n)) :
                t \in Imported(f, r)}
  ELSE IF r \in ClassNames[f] THEN OrExternal(Method(f, r, n))
  ELSE IF Ctors(repo.globals[f], r) # {}
       THEN UNION {IF ctor = <<>> THEN Anything(n) ELSE MethodOfInstance(f, ctor, n) :
                     ctor \in Ctors(repo.globals[f], r)}
  ELSE {External}

\* What a call in a body runs.
Runs(b, c) ==
  LET f == FileOf[b]
  IN  CASE c.form = "bare" ->
             IF c.name \in repo.others[b] THEN Anything(c.name)
             ELSE OrExternal(TopLevel(f, c.name)
                    \cup UNION {TopLevel(t.file, t.symbol) : t \in Imported(f, c.name)})
        [] c.form = "new"  -> MethodOfInstance(f, <<c.on>>, c.name)
        [] c.form = "self" -> OrExternal(Method(f, ClassOf[b], c.name))
        [] c.form = "on" ->
             IF c.on \in repo.others[b] THEN Anything(c.name)
             ELSE IF Ctors(repo.locals[b], c.on) # {}
             THEN UNION {IF ctor = <<>> THEN Anything(c.name) ELSE MethodOfInstance(f, ctor, c.name) :
                           ctor \in Ctors(repo.locals[b], c.on)}
             ELSE RunsAtModuleLevel(f, c.on, c.name)
        [] c.form = "computed" -> Anything(c.name)
=============================================================================
