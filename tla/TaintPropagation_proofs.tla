----------------------- MODULE TaintPropagation_proofs -----------------------
(***************************************************************************)
(* Theorems about the taint engine, for any repository, registry and hop   *)
(* budget: its types, and that what it reports at the end is closed under  *)
(* the calls within a file.  Facts about sequences state membership in     *)
(* Seq(T) at every use, since Len means what is expected for sequences     *)
(* only.                                                                   *)
(***************************************************************************)
EXTENDS TaintPropagation, Recursion_proofs, FiniteSetTheorems

----------------------------------------------------------------------------
(* The work items.                                                         *)

Items == [fn : Funcs, seed : SUBSET Params, budget : 0..HopBudget]

HoldsItems(s, D, items) == \A e : Member(e, s) <=> \E f \in D : e = items[f]

\* InOrder makes a sequence of the items of a function and loses none.
LEMMA InOrderHasAll ==
  ASSUME NEW T, NEW D \in SUBSET Funcs, NEW items \in [D -> T]
  PROVE  InOrder(items) \in Seq(T) /\ HoldsItems(InOrder(items), D, items)
<1> DEFINE n == Len(FuncSeq)
<1> DEFINE part(k) == IF FuncSeq[k] \in D THEN <<items[FuncSeq[k]]>> ELSE <<>>
<1> DEFINE ss == [k \in 1..n |-> part(k)]
<1>1. n \in Nat /\ Funcs = {FuncSeq[k] : k \in 1..n}
  <2>1. FuncSeq \in Seq(Funcs) /\ ToSet(FuncSeq) = Funcs
    BY TaintAssumption
  <2>2. n \in Nat /\ DOMAIN FuncSeq = 1..n
    BY <2>1, LenProperties
  <2> HIDE DEF n
  <2> QED
    BY <2>1, <2>2 DEF ToSet
<1>2. \A k \in 1..n : part(k) \in Seq(T)
  <2> TAKE k \in 1..n
  <2>1. CASE FuncSeq[k] \in D
    <3> DEFINE e == items[FuncSeq[k]]
    <3>1. e \in T
      BY <2>1
    <3>2. <<e>> \in Seq(T)
      <4> HIDE DEF e
      <4> QED
        BY <3>1
    <3> QED
      BY <2>1, <3>2, Zenon
  <2>2. CASE FuncSeq[k] \notin D
    <3>1. <<>> \in Seq(T)
      OBVIOUS
    <3> QED
      BY <2>2, <3>1, Zenon
  <2> QED
    BY <2>1, <2>2
<1>3. \A k \in 1..n : \A e : Member(e, part(k)) <=> FuncSeq[k] \in D /\ e = items[FuncSeq[k]]
  <2> TAKE k \in 1..n
  <2>1. \A u : \A e : Member(e, <<u>>) <=> e = u
    BY DEF Member, ToSet
  <2>2. \A e : ~Member(e, <<>>)
    BY DEF Member, ToSet
  <2> QED
    BY <2>1, <2>2, Zenon
<1>4. ss \in Seq(Seq(T)) /\ Len(ss) = n /\ \A k \in 1..n : ss[k] = part(k)
  <2> HIDE DEF n, part
  <2>1. ss \in [1..n -> Seq(T)]
    BY <1>2
  <2>2. ss \in Seq(Seq(T))
    BY <1>1, <2>1, SeqDef
  <2>3. Len(ss) = n
    BY <1>1, <2>2, LenProperties
  <2> QED
    BY <2>2, <2>3
<1>5. InOrder(items) = FlattenSeq(ss)
  <2>1. DOMAIN items = D
    OBVIOUS
  <2> QED
    BY <2>1, Zenon DEF InOrder
<1> HIDE DEF ss
<1>6. /\ FlattenSeq(ss) \in Seq(T)
      /\ \A e : Member(e, FlattenSeq(ss)) <=> \E j \in 1..Len(ss) : Member(e, ss[j])
  BY <1>4, Flattened, Zenon
<1> HIDE DEF part
<1>7. \A e : Member(e, FlattenSeq(ss)) <=> \E j \in 1..n : FuncSeq[j] \in D /\ e = items[FuncSeq[j]]
  <2>1. \A j \in 1..n : \A e : Member(e, ss[j]) <=> FuncSeq[j] \in D /\ e = items[FuncSeq[j]]
    BY <1>3, <1>4, Zenon
  <2> HIDE DEF n
  <2>2. \A e : Member(e, FlattenSeq(ss)) <=> \E j \in 1..n : Member(e, ss[j])
    BY <1>6, <1>4, Zenon
  <2> TAKE e
  <2>3. (\E j \in 1..n : Member(e, ss[j]))
          <=> \E j \in 1..n : FuncSeq[j] \in D /\ e = items[FuncSeq[j]]
    BY <2>1
  <2> QED
    BY <2>2, <2>3, Zenon
<1>8. \A f \in D : \E j \in 1..n : f = FuncSeq[j]
  BY <1>1
<1>9. \A e : Member(e, FlattenSeq(ss)) <=> \E f \in D : e = items[f]
  <2> HIDE DEF n
  <2> QED
    BY <1>7, <1>8, Zenon
<1> QED
  BY <1>5, <1>6, <1>9, Zenon DEF HoldsItems

\* What a function pushes: well-formed items, and for each callee in its own
\* file one that carries the taint of that call.
LEMMA PushesCarryTaint ==
  ASSUME calls \in Programs, NEW f \in Funcs, NEW tainted \in SUBSET Params,
         NEW budget \in 0..HopBudget
  PROVE  /\ PushesOf(f, tainted, budget) \in Seq(Items)
         /\ \A c \in CallsIn(f) : \A g \in SameFile(f, c) :
              \E it \in ToSet(PushesOf(f, tainted, budget)) :
                it.fn = g /\ it.seed = TaintedParamsPassed(c, g, tainted)
<1> DEFINE n == Len(calls[f])
<1> DEFINE targets(c) == ResolveCallee(f, c, budget > 0)
<1> DEFINE item(c, g) == Item(g, TaintedParamsPassed(c, g, tainted), budget - HopTo(f, g))
<1> DEFINE items(c) == [g \in targets(c) |-> item(c, g)]
<1> DEFINE ss == [k \in 1..n |-> InOrder(items(calls[f][k]))]
<1>1. n \in Nat /\ CallsIn(f) = {calls[f][k] : k \in 1..n}
  <2>1. calls[f] \in Seq(Call)
    BY TaintAssumption
  <2> QED
    BY <2>1, LenProperties DEF CallsIn
<1>2. \A c : targets(c) \in SUBSET Funcs
  BY DEF ResolveCallee, SameFile, CrossFile
<1>3. ASSUME NEW c, NEW g \in targets(c)
      PROVE  item(c, g) \in Items
  <2>1. g \in Funcs
    BY <1>2
  <2>2. TaintedParamsPassed(c, g, tainted) \in SUBSET Params
    BY <2>1, TaintAssumption DEF TaintedParamsPassed
  <2>3. budget - HopTo(f, g) \in 0..HopBudget
    <3>1. CASE budget > 0
      BY <3>1, TaintAssumption DEF HopTo
    <3>2. CASE budget = 0
      <4>1. FileOf[g] = FileOf[f]
        BY <3>2 DEF ResolveCallee, SameFile
      <4> QED
        BY <4>1, <3>2, TaintAssumption DEF HopTo
    <3> QED
      BY <3>1, <3>2, TaintAssumption
  <2> QED
    BY <2>1, <2>2, <2>3 DEF Item, Items
<1>4. ASSUME NEW c
      PROVE  /\ InOrder(items(c)) \in Seq(Items)
             /\ \A e : Member(e, InOrder(items(c))) <=> \E g \in targets(c) : e = item(c, g)
  <2>1. items(c) \in [targets(c) -> Items]
    <3> HIDE DEF item, targets
    <3> QED
      BY <1>3
  <2>2. /\ InOrder(items(c)) \in Seq(Items)
        /\ \A e : Member(e, InOrder(items(c))) <=> \E g \in targets(c) : e = items(c)[g]
    <3> DEFINE D == targets(c)
    <3> DEFINE its == items(c)
    <3>1. its \in [D -> Items] /\ D \in SUBSET Funcs
      BY <2>1, <1>2, Zenon
    <3> HIDE DEF D, its
    <3>2. InOrder(its) \in Seq(Items) /\ HoldsItems(InOrder(its), D, its)
      BY <3>1, InOrderHasAll, Zenon
    <3> QED
      BY <3>2, Zenon DEF D, its, HoldsItems
  <2>3. \A g \in targets(c) : items(c)[g] = item(c, g)
    <3> HIDE DEF item, targets
    <3> QED
      OBVIOUS
  <2> HIDE DEF items, item, targets
  <2> QED
    BY <2>2, <2>3, Zenon
<1> HIDE DEF items
<1>5. ss \in Seq(Seq(Items)) /\ Len(ss) = n /\ \A k \in 1..n : ss[k] = InOrder(items(calls[f][k]))
  <2> HIDE DEF n
  <2>1. ss \in [1..n -> Seq(Items)]
    BY <1>4
  <2>2. ss \in Seq(Seq(Items))
    BY <1>1, <2>1, SeqDef
  <2>3. Len(ss) = n
    BY <1>1, <2>2, LenProperties
  <2> QED
    BY <2>2, <2>3
<1>6. PushesOf(f, tainted, budget) = FlattenSeq(ss)
  BY Zenon DEF PushesOf, items
<1> HIDE DEF ss
<1>7. /\ FlattenSeq(ss) \in Seq(Items)
      /\ \A e : Member(e, FlattenSeq(ss)) <=> \E j \in 1..Len(ss) : Member(e, ss[j])
  BY <1>5, Flattened, Zenon
<1>8. ASSUME NEW c \in CallsIn(f), NEW g \in SameFile(f, c)
      PROVE  \E it \in ToSet(FlattenSeq(ss)) :
               it.fn = g /\ it.seed = TaintedParamsPassed(c, g, tainted)
  <2>1. PICK k \in 1..n : c = calls[f][k]
    BY <1>1
  <2>2. g \in targets(c)
    BY DEF ResolveCallee
  <2> DEFINE it == item(c, g)
  <2>3. Member(it, InOrder(items(c)))
    <3> HIDE DEF item, targets
    <3> QED
      BY <1>4, <2>2, Zenon
  <2>4. ss[k] = InOrder(items(c))
    BY <2>1, <1>5, Zenon
  <2>5. k \in 1..Len(ss)
    BY <1>5, Zenon
  <2>6. it \in ToSet(FlattenSeq(ss))
    <3> HIDE DEF item, targets, n
    <3> QED
      BY <2>3, <2>4, <2>5, <1>7, Zenon DEF Member
  <2>7. it.fn = g /\ it.seed = TaintedParamsPassed(c, g, tainted)
    BY DEF Item
  <2> HIDE DEF it
  <2> QED
    BY <2>6, <2>7
<1> QED
  BY <1>6, <1>7, <1>8, Zenon

----------------------------------------------------------------------------
(* Types.                                                                  *)

LEMMA PopLast ==
  ASSUME NEW T, NEW s \in Seq(T), s # <<>>
  PROVE  /\ Front(s) \in Seq(T) /\ Last(s) \in T
         /\ \A e : Member(e, s) <=> Member(e, Front(s)) \/ e = Last(s)
<1> DEFINE n == Len(s)
<1>1. n \in Nat \ {0} /\ DOMAIN s = 1..n /\ \A k \in 1..n : s[k] \in T
  <2>1. n \in Nat \ {0}
    BY EmptySeq, Zenon
  <2> QED
    BY <2>1, LenProperties, ElementOfSeq
<1>2. /\ Front(s) \in Seq(T) /\ Len(Front(s)) = n - 1
      /\ \A i \in 1..n - 1 : Front(s)[i] = s[i]
  <2>1. 1 \in Int /\ n - 1 \in Int /\ \A i \in 1..(n - 1) : s[i] \in T
    BY <1>1
  <2>2. /\ SubSeq(s, 1, n - 1) \in Seq(T)
        /\ Len(SubSeq(s, 1, n - 1)) = IF 1 <= n - 1 THEN (n - 1) - 1 + 1 ELSE 0
        /\ \A i \in 1..(n - 1) - 1 + 1 : SubSeq(s, 1, n - 1)[i] = s[1 + i - 1]
    <3> DEFINE m == n - 1
    <3>1. m \in Int /\ \A i \in 1..m : s[i] \in T
      BY <2>1, Zenon
    <3> HIDE DEF m
    <3>2. /\ SubSeq(s, 1, m) \in Seq(T)
          /\ Len(SubSeq(s, 1, m)) = IF 1 <= m THEN m - 1 + 1 ELSE 0
          /\ \A i \in 1..(m - 1 + 1) : SubSeq(s, 1, m)[i] = s[1 + i - 1]
      BY <2>1, <3>1, SubSeqProperties
    <3> QED
      BY <3>2, Zenon DEF m
  <2>3. Front(s) = SubSeq(s, 1, n - 1)
    BY DEF Front
  <2> DEFINE front == SubSeq(s, 1, n - 1)
  <2>4. Len(front) = n - 1
    <3> HIDE DEF front, n
    <3>1. Len(front) = IF 1 <= n - 1 THEN (n - 1) - 1 + 1 ELSE 0
      BY <2>2, Zenon DEF front
    <3> QED
      BY <1>1, <3>1
  <2>5. \A i \in 1..n - 1 : front[i] = s[i]
    <3> TAKE i \in 1..n - 1
    <3> HIDE DEF front, n
    <3>1. i \in 1..(n - 1) - 1 + 1 /\ 1 + i - 1 = i
      BY <1>1
    <3> QED
      BY <2>2, <3>1, Zenon DEF front
  <2> QED
    BY <2>2, <2>3, <2>4, <2>5, Zenon
<1>3. Last(s) = s[n] /\ n \in 1..n
  BY <1>1 DEF Last
<1>4. DOMAIN Front(s) = 1..n - 1
  <2>1. DOMAIN Front(s) = 1..Len(Front(s))
    BY <1>2, LenProperties, Zenon
  <2> QED
    BY <1>2, <2>1, Zenon
<1>5. \A i : i \in 1..n <=> i \in 1..n - 1 \/ i = n
  <2> HIDE DEF n
  <2> QED
    BY <1>1
<1>6. \A e : Member(e, s) <=> \E i \in 1..n : e = s[i]
  <2> HIDE DEF n
  <2> QED
    BY <1>1 DEF Member, ToSet
<1>7. \A e : Member(e, Front(s)) <=> \E i \in 1..n - 1 : e = s[i]
  <2> DEFINE front == Front(s)
  <2>1. DOMAIN front = 1..n - 1 /\ \A i \in 1..n - 1 : front[i] = s[i]
    BY <1>4, <1>2, Zenon
  <2> HIDE DEF front, n
  <2>2. \A e : Member(e, front) <=> \E i \in 1..n - 1 : e = s[i]
    BY <2>1 DEF Member, ToSet
  <2> QED
    BY <2>2, Zenon DEF front
<1>8. \A e : Member(e, s) <=> Member(e, Front(s)) \/ e = Last(s)
  <2> HIDE DEF n
  <2> QED
    BY <1>3, <1>5, <1>6, <1>7, Zenon
<1> QED
  BY <1>1, <1>2, <1>3, <1>8, Zenon

LEMMA InitTyped == Init => TypeOK
<1> SUFFICES ASSUME Init PROVE TypeOK
  OBVIOUS
<1>1. calls \in Programs /\ roots \in SUBSET Funcs /\ computed \subseteq Funcs
  BY TaintAssumption DEF Init
<1>2. stack \in Seq(Items)
  <2> DEFINE its == [f \in roots |-> Item(f, ParamsOf[f], HopBudget)]
  <2>1. its \in [roots -> Items]
    <3>1. ASSUME NEW f \in roots PROVE Item(f, ParamsOf[f], HopBudget) \in Items
      BY <1>1, TaintAssumption DEF Item, Items
    <3> QED
      BY <3>1
  <2>2. stack = InOrder(its)
    BY DEF Init
  <2> HIDE DEF its
  <2> QED
    BY <1>1, <2>1, <2>2, InOrderHasAll, Zenon
<1>3. seeds \in [Funcs -> SUBSET Params]
  BY TaintAssumption DEF Init
<1> QED
  BY <1>1, <1>2, <1>3 DEF TypeOK, Items

\* The item at the top of the stack, and the rest.
LEMMA TopItem ==
  ASSUME TypeOK, stack # <<>>
  PROVE  /\ Last(stack) \in Items /\ Front(stack) \in Seq(Items)
         /\ \A e : Member(e, stack) <=> Member(e, Front(stack)) \/ e = Last(stack)
<1>1. stack \in Seq(Items)
  BY DEF TypeOK, Items
<1> QED
  BY <1>1, PopLast, Zenon

LEMMA StepTyped == TypeOK /\ [Next]_vars => TypeOK'
<1> SUFFICES ASSUME TypeOK, [Next]_vars PROVE TypeOK'
  OBVIOUS
<1>1. CASE UNCHANGED vars
  BY <1>1 DEF TypeOK, vars
<1>2. CASE Next
  <2> DEFINE it == Last(stack)
  <2>1. it \in Items /\ Front(stack) \in Seq(Items)
    BY <1>2, TopItem, Zenon DEF Next
  <2>2. CASE NoGrowth(it)
    <3>1. stack' \in Seq(Items)
      BY <2>1, <2>2, Zenon DEF NoGrowth
    <3> QED
      BY <2>2, <3>1 DEF NoGrowth, TypeOK, Items
  <2>3. CASE Grow(it)
    <3> HIDE DEF it
    <3>1. it.fn \in Funcs /\ it.seed \in SUBSET Params /\ it.budget \in 0..HopBudget
      BY <2>1 DEF Items
    <3>2. seeds' \in [Funcs -> SUBSET Params]
      BY <2>3, <3>1 DEF Grow, TypeOK
    <3>3. stack' \in Seq(Items)
      <4> DEFINE seed == seeds'[it.fn]
      <4> DEFINE pushed == PushesOf(it.fn, seed, it.budget)
      <4>1. seed \in SUBSET Params /\ calls \in Programs
        BY <3>1, <3>2 DEF TypeOK
      <4>2. pushed \in Seq(Items)
        <5> HIDE DEF seed
        <5> QED
          BY <3>1, <4>1, PushesCarryTaint, Zenon
      <4>3. stack' = Front(stack) \o pushed
        BY <2>3, Zenon DEF Grow
      <4> HIDE DEF pushed
      <4> QED
        BY <2>1, <4>2, <4>3, ConcatProperties, Zenon
    <3>4. calls' = calls /\ roots' = roots /\ computed' = computed \cup {it.fn}
      BY <2>3 DEF Grow
    <3> QED
      BY <3>1, <3>2, <3>3, <3>4 DEF TypeOK, Items
  <2> QED
    BY <1>2, <2>2, <2>3 DEF Next
<1> QED
  BY <1>1, <1>2

(* The types of the engine's state: in particular no budget goes negative. *)
THEOREM TaintTypeCorrect == Spec => []TypeOK
<1> QED
  BY InitTyped, StepTyped, PTL DEF Spec

----------------------------------------------------------------------------
(* Within a file nothing is lost.                                          *)

\* The taint of those parameters of g has arrived, or is in a pending item.
Arrives(g, params) ==
  \/ g \in computed /\ params \subseteq seeds[g]
  \/ \E it \in ToSet(stack) : it.fn = g /\ params \subseteq it.seed

\* What a computed function passes on within its file arrives at the callee.
PassedOn ==
  \A f \in computed : \A c \in CallsIn(f) : \A g \in SameFile(f, c) :
    Arrives(g, TaintedParamsPassed(c, g, seeds[f]))

TaintInv ==
  /\ TypeOK
  /\ \A f \in roots : Arrives(f, ParamsOf[f])
  /\ PassedOn

LEMMA InitPasses == Init => TaintInv
<1> SUFFICES ASSUME Init PROVE TaintInv
  OBVIOUS
<1>1. TypeOK
  BY InitTyped
<1>2. ASSUME NEW f \in roots PROVE Arrives(f, ParamsOf[f])
  <2> DEFINE its == [h \in roots |-> Item(h, ParamsOf[h], HopBudget)]
  <2> DEFINE T == {Item(h, ParamsOf[h], HopBudget) : h \in roots}
  <2>1. its \in [roots -> T] /\ roots \in SUBSET Funcs
    BY TaintAssumption DEF Init
  <2>2. its[f].fn = f /\ its[f].seed = ParamsOf[f]
    BY DEF Item
  <2>3. stack = InOrder(its)
    BY DEF Init
  <2> DEFINE D == roots
  <2> HIDE DEF its, T
  <2>4. \A e : Member(e, InOrder(its)) <=> \E h \in D : e = its[h]
    <3>1. its \in [D -> T] /\ D \in SUBSET Funcs
      BY <2>1, Zenon
    <3> HIDE DEF D
    <3>2. HoldsItems(InOrder(its), D, its)
      BY <3>1, InOrderHasAll, Zenon
    <3> QED
      BY <3>2, Zenon DEF HoldsItems
  <2>5. its[f] \in ToSet(stack)
    BY <2>3, <2>4, Zenon DEF Member
  <2> QED
    BY <2>2, <2>5 DEF Arrives
<1>3. computed = {}
  BY DEF Init
<1> QED
  BY <1>1, <1>2, <1>3 DEF TaintInv, PassedOn

\* What has arrived or is on its way still is after a step.
LEMMA ArrivesStays ==
  ASSUME TypeOK, Next, NEW g \in Funcs, NEW params, Arrives(g, params)
  PROVE  Arrives(g, params)'
<1> DEFINE it == Last(stack)
<1>1. /\ it \in Items /\ Front(stack) \in Seq(Items)
      /\ \A e : Member(e, stack) <=> Member(e, Front(stack)) \/ e = it
  BY TopItem, Zenon DEF Next
<1> HIDE DEF it
<1>2. it.fn \in Funcs /\ it.seed \in SUBSET Params /\ it.budget \in 0..HopBudget
  BY <1>1 DEF Items
<1>3. CASE NoGrowth(it)
  <2>1. stack' = Front(stack) /\ seeds' = seeds /\ computed' = computed
    BY <1>3 DEF NoGrowth
  <2>2. \A e : e \in ToSet(stack) => e \in ToSet(stack)' \/ e = it
    BY <1>1, <2>1, Zenon DEF Member
  <2>3. it.fn \in computed /\ it.seed \subseteq seeds[it.fn]
    BY <1>3 DEF NoGrowth
  <2> QED
    BY <2>1, <2>2, <2>3 DEF Arrives
<1>4. CASE Grow(it)
  <2> DEFINE seed == seeds'[it.fn]
  <2> DEFINE pushed == PushesOf(it.fn, seed, it.budget)
  <2>1. /\ seeds' = [seeds EXCEPT ![it.fn] = @ \cup it.seed]
        /\ computed' = computed \cup {it.fn}
    BY <1>4 DEF Grow
  <2>2. stack' = Front(stack) \o pushed
    BY <1>4, Zenon DEF Grow
  <2>3. seeds \in [Funcs -> SUBSET Params] /\ calls \in Programs
    BY DEF TypeOK
  <2>4. pushed \in Seq(Items)
    <3>1. seed \in SUBSET Params
      BY <2>1, <2>3, <1>2
    <3> HIDE DEF seed
    <3> QED
      BY <1>2, <2>3, <3>1, PushesCarryTaint, Zenon
  <2>5. \A e : Member(e, Front(stack) \o pushed) <=> Member(e, Front(stack)) \/ Member(e, pushed)
    <3> HIDE DEF pushed
    <3> QED
      BY <1>1, <2>4, MemberOfConcat, Zenon
  <2>6. \A e : e \in ToSet(stack) => e \in ToSet(stack)' \/ e = it
    BY <1>1, <2>2, <2>5, Zenon DEF Member
  <2>7. /\ seeds[g] \subseteq seeds'[g]
        /\ it.fn = g => it.seed \subseteq seeds'[g] /\ g \in computed'
    BY <1>2, <2>1, <2>3
  <2> HIDE DEF pushed
  <2>8. CASE g \in computed /\ params \subseteq seeds[g]
    BY <2>1, <2>7, <2>8 DEF Arrives
  <2>9. CASE \E u \in ToSet(stack) : u.fn = g /\ params \subseteq u.seed
    <3>1. PICK u \in ToSet(stack) : u.fn = g /\ params \subseteq u.seed
      BY <2>9
    <3>2. CASE u = it
      BY <3>1, <3>2, <2>7 DEF Arrives
    <3>3. CASE u \in ToSet(stack)'
      BY <3>1, <3>3 DEF Arrives
    <3> QED
      BY <3>1, <3>2, <3>3, <2>6, Zenon
  <2> QED
    BY <2>8, <2>9 DEF Arrives
<1> QED
  BY <1>3, <1>4 DEF Next, it

LEMMA StepPasses == TaintInv /\ [Next]_vars => TaintInv'
<1> SUFFICES ASSUME TaintInv, [Next]_vars PROVE TaintInv'
  OBVIOUS
<1>1. TypeOK /\ TypeOK'
  BY StepTyped DEF TaintInv
<1>2. CASE UNCHANGED vars
  <2>1. /\ calls' = calls /\ roots' = roots /\ stack' = stack
        /\ seeds' = seeds /\ computed' = computed
    BY <1>2 DEF vars
  <2>2. \A f : CallsIn(f)' = CallsIn(f)
    BY <2>1 DEF CallsIn
  <2>3. \A g, params : Arrives(g, params) => Arrives(g, params)'
    BY <2>1 DEF Arrives
  <2>4. (\A f \in roots : Arrives(f, ParamsOf[f]))'
    BY <2>1, <2>3 DEF TaintInv
  <2>5. PassedOn'
    BY <2>1, <2>2, <2>3 DEF TaintInv, PassedOn
  <2> QED
    BY <1>1, <2>4, <2>5 DEF TaintInv
<1>3. CASE Next
  <2>0. PICK it : it = Last(stack)
    OBVIOUS
  <2>1. it \in Items /\ Front(stack) \in Seq(Items)
    BY <2>0, <1>1, <1>3, TopItem, Zenon DEF Next
  <2>2. it.fn \in Funcs /\ it.seed \in SUBSET Params /\ it.budget \in 0..HopBudget
    BY <2>1 DEF Items
  <2>3. calls' = calls /\ roots' = roots /\ roots \subseteq Funcs
    BY <1>1, <1>3 DEF Next, NoGrowth, Grow, TypeOK
  <2>4. \A f : CallsIn(f)' = CallsIn(f)
    BY <2>3 DEF CallsIn
  <2>5. (\A f \in roots : Arrives(f, ParamsOf[f]))'
    <3>1. ASSUME NEW f \in roots PROVE Arrives(f, ParamsOf[f])'
      <4>1. f \in Funcs /\ Arrives(f, ParamsOf[f])
        BY <2>3 DEF TaintInv
      <4> QED
        BY <4>1, <1>1, <1>3, ArrivesStays
    <3> QED
      BY <2>3, <3>1
  <2>6. ASSUME NEW f \in computed, seeds'[f] = seeds[f],
               NEW c \in CallsIn(f), NEW g \in SameFile(f, c)
        PROVE  Arrives(g, TaintedParamsPassed(c, g, seeds[f]))'
    <3>1. Arrives(g, TaintedParamsPassed(c, g, seeds[f]))
      BY DEF TaintInv, PassedOn
    <3> DEFINE params == TaintedParamsPassed(c, g, seeds[f])
    <3>2. params' = params
      BY <2>6
    <3>3. g \in Funcs
      BY DEF SameFile
    <3>4. ASSUME NEW q, q = params PROVE Arrives(g, q)'
      BY <1>1, <1>3, <3>1, <3>3, <3>4, ArrivesStays
    <3> QED
      BY <3>2, <3>4 DEF Arrives
  <2>7. CASE NoGrowth(it)
    <3>1. seeds' = seeds /\ computed' = computed
      BY <2>7 DEF NoGrowth
    <3>2. PassedOn'
      BY <3>1, <2>4, <2>6 DEF PassedOn
    <3> QED
      BY <1>1, <2>5, <3>2 DEF TaintInv
  <2>8. CASE Grow(it)
    <3>1. /\ seeds' = [seeds EXCEPT ![it.fn] = @ \cup it.seed]
          /\ computed' = computed \cup {it.fn}
      BY <2>8 DEF Grow
    <3> DEFINE seed == seeds'[it.fn]
    <3> DEFINE pushed == PushesOf(it.fn, seed, it.budget)
    <3>2. stack' = Front(stack) \o pushed
      BY <2>0, <2>8, Zenon DEF Grow
    <3>3. seed \in SUBSET Params /\ calls \in Programs
      BY <3>1, <2>2, <1>1 DEF TypeOK
    <3>4. /\ pushed \in Seq(Items)
          /\ \A c \in CallsIn(it.fn) : \A g \in SameFile(it.fn, c) :
               \E u \in ToSet(pushed) :
                 u.fn = g /\ u.seed = TaintedParamsPassed(c, g, seed)
      <4> HIDE DEF seed
      <4> QED
        BY <2>2, <3>3, PushesCarryTaint, Zenon
    <3> HIDE DEF pushed
    <3>5. \A e : e \in ToSet(pushed) => e \in ToSet(stack)'
      <4>1. \A e : Member(e, Front(stack) \o pushed)
                    <=> Member(e, Front(stack)) \/ Member(e, pushed)
        BY <2>1, <3>4, MemberOfConcat, Zenon
      <4> QED
        BY <3>2, <4>1, Zenon DEF Member
    <3>6. ASSUME NEW c \in CallsIn(it.fn), NEW g \in SameFile(it.fn, c)
          PROVE  Arrives(g, TaintedParamsPassed(c, g, seeds[it.fn]))'
      <4>1. PICK u \in ToSet(pushed) : u.fn = g /\ u.seed = TaintedParamsPassed(c, g, seed)
        BY <3>4
      <4>2. u \in ToSet(stack)'
        BY <3>5
      <4> QED
        BY <4>1, <4>2 DEF Arrives
    <3>7. ASSUME NEW f \in computed', NEW c \in CallsIn(f), NEW g \in SameFile(f, c)
          PROVE  Arrives(g, TaintedParamsPassed(c, g, seeds[f]))'
      <4>1. CASE f = it.fn
        BY <4>1, <3>6
      <4>2. CASE f # it.fn
        <5>1. f \in computed /\ f \in Funcs
          BY <4>2, <3>1, <1>1 DEF TypeOK
        <5>2. seeds'[f] = seeds[f]
          BY <4>2, <5>1, <3>1, <1>1 DEF TypeOK
        <5> QED
          BY <5>1, <5>2, <2>6
      <4> QED
        BY <4>1, <4>2
    <3>8. PassedOn'
      BY <3>7, <2>4 DEF PassedOn
    <3> QED
      BY <1>1, <2>5, <3>8 DEF TaintInv
  <2> QED
    BY <2>0, <1>3, <2>7, <2>8 DEF Next
<1> QED
  BY <1>2, <1>3

----------------------------------------------------------------------------
(* The reference flow is covered by what was computed.                     *)

Covered == {t \in Funcs \X SUBSET Params : t[1] \in computed /\ t[2] \subseteq seeds[t[1]]}

LEMMA RoundCovered ==
  ASSUME TaintInv, Done, NEW T \in SUBSET Covered
  PROVE  FlowRound(T) \in SUBSET Covered
<1>1. TypeOK
  BY DEF TaintInv
<1>2. computed \subseteq Funcs /\ seeds \in [Funcs -> SUBSET Params]
  BY <1>1 DEF TypeOK
<1>3. \A g, params : Arrives(g, params) => g \in computed /\ params \subseteq seeds[g]
  <2>1. ToSet(stack) = {}
    BY DEF Done, ToSet
  <2> QED
    BY <2>1 DEF Arrives
<1>4. ASSUME NEW t \in T, NEW c \in CallsIn(t[1]), NEW g \in SameFile(t[1], c)
      PROVE  g \in computed /\ TaintedParamsPassed(c, g, t[2]) \subseteq seeds[g]
  <2>1. t[1] \in computed /\ t[2] \subseteq seeds[t[1]]
    BY DEF Covered
  <2>2. Arrives(g, TaintedParamsPassed(c, g, seeds[t[1]]))
    BY <2>1, Zenon DEF TaintInv, PassedOn
  <2>3. TaintedParamsPassed(c, g, t[2]) \subseteq TaintedParamsPassed(c, g, seeds[t[1]])
    BY <2>1 DEF TaintedParamsPassed
  <2>4. g \in computed /\ TaintedParamsPassed(c, g, seeds[t[1]]) \subseteq seeds[g]
    BY <2>2, <1>3, Zenon
  <2> QED
    BY <2>3, <2>4
<1>5. ASSUME NEW g \in Entered(T)
      PROVE  g \in computed
  <2>1. CASE g \in {t[1] : t \in T}
    BY <2>1 DEF Covered
  <2>2. CASE \E t \in T : \E c \in CallsIn(t[1]) : g \in SameFile(t[1], c)
    BY <2>2, <1>4
  <2> QED
    BY <2>1, <2>2 DEF Entered
<1>6. ASSUME NEW g \in Entered(T), NEW p \in TaintedIn(T, g)
      PROVE  p \in seeds[g]
  <2>1. CASE \E t \in T : t[1] = g /\ p \in t[2]
    BY <2>1 DEF Covered
  <2>2. CASE \E t \in T : \E c \in CallsIn(t[1]) :
               g \in SameFile(t[1], c) /\ p \in TaintedParamsPassed(c, g, t[2])
    BY <2>2, <1>4
  <2> QED
    BY <2>1, <2>2 DEF TaintedIn
<1>7. ASSUME NEW g \in Entered(T)
      PROVE  <<g, TaintedIn(T, g)>> \in Covered
  <2> DEFINE taint == TaintedIn(T, g)
  <2>1. g \in computed /\ g \in Funcs
    BY <1>2, <1>5
  <2>2. taint \subseteq seeds[g]
    BY <1>6
  <2>3. taint \in SUBSET Params
    <3> HIDE DEF taint
    <3> QED
      BY <1>2, <2>1, <2>2
  <2> HIDE DEF taint
  <2>4. <<g, taint>> \in Covered
    BY <2>1, <2>2, <2>3 DEF Covered
  <2> QED
    BY <2>4 DEF taint
<1> QED
  BY <1>7 DEF FlowRound

LEMMA FlowRoundsInNat == FlowRounds \in Nat
<1>1. IsFiniteSet(Funcs)
  <2> DEFINE n == Len(FuncSeq)
  <2>1. FuncSeq \in Seq(Funcs) /\ ToSet(FuncSeq) = Funcs
    BY TaintAssumption
  <2>2. n \in Nat /\ FuncSeq \in [1..n -> Funcs] /\ DOMAIN FuncSeq = 1..n
    BY <2>1, LenProperties
  <2> HIDE DEF n
  <2>3. FuncSeq \in Surjection(1..n, Funcs)
    BY <2>1, <2>2 DEF Surjection, ToSet
  <2>4. IsFiniteSet(1..n)
    BY <2>2, FS_Interval
  <2> QED
    BY <2>3, <2>4, FS_Surjection, Zenon
<1>2. Cardinality(Funcs) \in Nat /\ Cardinality(Params) \in Nat
  BY <1>1, TaintAssumption, FS_CardinalityType, Zenon
<1> QED
  BY <1>2 DEF FlowRounds

LEMMA FlowCovered ==
  ASSUME TaintInv, Done
  PROVE  SameFileFlow \in SUBSET Covered
<1> DEFINE n == FlowRounds
<1> DEFINE S == SUBSET Covered
<1> DEFINE a == {<<f, ParamsOf[f]>> : f \in roots}
<1> DEFINE step == [k \in 1..n |-> [T \in S |-> FlowRound(T)]]
<1> DEFINE rec(h) == [k \in 0..n |-> IF k = 0 THEN a ELSE FlowRound(h[k - 1])]
<1>0. n \in Nat
  BY FlowRoundsInNat
<1> HIDE DEF n
<1>1. a \in S
  <2>1. ASSUME NEW f \in roots PROVE <<f, ParamsOf[f]>> \in Covered
    <3>1. ToSet(stack) = {}
      BY DEF Done, ToSet
    <3>2. Arrives(f, ParamsOf[f]) /\ f \in Funcs
      BY DEF TaintInv, TypeOK
    <3>3. f \in computed /\ ParamsOf[f] \subseteq seeds[f]
      BY <3>1, <3>2 DEF Arrives
    <3> QED
      BY <3>2, <3>3, TaintAssumption DEF Covered
  <2> QED
    BY <2>1
<1>2. step \in [1..n -> [S -> S]]
  BY RoundCovered
<1>3. PICK f \in [0..n -> S] : f[0] = a /\ \A k \in 1..n : f[k] = step[k][f[k - 1]]
  <2>1. \E f \in [0..n -> S] : Recursion(f, n, a, step)
    <3> HIDE DEF S, a, step
    <3> QED
      BY <1>0, <1>1, <1>2, SegmentRecursion, Zenon
  <2> HIDE DEF S, a, step
  <2> QED
    BY <2>1 DEF Recursion
<1>4. f = rec(f)
  <2>1. ASSUME NEW k \in 0..n
        PROVE  f[k] = IF k = 0 THEN a ELSE FlowRound(f[k - 1])
    <3>1. CASE k = 0
      <4> HIDE DEF a, S, step
      <4> QED
        BY <1>3, <3>1
    <3>2. CASE k # 0
      <4>1. k \in 1..n /\ k - 1 \in 0..n
        BY <3>2, <1>0
      <4>2. f[k - 1] \in S
        BY <4>1, <1>3, Zenon
      <4>3. step[k][f[k - 1]] = FlowRound(f[k - 1])
        <5> HIDE DEF S
        <5> QED
          BY <4>1, <4>2
      <4> HIDE DEF S, a, step
      <4> QED
        BY <1>3, <4>1, <4>3, <3>2, Zenon
    <3> QED
      BY <3>1, <3>2
  <2> HIDE DEF a, S, step
  <2> QED
    BY <2>1, <1>3
<1> DEFINE after == CHOOSE h : h = rec(h)
<1>5. after = rec(after)
  <2> HIDE DEF rec
  <2> QED
    BY <1>4, Zenon
<1>6. SameFileFlow = after[n]
  BY Zenon DEF SameFileFlow, n
<1> HIDE DEF after
<1>7. \A k \in 0..n : after[k] = IF k = 0 THEN a ELSE FlowRound(after[k - 1])
  <2> HIDE DEF a
  <2> QED
    BY <1>5, Zenon
<1> DEFINE P == {k \in 0..n : after[k] \in S}
<1>8. 0 \in P
  <2> HIDE DEF a, S
  <2>1. 0 \in 0..n
    BY <1>0
  <2>2. after[0] = a
    BY <2>1, <1>7, Zenon
  <2> QED
    BY <2>1, <2>2, <1>1
<1>9. ASSUME NEW k \in 1..n, k - 1 \in P PROVE k \in P
  <2>1. k \in 0..n /\ k # 0
    BY <1>0
  <2>2. after[k] = FlowRound(after[k - 1])
    <3> HIDE DEF a, P
    <3> QED
      BY <2>1, <1>7, Zenon
  <2>3. after[k - 1] \in SUBSET Covered
    BY <1>9
  <2>4. FlowRound(after[k - 1]) \in SUBSET Covered
    BY <2>3, RoundCovered
  <2> QED
    BY <2>1, <2>2, <2>4
<1>10. n \in P
  <2> HIDE DEF P
  <2>1. \A k \in 0..n : k \in P
    BY <1>0, <1>8, <1>9, SegmentInduction, Zenon
  <2> QED
    BY <2>1, <1>0
<1> QED
  BY <1>6, <1>10

(* When the worklist is empty, every function that taint reaches over      *)
(* calls within a file has been analysed with all of that taint, for any   *)
(* program, registry and order in which the items were met.                *)
THEOREM SameFileComplete == Spec => []SameFileTransitive
<1>1. TaintInv => SameFileTransitive
  <2> SUFFICES ASSUME TaintInv, Done, NEW t \in SameFileFlow
               PROVE  t[1] \in computed /\ t[2] \subseteq seeds[t[1]]
    BY DEF SameFileTransitive
  <2> QED
    BY FlowCovered DEF Covered
<1> QED
  BY InitPasses, StepPasses, <1>1, PTL DEF Spec
=============================================================================
