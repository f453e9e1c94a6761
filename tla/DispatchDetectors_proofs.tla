----------------------- MODULE DispatchDetectors_proofs -----------------------
(***************************************************************************)
(* Theorems about the dispatch segments of a handler and the two detectors *)
(* that read them, secret_leak_response and tool_scope_creep, for servers  *)
(* of any size.                                                            *)
(***************************************************************************)
EXTENDS SecretLeakResponse, ToolScopeCreep, Recursion_proofs

(* Dispatch segments: a segment that names a tool holds text that is       *)
(* executed only if what the handler compares equals that name.            *)

LEMMA FirstIsMember ==
  ASSUME NEW S \in SUBSET Nat, S # {}
  PROVE  First(S) \in S
  BY LeastExists DEF First

\* The chain, if there is one, is an if whose test is a comparison; with the
\* first parameter, if some such if compares that.
LEMMA ChainFound ==
  ASSUME NEW h \in Seq(Statement)
  PROVE  /\ FindDispatchChain(h) \in {0} \cup Candidates(h)
         /\ (\E j \in Candidates(h) : h[j].links[1].subject = FirstParam)
              => h[FindDispatchChain(h)].links[1].subject = FirstParam
<1> DEFINE onParam == {i \in Candidates(h) : h[i].links[1].subject = FirstParam}
<1>1. Candidates(h) \subseteq Nat
  BY DEF Candidates
<1>2. CASE onParam # {}
  <2>1. First(onParam) \in onParam
    BY <1>1, <1>2, FirstIsMember
  <2>2. FindDispatchChain(h) = First(onParam)
    BY <1>2 DEF FindDispatchChain
  <2> QED
    BY <2>1, <2>2
<1>3. CASE onParam = {}
  <2>1. Candidates(h) # {} => First(Candidates(h)) \in Candidates(h)
    BY <1>1, FirstIsMember
  <2>2. FindDispatchChain(h) = IF Candidates(h) = {} THEN 0 ELSE First(Candidates(h))
    BY <1>3 DEF FindDispatchChain
  <2> QED
    BY <1>3, <2>1, <2>2
<1> QED
  BY <1>2, <1>3

\* The text of a handler outside of its chain d.
Around(h, d) == UNION {BlocksOf(h[i]) : i \in DOMAIN h \ {d}}

\* The segments of a handler with chain d: nameless, or one of its links.
SegmentOf(h, d) ==
  {s \in [tool : Literals \cup {NoTool}, blocks : SUBSET Blocks, shared : BOOLEAN] :
     /\ \/ s.tool = NoTool
        \/ \E k \in DOMAIN h[d].links :
             s.tool = LinkTool(h[d].links, k) /\ s.blocks = {h[d].links[k].block}
     /\ \/ s.blocks \subseteq Around(h, d)
        \/ ~s.shared /\ \E b : s.blocks = {b}}

\* An optional segment without a name is a segment.
LEMMA NamelessSegment ==
  ASSUME NEW h, NEW d, NEW blocks \in SUBSET Blocks, NEW shared \in BOOLEAN,
         blocks \subseteq Around(h, d) \/ (~shared /\ \E b : blocks = {b})
  PROVE  Segment(NoTool, blocks, shared) \in Seq(SegmentOf(h, d))
<1>1. [tool |-> NoTool, blocks |-> blocks, shared |-> shared] \in SegmentOf(h, d)
  BY DEF SegmentOf
<1> QED
  BY <1>1 DEF Segment

LEMMA BlocksOfStatement ==
  ASSUME NEW s \in Statement
  PROVE  /\ BlocksOf(s) \in SUBSET Blocks
         /\ \A k \in DOMAIN s.links :
              /\ s.links[k].block \in Blocks
              /\ s.links[k].literal \in Literals \cup {NoTool}
<1>1. s.links \in Seq(Link) /\ s.orelse \in Blocks \cup {NoBlock}
  BY DEF Statement
<1>2. \A k \in DOMAIN s.links : s.links[k] \in Link
  BY <1>1
<1>3. \A l \in Link : l.block \in Blocks /\ l.literal \in Literals \cup {NoTool}
  BY DEF Link
<1>4. \A k \in DOMAIN s.links : s.links[k].block \in Blocks /\ s.links[k].literal \in Literals \cup {NoTool}
  BY <1>2, <1>3
<1> QED
  BY <1>1, <1>4 DEF BlocksOf

LEMMA SegmentsAreTheirs ==
  ASSUME NEW h \in Seq(Statement), FindDispatchChain(h) # 0
  PROVE  /\ Segments(h) \in Seq(SegmentOf(h, FindDispatchChain(h)))
         /\ \A i \in DOMAIN h : \A b \in BlocksOf(h[i]) :
              \E k \in DOMAIN Segments(h) : b \in Segments(h)[k].blocks
<1> DEFINE d == FindDispatchChain(h)
<1> DEFINE T == SegmentOf(h, d)
<1> DEFINE Text(I) == UNION {BlocksOf(h[i]) : i \in I}
<1> DEFINE Links == [k \in DOMAIN h[d].links |->
                       [tool |-> LinkTool(h[d].links, k), blocks |-> {h[d].links[k].block}, shared |-> FALSE]]
<1>1. d \in DOMAIN h
  BY ChainFound DEF Candidates
<1>2. h[d] \in Statement /\ \A i \in DOMAIN h : h[i] \in Statement
  BY <1>1
<1>3. \A I \in SUBSET DOMAIN h : Text(I) \in SUBSET Blocks
  BY <1>2, BlocksOfStatement
<1>4. Segment(NoTool, Text(1..(d - 1)), TRUE) \in Seq(T)
  <2>1. 1..(d - 1) \in SUBSET DOMAIN h /\ d \notin 1..(d - 1)
    BY <1>1
  <2>2. Text(1..(d - 1)) \subseteq Around(h, d)
    BY <2>1 DEF Around
  <2> QED
    BY <1>3, <2>1, <2>2, NamelessSegment
<1>5. Segment(NoTool, {h[d].orelse} \ {NoBlock}, FALSE) \in Seq(T)
  <2>1. {h[d].orelse} \ {NoBlock} \in SUBSET Blocks
    BY <1>2 DEF Statement
  <2>2. {h[d].orelse} \ {NoBlock} = {} \/ \E b : {h[d].orelse} \ {NoBlock} = {b}
    OBVIOUS
  <2> QED
    BY <2>1, <2>2, NamelessSegment
<1>6. Segment(NoTool, Text((d + 1)..Len(h)), FALSE) \in Seq(T)
  <2>1. (d + 1)..Len(h) \in SUBSET DOMAIN h /\ d \notin (d + 1)..Len(h)
    BY <1>1
  <2>2. Text((d + 1)..Len(h)) \subseteq Around(h, d)
    BY <2>1 DEF Around
  <2> QED
    BY <1>3, <2>1, <2>2, NamelessSegment
<1>7. Links \in Seq(T)
  <2>1. h[d].links \in Seq(Link)
    BY <1>2 DEF Statement
  <2>2. ASSUME NEW k \in DOMAIN h[d].links
        PROVE  [tool |-> LinkTool(h[d].links, k), blocks |-> {h[d].links[k].block}, shared |-> FALSE] \in T
    BY <1>2, BlocksOfStatement DEF SegmentOf, LinkTool
  <2>3. DOMAIN Links = 1..Len(h[d].links) /\ Len(h[d].links) \in Nat
    BY <2>1
  <2>4. Links = [k \in 1..Len(h[d].links) |->
                   [tool |-> LinkTool(h[d].links, k), blocks |-> {h[d].links[k].block}, shared |-> FALSE]]
    BY <2>3
  <2> HIDE DEF T
  <2>5. Links \in [1..Len(h[d].links) -> T]
    BY <2>2, <2>3, <2>4
  <2> HIDE DEF Links
  <2> QED
    BY <2>3, <2>5
<1>8. Segments(h) = Segment(NoTool, Text(1..(d - 1)), TRUE) \o Links
                      \o Segment(NoTool, {h[d].orelse} \ {NoBlock}, FALSE)
                      \o Segment(NoTool, Text((d + 1)..Len(h)), FALSE)
  BY Zenon DEF Segments
<1> DEFINE A == Segment(NoTool, Text(1..(d - 1)), TRUE)
           C == Segment(NoTool, {h[d].orelse} \ {NoBlock}, FALSE)
           D == Segment(NoTool, Text((d + 1)..Len(h)), FALSE)
           Holds(p, b) == \E k \in DOMAIN p : b \in p[k].blocks
<1>9. /\ Segments(h) \in Seq(T)
      /\ \A b : Holds(A, b) \/ Holds(Links, b) \/ Holds(C, b) \/ Holds(D, b) => Holds(Segments(h), b)
  <2>1. A \in Seq(T) /\ Links \in Seq(T) /\ C \in Seq(T) /\ D \in Seq(T)
    BY <1>4, <1>5, <1>6, <1>7
  <2>2. Segments(h) = ((A \o Links) \o C) \o D
    BY <1>8
  <2> HIDE DEF A, C, D, T, Links
  <2>3. \A p, q \in Seq(T) : p \o q \in Seq(T) /\ \A b : Holds(p, b) \/ Holds(q, b) => Holds(p \o q, b)
    <3>0. \A p, q \in Seq(T) : p \o q \in Seq(T)
      OBVIOUS
    <3> SUFFICES ASSUME NEW p \in Seq(T), NEW q \in Seq(T), NEW b, Holds(p, b) \/ Holds(q, b)
                 PROVE  Holds(p \o q, b)
      BY <3>0
    <3>1. CASE Holds(p, b)
      <4>1. PICK k \in DOMAIN p : b \in p[k].blocks
        BY <3>1
      <4>2. k \in DOMAIN (p \o q) /\ (p \o q)[k] = p[k]
        OBVIOUS
      <4> QED
        BY <4>1, <4>2
    <3>2. CASE Holds(q, b)
      <4>1. PICK k \in DOMAIN q : b \in q[k].blocks
        BY <3>2
      <4>2. Len(p) + k \in DOMAIN (p \o q) /\ (p \o q)[Len(p) + k] = q[k]
        OBVIOUS
      <4> QED
        BY <4>1, <4>2
    <3> QED
      BY <3>1, <3>2
  <2> HIDE DEF Holds
  <2>4. A \o Links \in Seq(T) /\ (A \o Links) \o C \in Seq(T) /\ ((A \o Links) \o C) \o D \in Seq(T)
    BY <2>1, <2>3
  <2> QED
    BY <2>1, <2>2, <2>3, <2>4
<1>10. ASSUME NEW i \in DOMAIN h, NEW b \in BlocksOf(h[i])
       PROVE  Holds(Segments(h), b)
  <2>1. \A S, shared : b \in S => Holds(Segment(NoTool, S, shared), b)
    <3> SUFFICES ASSUME NEW S, NEW shared, b \in S PROVE Holds(Segment(NoTool, S, shared), b)
      OBVIOUS
    <3>1. Segment(NoTool, S, shared) = <<[tool |-> NoTool, blocks |-> S, shared |-> shared]>>
      BY DEF Segment
    <3>2. 1 \in DOMAIN Segment(NoTool, S, shared) /\ Segment(NoTool, S, shared)[1].blocks = S
      BY <3>1
    <3> QED
      BY <3>2
  <2>2. i \in Nat /\ d \in Nat /\ i <= Len(h) /\ i >= 1
    BY <1>1
  <2>3. CASE i < d
    <3>1. b \in Text(1..(d - 1))
      BY <2>2, <2>3
    <3> HIDE DEF Text
    <3> QED
      BY <1>9, <2>1, <3>1
  <2>4. CASE i > d
    <3>1. b \in Text((d + 1)..Len(h))
      BY <2>2, <2>4
    <3> HIDE DEF Text
    <3> QED
      BY <1>9, <2>1, <3>1
  <2>5. CASE i = d
    <3>1. CASE b \in {h[d].orelse} \ {NoBlock}
      BY <1>9, <2>1, <3>1
    <3>2. CASE \E k \in DOMAIN h[d].links : b = h[d].links[k].block
      <4>1. Holds(Links, b)
        BY <3>2
      <4> QED
        BY <1>9, <4>1
    <3> QED
      BY <2>5, <3>1, <3>2 DEF BlocksOf
  <2> QED
    BY <2>2, <2>3, <2>4, <2>5
<1> QED
  BY <1>9, <1>10

\* What a segment holds is text of the handler.
LEMMA SegmentBlocks ==
  ASSUME NEW h \in Seq(Statement), NEW n \in DOMAIN Segments(h)
  PROVE  Segments(h)[n].blocks \in SUBSET Blocks
<1>1. CASE FindDispatchChain(h) # 0
  <2>1. Segments(h)[n] \in SegmentOf(h, FindDispatchChain(h))
    BY <1>1, SegmentsAreTheirs
  <2> QED
    BY <2>1 DEF SegmentOf
<1>2. CASE FindDispatchChain(h) = 0
  <2>1. Segments(h)[n].blocks = UNION {BlocksOf(h[i]) : i \in DOMAIN h}
    BY <1>2 DEF Segments
  <2>2. \A i \in DOMAIN h : BlocksOf(h[i]) \in SUBSET Blocks
    BY BlocksOfStatement
  <2> QED
    BY <2>1, <2>2
<1> QED
  BY <1>1, <1>2

LEMMA EmptyHandler ==
  ASSUME NEW n \in DOMAIN Segments(<<>>)
  PROVE  Segments(<<>>)[n].blocks = {}
<1>1. Candidates(<<>>) = {}
  BY DEF Candidates
<1>2. FindDispatchChain(<<>>) = 0
  BY <1>1 DEF FindDispatchChain
<1> QED
  BY <1>2 DEF Segments

----------------------------------------------------------------------------
(* A segment that names a tool holds one branch of the chain, and that     *)
(* branch is executed only if the expression which the chain compares      *)
(* equals this name.  The expression is the first parameter, hence the     *)
(* name of the tool that is called, if any top-level if compares that;     *)
(* else the one of the chain is a heuristic (dispatch_segments).           *)
THEOREM SegmentsAttributedRightly ==
  ASSUME NEW h \in Seq(Statement), OnePlaceEach(h), NEW n \in DOMAIN Segments(h)
  PROVE  AttributedRightly(h, Segments(h)[n])
<1> DEFINE d == FindDispatchChain(h)
<1> DEFINE s == Segments(h)[n]
<1> DEFINE x == h[d].links[1].subject
<1> SUFFICES ASSUME s.tool # NoTool
             PROVE  /\ x \in Discriminants(h)
                    /\ \A env \in [Subjects -> Literals], i \in DOMAIN h :
                         Enterable(h[i], env) \cap s.blocks # {} => env[x] = s.tool
  BY DEF AttributedRightly
<1>0. d # 0
  <2> SUFFICES ASSUME d = 0 PROVE s.tool = NoTool
    OBVIOUS
  <2> DEFINE whole == UNION {BlocksOf(h[i]) : i \in DOMAIN h}
  <2>1. Segments(h) = <<[tool |-> NoTool, blocks |-> whole, shared |-> FALSE]>>
    BY DEF Segments
  <2> HIDE DEF whole
  <2> QED
    BY <2>1
<1>1. d \in Candidates(h)
  BY <1>0, ChainFound
<1>2. d # 0 /\ d \in DOMAIN h /\ h[d] \in Statement
  BY <1>0, <1>1 DEF Candidates
<1>3. s \in SegmentOf(h, d)
  BY <1>2, SegmentsAreTheirs
<1>4. PICK k \in DOMAIN h[d].links : s.tool = LinkTool(h[d].links, k) /\ s.blocks = {h[d].links[k].block}
  BY <1>3 DEF SegmentOf
<1>5. /\ \A m \in 1..k : h[d].links[m].subject = x
      /\ s.tool = h[d].links[k].literal
  BY <1>1, <1>4 DEF LinkTool
<1>6. h[d].links \in Seq(Link) /\ k \in Nat /\ k >= 1
  <2>1. h[d].links \in Seq(Link)
    BY <1>2 DEF Statement
  <2> QED
    BY <1>4, <2>1
<1>7. h[d].links[k].subject = x /\ x # NoSubject
  BY <1>1, <1>5, <1>6 DEF Candidates
<1>8. x \in Discriminants(h)
  <2>1. x \in {h[j].links[1].subject : j \in Candidates(h)}
    BY <1>1
  <2>2. FirstParam \in {h[j].links[1].subject : j \in Candidates(h)} => x = FirstParam
    BY ChainFound
  <2> QED
    BY <2>1, <2>2 DEF Discriminants
<1>9. ASSUME NEW env \in [Subjects -> Literals], NEW i \in DOMAIN h, Enterable(h[i], env) \cap s.blocks # {}
      PROVE  env[x] = s.tool
  <2>1. h[d].links[k].block \in Enterable(h[i], env)
    BY <1>4, <1>9
  <2>2. h[d].links[k].block \in BlocksOf(h[i])
    <3>1. h[d].links[k].block # NoBlock
      BY <1>2, <1>4, BlocksOfStatement, DispatchAssumption
    <3> QED
      BY <2>1, <3>1 DEF Enterable, BlocksOf
  <2>3. i = d
    <3>1. h[d].links[k].block \in BlocksOf(h[d])
      BY <1>2, <1>4, BlocksOfStatement, DispatchAssumption DEF BlocksOf
    <3> QED
      BY <1>2, <2>2, <3>1 DEF OnePlaceEach
  <2>4. MayHold(h[d].links[k], env)
    <3>1. PICK m \in DOMAIN h[d].links : MayHold(h[d].links[m], env) /\ h[d].links[m].block = h[d].links[k].block
      BY <1>2, <1>4, <2>1, <2>3 DEF Enterable, OnePlaceEach
    <3>2. m = k
      BY <1>2, <1>4, <3>1 DEF OnePlaceEach
    <3> QED
      BY <3>1, <3>2
  <2> QED
    BY <1>5, <1>7, <2>4 DEF MayHold
<1> QED
  BY <1>8, <1>9

----------------------------------------------------------------------------
(* Secret-leak-response.                                                  *)

Holds(s, S, r) == \E b \in S : \E x \in s.text[b].returns : x.id = r /\ ~x.inner

\* The finding g about server s names a tool that executes its return statement.
Genuine(s, g) ==
  g.label # "window" =>
    \/ \E t \in s.tools : CalledAs[t] = g.label /\ Holds(s, {t}, g.at)
    \/ \E i \in DOMAIN Segments(s.handler) :
         LET segment == Segments(s.handler)[i]
         IN  /\ segment.tool = g.label /\ AttributedRightly(s.handler, segment)
             /\ \/ Holds(s, segment.blocks, g.at)
                \/ \E f \in Functions : Holds(s, {f}, g.at)
                     /\ \E b \in segment.blocks : CalledAs[f] \in s.text[b].calls

LeakInv ==
  /\ ServerOK(server)
  /\ \A t : <<"tool", t>> \in unread => t \in server.tools
  /\ \A g \in leaks : Genuine(server, g)

\* What is found in a text is labelled as asked and stands in it.
LEMMA FoundInText ==
  ASSUME NEW label, NEW S, NEW g \in CheckText(label, S)
  PROVE  g.label = label /\ Holds(server, S, g.at)
<1>1. PICK r \in DirectReturns(S) : g \in CheckReturn(label, S, r)
  BY DEF CheckText
<1>2. g.label = label /\ g.at = r.id
  <2> DEFINE W == (UNION {Leaking(S, leaf) : leaf \in r.leaves})
                     \cup Tagged("secret key", \E k \in r.keys : LooksSecret(k))
  <2>1. g \in {[label |-> label, at |-> r.id, what |-> w] : w \in W}
    BY <1>1 DEF CheckReturn
  <2> HIDE DEF W
  <2> QED
    BY <2>1
<1>3. \E b \in S : r \in server.text[b].returns /\ ~r.inner
  BY DEF DirectReturns
<1> QED
  BY <1>2, <1>3 DEF Holds

LEMMA LeakInvStep ==
  LeakInv /\ [NextSecretLeak]_slVars => LeakInv'
<1> SUFFICES ASSUME LeakInv, [NextSecretLeak]_slVars
             PROVE  LeakInv'
  OBVIOUS
<1>1. server' = server /\ unread' \subseteq unread
  BY DEF NextSecretLeak, slVars, CheckTool, CheckSegment, CheckJsLine
<1>2. SUFFICES \A g \in leaks' : g \in leaks \/ Genuine(server, g)
  BY <1>1 DEF LeakInv
<1>3. ASSUME NEW t \in Functions, CheckTool(t)
      PROVE  \A g \in leaks' : g \in leaks \/ Genuine(server, g)
  <2>1. t \in server.tools
    BY <1>3 DEF LeakInv, CheckTool
  <2>2. \A g \in CheckText(CalledAs[t], {t}) : Genuine(server, g)
    BY <2>1, FoundInText DEF Genuine
  <2> QED
    BY <1>3, <2>2 DEF CheckTool
<1>4. ASSUME NEW i \in DOMAIN Segments(server.handler), CheckSegment(i)
      PROVE  \A g \in leaks' : g \in leaks \/ Genuine(server, g)
  <2> DEFINE segment == Segments(server.handler)[i]
  <2>1. AttributedRightly(server.handler, segment)
    BY SegmentsAttributedRightly DEF LeakInv, ServerOK
  <2>2. \A g \in CheckText(segment.tool, segment.blocks) : Genuine(server, g)
    BY <2>1, FoundInText DEF Genuine
  <2>3. ASSUME NEW f \in OneHopDispatchedFuncs(i), NEW g \in CheckText(segment.tool, {f})
        PROVE  Genuine(server, g)
    <3>1. f \in Functions /\ \E b \in segment.blocks : CalledAs[f] \in server.text[b].calls
      BY DEF OneHopDispatchedFuncs
    <3>2. g.label = segment.tool /\ Holds(server, {f}, g.at)
      BY FoundInText
    <3> QED
      BY <2>1, <3>1, <3>2 DEF Genuine
  <2> QED
    BY <1>4, <2>2, <2>3 DEF CheckSegment
<1>5. ASSUME NEW i \in DOMAIN server.window, CheckJsLine(i)
      PROVE  \A g \in leaks' : g \in leaks \/ Genuine(server, g)
  BY <1>5 DEF CheckJsLine, Genuine
<1>6. CASE UNCHANGED slVars
  BY <1>6 DEF slVars
<1> QED
  BY <1>3, <1>4, <1>5, <1>6 DEF NextSecretLeak

(* The detector never invents a culprit, in servers of any size, where the *)
(* expression that the handler compares is the name of the tool: it rests  *)
(* on SegmentsAttributedRightly, that is on how dispatch_segments names    *)
(* the branches of a handler (run, _scan_low_level_sdk, _check_return).    *)
THEOREM NoLeakIsInvented ==
  ASSUME NEW CONSTANT servers, \A s \in servers : ServerOK(s)
  PROVE  LeakSpec(servers) => []LeaksAreNotInvented
<1>1. InitSecretLeak(servers) => LeakInv
  BY DEF InitSecretLeak, LeakInv
<1>2. LeakInv => LeaksAreNotInvented
  BY Zenon DEF LeakInv, LeaksAreNotInvented, Genuine, Holds
<1> QED
  BY <1>1, <1>2, LeakInvStep, PTL DEF LeakSpec

----------------------------------------------------------------------------
(* Nothing is passed over.                                                 *)

\* If nothing but credentials is assigned to a name, it resolves to one.
LEMMA ResolvesToCredential ==
  ASSUME ServerOK(server), NEW S \in SUBSET (Blocks \cup Functions), NEW n, Given(S, n) # {},
         \A a \in Given(S, n) : a.value # NoLiteral /\ a.value.shaped
  PROVE  \E v \in Resolved(S, n) : v.shaped
<1>0. PICK b \in S : \E i \in DOMAIN server.text[b].assigns : server.text[b].assigns[i].name = n
  BY DEF Given
<1>1. PICK i \in DOMAIN server.text[b].assigns : server.text[b].assigns[i].name = n
  BY <1>0
<1> DEFINE assigns == server.text[b].assigns
<1> DEFINE Literal == {j \in DOMAIN assigns : assigns[j].name = n /\ assigns[j].value # NoLiteral}
<1>2. \A j \in DOMAIN assigns : assigns[j].name = n => assigns[j] \in Given(S, n)
  BY DEF Given
<1>3. i \in Literal
  BY <1>1, <1>2
<1>4. DOMAIN assigns = 1..Len(assigns) /\ Len(assigns) \in Nat
  <2>1. server.text[b] \in Body
    BY DEF ServerOK
  <2>2. assigns \in Seq([name : Name, value : Value \cup {NoLiteral}])
    BY <2>1 DEF Body
  <2> QED
    BY <2>2
<1>5. \E j \in Literal : \A m \in Literal : m <= j
  BY <1>3, <1>4, LastExists
<1> DEFINE last == CHOOSE j \in Literal : \A m \in Literal : m <= j
<1>6. last \in Literal
  BY <1>5
<1>7. assigns[last].value \in Resolved(S, n)
  BY <1>3, Zenon DEF Resolved
<1>8. assigns[last].value.shaped
  BY <1>2, <1>6
<1> QED
  BY <1>7, <1>8

\* What is handed back is noticed.
LEMMA HandedBackIsLeaking ==
  ASSUME ServerOK(server), NEW S \in SUBSET (Blocks \cup Functions), NEW leaf \in Leaf, HandsBack(S, leaf)
  PROVE  Leaking(S, leaf) # {}
<1>1. ASSUME leaf.form \in {"environ", "dump", "__dict__"}
      PROVE  Leaking(S, leaf) = {leaf.form}
  BY <1>1 DEF Leaking
<1>2. CASE leaf.form \in {"environ", "dump", "__dict__"}
  BY <1>1, <1>2
<1>3. CASE leaf.form = "literal"
  BY <1>3, Zenon DEF HandsBack, Leaking, Tagged
<1>4. CASE leaf.form = "attribute"
  <2>1. LooksSecret(leaf.name)
    BY <1>4 DEF HandsBack
  <2>2. Tagged("secret name", LooksSecret(leaf.name)) \subseteq Leaking(S, leaf)
    BY <1>4 DEF Leaking
  <2> QED
    BY <2>1, <2>2 DEF Tagged
<1>5. CASE leaf.form = "name"
  <2>1. CASE leaf.name.words \in WholeObjects
    BY <1>5, <2>1 DEF Leaking
  <2>2. CASE leaf.name.words \notin WholeObjects
    <3> DEFINE Shaped == UNION {Tagged(IF HasFakeMarker(v) THEN "fake resolved" ELSE "resolved", v.shaped) :
                                  v \in Resolved(S, leaf.name)}
    <3>1. Leaking(S, leaf) = Tagged("secret name", LooksSecret(leaf.name)) \cup Shaped
      BY <1>5, <2>2 DEF Leaking
    <3>2. CASE LooksSecret(leaf.name)
      BY <3>1, <3>2 DEF Tagged
    <3>3. CASE ~LooksSecret(leaf.name)
      <4>1. Given(S, leaf.name) # {} /\ \A a \in Given(S, leaf.name) : a.value # NoLiteral /\ a.value.shaped
        BY <1>5, <3>3 DEF HandsBack
      <4>2. PICK v \in Resolved(S, leaf.name) : v.shaped
        BY <4>1, ResolvesToCredential
      <4>3. Tagged(IF HasFakeMarker(v) THEN "fake resolved" ELSE "resolved", v.shaped) # {}
        BY <4>2 DEF Tagged
      <4>4. Tagged(IF HasFakeMarker(v) THEN "fake resolved" ELSE "resolved", v.shaped) \subseteq Shaped
        BY <4>2
      <4> QED
        BY <3>1, <4>3, <4>4
    <3> QED
      BY <3>2, <3>3
  <2> QED
    BY <2>1, <2>2
<1>6. leaf.form \notin {"nested", "call"}
  BY DEF HandsBack
<1> QED
  BY <1>2, <1>3, <1>4, <1>5, <1>6 DEF Leaf

\* What is found stands for all that the text hands back.
LEMMA CheckedIsTold ==
  ASSUME ServerOK(server), NEW S \in SUBSET (Blocks \cup Functions), NEW label,
         CheckText(label, S) \subseteq leaks
  PROVE  Told(label, S)
<1> SUFFICES ASSUME NEW b \in S, NEW r \in server.text[b].returns, ~r.inner,
                    (\E leaf \in r.leaves : HandsBack(S, leaf)) \/ (\E k \in r.keys : LooksSecret(k))
             PROVE  \E g \in leaks : g.label = label /\ g.at = r.id
  BY DEF Told
<1> DEFINE W == (UNION {Leaking(S, leaf) : leaf \in r.leaves})
                   \cup Tagged("secret key", \E k \in r.keys : LooksSecret(k))
<1>1. W # {}
  <2>1. ASSUME \E k \in r.keys : LooksSecret(k)
        PROVE  W # {}
    <3>1. Tagged("secret key", \E k \in r.keys : LooksSecret(k)) = {"secret key"}
      BY <2>1 DEF Tagged
    <3> QED
      BY <3>1
  <2>2. ASSUME NEW leaf \in r.leaves, HandsBack(S, leaf)
        PROVE  W # {}
    <3>1. leaf \in Leaf
      <4>1. server.text[b] \in Body
        BY DEF ServerOK
      <4>2. r \in Return
        BY <4>1 DEF Body
      <4> QED
        BY <4>2 DEF Return
    <3>2. Leaking(S, leaf) # {}
      BY <2>2, <3>1, HandedBackIsLeaking
    <3>3. Leaking(S, leaf) \subseteq W
      OBVIOUS
    <3> QED
      BY <3>2, <3>3
  <2> HIDE DEF W
  <2> QED
    BY <2>1, <2>2
<1>2. CheckReturn(label, S, r) = {[label |-> label, at |-> r.id, what |-> w] : w \in W}
  BY DEF CheckReturn
<1> HIDE DEF W
<1>3. PICK w \in W : TRUE
  BY <1>1
<1>4. [label |-> label, at |-> r.id, what |-> w] \in CheckReturn(label, S, r)
  BY <1>2
<1>5. r \in DirectReturns(S)
  BY DEF DirectReturns
<1>6. CheckReturn(label, S, r) \subseteq CheckText(label, S)
  BY <1>5 DEF CheckText
<1> QED
  BY <1>4, <1>6

\* What was read has been checked.
ReadInv ==
  /\ ServerOK(server)
  /\ \A t \in server.tools : <<"tool", t>> \notin unread => CheckText(CalledAs[t], {t}) \subseteq leaks
  /\ server.handler # <<>> => \A i \in DOMAIN Segments(server.handler) : <<"segment", i>> \notin unread =>
       LET segment == Segments(server.handler)[i]
       IN  /\ CheckText(segment.tool, segment.blocks) \subseteq leaks
           /\ \A g \in OneHopDispatchedFuncs(i) : CheckText(segment.tool, {g}) \subseteq leaks

LEMMA ReadInvStep ==
  ReadInv /\ [NextSecretLeak]_slVars => ReadInv'
<1> SUFFICES ASSUME ReadInv, [NextSecretLeak]_slVars
             PROVE  ReadInv'
  OBVIOUS
<1>1. server' = server /\ leaks \subseteq leaks'
  BY DEF NextSecretLeak, slVars, CheckTool, CheckSegment, CheckJsLine
<1>2. /\ \A label, S : CheckText(label, S)' = CheckText(label, S)
      /\ \A i : OneHopDispatchedFuncs(i)' = OneHopDispatchedFuncs(i)
  <2>1. \A S, n : Resolved(S, n)' = Resolved(S, n)
    BY <1>1 DEF Resolved
  <2>2. \A S, leaf : Leaking(S, leaf)' = Leaking(S, leaf)
    BY <2>1 DEF Leaking
  <2>3. \A label, S, r : CheckReturn(label, S, r)' = CheckReturn(label, S, r)
    BY <2>2 DEF CheckReturn
  <2>4. \A S : DirectReturns(S)' = DirectReturns(S)
    BY <1>1 DEF DirectReturns
  <2>5. \A label, S : CheckText(label, S)' = CheckText(label, S)
    BY <2>3, <2>4 DEF CheckText
  <2>6. \A i : OneHopDispatchedFuncs(i)' = OneHopDispatchedFuncs(i)
    BY <1>1 DEF OneHopDispatchedFuncs
  <2> QED
    BY <2>5, <2>6
<1>3. ASSUME NEW t \in Functions, CheckTool(t)
      PROVE  ReadInv'
  BY <1>1, <1>2, <1>3 DEF ReadInv, CheckTool
<1>4. ASSUME NEW i \in DOMAIN Segments(server.handler), CheckSegment(i)
      PROVE  ReadInv'
  BY <1>1, <1>2, <1>4 DEF ReadInv, CheckSegment
<1>5. ASSUME NEW i \in DOMAIN server.window, CheckJsLine(i)
      PROVE  ReadInv'
  BY <1>1, <1>2, <1>5 DEF ReadInv, CheckJsLine
<1>6. CASE UNCHANGED slVars
  BY <1>1, <1>2, <1>6 DEF ReadInv, slVars
<1> QED
  BY <1>3, <1>4, <1>5, <1>6 DEF NextSecretLeak

(* No tool and no branch of a handler, in servers of any size, hands a     *)
(* secret back unreported, whatever the variable is called and however     *)
(* many branches call the function that returns it (_direct_returns,       *)
(* _one_hop_dispatched_funcs, _check_return).                              *)
THEOREM NoLeakIsPassedOver ==
  ASSUME NEW CONSTANT servers, \A s \in servers : ServerOK(s)
  PROVE  LeakSpec(servers) => []NoLeakIsSilent
<1>1. InitSecretLeak(servers) => ReadInv
  <2> SUFFICES ASSUME InitSecretLeak(servers)
               PROVE  ReadInv
    OBVIOUS
  <2>1. /\ ServerOK(server)
        /\ \A t \in server.tools : <<"tool", t>> \in unread
    BY DEF InitSecretLeak
  <2>2. server.handler # <<>> => \A i \in DOMAIN Segments(server.handler) : <<"segment", i>> \in unread
    BY DEF InitSecretLeak
  <2> QED
    BY <2>1, <2>2 DEF ReadInv
<1>2. ReadInv => NoLeakIsSilent
  <2> SUFFICES ASSUME ReadInv, unread = {}
               PROVE  NoLeakIsSilent
    BY DEF NoLeakIsSilent
  <2>1. ServerOK(server)
    BY DEF ReadInv
  <2>2. \A t \in server.tools : Told(CalledAs[t], {t})
    <3> SUFFICES ASSUME NEW t \in server.tools
                 PROVE  Told(CalledAs[t], {t})
      OBVIOUS
    <3>1. {t} \in SUBSET (Blocks \cup Functions)
      BY <2>1 DEF ServerOK
    <3>2. CheckText(CalledAs[t], {t}) \subseteq leaks
      BY DEF ReadInv
    <3> QED
      BY <2>1, <3>1, <3>2, CheckedIsTold
  <2>3. ASSUME NEW i \in DOMAIN Segments(server.handler)
        PROVE  LET segment == Segments(server.handler)[i]
               IN  /\ Told(segment.tool, segment.blocks)
                   /\ \A g \in Functions :
                        CalledAs[g] \in UNION {server.text[b].calls : b \in segment.blocks}
                        => Told(segment.tool, {g})
    <3> DEFINE segment == Segments(server.handler)[i]
    <3>1. segment.blocks \in SUBSET Blocks
      BY <2>1, SegmentBlocks DEF ServerOK
    <3>2. CASE server.handler = <<>>
      <4>1. segment.blocks = {}
        BY <3>2, EmptyHandler
      <4> QED
        BY <4>1 DEF Told
    <3>3. CASE server.handler # <<>>
      <4>1. /\ CheckText(segment.tool, segment.blocks) \subseteq leaks
            /\ \A g \in OneHopDispatchedFuncs(i) : CheckText(segment.tool, {g}) \subseteq leaks
        BY <3>3 DEF ReadInv
      <4>2. Told(segment.tool, segment.blocks)
        BY <2>1, <3>1, <4>1, CheckedIsTold
      <4>3. ASSUME NEW g \in Functions,
                   CalledAs[g] \in UNION {server.text[b].calls : b \in segment.blocks}
            PROVE  Told(segment.tool, {g})
        <5>1. g \in OneHopDispatchedFuncs(i)
          BY <4>3 DEF OneHopDispatchedFuncs
        <5> QED
          BY <2>1, <4>1, <5>1, CheckedIsTold
      <4> QED
        BY <4>2, <4>3
    <3> QED
      BY <3>2, <3>3
  <2> QED
    BY <2>2, <2>3, Zenon DEF NoLeakIsSilent
<1> QED
  BY <1>1, <1>2, ReadInvStep, PTL DEF LeakSpec

----------------------------------------------------------------------------
(* JS windows: the depth of braces, and the fields that are read.          *)

\* The depth after a line of the window, from the depth d before it.
AfterLine(l, d) ==
  IF l.comment THEN d
  ELSE LET e == IF d > 0 \/ l.form = "opens" THEN d + l.braces ELSE 0
       IN  IF e > 0 THEN e ELSE 0

\* What a line adds to a count of braces.
Adds(l) == IF l.comment THEN 0 ELSE l.braces

LEMMA LineShape ==
  ASSUME NEW w \in Seq(JsLine)
  PROVE  /\ Len(w) \in Nat /\ DOMAIN w = 1..Len(w)
         /\ \A k \in 1..Len(w) : /\ w[k] \in JsLine
                                 /\ w[k].braces \in Int /\ Adds(w[k]) \in Int
                                 /\ w[k].comment \in BOOLEAN
                                 /\ \A d \in Nat : AfterLine(w[k], d) \in Nat
<1>1. Len(w) \in Nat /\ DOMAIN w = 1..Len(w)
  BY LenProperties
<1>2. \A k \in 1..Len(w) : w[k] \in JsLine
  BY ElementOfSeq, Zenon
<1>3. \A l \in JsLine : l.braces \in Int /\ l.comment \in BOOLEAN
  BY DEF JsLine
<1>4. \A l \in JsLine : Adds(l) \in Int /\ \A d \in Nat : AfterLine(l, d) \in Nat
  BY <1>3 DEF Adds, AfterLine
<1> QED
  BY <1>1, <1>2, <1>3, <1>4

\* The depth of braces is counted line by line.
LEMMA DepthUnfolds ==
  ASSUME NEW w \in Seq(JsLine)
  PROVE  /\ Depth(w)[0] = 0
         /\ \A k \in 0..Len(w) : Depth(w)[k] \in Nat
         /\ \A k \in 1..Len(w) : Depth(w)[k] = AfterLine(w[k], Depth(w)[k - 1])
<1> DEFINE n == Len(w)
<1> DEFINE step == [k \in 1..n |-> [d \in Nat |-> AfterLine(w[k], d)]]
<1> DEFINE rec(f) == [i \in 0..n |->
              IF i = 0 THEN 0
              ELSE LET l == w[i]
                       d == IF f[i - 1] > 0 \/ l.form = "opens" THEN f[i - 1] + Braces(l) ELSE 0
                   IN  IF l.comment THEN f[i - 1] ELSE IF d > 0 THEN d ELSE 0]
<1>0. n \in Nat /\ \A k \in 1..n : \A d \in Nat : AfterLine(w[k], d) \in Nat
  BY LineShape
<1>1. step \in [1..n -> [Nat -> Nat]]
  <2> HIDE DEF n
  <2> QED
    BY <1>0
<1>2. PICK f \in [0..n -> Nat] : f[0] = 0 /\ \A k \in 1..n : f[k] = step[k][f[k - 1]]
  <2>1. \E f \in [0..n -> Nat] : Recursion(f, n, 0, step)
    <3> HIDE DEF step, n
    <3>1. 0 \in Nat
      OBVIOUS
    <3> QED
      BY <1>0, <1>1, <3>1, SegmentRecursion, Zenon
  <2> QED
    BY <2>1 DEF Recursion
<1>3. \A k \in 1..n : f[k] = AfterLine(w[k], f[k - 1])
  <2> HIDE DEF n
  <2> TAKE k \in 1..n
  <2>1. k - 1 \in 0..n
    BY <1>0
  <2>2. f[k - 1] \in Nat
    BY <1>2, <2>1
  <2> QED
    BY <1>2, <2>2
<1>4. \A g : \A k \in 1..n : rec(g)[k] = AfterLine(w[k], g[k - 1])
  <2> TAKE g
  <2> TAKE k \in 1..n
  <2> HIDE DEF n
  <2>1. k \in 0..n /\ k # 0
    BY <1>0
  <2> QED
    BY <2>1, Zenon DEF AfterLine, Braces
<1>5. f = rec(f)
  <2>1. ASSUME NEW k \in 0..n PROVE f[k] = rec(f)[k]
    <3> HIDE DEF n
    <3>1. CASE k = 0
      BY <1>2, <3>1
    <3>2. CASE k # 0
      <4>1. k \in 1..n
        BY <3>2, <1>0
      <4> HIDE DEF rec
      <4> QED
        BY <1>3, <1>4, <4>1, Zenon
    <3> QED
      BY <3>1, <3>2
  <2> QED
    BY <2>1
<1>6. Depth(w) = rec(Depth(w))
  BY <1>5 DEF Depth
<1> DEFINE D == Depth(w)
<1>7. D[0] = 0
  <2>1. 0 \in 0..n
    BY <1>0
  <2> HIDE DEF n, D
  <2>2. \A g : rec(g)[0] = 0
    BY <2>1, Zenon
  <2>3. D = rec(D)
    BY <1>6 DEF D
  <2> HIDE DEF rec
  <2> QED
    BY <2>2, <2>3, Zenon
<1>8. \A k \in 1..n : D[k] = AfterLine(w[k], D[k - 1])
  <2>1. D = rec(D)
    BY <1>6 DEF D
  <2> HIDE DEF rec, D, n
  <2> QED
    BY <1>4, <2>1, Zenon
<1>9. \A k \in 0..n : k \in {i \in 0..n : D[i] \in Nat}
  <2> DEFINE P == {i \in 0..n : D[i] \in Nat}
  <2> HIDE DEF n, D
  <2>1. 0 \in P
    <3>1. D[0] \in Nat /\ 0 \in 0..n
      BY <1>0, <1>7 DEF D
    <3> QED
      BY <3>1
  <2>2. \A k \in 1..n : k - 1 \in P => k \in P
    <3> TAKE k \in 1..n
    <3> HAVE k - 1 \in P
    <3>1. D[k - 1] \in Nat
      OBVIOUS
    <3>2. D[k] \in Nat
      BY <3>1, <1>8, <1>0, Zenon
    <3> QED
      BY <3>2, <1>0
  <2> HIDE DEF P
  <2>3. \A k \in 0..n : k \in P
    BY <1>0, <2>1, <2>2, SegmentInduction, Zenon
  <2> QED
    BY <2>3 DEF P
<1> QED
  BY <1>7, <1>8, <1>9

\* So are the braces opened since a line.
LEMMA OpenedUnfolds ==
  ASSUME NEW w \in Seq(JsLine), NEW o \in 1..Len(w)
  PROVE  /\ OpenedSince(w, o)[o] = 0
         /\ \A k \in (o + 1)..Len(w) :
              OpenedSince(w, o)[k] = OpenedSince(w, o)[k - 1] + Adds(w[k - 1])
<1> DEFINE n == Len(w)
<1> DEFINE m == n - o
<1> DEFINE step == [k \in 1..m |-> [d \in Int |-> d + Adds(w[k + o - 1])]]
<1> DEFINE rec(f) == [j \in o..n |->
              IF j = o THEN 0 ELSE f[j - 1] + (IF w[j - 1].comment THEN 0 ELSE w[j - 1].braces)]
<1>0. /\ n \in Nat /\ o \in 1..n /\ m \in Nat
      /\ \A k \in 1..n : Adds(w[k]) \in Int
  <2>1. n \in Nat /\ \A k \in 1..n : Adds(w[k]) \in Int
    BY LineShape
  <2> HIDE DEF n
  <2> QED
    BY <2>1 DEF n
<1>1. step \in [1..m -> [Int -> Int]]
  <2>1. ASSUME NEW k \in 1..m PROVE Adds(w[k + o - 1]) \in Int
    <3> HIDE DEF n
    <3>1. k + o - 1 \in 1..n
      BY <1>0
    <3> QED
      BY <3>1, <1>0
  <2> HIDE DEF m
  <2> QED
    BY <2>1
<1>2. PICK f \in [0..m -> Int] : f[0] = 0 /\ \A k \in 1..m : f[k] = step[k][f[k - 1]]
  <2>1. \E f \in [0..m -> Int] : Recursion(f, m, 0, step)
    <3> HIDE DEF step, m
    <3>1. 0 \in Int
      OBVIOUS
    <3> QED
      BY <1>0, <1>1, <3>1, SegmentRecursion, Zenon
  <2> QED
    BY <2>1 DEF Recursion
<1>3. \A k \in 1..m : f[k] = f[k - 1] + Adds(w[k + o - 1])
  <2> TAKE k \in 1..m
  <2> HIDE DEF m
  <2>1. k - 1 \in 0..m
    BY <1>0
  <2>2. f[k - 1] \in Int
    BY <1>2, <2>1
  <2> QED
    BY <1>2, <2>2
<1> DEFINE count == [j \in o..n |-> f[j - o]]
<1>4. \A g : \A j \in (o + 1)..n : rec(g)[j] = g[j - 1] + Adds(w[j - 1])
  <2> TAKE g
  <2> TAKE j \in (o + 1)..n
  <2> HIDE DEF n
  <2>1. j \in o..n /\ j # o
    BY <1>0
  <2> QED
    BY <2>1, Zenon DEF Adds
<1>5. \A g : rec(g)[o] = 0
  <2>1. o \in o..n
    BY <1>0
  <2> HIDE DEF n
  <2> QED
    BY <2>1, Zenon
<1>6. count = rec(count)
  <2>1. ASSUME NEW j \in o..n PROVE count[j] = rec(count)[j]
    <3>1. CASE j = o
      <4>1. count[j] = f[0]
        <5> HIDE DEF n
        <5> QED
          BY <3>1, <1>0
      <4> HIDE DEF rec, count
      <4> QED
        BY <4>1, <1>2, <1>5, <3>1, Zenon
    <3>2. CASE j # o
      <4> HIDE DEF n
      <4>1. j \in (o + 1)..n /\ j - 1 \in o..n
        BY <1>0, <3>2
      <4>2. (j - o) \in 1..m /\ j - o + o - 1 = j - 1 /\ j - o - 1 = (j - 1) - o
        BY <1>0, <4>1
      <4>3. f[j - o] = f[j - o - 1] + Adds(w[j - o + o - 1])
        <5> HIDE DEF m
        <5> QED
          BY <1>3, <4>2, Zenon
      <4>4. count[j] = count[j - 1] + Adds(w[j - 1])
        BY <4>1, <4>2, <4>3
      <4> HIDE DEF rec, count
      <4> QED
        BY <4>1, <4>4, <1>4, Zenon
    <3> QED
      BY <3>1, <3>2
  <2> QED
    BY <2>1
<1> DEFINE C == OpenedSince(w, o)
<1>7. C = rec(C)
  BY <1>6 DEF OpenedSince
<1> HIDE DEF rec, C, n
<1>8. C[o] = 0
  BY <1>5, <1>7, Zenon
<1>9. \A k \in (o + 1)..n : C[k] = C[k - 1] + Adds(w[k - 1])
  BY <1>4, <1>7, Zenon
<1> QED
  BY <1>8, <1>9 DEF C, n

\* A line starts within braces exactly if one that a "return {" before it
\* opened is still open.
LEMMA DepthIsWithin ==
  ASSUME NEW w \in Seq(JsLine), NEW i \in 1..Len(w)
  PROVE  Depth(w)[i - 1] # 0 <=> Within(w, i)
<1> DEFINE n == Len(w)
<1> DEFINE D == Depth(w)
<1> DEFINE C(o) == OpenedSince(w, o)
<1>0. /\ n \in Nat /\ i \in 1..n
      /\ \A k \in 1..n : w[k].braces \in Int /\ Adds(w[k]) \in Int /\ w[k].comment \in BOOLEAN
  <2>1. n \in Nat /\ \A k \in 1..n : w[k].braces \in Int /\ Adds(w[k]) \in Int /\ w[k].comment \in BOOLEAN
    BY LineShape
  <2> QED
    BY <2>1
<1>1. /\ D[0] = 0
      /\ \A k \in 0..n : D[k] \in Nat
      /\ \A k \in 1..n : D[k] = AfterLine(w[k], D[k - 1])
  BY DepthUnfolds, Zenon
<1>2. \A o \in 1..n : /\ C(o)[o] = 0
                      /\ \A k \in (o + 1)..n : C(o)[k] = C(o)[k - 1] + Adds(w[k - 1])
  BY OpenedUnfolds, Zenon
<1> HIDE DEF n, D, C
<1>3. ASSUME NEW o \in 1..(i - 1), w[o].form = "opens", ~w[o].comment,
             \A j \in (o + 1)..i : C(o)[j] > 0
      PROVE  D[i - 1] # 0
  <2> DEFINE m == i - 1 - o
  <2> DEFINE P == {k \in 0..m : C(o)[o + k + 1] \in Int /\ D[o + k] >= C(o)[o + k + 1]}
  <2>1. o \in 1..n /\ m \in Nat
    BY <1>0
  <2>2. 0 \in P
    <3>1. C(o)[o + 1] = w[o].braces
      <4>1. o + 1 \in (o + 1)..n /\ (o + 1) - 1 = o
        BY <1>0
      <4>2. C(o)[o + 1] = C(o)[o] + Adds(w[o])
        BY <1>2, <2>1, <4>1
      <4> QED
        BY <1>0, <1>2, <1>3, <2>1, <4>2 DEF Adds
    <3>2. D[o] >= w[o].braces
      <4>1. D[o] = AfterLine(w[o], D[o - 1]) /\ D[o - 1] \in Nat
        <5>1. o - 1 \in 0..n
          BY <1>0
        <5> QED
          BY <1>1, <2>1, <5>1
      <4>2. AfterLine(w[o], D[o - 1]) =
              IF D[o - 1] + w[o].braces > 0 THEN D[o - 1] + w[o].braces ELSE 0
        BY <1>3, Zenon DEF AfterLine
      <4>3. w[o].braces \in Int
        BY <1>0, <2>1
      <4> QED
        BY <4>1, <4>2, <4>3
    <3> QED
      BY <2>1, <3>1, <3>2, <1>0
  <2>3. ASSUME NEW k \in 1..m, k - 1 \in P PROVE k \in P
    <3> DEFINE j == o + k
    <3>1. j \in 1..n /\ j - 1 \in 0..n /\ j + 1 \in (o + 1)..n /\ j \in (o + 1)..i
          /\ (j + 1) - 1 = j /\ o + (k - 1) = j - 1 /\ o + (k - 1) + 1 = j
      BY <1>0, <2>1
    <3>2. C(o)[j] \in Int /\ D[j - 1] >= C(o)[j] /\ D[j - 1] \in Nat
      <4>1. C(o)[o + (k - 1) + 1] \in Int /\ D[o + (k - 1)] >= C(o)[o + (k - 1) + 1]
        BY <2>3
      <4> QED
        BY <1>1, <3>1, <4>1
    <3>3. C(o)[j] > 0
      BY <1>3, <3>1
    <3>4. C(o)[j + 1] = C(o)[j] + Adds(w[j])
      BY <1>2, <2>1, <3>1
    <3>5. D[j] = AfterLine(w[j], D[j - 1])
      BY <1>1, <3>1
    <3>6. w[j].braces \in Int /\ w[j].comment \in BOOLEAN
      BY <1>0, <3>1
    <3>7. C(o)[j + 1] \in Int /\ D[j] >= C(o)[j + 1]
      <4> HIDE DEF j
      <4>1. CASE w[j].comment
        BY <4>1, <3>2, <3>4, <3>5 DEF AfterLine, Adds
      <4>2. CASE ~w[j].comment
        <5>1. D[j - 1] > 0
          BY <3>2, <3>3
        <5>2. D[j] = IF D[j - 1] + w[j].braces > 0 THEN D[j - 1] + w[j].braces ELSE 0
          BY <4>2, <5>1, <3>5, Zenon DEF AfterLine
        <5>3. C(o)[j + 1] = C(o)[j] + w[j].braces
          BY <4>2, <3>4, Zenon DEF Adds
        <5> QED
          BY <5>2, <5>3, <3>2, <3>6
      <4> QED
        BY <4>1, <4>2, <3>6
    <3> QED
      BY <3>7, <2>1
  <2>4. m \in P
    <3> HIDE DEF P, m
    <3>1. \A k \in 0..m : k \in P
      BY <2>1, <2>2, <2>3, SegmentInduction, Zenon
    <3> QED
      BY <3>1, <2>1
  <2>5. o + m = i - 1 /\ o + m + 1 = i /\ i \in (o + 1)..i
    BY <1>0, <2>1
  <2>6. D[i - 1] >= C(o)[i] /\ C(o)[i] \in Int /\ C(o)[i] > 0
    BY <2>4, <2>5, <1>3
  <2>7. D[i - 1] \in Nat
    BY <1>0, <1>1
  <2> QED
    BY <2>6, <2>7
<1> DEFINE Open(o, k) == /\ w[o].form = "opens" /\ ~w[o].comment
                         /\ \A j \in (o + 1)..(k + 1) : C(o)[j] > 0
                         /\ D[k] = C(o)[k + 1]
<1> DEFINE m == i - 1
<1> DEFINE P == {k \in 0..m : D[k] # 0 => \E o \in 1..k : Open(o, k)}
<1>4. 0 \in P
  BY <1>0, <1>1
<1>5. ASSUME NEW k \in 1..m, k - 1 \in P PROVE k \in P
  <2> SUFFICES ASSUME D[k] # 0 PROVE \E o \in 1..k : Open(o, k)
    <3>1. k \in 0..m
      BY <1>0
    <3> QED
      BY <3>1
  <2>1. k \in 1..n /\ k - 1 \in 0..n /\ k \in 0..n
    BY <1>0
  <2>2. D[k] = AfterLine(w[k], D[k - 1]) /\ D[k - 1] \in Nat /\ D[k] \in Nat /\ D[k] > 0
    BY <1>1, <2>1
  <2>3. w[k].braces \in Int /\ w[k].comment \in BOOLEAN
    BY <1>0, <2>1
  <2>4. CASE D[k - 1] # 0
    <3>1. PICK o \in 1..(k - 1) : Open(o, k - 1)
      BY <1>5, <2>4
    <3>2. D[k] = D[k - 1] + Adds(w[k])
      <4>1. CASE w[k].comment
        BY <4>1, <2>2 DEF AfterLine, Adds
      <4>2. CASE ~w[k].comment
        BY <4>2, <2>2, <2>3, <2>4 DEF AfterLine, Adds
      <4> QED
        BY <4>1, <4>2
    <3>3. o \in 1..n /\ o \in 1..k /\ k + 1 \in (o + 1)..n /\ (k + 1) - 1 = k /\ (k - 1) + 1 = k
      BY <1>0
    <3>4. C(o)[k + 1] = C(o)[k] + Adds(w[k])
      BY <1>2, <3>3
    <3>5. D[k - 1] = C(o)[k] /\ \A j \in (o + 1)..k : C(o)[j] > 0
      BY <3>1, <3>3
    <3>6. D[k] = C(o)[k + 1]
      BY <3>2, <3>4, <3>5
    <3>7. \A j \in (o + 1)..(k + 1) : C(o)[j] > 0
      <4> TAKE j \in (o + 1)..(k + 1)
      <4>1. CASE j = k + 1
        BY <4>1, <3>6, <2>2
      <4>2. CASE j # k + 1
        <5>1. j \in (o + 1)..k
          BY <4>2
        <5> QED
          BY <5>1, <3>5
      <4> QED
        BY <4>1, <4>2
    <3> QED
      BY <3>1, <3>3, <3>6, <3>7
  <2>5. CASE D[k - 1] = 0
    <3>1. ~w[k].comment /\ w[k].form = "opens" /\ D[k] = w[k].braces
      <4>1. ~w[k].comment
        BY <2>2, <2>5 DEF AfterLine
      <4>2. w[k].form = "opens"
        BY <2>2, <2>5, <4>1 DEF AfterLine
      <4> QED
        BY <2>2, <2>3, <2>5, <4>1, <4>2 DEF AfterLine
    <3>2. k + 1 \in (k + 1)..n /\ (k + 1) - 1 = k /\ k \in 1..k
      BY <1>0
    <3>3. C(k)[k + 1] = C(k)[k] + Adds(w[k]) /\ C(k)[k] = 0
      BY <1>2, <2>1, <3>2
    <3>4. D[k] = C(k)[k + 1]
      BY <3>1, <3>3, <2>3 DEF Adds
    <3>5. \A j \in (k + 1)..(k + 1) : C(k)[j] > 0
      <4> TAKE j \in (k + 1)..(k + 1)
      <4>1. j = k + 1
        OBVIOUS
      <4> QED
        BY <3>4, <2>2, <4>1
    <3> QED
      BY <3>1, <3>2, <3>4, <3>5
  <2> QED
    BY <2>4, <2>5
<1>6. m \in P
  <2>1. m \in Nat
    BY <1>0
  <2> HIDE DEF P, m
  <2>2. \A k \in 0..m : k \in P
    BY <2>1, <1>4, <1>5, SegmentInduction, Zenon
  <2> QED
    BY <2>1, <2>2
<1>7. D[i - 1] # 0 => \E o \in 1..(i - 1) : Open(o, i - 1)
  BY <1>6
<1>8. (i - 1) + 1 = i
  BY <1>0
<1>9. Within(w, i) <=> \E o \in 1..(i - 1) : /\ w[o].form = "opens" /\ ~w[o].comment
                                             /\ \A j \in (o + 1)..i : C(o)[j] > 0
  BY Zenon DEF Within, C
<1>10. D[i - 1] # 0 <=> Within(w, i)
  BY <1>3, <1>7, <1>8, <1>9
<1> QED
  BY <1>10 DEF D

FieldTags == {"field", "shaped field"}

\* The fields reported are those that the lines read show, on those lines.
FieldsInv ==
  /\ ServerOK(server)
  /\ \A g \in leaks : g.label = "window" /\ g.what \in FieldTags
       => g.at \in DOMAIN server.window /\ g.what \in JsLeaks(server.window, g.at)
  /\ \A i \in DOMAIN server.window : <<"line", i>> \notin unread =>
       \A x \in JsLeaks(server.window, i) : [label |-> "window", at |-> i, what |-> x] \in leaks

\* No text of Python yields a field.
LEMMA NoFieldInText ==
  ASSUME NEW label, NEW S, NEW g \in CheckText(label, S)
  PROVE  g.what \notin FieldTags
<1>1. PICK r \in DirectReturns(S) : g \in CheckReturn(label, S, r)
  BY DEF CheckText
<1>2. \A leaf : Leaking(S, leaf) \cap FieldTags = {}
  <2> TAKE leaf
  <2>1. \A tag, holds : Tagged(tag, holds) \subseteq {tag}
    BY DEF Tagged
  <2>2. CASE leaf.form \in {"environ", "dump", "__dict__"}
    BY <2>2 DEF Leaking, FieldTags
  <2>3. CASE leaf.form \notin {"environ", "dump", "__dict__"}
    <3>1. Leaking(S, leaf) \subseteq
            {"whole", "fake literal", "literal", "secret name", "fake resolved", "resolved"}
      <4>1. \A holds : Tagged("secret name", holds) \subseteq {"secret name"}
        BY <2>1, Zenon
      <4>2. \A v, holds : Tagged(IF HasFakeMarker(v) THEN "fake literal" ELSE "literal", holds)
                            \subseteq {"fake literal", "literal"}
        BY <2>1
      <4>3. \A v, holds : Tagged(IF HasFakeMarker(v) THEN "fake resolved" ELSE "resolved", holds)
                            \subseteq {"fake resolved", "resolved"}
        BY <2>1
      <4>4. \A X : UNION {Tagged(IF HasFakeMarker(v) THEN "fake resolved" ELSE "resolved", v.shaped) : v \in X}
                     \subseteq {"fake resolved", "resolved"}
        BY <4>3
      <4>5. CASE leaf.form = "name" /\ leaf.name.words \in WholeObjects
        BY <4>5, <2>3 DEF Leaking
      <4>6. CASE ~(leaf.form = "name" /\ leaf.name.words \in WholeObjects)
        <5>1. CASE leaf.form \in {"nested", "call"}
          BY <2>3, <5>1 DEF Leaking
        <5>2. CASE leaf.form = "literal"
          <6>1. Leaking(S, leaf) =
                  Tagged(IF HasFakeMarker(leaf.value) THEN "fake literal" ELSE "literal", leaf.value.shaped)
            BY <2>3, <5>2 DEF Leaking
          <6> QED
            BY <4>2, <6>1
        <5>3. CASE leaf.form \notin {"nested", "call", "literal"}
          <6> DEFINE X == IF leaf.form = "name" THEN Resolved(S, leaf.name) ELSE {}
          <6>1. Leaking(S, leaf) =
                  Tagged("secret name", LooksSecret(leaf.name))
                    \cup UNION {Tagged(IF HasFakeMarker(v) THEN "fake resolved" ELSE "resolved", v.shaped) : v \in X}
            BY <2>3, <4>6, <5>3, Zenon DEF Leaking
          <6> HIDE DEF X
          <6> QED
            BY <4>1, <4>4, <6>1
        <5> QED
          BY <5>1, <5>2, <5>3
      <4> QED
        BY <4>5, <4>6
    <3> QED
      BY <3>1 DEF FieldTags
  <2> QED
    BY <2>2, <2>3
<1> DEFINE W == (UNION {Leaking(S, leaf) : leaf \in r.leaves})
                   \cup Tagged("secret key", \E k \in r.keys : LooksSecret(k))
<1>3. W \cap FieldTags = {}
  <2>1. Tagged("secret key", \E k \in r.keys : LooksSecret(k)) \cap FieldTags = {}
    BY DEF Tagged, FieldTags
  <2> QED
    BY <1>2, <2>1
<1>4. g \in {[label |-> label, at |-> r.id, what |-> w] : w \in W}
  BY <1>1 DEF CheckReturn
<1> HIDE DEF W
<1> QED
  BY <1>3, <1>4

LEMMA FieldsInvStep ==
  FieldsInv /\ [NextSecretLeak]_slVars => FieldsInv'
<1> SUFFICES ASSUME FieldsInv, [NextSecretLeak]_slVars
             PROVE  FieldsInv'
  OBVIOUS
<1>1. server' = server /\ leaks \subseteq leaks'
  BY DEF NextSecretLeak, slVars, CheckTool, CheckSegment, CheckJsLine
<1> DEFINE Old(g) == g.label = "window" /\ g.what \in FieldTags
                       => g.at \in DOMAIN server.window /\ g.what \in JsLeaks(server.window, g.at)
<1>2. ASSUME unread' \subseteq unread,
             \A i \in DOMAIN server.window : <<"line", i>> \in unread => <<"line", i>> \in unread',
             \A g \in leaks' : g \in leaks \/ g.what \notin FieldTags
      PROVE  FieldsInv'
  BY <1>1, <1>2 DEF FieldsInv
<1>3. ASSUME NEW t \in Functions, CheckTool(t)
      PROVE  FieldsInv'
  <2>1. \A i \in DOMAIN server.window : <<"line", i>> \in unread => <<"line", i>> \in unread'
    BY <1>3 DEF CheckTool
  <2>2. \A g \in leaks' : g \in leaks \/ g.what \notin FieldTags
    BY <1>3, NoFieldInText DEF CheckTool
  <2>3. unread' \subseteq unread
    BY <1>3 DEF CheckTool
  <2> QED
    BY <1>2, <2>1, <2>2, <2>3
<1>4. ASSUME NEW i \in DOMAIN Segments(server.handler), CheckSegment(i)
      PROVE  FieldsInv'
  <2>1. \A j \in DOMAIN server.window : <<"line", j>> \in unread => <<"line", j>> \in unread'
    BY <1>4 DEF CheckSegment
  <2>2. \A g \in leaks' : g \in leaks \/ g.what \notin FieldTags
    <3> DEFINE segment == Segments(server.handler)[i]
    <3>1. leaks' = leaks \cup CheckText(segment.tool, segment.blocks)
                     \cup UNION {CheckText(segment.tool, {g}) : g \in OneHopDispatchedFuncs(i)}
      BY <1>4 DEF CheckSegment
    <3> HIDE DEF segment
    <3>2. \A S : \A g \in CheckText(segment.tool, S) : g.what \notin FieldTags
      BY NoFieldInText, Zenon
    <3> QED
      BY <3>1, <3>2
  <2>3. unread' \subseteq unread
    BY <1>4 DEF CheckSegment
  <2> QED
    BY <1>2, <2>1, <2>2, <2>3
<1>5. ASSUME NEW i \in DOMAIN server.window, CheckJsLine(i)
      PROVE  FieldsInv'
  <2>1. leaks' = leaks \cup {[label |-> "window", at |-> i, what |-> w] : w \in JsLeaks(server.window, i)}
        /\ unread' = unread \ {<<"line", i>>}
    BY <1>5 DEF CheckJsLine
  <2>2. \A g \in leaks' : Old(g)
    BY <2>1 DEF FieldsInv
  <2>3. ASSUME NEW j \in DOMAIN server.window, <<"line", j>> \notin unread', NEW x \in JsLeaks(server.window, j)
        PROVE  [label |-> "window", at |-> j, what |-> x] \in leaks'
    <3>1. CASE j = i
      BY <2>1, <2>3, <3>1
    <3>2. CASE j # i
      BY <2>1, <2>3, <3>2 DEF FieldsInv
    <3> QED
      BY <3>1, <3>2
  <2> QED
    BY <1>1, <2>2, <2>3 DEF FieldsInv
<1>6. CASE UNCHANGED slVars
  BY <1>6 DEF FieldsInv, slVars
<1> QED
  BY <1>3, <1>4, <1>5, <1>6 DEF NextSecretLeak

\* What a line shows as fields.
LEMMA FieldsOfLine ==
  ASSUME NEW w \in Seq(JsLine), NEW i \in 1..Len(w)
  PROVE  JsLeaks(w, i) \cap FieldTags # {}
         <=> /\ ~w[i].comment
             /\ \/ w[i].form = "field" /\ Within(w, i)
                \/ w[i].form = "object" /\ ~Within(w, i)
             /\ \E k \in w[i].fields : k.shaped \/ LooksSecret(k.key)
<1> DEFINE l == w[i]
<1>1. JsLeaks(w, i) \cap FieldTags # {} <=> \E k \in ObjectKeys(w, i) : k.shaped \/ LooksSecret(k.key)
  <2>1. \A b : /\ Tagged(l.form, ~l.comment /\ l.form \in {"return env", "return whole"}) \cap FieldTags = {}
               /\ Tagged(l.form, ~l.comment /\ l.form = "return name" /\ b) \cap FieldTags = {}
    BY DEF Tagged, FieldTags
  <2> HIDE DEF l
  <2>2. JsLeaks(w, i) \cap FieldTags =
          ({"field" : k \in {k \in ObjectKeys(w, i) : LooksSecret(k.key)}}
             \cup {"shaped field" : k \in {k \in ObjectKeys(w, i) : k.shaped}}) \cap FieldTags
    BY <2>1 DEF JsLeaks, l
  <2> QED
    BY <2>2 DEF FieldTags
<1>2. ObjectKeys(w, i) =
        IF /\ ~l.comment
           /\ \/ l.form = "field" /\ Within(w, i)
              \/ l.form = "object" /\ ~Within(w, i)
        THEN l.fields ELSE {}
  <2>1. Depth(w)[i - 1] # 0 <=> Within(w, i)
    BY DepthIsWithin, Zenon
  <2> HIDE DEF l
  <2> QED
    BY <2>1 DEF ObjectKeys, l
<1> QED
  BY <1>1, <1>2

(* In JS windows of any length the fields reported are those of objects    *)
(* that are returned: on lines after a "return {" whose brace is still     *)
(* open, and on lines that hold a whole object.  The line-by-line depth,   *)
(* reset at zero, is thus the nesting that it stands for                   *)
(* (_js_return_object_keys).                                               *)
THEOREM ReturnedFieldsAreRead ==
  ASSUME NEW CONSTANT servers, \A s \in servers : ServerOK(s)
  PROVE  LeakSpec(servers) => []ReturnedFieldsAreSeen
<1>1. InitSecretLeak(servers) => FieldsInv
  <2> SUFFICES ASSUME InitSecretLeak(servers)
               PROVE  FieldsInv
    OBVIOUS
  <2>1. /\ ServerOK(server) /\ leaks = {}
        /\ \A i \in DOMAIN server.window : <<"line", i>> \in unread
    BY DEF InitSecretLeak
  <2> QED
    BY <2>1 DEF FieldsInv
<1>2. FieldsInv => ReturnedFieldsAreSeen
  <2> SUFFICES ASSUME FieldsInv, unread = {}
               PROVE  ReturnedFieldsAreSeen
    BY DEF ReturnedFieldsAreSeen
  <2> DEFINE w == server.window
  <2>1. w \in Seq(JsLine) /\ DOMAIN w = 1..Len(w)
    <3>1. w \in Seq(JsLine)
      BY DEF FieldsInv, ServerOK
    <3> QED
      BY <3>1, LenProperties
  <2>2. ASSUME NEW i \in DOMAIN w
        PROVE  (\E g \in leaks : g.label = "window" /\ g.at = i /\ g.what \in FieldTags)
               <=> JsLeaks(w, i) \cap FieldTags # {}
    <3>1. ASSUME NEW g \in leaks, g.label = "window", g.at = i, g.what \in FieldTags
          PROVE  JsLeaks(w, i) \cap FieldTags # {}
      BY <3>1 DEF FieldsInv
    <3>2. ASSUME NEW x \in JsLeaks(w, i) \cap FieldTags
          PROVE  \E g \in leaks : g.label = "window" /\ g.at = i /\ g.what \in FieldTags
      <4> DEFINE g == [label |-> "window", at |-> i, what |-> x]
      <4>1. g \in leaks
        BY DEF FieldsInv
      <4>2. g.label = "window" /\ g.at = i /\ g.what = x
        OBVIOUS
      <4> HIDE DEF g
      <4> QED
        BY <4>1, <4>2
    <3> QED
      BY <3>1, <3>2
  <2>3. \A i \in DOMAIN w :
          JsLeaks(w, i) \cap FieldTags # {}
          <=> /\ ~w[i].comment
              /\ \/ w[i].form = "field" /\ Within(w, i)
                 \/ w[i].form = "object" /\ ~Within(w, i)
              /\ \E k \in w[i].fields : k.shaped \/ LooksSecret(k.key)
    <3> HIDE DEF w
    <3> QED
      BY <2>1, FieldsOfLine, Zenon
  <2> HIDE DEF w
  <2>4. \A i \in DOMAIN w :
          (\E g \in leaks : g.label = "window" /\ g.at = i /\ g.what \in FieldTags)
          <=> /\ ~w[i].comment
              /\ \/ w[i].form = "field" /\ Within(w, i)
                 \/ w[i].form = "object" /\ ~Within(w, i)
              /\ \E k \in w[i].fields : k.shaped \/ LooksSecret(k.key)
    BY <2>2, <2>3, Zenon
  <2> QED
    BY <2>4, Zenon DEF ReturnedFieldsAreSeen, FieldTags, w
<1> QED
  BY <1>1, <1>2, FieldsInvStep, PTL DEF LeakSpec

----------------------------------------------------------------------------
(* Tool-scope-creep.                                                       *)

\* Bodies with a sink; calls to a candidate with one, to gated candidates only.
Sinking == {b \in Bodies : BodyHasMutatingSink(b, TRUE)}
SinkingCalls == {p \in Funcs \X Call : Candidate(p[1], p[2]) \cap Sinking # {}}
GatedCalls == {p \in Funcs \X Call : Candidate(p[1], p[2]) # {} /\ AllGated(Candidate(p[1], p[2]))}

\* What is to be reported of tools, segments and registrations.
DueTools ==
  {t \in Tools :
     /\ t \in VerbNames \/ t \in Sinking \/ \E c \in repo.calls[t] : <<t, c>> \in SinkingCalls
     /\ ~(t \in repo.gated \/ FileOf[t] \in repo.moduleGate
            \/ \E c \in repo.calls[t] : <<t, c>> \in GatedCalls)}

DueSegments ==
  {k \in DOMAIN Segments(handler) :
     LET s == Segments(handler)[k]
     IN  /\ s.tool \in VerbNames \/ InspectStmts(s.blocks).sink
         /\ ~(SharedGate \/ InspectStmts(s.blocks).gate \/ s.blocks \cap repo.gated # {})}

DueRegistrations ==
  {n \in Registrations :
     /\ \/ lines[n].registers = "mutating tool"
        \/ \E m \in Window(n) : lines[m].text \in {"sink", "sink in comment"}
     /\ ~\E m \in Window(n) : lines[m].text = "gate"}

LEMMA SameSinks ==
  ASSUME repo' = repo
  PROVE  Sinking' = Sinking
BY DEF Sinking, BodyHasMutatingSink, IsMutatingSinkCall, ResolvedSinkName, LocalNames, ImportedNames,
       InternalReceiver, BoundElsewhere, Local, Target, Imported, Ctors, CtorTargetClass

LEMMA SameCandidates ==
  ASSUME repo' = repo
  PROVE  \A b, c : Candidate(b, c)' = Candidate(b, c)
BY DEF Candidate, ResolveCallTargets, Imported, Dotted, ByImport, ByClass, IsInstance, InstanceClass,
       LocalBindingValues, Ctors, CtorTargetClass

LEMMA SameCalls ==
  ASSUME repo' = repo
  PROVE  SinkingCalls' = SinkingCalls /\ GatedCalls' = GatedCalls
<1>1. Sinking' = Sinking
  BY SameSinks
<1>2. \A b, c : Candidate(b, c)' = Candidate(b, c)
  BY SameCandidates
<1> QED
  BY <1>1, <1>2 DEF SinkingCalls, GatedCalls, AllGated

LEMMA SameDue ==
  ASSUME repo' = repo, handler' = handler, lines' = lines
  PROVE  /\ DueTools' = DueTools /\ DueSegments' = DueSegments
         /\ DueRegistrations' = DueRegistrations /\ Registrations' = Registrations
<1>1. DueTools' = DueTools
  BY SameSinks, SameCalls DEF DueTools
<1>2. DueSegments' = DueSegments
  <2>1. \A b : BodyHasMutatingSink(b, FALSE)' = BodyHasMutatingSink(b, FALSE)
    BY DEF BodyHasMutatingSink, IsMutatingSinkCall, ResolvedSinkName, LocalNames, ImportedNames,
           InternalReceiver, BoundElsewhere, Local, Target, Imported, Ctors, CtorTargetClass
  <2>2. \A B : Called(B)' = Called(B)
    BY DEF Called
  <2>3. \A B : InspectStmts(B).sink' = InspectStmts(B).sink /\ InspectStmts(B).gate' = InspectStmts(B).gate
    BY <2>1, <2>2 DEF InspectStmts
  <2>4. SharedGate' = SharedGate
    BY DEF SharedGate
  <2> QED
    BY <2>3, <2>4 DEF DueSegments
<1>3. DueRegistrations' = DueRegistrations /\ Registrations' = Registrations
  BY DEF DueRegistrations, Registrations, Window
<1> QED
  BY <1>1, <1>2, <1>3

\* What is scanned is as the assumptions say.
ScannedOK ==
  /\ repo \in RepoType /\ handler \in Seq(Statement) /\ lines \in Seq(Line)
  /\ Confusable \/ Exclusive

\* The tool being inspected: its hits are those of its body and of the calls
\* followed so far.
InspectionInv ==
  /\ at \in Tools \cup {NoTool}
  /\ at # NoTool =>
       /\ <<"tool", at>> \in todo /\ calls \subseteq repo.calls[at]
       /\ hits.sink \in BOOLEAN
       /\ hits.sink <=> at \in Sinking \/ \E c \in repo.calls[at] \ calls : <<at, c>> \in SinkingCalls
       /\ hits.gate <=> \E c \in repo.calls[at] \ calls : <<at, c>> \in GatedCalls

\* What was inspected is reported if it is due, and registrations only then.
ReportedInv ==
  /\ \A t \in DueTools : <<"tool", t>> \in todo \/ Reported("tool", t)
  /\ \A k \in DueSegments : <<"segment", k>> \in todo \/ Reported("segment", k)
  /\ \A n \in Registrations :
       IF <<"js", n>> \in todo THEN ~Reported("js", n) ELSE Reported("js", n) <=> n \in DueRegistrations

ScopeInv == ScannedOK /\ InspectionInv /\ ReportedInv

LEMMA ScopeInvInit == Init => ScopeInv
<1> SUFFICES ASSUME Init PROVE ScopeInv
  OBVIOUS
<1>1. ScannedOK
  BY WorldsAssumption DEF Init, ScannedOK, WorldOK
<1>2. InspectionInv
  BY DEF Init, InspectionInv
<1>3. ReportedInv
  BY DEF Init, ReportedInv, Work, DueTools, DueSegments, Registrations, Reported
<1> QED
  BY <1>1, <1>2, <1>3 DEF ScopeInv

LEMMA SameExclusive ==
  ASSUME repo' = repo
  PROVE  Exclusive' <=> Exclusive
BY DEF Exclusive, OutsideIsUnknown, OneMeaning, ConstructedHere, IsInstance, Ctors, LocalBindingValues,
       Runs, RunsAtModuleLevel, MethodOfInstance, CtorTargetClass, Imported, Local, Target, OrExternal,
       Anything, Candidate, ResolveCallTargets, Dotted, ByImport, ByClass, InstanceClass


\* A step leaves what is scanned, and so what is due, as it is.
LEMMA SameScan ==
  ASSUME ScopeInv, UNCHANGED <<repo, handler, lines>>
  PROVE  /\ ScannedOK'
         /\ Sinking' = Sinking /\ SinkingCalls' = SinkingCalls /\ GatedCalls' = GatedCalls
         /\ DueTools' = DueTools /\ DueSegments' = DueSegments
         /\ DueRegistrations' = DueRegistrations /\ Registrations' = Registrations
<1>1. ScannedOK'
  BY SameExclusive DEF ScopeInv, ScannedOK
<1> QED
  BY <1>1, SameSinks, SameCalls, SameDue

LEMMA BeginToolKeepsInv ==
  ASSUME ScopeInv, NEW t \in Tools, BeginTool(t)
  PROVE  ScopeInv'
<1>1. /\ UNCHANGED <<repo, handler, lines>> /\ todo' = todo /\ findings' = findings
      /\ at' = t /\ calls' = repo.calls[t] /\ hits'.sink \in BOOLEAN
      /\ hits'.sink = BodyHasMutatingSink(t, TRUE) /\ ~hits'.gate
      /\ <<"tool", t>> \in todo
  BY DEF BeginTool, BodyHasMutatingSink
<1>2. ReportedInv'
  BY <1>1, SameScan DEF ScopeInv, ReportedInv, Reported
<1>3. InspectionInv'
  <2>1. t \in Funcs
    BY ScopeAssumption
  <2>2. hits'.sink <=> t \in Sinking
    BY <1>1, <2>1 DEF Sinking, Bodies
  <2> QED
    BY <1>1, <2>2, SameScan DEF InspectionInv
<1> QED
  BY <1>1, <1>2, <1>3, SameScan DEF ScopeInv

LEMMA FollowCallKeepsInv ==
  ASSUME ScopeInv, NEW c \in calls, FollowCall(c)
  PROVE  ScopeInv'
<1> DEFINE C == Candidate(at, c)
<1>1. /\ UNCHANGED <<repo, handler, lines>> /\ todo' = todo /\ findings' = findings
      /\ at' = at /\ at # NoTool /\ calls' = calls \ {c}
      /\ hits.sink \in BOOLEAN => hits'.sink \in BOOLEAN
      /\ hits'.sink <=> hits.sink \/ \E g \in C : BodyHasMutatingSink(g, TRUE)
      /\ hits'.gate <=> hits.gate \/ (C # {} /\ AllGated(C))
  BY DEF FollowCall
<1>2. ReportedInv'
  BY <1>1, SameScan DEF ScopeInv, ReportedInv, Reported
<1>3. InspectionInv'
  <2>1. /\ at \in Tools /\ at \in Funcs /\ c \in repo.calls[at] /\ c \in Call
    BY <1>1, ScopeAssumption DEF ScopeInv, InspectionInv, ScannedOK, RepoType, Bodies
  <2>2. (\E g \in C : BodyHasMutatingSink(g, TRUE)) <=> <<at, c>> \in SinkingCalls
    <3>1. C \subseteq Bodies
      BY DEF Candidate, ResolveCallTargets, ByImport, ByClass, Method, FunctionsNamed, Bodies
    <3> QED
      BY <2>1, <3>1 DEF SinkingCalls, Sinking
  <2>3. (C # {} /\ AllGated(C)) <=> <<at, c>> \in GatedCalls
    BY <2>1 DEF GatedCalls
  <2>4. \A S : (\E d \in repo.calls[at] \ calls' : <<at, d>> \in S)
                <=> (\E d \in repo.calls[at] \ calls : <<at, d>> \in S) \/ <<at, c>> \in S
    BY <1>1, <2>1 DEF ScopeInv, InspectionInv
  <2> HIDE DEF C
  <2> QED
    BY <1>1, <2>1, <2>2, <2>3, <2>4, SameScan DEF ScopeInv, InspectionInv
<1> QED
  BY <1>1, <1>2, <1>3, SameScan DEF ScopeInv

LEMMA ReportSubject ==
  ASSUME NEW subject, NEW byName \in BOOLEAN, NEW seen, seen.sink \in BOOLEAN, NEW gated \in BOOLEAN
  PROVE  /\ \A f \in Report(subject, byName, seen, gated) : f.subject = subject
         /\ IF (byName \/ seen.sink) /\ ~gated
            THEN \E f \in Report(subject, byName, seen, gated) : f.subject = subject
            ELSE Report(subject, byName, seen, gated) = {}
<1> DEFINE g == [subject |-> subject, high |-> seen.high]
<1>1. g.subject = subject
  OBVIOUS
<1> HIDE DEF g
<1>2. Report(subject, byName, seen, gated) = IF (byName \/ seen.sink) /\ ~gated THEN {g} ELSE {}
  BY Zenon DEF Report, g
<1>3. CASE (byName \/ seen.sink) /\ ~gated
  <2>1. Report(subject, byName, seen, gated) = {g}
    BY <1>2, <1>3, Zenon
  <2> HIDE DEF Report
  <2> QED
    BY <1>1, <1>3, <2>1, Zenon
<1>4. CASE ~((byName \/ seen.sink) /\ ~gated)
  <2>1. Report(subject, byName, seen, gated) = {}
    BY <1>2, <1>4, Zenon
  <2> QED
    BY <1>4, <2>1, Zenon
<1> QED
  BY <1>3, <1>4, Zenon

LEMMA ConcludeToolKeepsInv ==
  ASSUME ScopeInv, ConcludeTool
  PROVE  ScopeInv'
<1> DEFINE byName == at \in VerbNames
           gated == at \in repo.gated \/ hits.gate \/ FileOf[at] \in repo.moduleGate
           R == Report(<<"tool", at>>, byName, hits, gated)
<1>1. /\ UNCHANGED <<repo, handler, lines>> /\ at # NoTool /\ calls = {}
      /\ at' = NoTool /\ todo' = todo \ {<<"tool", at>>} /\ findings' = findings \cup R
  BY DEF ConcludeTool
<1>0. /\ \A f \in R : f.subject = <<"tool", at>>
      /\ at \in DueTools => \E f \in R : f.subject = <<"tool", at>>
  <2>1. byName \in BOOLEAN /\ hits.sink \in BOOLEAN /\ gated \in BOOLEAN
    BY <1>1 DEF ScopeInv, InspectionInv
  <2>2. at \in DueTools => (byName \/ hits.sink) /\ ~gated
    BY <1>1 DEF ScopeInv, InspectionInv, DueTools
  <2> HIDE DEF byName, gated
  <2> QED
    BY <2>1, <2>2, ReportSubject
<1> HIDE DEF byName, gated, R
<1>2. at \in DueTools => \E f \in findings' : f.subject = <<"tool", at>>
  BY <1>0, <1>1
<1>3. InspectionInv'
  BY <1>1 DEF InspectionInv
<1>4. ReportedInv'
  <2>1. \A t \in DueTools : <<"tool", t>> \in todo' \/ Reported("tool", t)'
    BY <1>0, <1>1, <1>2 DEF ScopeInv, ReportedInv, Reported
  <2>2. \A k \in DueSegments : <<"segment", k>> \in todo' \/ Reported("segment", k)'
    BY <1>0, <1>1 DEF ScopeInv, ReportedInv, Reported
  <2>3. \A n : /\ <<"js", n>> \in todo' <=> <<"js", n>> \in todo
               /\ Reported("js", n)' <=> Reported("js", n)
    BY <1>0, <1>1 DEF Reported
  <2> QED
    BY <1>1, <2>1, <2>2, <2>3, SameScan DEF ScopeInv, ReportedInv
<1> QED
  BY <1>1, <1>3, <1>4, SameScan DEF ScopeInv

LEMMA InspectSegmentKeepsInv ==
  ASSUME ScopeInv, NEW k \in DOMAIN Segments(handler), InspectSegment(k)
  PROVE  ScopeInv'
<1> DEFINE s == Segments(handler)[k]
           byName == s.tool \in VerbNames
           seen == InspectStmts(s.blocks)
           gated == SharedGate \/ seen.gate \/ s.blocks \cap repo.gated # {}
           R == Report(<<"segment", k>>, byName, seen, gated)
<1>0. /\ \A f \in R : f.subject = <<"segment", k>>
      /\ k \in DueSegments => \E f \in R : f.subject = <<"segment", k>>
  <2>1. byName \in BOOLEAN /\ seen.sink \in BOOLEAN /\ gated \in BOOLEAN
    BY DEF InspectStmts
  <2>2. k \in DueSegments => (byName \/ seen.sink) /\ ~gated
    BY DEF DueSegments
  <2> HIDE DEF byName, seen, gated
  <2> QED
    BY <2>1, <2>2, ReportSubject
<1>1. /\ UNCHANGED <<repo, handler, lines, at, calls, hits>> /\ at = NoTool
      /\ todo' = todo \ {<<"segment", k>>} /\ findings' = findings \cup R
  BY DEF InspectSegment
<1> HIDE DEF s, byName, seen, gated, R
<1>2. k \in DueSegments => \E f \in findings' : f.subject = <<"segment", k>>
  BY <1>0, <1>1
<1>3. InspectionInv'
  BY <1>1 DEF ScopeInv, InspectionInv
<1>4. ReportedInv'
  <2>1. \A t \in DueTools : <<"tool", t>> \in todo' \/ Reported("tool", t)'
    BY <1>0, <1>1 DEF ScopeInv, ReportedInv, Reported
  <2>2. \A j \in DueSegments : <<"segment", j>> \in todo' \/ Reported("segment", j)'
    BY <1>0, <1>1, <1>2 DEF ScopeInv, ReportedInv, Reported
  <2>3. \A n : /\ <<"js", n>> \in todo' <=> <<"js", n>> \in todo
               /\ Reported("js", n)' <=> Reported("js", n)
    BY <1>0, <1>1 DEF Reported
  <2> QED
    BY <1>1, <2>1, <2>2, <2>3, SameScan DEF ScopeInv, ReportedInv
<1> QED
  BY <1>1, <1>3, <1>4, SameScan DEF ScopeInv

LEMMA InspectRegistrationKeepsInv ==
  ASSUME ScopeInv, NEW n \in Registrations, InspectRegistration(n)
  PROVE  ScopeInv'
<1> DEFINE byName == lines[n].registers = "mutating tool"
           sink == \E m \in Window(n) : lines[m].text \in {"sink", "sink in comment"}
           seen == [sink |-> sink, gate |-> FALSE, high |-> sink]
           gated == \E m \in Window(n) : lines[m].text = "gate"
           R == Report(<<"js", n>>, byName, seen, gated)
<1>0. /\ \A f \in R : f.subject = <<"js", n>>
      /\ IF n \in DueRegistrations THEN \E f \in R : f.subject = <<"js", n>> ELSE R = {}
  <2>1. byName \in BOOLEAN /\ seen.sink \in BOOLEAN /\ gated \in BOOLEAN
    OBVIOUS
  <2>2. n \in DueRegistrations <=> (byName \/ seen.sink) /\ ~gated
    BY DEF DueRegistrations
  <2> HIDE DEF byName, seen, gated
  <2> QED
    BY <2>1, <2>2, ReportSubject
<1>1. /\ UNCHANGED <<repo, handler, lines, at, calls, hits>> /\ at = NoTool
      /\ <<"js", n>> \in todo
      /\ todo' = todo \ {<<"js", n>>} /\ findings' = findings \cup R
  BY DEF InspectRegistration
<1> HIDE DEF byName, sink, seen, gated, R
<1>2. IF n \in DueRegistrations THEN \E f \in findings' : f.subject = <<"js", n>>
                                ELSE findings' = findings
  BY <1>0, <1>1
<1>3. InspectionInv'
  BY <1>1 DEF ScopeInv, InspectionInv
<1>4. ReportedInv'
  <2>1. \A t \in DueTools : <<"tool", t>> \in todo' \/ Reported("tool", t)'
    BY <1>0, <1>1 DEF ScopeInv, ReportedInv, Reported
  <2>2. \A j \in DueSegments : <<"segment", j>> \in todo' \/ Reported("segment", j)'
    BY <1>0, <1>1 DEF ScopeInv, ReportedInv, Reported
  <2>3. ~Reported("js", n)
    BY <1>1 DEF ScopeInv, ReportedInv
  <2>4. Reported("js", n)' <=> n \in DueRegistrations
    BY <1>0, <1>2, <2>3 DEF Reported
  <2>5. \A m : m # n => /\ <<"js", m>> \in todo' <=> <<"js", m>> \in todo
                        /\ Reported("js", m)' <=> Reported("js", m)
    BY <1>0, <1>1 DEF Reported
  <2> QED
    BY <1>1, <2>1, <2>2, <2>4, <2>5, SameScan DEF ScopeInv, ReportedInv
<1> QED
  BY <1>1, <1>3, <1>4, SameScan DEF ScopeInv

LEMMA ScopeInvHolds == Spec => []ScopeInv
<1>1. ScopeInv /\ [Next]_vars => ScopeInv'
  <2> SUFFICES ASSUME ScopeInv, [Next]_vars PROVE ScopeInv'
    OBVIOUS
  <2>1. CASE UNCHANGED vars
    BY <2>1, SameScan DEF vars, ScopeInv, InspectionInv, ReportedInv, Reported
  <2> QED
    BY <2>1, BeginToolKeepsInv, FollowCallKeepsInv, ConcludeToolKeepsInv, InspectSegmentKeepsInv,
       InspectRegistrationKeepsInv DEF Next
<1> QED
  BY <1>1, ScopeInvInit, PTL DEF Spec

----------------------------------------------------------------------------
(* In a JS file of any length, a line counts for the registration that     *)
(* comes before it and for no other, and text in a comment is never a gate *)
(* (_scan_js).                                                             *)
THEOREM LinesCountOnce == Spec => []JsLinesCountOnce
<1>1. ScopeInv => JsLinesCountOnce
  <2> SUFFICES ASSUME ScopeInv, NEW n \in Registrations, <<"js", n>> \notin todo
               PROVE  Reported("js", n) <=>
                        /\ \/ lines[n].registers = "mutating tool"
                           \/ \E m \in DOMAIN lines : BelongsTo(m, n) /\ lines[m].text \in {"sink", "sink in comment"}
                        /\ ~\E m \in DOMAIN lines : BelongsTo(m, n) /\ lines[m].text = "gate"
    BY DEF JsLinesCountOnce
  <2>1. DOMAIN lines \subseteq Nat /\ Registrations \subseteq DOMAIN lines
    BY DEF ScopeInv, ScannedOK, Registrations
  <2>2. \A m \in DOMAIN lines : m \in Window(n) <=> BelongsTo(m, n)
    BY <2>1, ScopeAssumption DEF Window, BelongsTo
  <2>3. Window(n) \subseteq DOMAIN lines
    BY DEF Window
  <2>4. Reported("js", n) <=> n \in DueRegistrations
    BY DEF ScopeInv, ReportedInv
  <2> QED
    BY <2>2, <2>3, <2>4 DEF DueRegistrations
<1> QED
  BY <1>1, ScopeInvHolds, PTL

----------------------------------------------------------------------------
(* What the resolver reads, compared with what the names denote.           *)

LEMMA CallTyped ==
  ASSUME repo \in RepoType, NEW b \in Bodies, NEW c \in repo.calls[b]
  PROVE  /\ c \in Call /\ FileOf[b] \in Files /\ NoId \notin Ids /\ NoClass \notin Ids
         /\ c.name \in Ids /\ c.form \in {"bare", "on", "new", "self", "computed"}
         /\ \A f, n : FunctionsNamed(f, n) \subseteq Funcs /\ External \notin FunctionsNamed(f, n)
         /\ \A f, k, n : Method(f, k, n) \subseteq FunctionsNamed(f, n)
<1>1. c \in Call
  BY DEF RepoType
<1>2. b \in Funcs \cup Sections
  BY DEF Bodies
<1> QED
  BY <1>1, <1>2, ResolutionAssumption DEF Call, FunctionsNamed, Method

\* The repository's methods of an object that a constructor makes.
Methods(f, ctor, n) == UNION {Method(t[1], t[2], n) : t \in CtorTargetClass(f, ctor, TRUE)}

LEMMA MethodsOfInstance ==
  ASSUME NEW f, NEW ctor, NEW n
  PROVE  /\ Methods(f, ctor, n) \subseteq Funcs /\ External \notin Methods(f, ctor, n)
         /\ MethodOfInstance(f, ctor, n) =
              IF Methods(f, ctor, n) = {} THEN {External} ELSE Methods(f, ctor, n)
<1>1. \A x, k : Method(x, k, n) \subseteq Funcs
  BY DEF Method, FunctionsNamed
<1>2. Methods(f, ctor, n) \subseteq Funcs
  BY <1>1 DEF Methods
<1>3. MethodOfInstance(f, ctor, n) = OrExternal(Methods(f, ctor, n))
  BY DEF MethodOfInstance, Methods
<1> QED
  BY <1>2, <1>3, ResolutionAssumption DEF OrExternal

\* A receiver that is proven to be an instance never runs outside code.
LEMMA InternalIsInside ==
  ASSUME repo \in RepoType, NEW b \in Bodies, NEW c \in repo.calls[b], NEW cross \in BOOLEAN,
         InternalReceiver(FileOf[b], c, cross)
  PROVE  External \notin Runs(b, c)
<1> DEFINE f == FileOf[b]
<1>1. c.form = "on" /\ ~BoundElsewhere(f, c.on)
  BY DEF InternalReceiver
<1>2. PICK ctor \in Ctors(repo.globals[f], c.on) :
        /\ Ctors(repo.globals[f], c.on) = {ctor}
        /\ \E t \in CtorTargetClass(f, ctor, cross) : Method(t[1], t[2], c.name) # {}
  BY DEF InternalReceiver
<1>3. /\ c.on \notin repo.others[b] /\ Ctors(repo.locals[b], c.on) = {}
      /\ Imported(f, c.on) = {} /\ c.on \notin ClassNames[f]
  BY <1>1 DEF BoundElsewhere, Imported
<1>4. CtorTargetClass(f, ctor, cross) \subseteq CtorTargetClass(f, ctor, TRUE)
  BY DEF CtorTargetClass
<1>5. ctor # <<>>
  BY <1>2 DEF CtorTargetClass
<1>6. Runs(b, c) = MethodOfInstance(f, ctor, c.name)
  <2>1. Runs(b, c) = RunsAtModuleLevel(f, c.on, c.name)
    BY <1>1, <1>3 DEF Runs
  <2>2. RunsAtModuleLevel(f, c.on, c.name) =
          UNION {IF k = <<>> THEN Anything(c.name) ELSE MethodOfInstance(f, k, c.name) : k \in {ctor}}
    BY <1>2, <1>3 DEF RunsAtModuleLevel
  <2> QED
    BY <1>5, <2>1, <2>2
<1>7. External \notin MethodOfInstance(f, ctor, c.name)
  <2>1. Methods(f, ctor, c.name) # {}
    <3>1. PICK t \in CtorTargetClass(f, ctor, cross) : Method(t[1], t[2], c.name) # {}
      BY <1>2
    <3>2. Method(t[1], t[2], c.name) \subseteq Methods(f, ctor, c.name)
      BY <1>4 DEF Methods
    <3> QED
      BY <3>1, <3>2
  <2> QED
    BY <2>1, MethodsOfInstance
<1> QED
  BY <1>6, <1>7

LEMMA SinkRecognised ==
  ASSUME repo \in RepoType, Exclusive, NEW b \in Bodies, NEW c \in repo.calls[b], Mutates(b, c),
         NEW cross \in BOOLEAN
  PROVE  IsMutatingSinkCall(FileOf[b], c, cross)
<1> DEFINE f == FileOf[b]
<1>1. CASE ResolvedSinkName(f, c) \in ExactSinks
  BY <1>1 DEF IsMutatingSinkCall
<1>2. CASE ResolvedSinkName(f, c) \notin ExactSinks
  <2>1. External \in Runs(b, c) /\ (c.name \in ShortSinks \/ (c.name = "open" /\ c.marked))
    BY <1>2 DEF Mutates
  <2>2. CASE c.form = "bare"
    <3>1. Dotted(c)[1] = c.name
      BY <2>2 DEF Dotted
    <3>2. Imported(f, c.name) = {} /\ FunctionsNamed(f, c.name) = {}
      BY <2>1, <2>2, <3>1 DEF Exclusive, OutsideIsUnknown
    <3>3. c.name \notin LocalNames(f, cross)
      BY <3>2 DEF LocalNames, ImportedNames, Imported, FunctionsNamed
    <3> QED
      BY <2>1, <2>2, <3>3 DEF IsMutatingSinkCall
  <2>3. CASE c.form # "bare"
    BY <2>1, <2>3, InternalIsInside DEF IsMutatingSinkCall
  <2> QED
    BY <2>2, <2>3
<1> QED
  BY <1>1, <1>2

\* Classes are names, and whoever has methods is one.
LEMMA ClassesOfAFile ==
  ASSUME NEW b \in Bodies
  PROVE  /\ NoClass \notin ClassNames[FileOf[b]]
         /\ \A k, n : k # NoClass /\ k \notin ClassNames[FileOf[b]] => Method(FileOf[b], k, n) = {}
<1>1. FileOf[b] \in Files
  BY ResolutionAssumption DEF ResolutionAssumption, Bodies
<1> QED
  BY <1>1, ResolutionAssumption DEF ResolutionAssumption, Method, FunctionsNamed

\* What a call on a variable runs and is resolved to, if the variable is no
\* parameter, class or import.
LEMMA CallOnVariable ==
  ASSUME repo \in RepoType, Exclusive, NEW b \in Bodies, NEW c \in repo.calls[b], c.form = "on",
         Imported(FileOf[b], c.on) = {}, LocalBindingValues(b, c.on) # {}
  PROVE  /\ Runs(b, c) = UNION {IF k = <<>> THEN Anything(c.name)
                                 ELSE MethodOfInstance(FileOf[b], k, c.name) : k \in LocalBindingValues(b, c.on)}
         /\ ByClass(b, c) = {}
<1> DEFINE f == FileOf[b]
           n == c.on
<1>1. Dotted(c)[1] = n
  BY DEF Dotted
<1>2. n \notin ClassNames[f] /\ n \notin repo.others[b]
  BY <1>1 DEF Exclusive, OneMeaning
<1>3. ByClass(b, c) = {}
  <2>1. n # NoClass => Method(f, n, c.name) = {}
    BY <1>2, ClassesOfAFile
  <2> QED
    BY <2>1 DEF ByClass, ReceiverClass
<1>4. CASE Ctors(repo.locals[b], n) # {}
  BY <1>2, <1>3, <1>4 DEF Runs, LocalBindingValues
<1>5. CASE Ctors(repo.locals[b], n) = {}
  <2>1. LocalBindingValues(b, n) = Ctors(repo.globals[f], n)
    BY <1>5 DEF LocalBindingValues
  <2>2. Runs(b, c) = RunsAtModuleLevel(f, n, c.name)
    BY <1>2, <1>5 DEF Runs
  <2> QED
    BY <1>2, <1>3, <2>1, <2>2 DEF RunsAtModuleLevel
<1> QED
  BY <1>4, <1>5

\* An instance is resolved to what it runs, or to nothing.
LEMMA CallOnInstance ==
  ASSUME repo \in RepoType, Exclusive, NEW b \in Bodies, NEW c \in repo.calls[b], c.form = "on",
         Imported(FileOf[b], c.on) = {}, IsInstance(b, c.on)
  PROVE  \/ ResolveCallTargets(b, c) = {} /\ (InstanceClass(b, c.on) = {} \/ Runs(b, c) = {External})
         \/ ResolveCallTargets(b, c) = Runs(b, c) /\ External \notin Runs(b, c)
<1> DEFINE f == FileOf[b]
           n == c.on
<1>1. Dotted(c)[1] = n /\ LocalBindingValues(b, n) # {} /\ <<>> \notin LocalBindingValues(b, n)
  BY DEF Dotted, IsInstance
<1>2. ResolveCallTargets(b, c) = UNION {Method(t[1], t[2], c.name) : t \in InstanceClass(b, n)}
  BY <1>1, CallOnVariable DEF ResolveCallTargets
<1>3. CASE InstanceClass(b, n) = {}
  BY <1>2, <1>3
<1>4. CASE InstanceClass(b, n) # {}
  <2>1. PICK k : LocalBindingValues(b, n) = {k}
    BY <1>4 DEF InstanceClass
  <2>2. InstanceClass(b, n) = CtorTargetClass(f, k, TRUE)
    BY <2>1 DEF InstanceClass
  <2>3. ResolveCallTargets(b, c) = Methods(f, k, c.name)
    BY <1>2, <2>2 DEF Methods
  <2>4. Runs(b, c) = MethodOfInstance(f, k, c.name)
    <3>1. k # <<>>
      BY <1>1, <2>1
    <3>2. Runs(b, c) = UNION {IF j = <<>> THEN Anything(c.name)
                              ELSE MethodOfInstance(f, j, c.name) : j \in {k}}
      BY <1>1, <2>1, CallOnVariable
    <3> QED
      BY <3>1, <3>2
  <2> QED
    BY <2>3, <2>4, MethodsOfInstance
<1> QED
  BY <1>3, <1>4

\* A call of outside code is never resolved.
LEMMA OutsideIsMissed ==
  ASSUME repo \in RepoType, Exclusive, NEW b \in Bodies, NEW c \in repo.calls[b],
         External \in Runs(b, c)
  PROVE  ResolveCallTargets(b, c) = {}
<1> DEFINE f == FileOf[b]
<1>0. /\ c.form \in {"bare", "on", "new", "self", "computed"}
      /\ \A k : Method(f, k, c.name) \subseteq FunctionsNamed(f, c.name)
  BY CallTyped
<1>1. /\ Imported(f, Dotted(c)[1]) = {} /\ OneMeaning(b, c)
      /\ ~(c.form = "on" /\ IsInstance(b, c.on)) => FunctionsNamed(f, c.name) = {}
  BY DEF Exclusive, OutsideIsUnknown
<1>2. CASE ~(c.form = "on" /\ IsInstance(b, c.on))
  <2>1. FunctionsNamed(f, c.name) = {} /\ ByClass(b, c) = {}
    BY <1>0, <1>1, <1>2 DEF ByClass
  <2> QED
    BY <1>1, <1>2, <2>1 DEF ResolveCallTargets
<1>3. CASE c.form = "on" /\ IsInstance(b, c.on)
  <2>1. Dotted(c)[1] = c.on /\ Imported(f, c.on) = {}
    BY <1>1, <1>3 DEF Dotted
  <2> QED
    BY <1>3, <2>1, CallOnInstance
<1> QED
  BY <1>2, <1>3

\* What a call of the repository's own code is resolved to, if to anything,
\* contains what it runs; within sight it is resolved.
LEMMA InsideIsFound ==
  ASSUME repo \in RepoType, Exclusive, NEW b \in Bodies, NEW c \in repo.calls[b],
         External \notin Runs(b, c)
  PROVE  /\ ResolveCallTargets(b, c) = {} \/ Runs(b, c) \subseteq ResolveCallTargets(b, c)
         /\ InSight(b, c) => ResolveCallTargets(b, c) # {}
<1> DEFINE f == FileOf[b]
           n == c.name
<1>0. /\ c.form \in {"bare", "on", "new", "self", "computed"} /\ c.name \in Ids
      /\ NoId \notin Ids /\ NoClass \notin Ids
      /\ \A g, k : Method(g, k, n) \subseteq FunctionsNamed(g, n)
      /\ OneMeaning(b, c) /\ ConstructedHere(b, c)
  BY CallTyped DEF Exclusive
<1>a. \A S : External \notin OrExternal(S) => S # {} /\ OrExternal(S) = S
  BY DEF OrExternal
<1>b. External \in Anything(n)
  BY DEF Anything
<1>1. CASE c.form = "bare"
  <2> DEFINE Theirs == UNION {TopLevel(t.file, t.symbol) : t \in Imported(f, n)}
  <2>1. Dotted(c) = <<n>> /\ Dotted(c)[1] = n /\ Len(Dotted(c)) = 1 /\ ByClass(b, c) = {}
    BY <1>1 DEF Dotted, ByClass, ReceiverClass
  <2>2. Runs(b, c) = TopLevel(f, n) \cup Theirs /\ Runs(b, c) # {}
    <3>1. n \notin repo.others[b]
      BY <1>1, <1>b DEF Runs
    <3>2. Runs(b, c) = OrExternal(TopLevel(f, n) \cup Theirs)
      BY <1>1, <3>1 DEF Runs
    <3> HIDE DEF Theirs
    <3> QED
      BY <1>a, <3>2
  <2>3. CASE Imported(f, n) = {}
    BY <1>0, <1>1, <2>1, <2>2, <2>3 DEF ResolveCallTargets, TopLevel
  <2>4. CASE Imported(f, n) # {}
    <3>1. PICK t \in Imported(f, n) : Imported(f, n) = {t}
      BY <1>0, <2>1, <2>4 DEF OneMeaning
    <3>2. TopLevel(f, n) = {} /\ Theirs = TopLevel(t.file, t.symbol)
      BY <1>0, <2>1, <2>4, <3>1 DEF OneMeaning
    <3>3. t.symbol # NoId
      <4> SUFFICES ASSUME t.symbol = NoId PROVE FALSE
        OBVIOUS
      <4>1. TopLevel(t.file, NoId) = {}
        BY <1>0, ResolutionAssumption DEF TopLevel, Method, FunctionsNamed
      <4> QED
        BY <2>2, <3>2, <4>1
    <3>4. ResolveCallTargets(b, c) = FunctionsNamed(t.file, t.symbol)
      <4>1. ResolveCallTargets(b, c) = ByImport(f, c)
        BY <2>1, <2>4 DEF ResolveCallTargets
      <4> QED
        BY <2>1, <3>1, <3>3, <4>1 DEF ByImport
    <3>5. TopLevel(t.file, t.symbol) \subseteq FunctionsNamed(t.file, t.symbol)
      BY DEF TopLevel, Method
    <3> QED
      BY <2>2, <3>2, <3>4, <3>5
  <2> QED
    BY <2>3, <2>4
<1>2. CASE c.form = "new"
  <2>1. Imported(f, Dotted(c)[1]) = {} /\ ReceiverClass(b, c) = c.on
    BY <1>0, <1>2 DEF OneMeaning, ReceiverClass
  <2>2. CASE c.on \in ClassNames[f]
    <3>1. ByClass(b, c) = Method(f, c.on, n) /\ CtorTargetClass(f, <<c.on>>, TRUE) = {<<f, c.on>>}
      BY <2>1, <2>2, ClassesOfAFile DEF ByClass, CtorTargetClass
    <3>2. Runs(b, c) = OrExternal(Method(f, c.on, n))
      <4>1. Runs(b, c) = MethodOfInstance(f, <<c.on>>, n)
        BY <1>2 DEF Runs
      <4>2. UNION {Method(t[1], t[2], n) : t \in {<<f, c.on>>}} = Method(f, c.on, n)
        OBVIOUS
      <4> QED
        BY <3>1, <4>1, <4>2 DEF MethodOfInstance
    <3> QED
      BY <1>a, <2>1, <3>1, <3>2 DEF ResolveCallTargets
  <2>3. CASE c.on \notin ClassNames[f]
    <3>1. FunctionsNamed(f, n) = {} /\ ByClass(b, c) = {}
      BY <1>0, <1>2, <2>3 DEF ConstructedHere, ByClass
    <3> QED
      BY <1>2, <2>1, <2>3, <3>1 DEF ResolveCallTargets, InSight
  <2> QED
    BY <2>2, <2>3
<1>3. CASE c.form = "self"
  <2>1. Imported(f, Dotted(c)[1]) = {} /\ ReceiverClass(b, c) = ClassOf[b]
    BY <1>0, <1>3 DEF OneMeaning, ReceiverClass
  <2>2. Runs(b, c) = Method(f, ClassOf[b], n) /\ Runs(b, c) # {}
    BY <1>3, <1>a DEF Runs
  <2>3. ByClass(b, c) \in {{}, Runs(b, c)}
    BY <2>1, <2>2 DEF ByClass
  <2> QED
    BY <1>0, <1>3, <2>1, <2>2, <2>3 DEF ResolveCallTargets
<1>4. CASE c.form = "on"
  <2>1. Dotted(c) = <<c.on, n>> /\ Dotted(c)[1] = c.on /\ Len(Dotted(c)) = 2 /\ ReceiverClass(b, c) = c.on
    BY <1>4 DEF Dotted, ReceiverClass
  <2>2. c.on \notin repo.others[b]
    BY <1>4, <1>b DEF Runs
  <2>3. CASE Imported(f, c.on) # {}
    <3>1. PICK t \in Imported(f, c.on) : Imported(f, c.on) = {t}
      BY <1>0, <2>1, <2>3 DEF OneMeaning
    <3>2. Runs(b, c) = OrExternal(IF t.symbol = NoId THEN TopLevel(t.file, n) ELSE Method(t.file, t.symbol, n))
      <4>1. Ctors(repo.locals[b], c.on) = {}
        BY <1>0, <2>1, <2>3 DEF OneMeaning
      <4>2. Runs(b, c) = RunsAtModuleLevel(f, c.on, n)
        BY <1>4, <2>2, <4>1 DEF Runs
      <4> QED
        BY <3>1, <4>2 DEF RunsAtModuleLevel
    <3>3. ResolveCallTargets(b, c) = ByImport(f, c)
      BY <2>1, <2>3 DEF ResolveCallTargets
    <3>4. CASE t.symbol = NoId
      <4>1. ByImport(f, c) = FunctionsNamed(t.file, n)
        BY <2>1, <3>1, <3>4 DEF ByImport
      <4>2. Runs(b, c) = TopLevel(t.file, n) /\ Runs(b, c) # {}
        BY <1>a, <3>2, <3>4
      <4> QED
        BY <1>0, <3>3, <4>1, <4>2 DEF TopLevel
    <3>5. CASE t.symbol # NoId
      <4>1. ByImport(f, c) = {}
        BY <2>1, <3>1, <3>5 DEF ByImport
      <4>2. ~InSight(b, c)
        BY <1>4, <3>5 DEF InSight
      <4> QED
        BY <3>3, <4>1, <4>2
    <3> QED
      BY <3>4, <3>5
  <2>4. CASE Imported(f, c.on) = {} /\ LocalBindingValues(b, c.on) # {}
    <3>1. IsInstance(b, c.on)
      <4> SUFFICES ASSUME <<>> \in LocalBindingValues(b, c.on) PROVE FALSE
        BY <2>4 DEF IsInstance
      <4>0. Runs(b, c) = UNION {IF k = <<>> THEN Anything(c.name)
                                ELSE MethodOfInstance(FileOf[b], k, c.name) : k \in LocalBindingValues(b, c.on)}
        BY <1>4, <2>4, CallOnVariable, Zenon
      <4>1. Anything(n) \subseteq Runs(b, c)
        BY <4>0
      <4> QED
        BY <1>b, <4>1
    <3>2. InSight(b, c) => InstanceClass(b, c.on) # {}
      BY <1>4, <3>1 DEF InSight
    <3>3. \/ ResolveCallTargets(b, c) = {} /\ (InstanceClass(b, c.on) = {} \/ Runs(b, c) = {External})
          \/ ResolveCallTargets(b, c) = Runs(b, c)
      BY <1>4, <2>4, <3>1, CallOnInstance, Zenon
    <3>4. Runs(b, c) # {}
      <4>1. PICK k \in LocalBindingValues(b, c.on) : TRUE
        BY <2>4
      <4>2. MethodOfInstance(f, k, n) # {} /\ Anything(n) # {}
        BY <1>b DEF MethodOfInstance, OrExternal
      <4>3. Runs(b, c) = UNION {IF j = <<>> THEN Anything(c.name)
                                ELSE MethodOfInstance(FileOf[b], j, c.name) : j \in LocalBindingValues(b, c.on)}
        BY <1>4, <2>4, CallOnVariable, Zenon
      <4> QED
        BY <4>1, <4>2, <4>3
    <3> QED
      BY <3>2, <3>3, <3>4
  <2>5. CASE Imported(f, c.on) = {} /\ LocalBindingValues(b, c.on) = {}
    <3>1. Ctors(repo.locals[b], c.on) = {} /\ Ctors(repo.globals[f], c.on) = {}
      BY <2>5 DEF LocalBindingValues
    <3>2. Runs(b, c) = RunsAtModuleLevel(f, c.on, n)
      BY <1>4, <2>2, <3>1 DEF Runs
    <3>3. c.on \in ClassNames[f] /\ Runs(b, c) = OrExternal(Method(f, c.on, n))
      BY <2>5, <3>1, <3>2 DEF RunsAtModuleLevel
    <3>4. ByClass(b, c) = Method(f, c.on, n)
      BY <2>1, <3>3, ClassesOfAFile DEF ByClass
    <3> QED
      BY <1>a, <2>1, <2>5, <3>3, <3>4 DEF ResolveCallTargets
  <2> QED
    BY <2>3, <2>4, <2>5
<1>5. CASE c.form = "computed"
  BY <1>5, <1>b DEF Runs
<1> QED
  BY <1>0, <1>1, <1>2, <1>3, <1>4, <1>5

LEMMA RunsSomething ==
  ASSUME NEW b, NEW c, c \in Call
  PROVE  Runs(b, c) # {}
<1>a. \A S : OrExternal(S) # {}
  BY DEF OrExternal
<1>b. \A n : Anything(n) # {}
  BY DEF Anything
<1>c. \A f, k, n : MethodOfInstance(f, k, n) # {}
  BY <1>a DEF MethodOfInstance
<1>1. c.form \in {"bare", "on", "new", "self", "computed"}
  BY DEF Call
<1>2. CASE c.form \in {"bare", "new", "self", "computed"}
  BY <1>a, <1>b, <1>c, <1>2 DEF Runs
<1>3. CASE c.form = "on"
  <2>1. RunsAtModuleLevel(FileOf[b], c.on, c.name) # {}
    <3> DEFINE f == FileOf[b]
               n == c.name
               J(t) == OrExternal(IF t.symbol = NoId THEN TopLevel(t.file, n) ELSE Method(t.file, t.symbol, n))
               K(k) == IF k = <<>> THEN Anything(n) ELSE MethodOfInstance(f, k, n)
    <3>1. \A t, k : J(t) # {} /\ K(k) # {}
      BY <1>a, <1>b, <1>c
    <3>2. RunsAtModuleLevel(f, c.on, n) =
            IF Imported(f, c.on) # {} THEN UNION {J(t) : t \in Imported(f, c.on)}
            ELSE IF c.on \in ClassNames[f] THEN OrExternal(Method(f, c.on, n))
            ELSE IF Ctors(repo.globals[f], c.on) # {} THEN UNION {K(k) : k \in Ctors(repo.globals[f], c.on)}
            ELSE {External}
      BY Zenon DEF RunsAtModuleLevel
    <3> HIDE DEF J, K
    <3>3. \A S : S # {} => UNION {J(t) : t \in S} # {} /\ UNION {K(k) : k \in S} # {}
      BY <3>1
    <3> QED
      BY <1>a, <3>2, <3>3
  <2> QED
    BY <1>b, <1>c, <1>3, <2>1 DEF Runs
<1> QED
  BY <1>1, <1>2, <1>3

\* All candidates gated: the call runs gated code.
LEMMA GatedCallRunsGated ==
  ASSUME repo \in RepoType, Exclusive, NEW b \in Funcs, NEW c \in repo.calls[b],
         <<b, c>> \in GatedCalls
  PROVE  Runs(b, c) \subseteq repo.gated
<1>1. b \in Bodies /\ Candidate(b, c) # {} /\ Candidate(b, c) \subseteq repo.gated
  BY DEF GatedCalls, AllGated, Bodies
<1>2. b \notin Runs(b, c)
  BY <1>1 DEF Exclusive
<1>3. ResolveCallTargets(b, c) # {}
  BY <1>1 DEF Candidate
<1>4. External \notin Runs(b, c)
  BY <1>1, <1>3, OutsideIsMissed
<1>5. Runs(b, c) \subseteq ResolveCallTargets(b, c)
  BY <1>1, <1>3, <1>4, InsideIsFound
<1> QED
  BY <1>1, <1>2, <1>5 DEF Candidate

----------------------------------------------------------------------------
(* In a repository of any size whose names have one meaning each, a tool   *)
(* is credited with a gate only if one of its calls runs gated code,       *)
(* whatever namesakes its functions, methods and instances have            *)
(* (_resolve_call_targets, _inspect_body).                                 *)
THEOREM CreditIsEarned ==
  ASSUME ~Confusable
  PROVE  Spec => []CreditRestsOnAGate
<1>1. ScopeInv => CreditRestsOnAGate
  <2> SUFFICES ASSUME ScopeInv, at # NoTool, hits.gate
               PROVE  \E c \in repo.calls[at] \ calls : Runs(at, c) \subseteq repo.gated
    BY DEF CreditRestsOnAGate
  <2>1. PICK c \in repo.calls[at] \ calls : <<at, c>> \in GatedCalls
    BY DEF ScopeInv, InspectionInv
  <2>2. at \in Funcs /\ repo \in RepoType /\ Exclusive
    BY ScopeAssumption DEF ScopeInv, InspectionInv, ScannedOK
  <2> QED
    BY <2>1, <2>2, GatedCallRunsGated
<1> QED
  BY <1>1, ScopeInvHolds, PTL

(* No tool that changes something outside of the repository, itself or in  *)
(* a function that it calls within the resolver's sight, goes unreported   *)
(* unless a gate is there, under the same condition (run, _inspect_body).  *)
THEOREM UngatedSinksAreReported ==
  ASSUME ~Confusable
  PROVE  Spec => []UngatedSinkIsReported
<1>1. ScopeInv => UngatedSinkIsReported
  <2> SUFFICES ASSUME ScopeInv, NEW t \in Tools, <<"tool", t>> \notin todo, ~Guarded(t),
                      Exposed(t, Helpers(t))
               PROVE  Reported("tool", t)
    BY DEF UngatedSinkIsReported
  <2>1. t \in Funcs /\ t \in Bodies /\ repo \in RepoType /\ Exclusive
    BY ScopeAssumption DEF ScopeInv, ScannedOK, Bodies
  <2>2. t \in Sinking \/ \E c \in repo.calls[t] : <<t, c>> \in SinkingCalls
    <3>1. CASE \E c \in repo.calls[t] : Mutates(t, c)
      BY <2>1, <3>1, SinkRecognised DEF Sinking, BodyHasMutatingSink
    <3>2. CASE \E g \in Helpers(t) : \E d \in repo.calls[g] : Mutates(g, d)
      <4>a. PICK g \in Helpers(t) : \E d \in repo.calls[g] : Mutates(g, d)
        BY <3>2
      <4>b. PICK c \in repo.calls[t] : g \in Runs(t, c) /\ InSight(t, c)
        BY DEF Helpers
      <4>1. g \in Runs(t, c) /\ InSight(t, c) /\ \E d \in repo.calls[g] : Mutates(g, d)
        BY <4>a, <4>b
      <4>2. g \in ResolveCallTargets(t, c)
        <5>1. External \notin Runs(t, c)
          BY <4>1 DEF InSight
        <5> QED
          BY <2>1, <4>1, <5>1, InsideIsFound
      <4>3. g \in Bodies
        BY <4>2 DEF ResolveCallTargets, ByImport, ByClass, Method, FunctionsNamed, Bodies
      <4>4. g \in Sinking
        BY <2>1, <4>1, <4>3, SinkRecognised DEF Sinking, BodyHasMutatingSink
      <4>5. c \in Call
        BY <2>1, CallTyped
      <4>6. CASE g = t
        BY <4>4, <4>6
      <4>7. CASE g # t
        BY <2>1, <4>2, <4>4, <4>5, <4>7 DEF SinkingCalls, Candidate
      <4> QED
        BY <4>6, <4>7
    <3> QED
      BY <3>1, <3>2 DEF Exposed
  <2>3. ASSUME NEW c \in repo.calls[t] PROVE <<t, c>> \notin GatedCalls
    <3> SUFFICES ASSUME <<t, c>> \in GatedCalls PROVE FALSE
      OBVIOUS
    <3>1. Runs(t, c) \subseteq repo.gated
      BY <2>1, GatedCallRunsGated
    <3>2. Runs(t, c) # {}
      BY <2>1, CallTyped, RunsSomething
    <3> QED
      BY <3>1, <3>2 DEF Guarded
  <2>4. t \in DueTools
    BY <2>2, <2>3 DEF DueTools, Guarded
  <2> QED
    BY <2>4 DEF ScopeInv, ReportedInv
<1> QED
  BY <1>1, ScopeInvHolds, PTL

----------------------------------------------------------------------------
(* Dispatch handlers.                                                      *)

\* A segment holds the block of one branch, or text around the chain.
LEMMA SegmentShape ==
  ASSUME NEW h \in Seq(Statement), NEW k \in DOMAIN Segments(h)
  PROVE  LET s == Segments(h)[k]
         IN  s.blocks \subseteq Around(h, FindDispatchChain(h)) \/ (~s.shared /\ \E b : s.blocks = {b})
<1>1. CASE FindDispatchChain(h) # 0
  <2>1. Segments(h)[k] \in SegmentOf(h, FindDispatchChain(h))
    BY <1>1, SegmentsAreTheirs
  <2> QED
    BY <2>1 DEF SegmentOf
<1>2. CASE FindDispatchChain(h) = 0
  <2>1. Segments(h)[k].blocks = UNION {BlocksOf(h[i]) : i \in DOMAIN h}
    BY <1>2 DEF Segments
  <2>2. DOMAIN h \ {0} = DOMAIN h
    <3>1. h \in Seq(Statement)
      OBVIOUS
    <3>2. DOMAIN h = 1..Len(h) /\ Len(h) \in Nat
      BY <3>1, LenProperties
    <3> QED
      BY <3>2
  <2> QED
    BY <1>2, <2>1, <2>2 DEF Around
<1> QED
  BY <1>1, <1>2

\* What is executed stands in a segment.
LEMMA ExecutedInSegment ==
  ASSUME NEW h \in Seq(Statement), NEW env, NEW path \in Paths(h, env), NEW i \in DOMAIN h,
         path[i] # NoBlock
  PROVE  /\ path[i] \in BlocksOf(h[i]) /\ path[i] \in Blocks
         /\ \E k \in DOMAIN Segments(h) : path[i] \in Segments(h)[k].blocks
<1>1. path[i] \in Enterable(h[i], env) /\ path[i] \in Blocks
  BY DEF Paths
<1>2. path[i] \in BlocksOf(h[i])
  BY <1>1 DEF Enterable, BlocksOf
<1>3. CASE FindDispatchChain(h) # 0
  BY <1>1, <1>2, <1>3, SegmentsAreTheirs
<1>4. CASE FindDispatchChain(h) = 0
  <2>1. Segments(h) = <<[tool |-> NoTool, blocks |-> UNION {BlocksOf(h[j]) : j \in DOMAIN h}, shared |-> FALSE]>>
    BY <1>4 DEF Segments
  <2>2. 1 \in DOMAIN Segments(h) /\ Segments(h)[1].blocks = UNION {BlocksOf(h[j]) : j \in DOMAIN h}
    BY <2>1
  <2> QED
    BY <1>1, <1>2, <2>2
<1> QED
  BY <1>3, <1>4

\* In an execution that meets no gate, none stands around the chain.
LEMMA NoGateAround ==
  ASSUME handler \in Seq(Statement), NEW env, NEW path \in Paths(handler, env), GatesAreSplit,
         \A j \in DOMAIN handler : path[j] # NoBlock => ~Guarded(path[j])
  PROVE  \A b \in Around(handler, FindDispatchChain(handler)) : ~Guarded(b)
<1> SUFFICES ASSUME NEW i \in DOMAIN handler \ {FindDispatchChain(handler)}, NEW b \in BlocksOf(handler[i])
             PROVE  ~Guarded(b)
  BY DEF Around
<1>1. CASE handler[i].links = <<>>
  <2>1. path[i] \in Enterable(handler[i], env)
    BY DEF Paths
  <2>2. DOMAIN handler[i].links = {}
    BY <1>1
  <2>3. b = handler[i].orelse /\ b # NoBlock /\ path[i] = handler[i].orelse
    BY <2>1, <2>2 DEF BlocksOf, Enterable
  <2> QED
    BY <2>3
<1>2. CASE handler[i].links # <<>>
  BY <1>2 DEF GatesAreSplit
<1> QED
  BY <1>1, <1>2

(* In a handler of any length, whatever a call of it executes, a sink is   *)
(* reported in the segment it stands in unless a gate is executed in that  *)
(* same call: no check in one tool's branch silences another's             *)
(* (dispatch_segments, _scan_low_level_sdk, _inspect_stmts).               *)
THEOREM BranchSinksAreReported ==
  ASSUME ~Confusable
  PROVE  Spec => []BranchSinkIsReported
<1>1. ScopeInv => BranchSinkIsReported
  <2> SUFFICES ASSUME ScopeInv, NEW env \in [Subjects -> Literals], NEW path \in Paths(handler, env),
                      NEW i \in DOMAIN handler, \A item \in todo : item[1] # "segment", GatesAreSplit,
                      Handler \notin repo.gated, path[i] # NoBlock,
                      \A j \in DOMAIN handler : path[j] # NoBlock => ~Guarded(path[j]),
                      Exposed(path[i], Siblings(path[i]))
               PROVE  \E k \in DOMAIN Segments(handler) :
                        path[i] \in Segments(handler)[k].blocks /\ Reported("segment", k)
    BY DEF BranchSinkIsReported
  <2> DEFINE b == path[i]
             d == FindDispatchChain(handler)
  <2>1. /\ repo \in RepoType /\ Exclusive /\ handler \in Seq(Statement)
        /\ \A x \in Blocks : x \in Sections /\ x \in Bodies /\ FileOf[x] = FileOf[Handler]
    BY ScopeAssumption DEF ScopeInv, ScannedOK, Bodies
  <2>2. PICK k \in DOMAIN Segments(handler) : b \in Segments(handler)[k].blocks
    BY <2>1, ExecutedInSegment
  <2> DEFINE s == Segments(handler)[k]
  <2>3. b \in Blocks /\ ~Guarded(b) /\ s.blocks \in SUBSET Blocks
    BY <2>1, ExecutedInSegment, SegmentBlocks
  <2>4. \A x \in Around(handler, d) : ~Guarded(x)
    BY <2>1, NoGateAround
  <2>5. \A x \in s.blocks : ~Guarded(x)
    <3>1. s.blocks \subseteq Around(handler, d) \/ \E x : s.blocks = {x}
      BY <2>1, SegmentShape
    <3> QED
      BY <2>2, <2>3, <2>4, <3>1
  <2>6. s.blocks \cap repo.gated = {}
    BY <2>5 DEF Guarded
  <2>7. ~SharedGate
    <3>1. FileOf[Handler] \notin repo.moduleGate
      BY <2>1, <2>3 DEF Guarded
    <3>2. ASSUME NEW j \in DOMAIN Segments(handler), Segments(handler)[j].shared
          PROVE  Segments(handler)[j].blocks \cap repo.gated = {}
      <4>1. Segments(handler)[j].blocks \subseteq Around(handler, d)
        BY <2>1, <3>2, SegmentShape
      <4> QED
        BY <2>4, <4>1 DEF Guarded
    <3> QED
      BY <3>1, <3>2 DEF SharedGate
  <2>8. ~InspectStmts(s.blocks).gate
    <3> SUFFICES ASSUME NEW g \in Called(s.blocks), g \in repo.gated PROVE FALSE
      BY DEF InspectStmts
    <3>1. PICK x \in s.blocks : \E c \in repo.calls[x] : g \in FunctionsNamed(FileOf[Handler], c.name)
      BY DEF Called
    <3>2. PICK c \in repo.calls[x] : g \in FunctionsNamed(FileOf[Handler], c.name)
      BY <3>1
    <3>3. g \in Runs(x, c)
      BY <2>1, <2>3, <3>1, <3>2 DEF Exclusive
    <3> QED
      BY <2>5, <3>1, <3>2, <3>3 DEF Guarded
  <2>9. InspectStmts(s.blocks).sink
    <3>1. PICK g \in {b} \cup Siblings(b) : \E c \in repo.calls[g] : Mutates(g, c)
      BY DEF Exposed
    <3>2. g \in s.blocks \cup Called(s.blocks)
      BY <2>2, <3>1 DEF Siblings, Called
    <3>3. g \in Bodies
      BY <2>1, <2>3, <3>1 DEF Siblings, FunctionsNamed, Bodies
    <3>4. BodyHasMutatingSink(g, FALSE)
      BY <2>1, <3>1, <3>3, SinkRecognised DEF BodyHasMutatingSink
    <3> QED
      BY <3>2, <3>4 DEF InspectStmts
  <2>10. k \in DueSegments
    BY <2>6, <2>7, <2>8, <2>9 DEF DueSegments
  <2>11. <<"segment", k>> \notin todo
    <3>1. <<"segment", k>>[1] = "segment"
      OBVIOUS
    <3> QED
      BY <3>1
  <2> QED
    BY <2>2, <2>10, <2>11 DEF ScopeInv, ReportedInv
<1> QED
  BY <1>1, ScopeInvHolds, PTL
=============================================================================
