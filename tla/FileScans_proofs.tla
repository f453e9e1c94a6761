--------------------------- MODULE FileScans_proofs ---------------------------
(***************************************************************************)
(* Theorems about three components that read the files of a repository one *)
(* by one, for repositories of any size: the tool registry,                *)
(* secret_handling and param_injection.                                    *)
(***************************************************************************)
EXTENDS ToolRegistry, SecretHandling, ParamInjection, Recursion_proofs, FiniteSetTheorems

----------------------------------------------------------------------------
(* Tool registry: the code of a registered tool is never graded down.      *)

\* A registration of a tool that is handled where the registry looks names
\* the function that runs, or admits it has none.
Honest(r) ==
  HandledHere(r) => IF r.node # NoNode THEN r.node = r.runs
                    ELSE r.runs = NoNode \/ r.source \in {"py-lowlevel-sdk", "py-call"}

\* A handler's name denotes what the registered call runs.
ProgramInv ==
  \A c \in program.calls : c.arg # NoNode => c.runs \in Denotations(c.file, c.arg)

RegistryInv == ProgramInv /\ \A r \in registry : Honest(r)

----------------------------------------------------------------------------
(* RootAmong claims a candidate only if there is no other.                 *)
LEMMA RootAmongOnly ==
  ASSUME NEW S, S \subseteq Funcs, RootAmong(S) # NoNode
  PROVE  S = {RootAmong(S)}
<1>1. PICK g \in S : S = {g}
  BY DEF RootAmong
<1>2. RootAmong(S) \in S
  BY <1>1 DEF RootAmong
<1>3. QED
  BY <1>1, <1>2

LEMMA DecoratedHonest ==
  ASSUME NEW f \in Files, NEW r \in Decorated(f) PROVE Honest(r)
<1>1. PICK g \in Funcs : r = Registration("py-decorator", f, NameOf[g], g, g)
  BY DEF Decorated
<1>2. g # NoNode
  BY RegistryAssumption
<1>3. QED
  BY <1>1, <1>2 DEF Registration, Honest

LEMMA ByCallHonest ==
  ASSUME ProgramInv, NEW f \in Files, NEW r \in ByCall(f) PROVE Honest(r)
<1>1. PICK c \in program.calls :
        /\ c.file = f
        /\ r = Registration("py-call", f, c.arg, RootAmong(DefsOf(f, c.arg)), c.runs)
  BY DEF ByCall
<1>2. DefsOf(f, c.arg) \subseteq Funcs
  BY DEF DefsOf
<1>3. r.node # NoNode => r.node \in Funcs /\ DefsOf(f, c.arg) = {r.node}
  BY <1>1, <1>2, RootAmongOnly DEF Registration
<1>4. r.node # NoNode => c.arg # NoNode
  BY <1>3, RegistryAssumption, GraphAssumption DEF DefsOf
<1>5. ASSUME r.node # NoNode, HandledHere(r) PROVE r.node = c.runs
  <2>1. Denotations(f, c.arg) \subseteq DefsOf(f, c.arg)
    BY <1>1, <1>4, <1>5 DEF HandledHere, Registration
  <2>2. c.runs \in Denotations(f, c.arg)
    BY <1>1, <1>4, <1>5 DEF ProgramInv
  <2>3. QED
    BY <1>3, <1>5, <2>1, <2>2
<1>6. QED
  BY <1>1, <1>5 DEF Registration, Honest

LEMMA LowLevelHonest ==
  ASSUME NEW f \in Files, NEW r \in LowLevel(f) PROVE Honest(r)
<1>1. PICK c \in program.tools :
        /\ c.file = f
        /\ r = Registration("py-lowlevel-sdk", f, NoNode, RootAmong(Dispatchers(f)), c.runs)
  BY DEF LowLevel
<1>2. Dispatchers(f) \subseteq Funcs
  BY DEF Dispatchers
<1>3. r.node # NoNode => r.node \in Funcs /\ Dispatchers(f) = {r.node}
  BY <1>1, <1>2, RootAmongOnly DEF Registration
<1>4. r.node # NoNode /\ HandledHere(r) => r.node = c.runs
  BY <1>1, <1>3 DEF HandledHere, Registration
<1>5. QED
  BY <1>1, <1>4 DEF Registration, Honest

LEMMA RootlessHonest ==
  ASSUME NEW source, NEW f, NEW r \in Rootless(source, f) PROVE Honest(r)
<1>1. r = Registration(source, f, NoNode, NoNode, NoNode)
  BY DEF Rootless
<1>2. QED
  BY <1>1 DEF Registration, Honest

----------------------------------------------------------------------------
LEMMA RegistryInvInit == Init => RegistryInv
  BY DEF Init, RegistryInv, ProgramInv

LEMMA RegistryInvStep ==
  ASSUME RegistryInv, [Next]_vars PROVE RegistryInv'
<1>1. UNCHANGED program
  BY DEF Next, vars, ExtractFile, ExtractJs, ExtractLowLevel, ExtractManifest
<1>2. ProgramInv' /\ \A r : Honest(r) => Honest(r)'
  <2>1. ProgramInv'
    BY <1>1 DEF RegistryInv, ProgramInv, Denotations, DefsOf
  <2>2. ASSUME NEW r PROVE HandledHere(r)' <=> HandledHere(r)
    BY <1>1 DEF HandledHere, Denotations, DefsOf, Dispatchers
  <2>3. QED
    BY <2>1, <2>2 DEF Honest
<1>3. ASSUME NEW f \in Files, ExtractFile(f) PROVE \A r \in registry' : Honest(r)
  BY <1>3, DecoratedHonest, ByCallHonest DEF ExtractFile, RegistryInv
<1>4. ASSUME NEW f \in JsFiles, ExtractJs(f) PROVE \A r \in registry' : Honest(r)
  BY <1>4, RootlessHonest DEF ExtractJs, RegistryInv
<1>5. ASSUME NEW f \in Files, ExtractLowLevel(f) PROVE \A r \in registry' : Honest(r)
  BY <1>5, LowLevelHonest DEF ExtractLowLevel, RegistryInv
<1>6. ASSUME ExtractManifest PROVE \A r \in registry' : Honest(r)
  BY <1>6, RootlessHonest DEF ExtractManifest, RegistryInv
<1>7. CASE UNCHANGED vars
  BY <1>2, <1>7 DEF vars, RegistryInv
<1>8. QED
  BY <1>2, <1>3, <1>4, <1>5, <1>6, <1>7 DEF Next, RegistryInv

(* Every registration of a tool that is handled where the registry looks   *)
(* names the function that runs or admits it has none (the guards of       *)
(* _extract_python_calls and _extract_low_level_sdk).                      *)
THEOREM RegistryInvariant == Spec => []RegistryInv
<1>1. QED
  BY RegistryInvInit, RegistryInvStep, PTL DEF Spec

----------------------------------------------------------------------------
(* Type correctness.                                                       *)
RegistrationType ==
  [source : {"py-decorator", "py-call", "py-lowlevel-sdk", "js-regex", "manifest"},
   file : Files \cup JsFiles \cup {Manifest}, handler : Names \cup {NoNode}, node : Funcs \cup {NoNode}, runs : Funcs \cup {NoNode}]

LEMMA RootAmongTyped ==
  ASSUME NEW S, S \subseteq Funcs PROVE RootAmong(S) \in Funcs \cup {NoNode}
<1>1. CASE \E g \in S : S = {g}
  BY <1>1 DEF RootAmong
<1>2. CASE ~\E g \in S : S = {g}
  BY <1>2 DEF RootAmong
<1>3. QED
  BY <1>1, <1>2

LEMMA FoundTyped ==
  ASSUME TypeOK, NEW f \in Files
  PROVE  Decorated(f) \cup ByCall(f) \cup LowLevel(f) \subseteq RegistrationType
<1>1. Decorated(f) \subseteq RegistrationType
  BY GraphAssumption DEF Decorated, Registration, RegistrationType
<1>2. ASSUME NEW r \in ByCall(f) PROVE r \in RegistrationType
  <2>1. PICK c \in program.calls : r = Registration("py-call", f, c.arg, RootAmong(DefsOf(f, c.arg)), c.runs)
    BY <1>2 DEF ByCall
  <2>2. c.runs \in Funcs \cup {NoNode} /\ c.arg \in Names \cup {NoNode}
    BY RegistryAssumption DEF TypeOK, Call
  <2>3. RootAmong(DefsOf(f, c.arg)) \in Funcs \cup {NoNode}
    BY RootAmongTyped DEF DefsOf
  <2>4. QED
    BY <2>1, <2>2, <2>3 DEF Registration, RegistrationType
<1>3. ASSUME NEW r \in LowLevel(f) PROVE r \in RegistrationType
  <2>1. PICK c \in program.tools : r = Registration("py-lowlevel-sdk", f, NoNode, RootAmong(Dispatchers(f)), c.runs)
    BY <1>3 DEF LowLevel
  <2>2. c.runs \in Funcs \cup {NoNode}
    BY RegistryAssumption DEF TypeOK, Construction
  <2>3. RootAmong(Dispatchers(f)) \in Funcs \cup {NoNode}
    BY RootAmongTyped DEF Dispatchers
  <2>4. QED
    BY <2>1, <2>2, <2>3 DEF Registration, RegistrationType
<1>4. QED
  BY <1>1, <1>2, <1>3

LEMMA RegistryTypeInit == Init => TypeOK
<1> SUFFICES ASSUME Init PROVE TypeOK
  OBVIOUS
<1>1. program \in [imports : [Files -> SUBSET Packages], deco : [Funcs -> SUBSET Decorators],
                calls : SUBSET PossibleCalls, tools : SUBSET PossibleTools,
                bound : SUBSET PossibleBindings, dynamic : BOOLEAN, declaring : SUBSET (JsFiles \cup {Manifest})]
  BY RegistryAssumption DEF Init
<1>2. sites \subseteq Sites /\ todo \subseteq Steps /\ registry = {}
  BY RegistryAssumption DEF Init
<1>3. QED
  BY <1>1, <1>2 DEF TypeOK

LEMMA RegistryTypeStep ==
  ASSUME TypeOK, [Next]_vars PROVE TypeOK'
<1>1. UNCHANGED <<program, sites>> /\ todo' \subseteq Steps
  BY DEF TypeOK, Next, vars, ExtractFile, ExtractJs, ExtractLowLevel, ExtractManifest
<1>2. registry \subseteq RegistrationType
  BY DEF TypeOK, RegistrationType
<1>3. ASSUME NEW f \in Files, ExtractFile(f) \/ ExtractLowLevel(f) PROVE registry' \subseteq RegistrationType
  BY <1>2, <1>3, FoundTyped DEF ExtractFile, ExtractLowLevel
<1>4. ASSUME NEW f \in JsFiles, ExtractJs(f) PROVE registry' \subseteq RegistrationType
  BY <1>2, <1>4 DEF ExtractJs, Rootless, Registration, RegistrationType
<1>5. ASSUME ExtractManifest PROVE registry' \subseteq RegistrationType
  BY <1>2, <1>5 DEF ExtractManifest, Rootless, Registration, RegistrationType
<1>6. ASSUME UNCHANGED vars PROVE registry' \subseteq RegistrationType
  BY <1>2, <1>6 DEF vars
<1>7. registry' \subseteq RegistrationType
  BY <1>3, <1>4, <1>5, <1>6 DEF Next
<1>8. QED
  BY <1>1, <1>7 DEF TypeOK, RegistrationType

(* The extraction's variables stay well typed for every repository.        *)
THEOREM RegistryTypeCorrect == Spec => []TypeOK
<1>1. QED
  BY RegistryTypeInit, RegistryTypeStep, PTL DEF Spec

----------------------------------------------------------------------------
(* More roots reach more.                                                  *)
LEMMA ReachableMonotone ==
  ASSUME NEW s, NEW r1, NEW r2, r1 \subseteq r2
  PROVE  Reachable(s, r1) \subseteq Reachable(s, r2)
  BY DEF Reachable

LEMMA SameReachable ==
  ASSUME NEW s, NEW r PROVE Grade!Reachable(s, r) = Reachable(s, r)
  BY DEF Reachable, Closed, Callees, CalledIn,
         Grade!Reachable, Grade!Closed, Grade!Callees, Grade!CalledIn

LEMMA InvForbidsDowngrade == RegistryInv => NoDowngradeOfToolCode
<1> SUFFICES ASSUME RegistryInv, NEW f \in Reachable(sites, RunAsTools),
                    FileOf[f] \notin TestFiles
             PROVE  Grade!Verdict([file |-> FileOf[f], at |-> f])
                      \notin {"cli-only", "uncalled"}
  BY DEF NoDowngradeOfToolCode
<1> DEFINE x == [file |-> FileOf[f], at |-> f]
<1>1. x.file = FileOf[f] /\ x.at = f
  OBVIOUS
<1>2. Flags.unrooted = Unrooted
  BY DEF Flags
<1>3. CASE Unrooted
  <2>1. ~Grade!Decidable
    BY <1>2, <1>3 DEF Grade!Decidable
  <2>2. QED
    BY <1>1, <2>1 DEF Grade!Verdict
<1>4. CASE ~Unrooted
  <2>1. RunAsTools \subseteq Roots
    BY <1>4 DEF RegistryInv, Honest, Unrooted, RunAsTools, Roots
  <2>2. x.at \in Grade!Reachable(sites, Roots)
    BY <2>1, <1>1, ReachableMonotone, SameReachable
  <2>3. QED
    BY <1>1, <2>2 DEF Grade!Verdict
<1>5. QED
  BY <1>3, <1>4

(* Code that a registered tool reaches is never graded down, if the tool   *)
(* is HandledHere: a tool that could not be rooted withholds every         *)
(* downgrade (grade_result).  Whatever else the repository registers,      *)
(* shadowed handlers included, it only adds roots.                         *)
THEOREM ToolCodeKeepsItsGrade == Spec => []NoDowngradeOfToolCode
<1>1. Spec => []RegistryInv
  BY RegistryInvariant
<1>2. QED
  BY <1>1, InvForbidsDowngrade, PTL

----------------------------------------------------------------------------
(* Secret handling.                                                        *)

\* A finding has a tag only if one of its signs is there.
LEMMA DemotionNeedsASign ==
  ASSUME NEW standalone, NEW testPath \in BOOLEAN, NEW cosignals,
         ComposeDemotion(standalone, testPath, cosignals) # {}
  PROVE  standalone # {} \/ (testPath /\ cosignals # {})
BY DEF ComposeDemotion

\* A finding of low confidence was demoted.
LEMMA LowIsDemoted ==
  ASSUME NEW base \in {"HIGH", "MEDIUM"}, NEW tags, Confidence(base, tags) = "LOW"
  PROVE  tags # {}
BY DEF Confidence

\* An element of a sequence.
LEMMA ElementOf ==
  ASSUME NEW T, NEW s \in Seq(T), NEW n \in DOMAIN s
  PROVE  s[n] \in T
OBVIOUS

\* What is known of a file and its lines.
LEMMA FileTyped ==
  ASSUME WellFormed(repo), NEW k \in DOMAIN repo.files
  PROVE  repo.files[k] \in File
<1>1. repo.files \in Seq(File)
  BY Zenon DEF WellFormed
<1> QED
  BY <1>1, ElementOf, Zenon

LEMMA LineTyped ==
  ASSUME NEW f \in File, NEW i \in DOMAIN f.lines
  PROVE  f.lines \in Seq(Line) /\ f.lines[i].assigns \in Seq(Assignment)
<1>1. f.lines \in Seq(Line)
  BY DEF File
<1>2. f.lines[i] \in Line
  BY <1>1, ElementOf, Zenon
<1>3. \A l \in Line : l.assigns \in Seq(Assignment)
  BY DEF Line
<1> QED
  BY <1>1, <1>2, <1>3, Zenon

\* The places of assignments in a file.
LEMMA PlaceIn ==
  ASSUME NEW f, NEW i \in DOMAIN f.lines, NEW j \in DOMAIN f.lines[i].assigns
  PROVE  <<i, j>> \in UNION {{m} \X DOMAIN f.lines[m].assigns : m \in DOMAIN f.lines}
<1>1. <<i, j>> \in {i} \X DOMAIN f.lines[i].assigns
  OBVIOUS
<1> QED
  BY <1>1, Zenon

LEMMA PlaceOf ==
  ASSUME NEW f, NEW q \in UNION {{m} \X DOMAIN f.lines[m].assigns : m \in DOMAIN f.lines}
  PROVE  \E m \in DOMAIN f.lines : \E n \in DOMAIN f.lines[m].assigns : q = <<m, n>>
<1>1. PICK m \in DOMAIN f.lines : q \in {m} \X DOMAIN f.lines[m].assigns
  BY Zenon
<1> DEFINE D == DOMAIN f.lines[m].assigns
<1>2. \E n \in D : q = <<m, n>>
  <2> HIDE DEF D
  <2> QED
    BY <1>1 DEF D
<1> QED
  BY <1>2, Zenon

LEMMA AssignmentsEqual ==
  ASSUME NEW x \in Assignment, NEW y \in Assignment
  PROVE  x = y <=> x.name = y.name /\ x.value = y.value
BY DEF Assignment

\* What is known of the files of a repository.
LEMMA FileFacts ==
  ASSUME WellFormed(repo)
  PROVE  /\ Len(repo.files) \in Nat /\ DOMAIN repo.files = 1..Len(repo.files)
         /\ \A k \in DOMAIN repo.files :
              /\ repo.files[k].test \in BOOLEAN
              /\ repo.files[k].language \in {"python", "js", "other"}
              /\ Len(repo.files[k].lines) \in Nat
              /\ DOMAIN repo.files[k].lines = 1..Len(repo.files[k].lines)
<1>1. repo.files \in Seq(File)
  BY DEF WellFormed
<1>2. \A k \in DOMAIN repo.files : repo.files[k] \in File
  BY <1>1
<1>3. \A f \in File : /\ f.test \in BOOLEAN /\ f.language \in {"python", "js", "other"}
                      /\ f.lines \in Seq(Line)
  BY DEF File
<1> QED
  BY <1>1, <1>2, <1>3

----------------------------------------------------------------------------
\* What a finding about an assigned or other literal must satisfy.
Justified(r, g) ==
  g.kind \in {"value", "name"} /\ g.confidence = "LOW" =>
    LET f == r.files[g.where[1]]
        l == f.lines[g.where[2]]
        V == IF g.kind = "value" THEN {ValuesOf(l)[g.what[1]]}
             ELSE {a.value : a \in {l.assigns[j] : j \in {j \in DOMAIN l.assigns :
                                      <<l.assigns[j].name, l.assigns[j].value.id>> = g.what}}}
    IN  \/ l.pragma
        \/ \E v \in V : \/ HasFakeMarker(v)
                        \/ IsNonCredentialShape(v) /\ (f.test \/ g.kind = "name")
        \/ g.kind = "name" /\ f.test /\ HasMockMarker(g.what[1])

\* What ScanLine reports of a literal is justified.
LEMMA ValueFindingsJustified ==
  ASSUME NEW k \in DOMAIN repo.files, NEW i, WellFormed(repo), NEW g \in ValueFindings(k, i)
  PROVE  Justified(repo, g)
<1> DEFINE f == repo.files[k]
<1> DEFINE l == f.lines[i]
<1>1. PICK n \in DOMAIN ValuesOf(l) :
        g = [kind |-> "value", where |-> <<k, i>>, what |-> <<n>>, times |-> 1,
             tags |-> ValueTags(f, i, n), confidence |-> Confidence("HIGH", ValueTags(f, i, n))]
  BY DEF ValueFindings
<1> DEFINE v == ValuesOf(l)[n]
<1>2. g.kind = "value" /\ g.where[1] = k /\ g.where[2] = i /\ g.what[1] = n
        /\ g.confidence = Confidence("HIGH", ValueTags(f, i, n))
  BY <1>1
<1>3. SUFFICES ASSUME g.confidence = "LOW"
               PROVE  l.pragma \/ HasFakeMarker(v) \/ (IsNonCredentialShape(v) /\ f.test)
  BY <1>2 DEF Justified
<1>4. ValueTags(f, i, n) # {}
  BY <1>2, <1>3, LowIsDemoted
<1>5. f.test \in BOOLEAN
  BY FileFacts
<1>6. Tagged("author-suppressed", l.pragma) \cup Tagged("fake-marker", HasFakeMarker(v)) # {}
        \/ (f.test /\ Tagged("non-credential-shape", IsNonCredentialShape(v)) # {})
  BY <1>4, <1>5, DemotionNeedsASign DEF ValueTags
<1> QED
  BY <1>6 DEF Tagged

\* What JudgeAssignment reports of an assignment is justified.
LEMMA NameFindingJustified ==
  ASSUME NEW k \in DOMAIN repo.files, WellFormed(repo), NEW p \in Assignments(repo.files[k]),
         NEW g, g = NameFinding(k, p)
  PROVE  Justified(repo, g)
<1> DEFINE f == repo.files[k]
<1> DEFINE l == f.lines[p[1]]
<1> DEFINE a == l.assigns[p[2]]
<1>1. PICK i \in DOMAIN f.lines : p \in {i} \X DOMAIN f.lines[i].assigns
  BY DEF Assignments
<1>2. p[2] \in DOMAIN l.assigns
  BY <1>1
<1>3. g.kind = "name" /\ g.where[1] = k /\ g.where[2] = p[1] /\ g.what = <<a.name, a.value.id>>
        /\ g.confidence = Confidence("MEDIUM", NameTags(f, p))
  BY DEF NameFinding, At
<1>4. g.what[1] = a.name
  <2> HIDE DEF a
  <2> QED
    BY <1>3
<1>5. ASSUME g.confidence = "LOW"
      PROVE  \/ l.pragma \/ HasFakeMarker(a.value) \/ IsNonCredentialShape(a.value)
             \/ f.test /\ HasMockMarker(a.name)
  <2>1. NameTags(f, p) # {}
    BY <1>3, <1>5, LowIsDemoted
  <2>2. f.test \in BOOLEAN
    BY FileFacts
  <2>3. Tagged("author-suppressed", l.pragma) \cup Tagged("fake-marker", HasFakeMarker(a.value))
          \cup Tagged("non-credential-shape", IsNonCredentialShape(a.value)) # {}
          \/ (f.test /\ Tagged("mock-name", HasMockMarker(a.name)) # {})
    BY <2>1, <2>2, DemotionNeedsASign DEF NameTags, At
  <2> QED
    BY <2>3 DEF Tagged
<1> DEFINE ll == repo.files[g.where[1]].lines[g.where[2]]
<1> DEFINE V == {b.value : b \in {ll.assigns[j] : j \in {j \in DOMAIN ll.assigns :
                                    <<ll.assigns[j].name, ll.assigns[j].value.id>> = g.what}}}
<1>6. ll = l /\ repo.files[g.where[1]] = f
  BY <1>3
<1>7. a.value \in V
  <2> HIDE DEF ll, l
  <2> QED
    BY <1>2, <1>3, <1>6
<1>8. g.confidence = "LOW" =>
        \/ ll.pragma
        \/ \E v \in V : \/ HasFakeMarker(v)
                        \/ IsNonCredentialShape(v) /\ (repo.files[g.where[1]].test \/ g.kind = "name")
        \/ g.kind = "name" /\ repo.files[g.where[1]].test /\ HasMockMarker(g.what[1])
  <2> HIDE DEF V, ll, l, a, f
  <2> QED
    BY <1>3, <1>4, <1>5, <1>6, <1>7
<1>9. g.kind # "value"
  BY <1>3
<1> QED
  BY <1>8, <1>9, Zenon DEF Justified

\* A demoted certificate or key is a test's.
DemotedRightly(r, g) ==
  g.kind = "tracked" /\ g.confidence = "LOW" =>
    LET p == g.where[1]
    IN  /\ r.cryptography /\ DirOf[p] \in TestDirs
        /\ \E q \in TreePaths :
             /\ DirOf[q] = DirOf[p] /\ r.holds[q].cert # Absent
             /\ r.holds[q].cert.selfSigned /\ r.holds[q].cert.testIdentity
             /\ p = q \/ r.holds[p].key = r.holds[q].cert.key

LEMMA TrackedFindingDemotedRightly ==
  ASSUME NEW p \in TreePaths, NEW g, g = TrackedFinding(p)
  PROVE  DemotedRightly(repo, g)
<1> DEFINE sign == DirOf[p] \in TestDirs /\ IsDemotedTestCert(p)
<1> DEFINE tags == ComposeDemotion(Tagged("test-cert", sign), FALSE, {})
<1>1. g.where[1] = p /\ g.confidence = Confidence("HIGH", tags)
  BY DEF TrackedFinding
<1>2. SUFFICES ASSUME g.confidence = "LOW"
               PROVE  /\ repo.cryptography /\ DirOf[p] \in TestDirs
                      /\ \E q \in TreePaths :
                           /\ DirOf[q] = DirOf[p] /\ repo.holds[q].cert # Absent
                           /\ repo.holds[q].cert.selfSigned /\ repo.holds[q].cert.testIdentity
                           /\ p = q \/ repo.holds[p].key = repo.holds[q].cert.key
  <2> HIDE DEF tags
  <2> QED
    BY <1>1, <1>2 DEF DemotedRightly
<1>3. tags # {}
  BY <1>1, <1>2, LowIsDemoted
<1>4. sign
  BY <1>3, DemotionNeedsASign DEF Tagged
<1>5. CASE IsTestCert(p)
  BY <1>4, <1>5 DEF IsTestCert
<1>6. CASE SiblingSelfSignedCert(p)
  BY <1>4, <1>6 DEF SiblingSelfSignedCert, IsTestCert
<1> QED
  BY <1>4, <1>5, <1>6 DEF IsDemotedTestCert

----------------------------------------------------------------------------
\* What is judged belongs to the repository: a finding is then justified
\* when it is made, and stays so since the repository does not change.
SecretInv ==
  /\ WellFormed(repo)
  /\ tracked \subseteq TreePaths
  /\ pending # {} => file \in DOMAIN repo.files /\ pending \subseteq Assignments(repo.files[file])
  /\ \A g \in findings : Justified(repo, g) /\ DemotedRightly(repo, g)

\* The kinds of findings exclude each other.
LEMMA KindsDiffer ==
  /\ \A k, i : \A g \in ValueFindings(k, i) : g.kind = "value"
  /\ \A k, p : NameFinding(k, p).kind = "name"
  /\ \A k, i : LogFinding(k, i).kind = "log"
  /\ \A p : TrackedFinding(p).kind = "tracked"
BY DEF ValueFindings, NameFinding, LogFinding, TrackedFinding

LEMMA SecretInvStep ==
  SecretInv /\ [NextSecretHandling]_shVars => SecretInv'
<1> SUFFICES ASSUME SecretInv, [NextSecretHandling]_shVars
             PROVE  SecretInv'
  OBVIOUS
<1>1. repo' = repo
  BY DEF NextSecretHandling, shVars, InspectTracked, ScanLine, JudgeAssignment, ScanLogging
<1>2. ASSUME \A g \in findings' : g \in findings \/ (Justified(repo, g) /\ DemotedRightly(repo, g))
      PROVE  \A g \in findings' : (Justified(repo, g) /\ DemotedRightly(repo, g))'
  BY <1>1, <1>2 DEF SecretInv
<1>3. ASSUME NEW p \in tracked, InspectTracked(p)
      PROVE  SecretInv'
  <2>1. Justified(repo, TrackedFinding(p))
    BY KindsDiffer DEF Justified
  <2>2. DemotedRightly(repo, TrackedFinding(p))
    BY TrackedFindingDemotedRightly DEF SecretInv
  <2>3. \A g \in findings' : g \in findings \/ (Justified(repo, g) /\ DemotedRightly(repo, g))
    BY <1>3, <2>1, <2>2 DEF InspectTracked
  <2>4. \A g \in findings' : (Justified(repo, g) /\ DemotedRightly(repo, g))'
    BY <1>2, <2>3
  <2> QED
    BY <1>1, <1>3, <2>4 DEF SecretInv, InspectTracked
<1>4. CASE ScanLine
  <2>1. \A g \in ValueFindings(file, line) : Justified(repo, g) /\ DemotedRightly(repo, g)
    BY <1>4, ValueFindingsJustified, KindsDiffer DEF ScanLine, SecretInv, DemotedRightly
  <2>2. \A g \in findings' : g \in findings \/ (Justified(repo, g) /\ DemotedRightly(repo, g))
    BY <1>4, <2>1 DEF ScanLine
  <2>3. \A g \in findings' : (Justified(repo, g) /\ DemotedRightly(repo, g))'
    BY <1>2, <2>2
  <2> QED
    BY <1>1, <1>4, <2>3 DEF SecretInv, ScanLine
<1>5. CASE JudgeAssignment
  <2>1. PICK p \in pending :
          /\ pending' = pending \ {p}
          /\ findings' \subseteq findings \cup {NameFinding(file, p)}
          /\ UNCHANGED <<repo, tracked, file, line>>
    BY <1>5 DEF JudgeAssignment
  <2>2. Justified(repo, NameFinding(file, p)) /\ DemotedRightly(repo, NameFinding(file, p))
    BY <2>1, NameFindingJustified, KindsDiffer DEF SecretInv, DemotedRightly
  <2>3. \A g \in findings' : g \in findings \/ (Justified(repo, g) /\ DemotedRightly(repo, g))
    BY <2>1, <2>2
  <2>4. \A g \in findings' : (Justified(repo, g) /\ DemotedRightly(repo, g))'
    BY <1>2, <2>3
  <2> QED
    BY <1>1, <2>1, <2>4 DEF SecretInv
<1>6. CASE ScanLogging
  <2>1. \A i : Justified(repo, LogFinding(file, i)) /\ DemotedRightly(repo, LogFinding(file, i))
    BY KindsDiffer DEF Justified, DemotedRightly
  <2>2. \A g \in findings' : g \in findings \/ (Justified(repo, g) /\ DemotedRightly(repo, g))
    BY <1>6, <2>1 DEF ScanLogging
  <2>3. \A g \in findings' : (Justified(repo, g) /\ DemotedRightly(repo, g))'
    BY <1>2, <2>2
  <2> QED
    BY <1>1, <1>6, <2>3 DEF SecretInv, ScanLogging
<1>7. CASE UNCHANGED shVars
  BY <1>7 DEF SecretInv, shVars
<1> QED
  BY <1>3, <1>4, <1>5, <1>6, <1>7 DEF NextSecretHandling

LEMMA SecretInvHolds ==
  ASSUME NEW CONSTANT repos, \A r \in repos : WellFormed(r)
  PROVE  SecretSpec(repos) => []SecretInv
<1>1. InitSecretHandling(repos) => SecretInv
  BY DEF InitSecretHandling, SecretInv, WellFormed
<1> QED
  BY <1>1, SecretInvStep, PTL DEF SecretSpec

----------------------------------------------------------------------------
(* In a repository of any size, no literal is demoted for what stands      *)
(* elsewhere: only for its own value, its own line, or a test path         *)
(* together with a sign of its own (_compose_demotion, _scan_literals).    *)
THEOREM RealSecretsStayHigh ==
  ASSUME NEW CONSTANT repos, \A r \in repos : WellFormed(r)
  PROVE  SecretSpec(repos) => []RealSecretStaysHigh
<1>1. SecretInv => RealSecretStaysHigh
  BY Zenon DEF SecretInv, RealSecretStaysHigh, Justified
<1> QED
  BY <1>1, SecretInvHolds, PTL

(* No file that holds a credential by its name is demoted unless it lies   *)
(* in a test directory and holds a certificate known to be self-signed and *)
(* a test's, or the key of such a certificate next to it; of a bundle the  *)
(* key is not compared (_is_demoted_test_cert, _sibling_self_signed_cert). *)
THEOREM TestCertsNeedAllSignals ==
  ASSUME NEW CONSTANT repos, \A r \in repos : WellFormed(r)
  PROVE  SecretSpec(repos) => []TestCertNeedsAllSignals
<1>1. SecretInv => TestCertNeedsAllSignals
  BY Zenon DEF SecretInv, TestCertNeedsAllSignals, DemotedRightly
<1> QED
  BY <1>1, SecretInvHolds, PTL

----------------------------------------------------------------------------
(* Nothing is passed over.                                                 *)

\* The finding that stands for all copies of an assignment is there.
HasItsFinding(r, fs, k, p) ==
  \E q \in Assignments(r.files[k]) :
    Key(r.files[k], q) = Key(r.files[k], p) /\ NameFinding(k, q) \in fs

\* The position, and what lies before it: it has been reported.
PositionOK ==
  /\ WellFormed(repo)
  /\ file \in 1..(Len(repo.files) + 1) /\ line \in Nat \ {0}
  /\ file \in DOMAIN repo.files => line <= Len(repo.files[file].lines) + 1

TrackedTold == \A p \in repo.tracked \ tracked : BearsSecret(p) => TrackedFinding(p) \in findings

LinesTold ==
  \A k \in DOMAIN repo.files : \A i \in DOMAIN repo.files[k].lines :
    /\ k < file \/ (k = file /\ i < line) => ValueFindings(k, i) \subseteq findings
    /\ k < file /\ LogsSecret(repo.files[k], repo.files[k].lines[i]) => LogFinding(k, i) \in findings

NamesTold ==
  \A k \in DOMAIN repo.files : k < file =>
    \A p \in Assignments(repo.files[k]) : LooksSecret(At(repo.files[k], p).name) => HasItsFinding(repo, findings, k, p)

\* In the current file: what was judged is told, what was not is pending.
JudgedTold ==
  file \in DOMAIN repo.files =>
    /\ pending \subseteq Assignments(repo.files[file])
    /\ \A p \in Assignments(repo.files[file]) :
         /\ Key(repo.files[file], p) \in seen /\ LooksSecret(At(repo.files[file], p).name)
              => HasItsFinding(repo, findings, file, p)
         /\ line \notin DOMAIN repo.files[file].lines => p \in pending \/ Key(repo.files[file], p) \in seen

CompleteInv == PositionOK /\ TrackedTold /\ LinesTold /\ NamesTold /\ JudgedTold

\* The findings to be made depend on the repository alone.
LEMMA FindingsStable ==
  ASSUME repo' = repo
  PROVE  /\ \A k, i : ValueFindings(k, i)' = ValueFindings(k, i)
         /\ \A k, p : NameFinding(k, p)' = NameFinding(k, p)
         /\ \A k, i : LogFinding(k, i)' = LogFinding(k, i)
         /\ \A p : TrackedFinding(p)' = TrackedFinding(p)
<1>1. \A k, i : ValueFindings(k, i)' = ValueFindings(k, i)
  BY DEF ValueFindings
<1>2. \A k, p : NameFinding(k, p)' = NameFinding(k, p)
  BY DEF NameFinding
<1>3. \A k, i : LogFinding(k, i)' = LogFinding(k, i)
  BY DEF LogFinding
<1>4. \A p : IsTestCert(p)' = IsTestCert(p)
  BY DEF IsTestCert
<1>5. \A p : SiblingSelfSignedCert(p)' = SiblingSelfSignedCert(p)
  BY <1>4 DEF SiblingSelfSignedCert
<1>6. \A p : TrackedFinding(p)' = TrackedFinding(p)
  BY <1>4, <1>5 DEF TrackedFinding, IsDemotedTestCert
<1> QED
  BY <1>1, <1>2, <1>3, <1>6

\* Findings are never withdrawn, so what was told stays told.
LEMMA ToldStays ==
  ASSUME repo' = repo, findings \subseteq findings'
  PROVE  \A k, p : HasItsFinding(repo, findings, k, p) => HasItsFinding(repo, findings, k, p)'
BY FindingsStable DEF HasItsFinding

\* A finding that is made tells of all copies.
LEMMA ToldNow ==
  ASSUME repo' = repo
  PROVE  \A k, p : (\E q \in Assignments(repo.files[k]) :
                      Key(repo.files[k], q) = Key(repo.files[k], p) /\ NameFinding(k, q) \in findings')
                   => HasItsFinding(repo, findings, k, p)'
BY FindingsStable DEF HasItsFinding

\* The steps that leave the position alone keep what was told before it.
LEMMA ToldBefore ==
  ASSUME CompleteInv, repo' = repo, findings \subseteq findings', file' = file, line' = line
  PROVE  PositionOK' /\ LinesTold' /\ NamesTold'
<1>1. PositionOK'
  BY DEF CompleteInv, PositionOK
<1>2. LinesTold'
  BY FindingsStable DEF CompleteInv, LinesTold
<1>3. NamesTold'
  BY ToldStays DEF CompleteInv, NamesTold
<1> QED
  BY <1>1, <1>2, <1>3

LEMMA CompleteInvStep ==
  CompleteInv /\ [NextSecretHandling]_shVars => CompleteInv'
<1> SUFFICES ASSUME CompleteInv, [NextSecretHandling]_shVars
             PROVE  CompleteInv'
  OBVIOUS
<1>1. repo' = repo /\ findings \subseteq findings'
  BY DEF NextSecretHandling, shVars, InspectTracked, ScanLine, JudgeAssignment, ScanLogging
<1>2. ASSUME tracked' = tracked
      PROVE  TrackedTold'
  BY <1>1, <1>2, FindingsStable DEF CompleteInv, TrackedTold
<1>3. ASSUME NEW p \in tracked, InspectTracked(p)
      PROVE  CompleteInv'
  <2>1. TrackedTold'
    BY <1>1, <1>3, FindingsStable DEF CompleteInv, TrackedTold, InspectTracked
  <2>2. JudgedTold'
    BY <1>1, <1>3, ToldStays DEF CompleteInv, JudgedTold, InspectTracked
  <2> QED
    BY <1>1, <1>3, <2>1, <2>2, ToldBefore DEF CompleteInv, InspectTracked
<1>4. CASE ScanLine
  <2>1. PositionOK'
    BY <1>1, <1>4, FileFacts DEF CompleteInv, PositionOK, ScanLine
  <2>2. LinesTold'
    <3> SUFFICES ASSUME NEW k \in DOMAIN repo.files, NEW i \in DOMAIN repo.files[k].lines
                 PROVE  /\ k < file \/ (k = file /\ i < line + 1) => ValueFindings(k, i) \subseteq findings'
                        /\ k < file /\ LogsSecret(repo.files[k], repo.files[k].lines[i])
                             => LogFinding(k, i) \in findings'
      BY <1>1, <1>4, FindingsStable DEF LinesTold, ScanLine
    <3>1. i \in Nat /\ line \in Nat
      BY FileFacts DEF CompleteInv, PositionOK
    <3>2. i < line + 1 => i < line \/ i = line
      BY <3>1
    <3> QED
      BY <1>1, <1>4, <3>2 DEF CompleteInv, LinesTold, ScanLine
  <2>3. NamesTold'
    BY <1>1, <1>4, ToldStays DEF CompleteInv, NamesTold, ScanLine
  <2>4. JudgedTold'
    <3>1. line' \notin DOMAIN repo.files[file].lines => pending' = Assignments(repo.files[file])
      BY <1>4, FileFacts DEF CompleteInv, PositionOK, ScanLine
    <3>2. pending' \subseteq Assignments(repo.files[file])
      BY <1>4 DEF ScanLine
    <3> QED
      BY <1>1, <1>4, <3>1, <3>2, ToldStays DEF CompleteInv, JudgedTold, ScanLine
  <2> QED
    BY <1>2, <1>4, <2>1, <2>2, <2>3, <2>4 DEF CompleteInv, ScanLine
<1>5. CASE JudgeAssignment
  <2>1. PICK p \in pending :
          /\ pending' = pending \ {p}
          /\ seen' = seen \cup {Key(repo.files[file], p)}
          /\ findings' = IF Key(repo.files[file], p) \notin seen /\ LooksSecret(At(repo.files[file], p).name)
                         THEN findings \cup {NameFinding(file, p)}
                         ELSE findings
          /\ UNCHANGED <<repo, tracked, file, line>>
    BY <1>5 DEF JudgeAssignment
  <2>2. JudgedTold'
    <3> SUFFICES ASSUME file \in DOMAIN repo.files
                 PROVE  /\ pending' \subseteq Assignments(repo.files[file])
                        /\ \A q \in Assignments(repo.files[file]) :
                             /\ Key(repo.files[file], q) \in seen' /\ LooksSecret(At(repo.files[file], q).name)
                                  => HasItsFinding(repo, findings, file, q)'
                             /\ line \notin DOMAIN repo.files[file].lines
                                  => q \in pending' \/ Key(repo.files[file], q) \in seen'
      BY <1>1, <2>1 DEF JudgedTold
    <3>1. p \in Assignments(repo.files[file])
      BY DEF CompleteInv, JudgedTold
    <3>2. ASSUME NEW q \in Assignments(repo.files[file]), Key(repo.files[file], q) \in seen',
                 LooksSecret(At(repo.files[file], q).name)
          PROVE  HasItsFinding(repo, findings, file, q)'
      <4>1. CASE Key(repo.files[file], q) \in seen
        BY <1>1, <2>1, <3>2, <4>1, ToldStays DEF CompleteInv, JudgedTold
      <4>2. CASE Key(repo.files[file], q) \notin seen
        <5>1. Key(repo.files[file], q) = Key(repo.files[file], p)
          BY <2>1, <3>2, <4>2
        <5>2. At(repo.files[file], q).name = At(repo.files[file], p).name
          BY <5>1 DEF Key
        <5>3. NameFinding(file, p) \in findings'
          BY <2>1, <3>2, <4>2, <5>1, <5>2
        <5>4. \E s \in Assignments(repo.files[file]) :
                 Key(repo.files[file], s) = Key(repo.files[file], q) /\ NameFinding(file, s) \in findings'
          BY <3>1, <5>1, <5>3
        <5> QED
          BY <1>1, <2>1, <5>4, ToldNow
      <4> QED
        BY <4>1, <4>2
    <3> QED
      BY <2>1, <3>2 DEF CompleteInv, JudgedTold
  <2> QED
    BY <1>1, <1>2, <2>1, <2>2, ToldBefore DEF CompleteInv
<1>6. CASE ScanLogging
  <2>1. PositionOK'
    <3>1. file \in DOMAIN repo.files /\ file' = file + 1 /\ line' = 1
      BY <1>6 DEF ScanLogging
    <3>2. WellFormed(repo)
      BY DEF CompleteInv, PositionOK
    <3>3. /\ Len(repo.files) \in Nat /\ DOMAIN repo.files = 1..Len(repo.files)
          /\ \A k \in DOMAIN repo.files : Len(repo.files[k].lines) \in Nat
      BY <3>2, FileFacts
    <3>4. file + 1 \in 1..(Len(repo.files) + 1)
      BY <3>1, <3>3
    <3>5. \A k \in DOMAIN repo.files : 1 <= Len(repo.files[k].lines) + 1
      BY <3>3
    <3> QED
      BY <1>1, <3>1, <3>2, <3>4, <3>5 DEF PositionOK
  <2>2. LinesTold'
    <3> SUFFICES ASSUME NEW k \in DOMAIN repo.files, NEW i \in DOMAIN repo.files[k].lines
                 PROVE  /\ k < file + 1 \/ (k = file + 1 /\ i < 1) => ValueFindings(k, i) \subseteq findings'
                        /\ k < file + 1 /\ LogsSecret(repo.files[k], repo.files[k].lines[i])
                             => LogFinding(k, i) \in findings'
      BY <1>1, <1>6, FindingsStable DEF LinesTold, ScanLogging
    <3>1. k \in Nat /\ file \in Nat /\ i \in Nat /\ i > 0
      BY FileFacts DEF CompleteInv, PositionOK
    <3>2. k < file + 1 => k < file \/ k = file
      BY <3>1
    <3>3. k = file => i < line
      BY <1>6, FileFacts DEF CompleteInv, PositionOK, ScanLogging
    <3>4. k < file + 1 \/ (k = file + 1 /\ i < 1) => ValueFindings(k, i) \subseteq findings'
      BY <1>1, <3>1, <3>2, <3>3 DEF CompleteInv, LinesTold
    <3>5. k < file + 1 /\ LogsSecret(repo.files[k], repo.files[k].lines[i]) => LogFinding(k, i) \in findings'
      BY <1>1, <1>6, <3>2 DEF CompleteInv, LinesTold, ScanLogging
    <3> QED
      BY <3>4, <3>5
  <2>3. NamesTold'
    <3> SUFFICES ASSUME NEW k \in DOMAIN repo.files, k < file + 1,
                        NEW p \in Assignments(repo.files[k]), LooksSecret(At(repo.files[k], p).name)
                 PROVE  HasItsFinding(repo, findings, k, p)'
      BY <1>1, <1>6 DEF NamesTold, ScanLogging
    <3>1. k < file \/ k = file
      BY FileFacts DEF CompleteInv, PositionOK
    <3>2. HasItsFinding(repo, findings, k, p)
      BY <1>6, <3>1 DEF CompleteInv, NamesTold, JudgedTold, ScanLogging
    <3> QED
      BY <1>1, <3>2, ToldStays
  <2>4. JudgedTold'
    <3> SUFFICES ASSUME file + 1 \in DOMAIN repo.files,
                        1 \notin DOMAIN repo.files[file + 1].lines
                 PROVE  Assignments(repo.files[file + 1]) = {}
      BY <1>1, <1>6 DEF JudgedTold, ScanLogging
    <3>1. DOMAIN repo.files[file + 1].lines = {}
      BY FileFacts DEF CompleteInv, PositionOK
    <3> QED
      BY <3>1 DEF Assignments
  <2> QED
    BY <1>2, <1>6, <2>1, <2>2, <2>3, <2>4 DEF CompleteInv, ScanLogging
<1>7. CASE UNCHANGED shVars
  <2>1. JudgedTold'
    BY <1>1, <1>7, ToldStays DEF CompleteInv, JudgedTold, shVars
  <2> QED
    BY <1>1, <1>2, <1>7, <2>1, ToldBefore DEF CompleteInv, shVars
<1> QED
  BY <1>3, <1>4, <1>5, <1>6, <1>7 DEF NextSecretHandling

LEMMA CompleteInvHolds ==
  ASSUME NEW CONSTANT repos, \A r \in repos : WellFormed(r)
  PROVE  SecretSpec(repos) => []CompleteInv
<1>1. InitSecretHandling(repos) => CompleteInv
  <2> SUFFICES ASSUME InitSecretHandling(repos)
               PROVE  CompleteInv
    OBVIOUS
  <2>1. WellFormed(repo) /\ file = 1 /\ line = 1 /\ pending = {} /\ seen = {} /\ tracked = repo.tracked
    BY DEF InitSecretHandling
  <2>2. PositionOK /\ TrackedTold
    BY <2>1, FileFacts DEF PositionOK, TrackedTold
  <2>3. LinesTold /\ NamesTold
    BY <2>1, FileFacts DEF LinesTold, NamesTold
  <2>4. ASSUME file \in DOMAIN repo.files, line \notin DOMAIN repo.files[file].lines
        PROVE  Assignments(repo.files[file]) = {}
    <3>1. DOMAIN repo.files[file].lines = {}
      BY <2>1, <2>4, FileFacts
    <3> QED
      BY <3>1 DEF Assignments
  <2>5. JudgedTold
    BY <2>1, <2>4 DEF JudgedTold
  <2> QED
    BY <2>2, <2>3, <2>5 DEF CompleteInv
<1> QED
  BY <1>1, CompleteInvStep, PTL DEF SecretSpec

\* The copies that a finding counts are those of its literal.
LEMMA CopiesCounted ==
  ASSUME WellFormed(repo), NEW k \in DOMAIN repo.files, NEW i \in DOMAIN repo.files[k].lines,
         NEW j \in DOMAIN repo.files[k].lines[i].assigns, IsRead(k, i),
         ~repo.files[k].lines[i].assigns[j].value.known, ~repo.files[k].lines[i].assigns[j].value.placeholder
  PROVE  /\ <<i, j>> \in Assignments(repo.files[k])
         /\ {q \in Assignments(repo.files[k]) : Key(repo.files[k], q) = Key(repo.files[k], <<i, j>>)}
              = Copies(k, i, j)
<1> DEFINE f == repo.files[k]
<1> DEFINE All == UNION {{m} \X DOMAIN f.lines[m].assigns : m \in DOMAIN f.lines}
<1> DEFINE a == f.lines[i].assigns[j]
<1>1. <<i, j>> \in All
  BY PlaceIn, Zenon
<1>2. Assignments(f) = {q \in All : /\ f.language = "python" \/ (f.language = "js" /\ ~f.lines[q[1]].comment)
                                    /\ ~f.lines[q[1]].assigns[q[2]].value.known
                                    /\ ~f.lines[q[1]].assigns[q[2]].value.placeholder}
  BY DEF Assignments
<1>3. At(f, <<i, j>>) = a /\ \A q : At(f, q) = f.lines[q[1]].assigns[q[2]]
  BY DEF At
<1>4. <<i, j>> \in Assignments(f)
  BY <1>1, <1>2 DEF IsRead
<1>5. ASSUME NEW q \in All
      PROVE  Key(f, q) = Key(f, <<i, j>>) <=> At(f, q) = a
  <2>1. PICK m \in DOMAIN f.lines : \E n \in DOMAIN f.lines[m].assigns : q = <<m, n>>
    BY PlaceOf, Zenon
  <2>2. PICK n \in DOMAIN f.lines[m].assigns : q = <<m, n>>
    BY <2>1, Zenon
  <2>3. At(f, q) = f.lines[m].assigns[n]
    BY <2>2 DEF At
  <2>4. At(f, q).value.id = a.value.id => At(f, q).value = a.value
    <3>1. \A x, y \in DOMAIN f.lines :
             \A u \in DOMAIN f.lines[x].assigns, w \in DOMAIN f.lines[y].assigns :
               f.lines[x].assigns[u].value.id = f.lines[y].assigns[w].value.id
               => f.lines[x].assigns[u].value = f.lines[y].assigns[w].value
      BY Zenon DEF WellFormed
    <3>2. f.lines[m].assigns[n].value.id = f.lines[i].assigns[j].value.id
          => f.lines[m].assigns[n].value = f.lines[i].assigns[j].value
      BY <3>1
    <3> QED
      BY <2>3, <3>2
  <2>5. At(f, q) \in Assignment /\ a \in Assignment
    <3>1. f \in File
      BY FileTyped
    <3>2. f.lines[m].assigns \in Seq(Assignment) /\ f.lines[i].assigns \in Seq(Assignment)
      BY <3>1, LineTyped, Zenon
    <3>3. f.lines[m].assigns[n] \in Assignment /\ a \in Assignment
      BY <3>2, ElementOf, Zenon
    <3> QED
      BY <2>3, <3>3, Zenon
  <2>6. At(f, q) = a <=> At(f, q).name = a.name /\ At(f, q).value = a.value
    BY <2>5, AssignmentsEqual, Zenon
  <2> QED
    BY <1>3, <2>4, <2>6 DEF Key
<1>6. f.language \in {"python", "js", "other"} /\ f.language # "other"
  BY FileFacts DEF IsRead
<1> HIDE DEF All
<1>7. Copies(k, i, j) = {q \in All : At(f, q) = a /\ (f.language = "js" => ~f.lines[q[1]].comment)}
  BY <1>3 DEF Copies, All
<1> QED
  BY <1>2, <1>3, <1>4, <1>5, <1>6, <1>7

(* Whatever a repository of any size says about itself, a secret in it is  *)
(* reported, and its copies are counted: signs of a stand-in only demote   *)
(* (the law that the comments of secret_handling.py invoke).               *)
THEOREM NothingIsSilenced ==
  ASSUME NEW CONSTANT repos, \A r \in repos : WellFormed(r)
  PROVE  SecretSpec(repos) => []SignalsNeverSilence
<1> SUFFICES CompleteInv => SignalsNeverSilence
  BY CompleteInvHolds, PTL
<1> SUFFICES ASSUME CompleteInv, SecretHandlingDone
             PROVE  SignalsNeverSilence
  BY DEF SignalsNeverSilence
<1>1. WellFormed(repo) /\ tracked = {}
  BY DEF CompleteInv, PositionOK, SecretHandlingDone
<1>2. \A k \in DOMAIN repo.files : k < file
  BY <1>1, FileFacts DEF CompleteInv, PositionOK, SecretHandlingDone
<1>3. \A p \in repo.tracked : BearsSecret(p) => \E g \in findings : g.kind = "tracked" /\ g.where = <<p>>
  <2>1. \A p : TrackedFinding(p).kind = "tracked" /\ TrackedFinding(p).where = <<p>>
    BY DEF TrackedFinding
  <2> QED
    BY <1>1, <2>1 DEF CompleteInv, TrackedTold
<1>4. ASSUME NEW k \in DOMAIN repo.files, NEW i \in DOMAIN repo.files[k].lines,
             NEW n \in DOMAIN ValuesOf(repo.files[k].lines[i])
      PROVE  ValueTold(k, i, n)
  <2> SUFFICES ASSUME ValuesOf(repo.files[k].lines[i])[n].shaped, ~ValuesOf(repo.files[k].lines[i])[n].known
               PROVE  \E g \in findings : g.kind = "value" /\ g.where = <<k, i>> /\ g.what = <<n>>
    BY DEF ValueTold
  <2> DEFINE g == [kind |-> "value", where |-> <<k, i>>, what |-> <<n>>, times |-> 1,
                   tags |-> ValueTags(repo.files[k], i, n),
                   confidence |-> Confidence("HIGH", ValueTags(repo.files[k], i, n))]
  <2>1. ValueFindings(k, i) \subseteq findings
    BY <1>2 DEF CompleteInv, LinesTold
  <2>2. g \in ValueFindings(k, i)
    BY DEF ValueFindings
  <2>3. g.kind = "value" /\ g.where = <<k, i>> /\ g.what = <<n>>
    OBVIOUS
  <2> QED
    BY <2>1, <2>2, <2>3
<1>5. ASSUME NEW k \in DOMAIN repo.files, NEW i \in DOMAIN repo.files[k].lines,
             NEW j \in DOMAIN repo.files[k].lines[i].assigns
      PROVE  AssignmentTold(k, i, j)
  <2> DEFINE p == <<i, j>>
  <2> DEFINE f == repo.files[k]
  <2> DEFINE a == At(f, p)
  <2> SUFFICES ASSUME IsRead(k, i), LooksSecret(a.name), ~a.value.known, ~a.value.placeholder
               PROVE  \E g \in findings : /\ g.kind = "name" /\ g.where[1] = k /\ g.what = <<a.name, a.value.id>>
                                          /\ g.times = Cardinality(Copies(k, i, j))
    BY Zenon DEF AssignmentTold
  <2>1. a = f.lines[i].assigns[j]
    BY DEF At
  <2>2. p \in Assignments(f)
          /\ {x \in Assignments(f) : Key(f, x) = Key(f, p)} = Copies(k, i, j)
    BY <1>1, <2>1, CopiesCounted
  <2>3. HasItsFinding(repo, findings, k, p)
    BY <1>2, <2>2 DEF CompleteInv, NamesTold
  <2>4. PICK q \in Assignments(f) : Key(f, q) = Key(f, p) /\ NameFinding(k, q) \in findings
    BY <2>3 DEF HasItsFinding
  <2>5. /\ NameFinding(k, q).kind = "name" /\ NameFinding(k, q).where[1] = k
        /\ NameFinding(k, q).what = Key(f, q)
        /\ NameFinding(k, q).times = Cardinality({x \in Assignments(f) : Key(f, x) = Key(f, q)})
    BY DEF NameFinding, Key
  <2>6. Key(f, p) = <<a.name, a.value.id>>
    BY DEF Key
  <2>7. {x \in Assignments(f) : Key(f, x) = Key(f, q)} = {x \in Assignments(f) : Key(f, x) = Key(f, p)}
    BY <2>4
  <2> HIDE DEF p, a
  <2> QED
    BY <2>2, <2>4, <2>5, <2>6, <2>7
<1>6. ASSUME NEW k \in DOMAIN repo.files, NEW i \in DOMAIN repo.files[k].lines,
             NEW j \in DOMAIN repo.files[k].lines[i].log
      PROVE  LogTold(k, i, j)
  <2> DEFINE arg == repo.files[k].lines[i].log[j]
  <2> SUFFICES ASSUME IsRead(k, i), arg.in # "prose", LooksSecret(arg.chain[Len(arg.chain)])
               PROVE  \E g \in findings : g.kind = "log" /\ g.where = <<k, i>>
    BY Zenon DEF LogTold
  <2>1. LogsSecret(repo.files[k], repo.files[k].lines[i])
    BY DEF LogsSecret, ChainIsSecret, IsRead
  <2>2. LogFinding(k, i) \in findings
    BY <1>2, <2>1 DEF CompleteInv, LinesTold
  <2> QED
    BY <2>2 DEF LogFinding
<1> QED
  BY <1>3, <1>4, <1>5, <1>6 DEF SignalsNeverSilence

----------------------------------------------------------------------------
(* The type invariant.                                                     *)

LEMMA FiniteDomain ==
  ASSUME NEW S, NEW s \in Seq(S)
  PROVE  IsFiniteSet(DOMAIN s)
<1> DEFINE n == Len(s)
<1>1. DOMAIN s = 1..n /\ n \in Int
  OBVIOUS
<1> HIDE DEF n
<1>2. IsFiniteSet(1..n)
  BY <1>1, FS_Interval
<1> QED
  BY <1>1, <1>2

LEMMA AssignmentsFinite ==
  ASSUME WellFormed(repo), NEW k \in DOMAIN repo.files
  PROVE  IsFiniteSet(Assignments(repo.files[k]))
<1> DEFINE f == repo.files[k]
<1> DEFINE OfLine(i) == {i} \X DOMAIN f.lines[i].assigns
<1> DEFINE All == {OfLine(i) : i \in DOMAIN f.lines}
<1>1. \A i \in DOMAIN f.lines : IsFiniteSet(DOMAIN f.lines[i].assigns)
  <2> SUFFICES ASSUME NEW i \in DOMAIN f.lines
               PROVE  IsFiniteSet(DOMAIN f.lines[i].assigns)
    OBVIOUS
  <2>1. f \in File
    BY FileTyped
  <2>2. f.lines[i].assigns \in Seq(Assignment)
    BY <2>1, LineTyped, Zenon
  <2> QED
    BY <2>2, FiniteDomain, Zenon
<1>2. \A i \in DOMAIN f.lines : IsFiniteSet(OfLine(i))
  BY <1>1, FS_Singleton, FS_Product
<1>3. IsFiniteSet(DOMAIN f.lines)
  <2>1. f \in File
    BY FileTyped
  <2>2. f.lines \in Seq(Line)
    BY <2>1 DEF File
  <2> QED
    BY <2>2, FiniteDomain, Zenon
<1>4. IsFiniteSet(All)
  <2> DEFINE at == [i \in DOMAIN f.lines |-> OfLine(i)]
  <2> HIDE DEF OfLine
  <2>1. at \in Surjection(DOMAIN f.lines, All)
    BY DEF Surjection, Range
  <2> QED
    BY <1>3, <2>1, FS_Surjection DEF ExistsSurjection
<1>5. IsFiniteSet(UNION All)
  BY <1>2, <1>4, FS_UNION
<1>6. Assignments(f) \subseteq UNION All
  BY DEF Assignments
<1> QED
  BY <1>5, <1>6, FS_Subset

FindingTyped(g) ==
  /\ g.kind \in {"tracked", "value", "name", "log"} /\ g.times \in Nat \ {0}
  /\ g.confidence \in {"HIGH", "MEDIUM", "LOW"}

LEMMA FindingsTyped ==
  ASSUME WellFormed(repo)
  PROVE  /\ \A p : FindingTyped(TrackedFinding(p))
         /\ \A k, i : FindingTyped(LogFinding(k, i)) /\ \A g \in ValueFindings(k, i) : FindingTyped(g)
         /\ \A k \in DOMAIN repo.files : \A p \in Assignments(repo.files[k]) : FindingTyped(NameFinding(k, p))
<1>1. \A p : FindingTyped(TrackedFinding(p))
  BY DEF TrackedFinding, FindingTyped, Confidence
<1>2. \A k, i : FindingTyped(LogFinding(k, i))
  BY DEF LogFinding, FindingTyped
<1>3. \A k, i : \A g \in ValueFindings(k, i) : FindingTyped(g)
  BY DEF ValueFindings, FindingTyped, Confidence
<1>4. ASSUME NEW k \in DOMAIN repo.files, NEW p \in Assignments(repo.files[k])
      PROVE  FindingTyped(NameFinding(k, p))
  <2> DEFINE Same == {q \in Assignments(repo.files[k]) : Key(repo.files[k], q) = Key(repo.files[k], p)}
  <2>1. IsFiniteSet(Same) /\ p \in Same
    BY AssignmentsFinite, FS_Subset
  <2>2. Cardinality(Same) \in Nat /\ Cardinality(Same) # 0
    BY <2>1, FS_CardinalityType, FS_EmptySet
  <2>3. /\ NameFinding(k, p).kind = "name" /\ NameFinding(k, p).times = Cardinality(Same)
        /\ NameFinding(k, p).confidence \in {"MEDIUM", "LOW"}
    BY DEF NameFinding, Confidence
  <2> QED
    BY <2>2, <2>3 DEF FindingTyped
<1> QED
  BY <1>1, <1>2, <1>3, <1>4

TypedInv == SecretInv /\ PositionOK /\ \A g \in findings : FindingTyped(g)

\* Every type fact survives every step.
LEMMA TypedInvStep ==
  TypedInv /\ CompleteInv /\ [NextSecretHandling]_shVars => TypedInv'
<1> SUFFICES ASSUME TypedInv, CompleteInv, [NextSecretHandling]_shVars
             PROVE  TypedInv'
  OBVIOUS
<1>1. SecretInv' /\ PositionOK'
  BY SecretInvStep, CompleteInvStep DEF TypedInv, CompleteInv
<1>2. ASSUME NEW g \in findings'
      PROVE  FindingTyped(g)
  <2>1. CASE g \in findings
    BY <2>1 DEF TypedInv
  <2>2. CASE g \notin findings
    <3>1. WellFormed(repo)
      BY DEF TypedInv, PositionOK
    <3>2. ASSUME NEW p \in tracked, InspectTracked(p)
          PROVE  FindingTyped(g)
      BY <1>2, <2>2, <3>1, <3>2, FindingsTyped DEF InspectTracked
    <3>3. CASE ScanLine
      BY <1>2, <2>2, <3>1, <3>3, FindingsTyped DEF ScanLine
    <3>4. CASE JudgeAssignment
      <4>1. PICK p \in pending : g = NameFinding(file, p)
        BY <1>2, <2>2, <3>4 DEF JudgeAssignment
      <4> QED
        BY <3>1, <4>1, FindingsTyped DEF TypedInv, SecretInv
    <3>5. CASE ScanLogging
      BY <1>2, <2>2, <3>1, <3>5, FindingsTyped DEF ScanLogging
    <3>6. CASE UNCHANGED shVars
      BY <1>2, <2>2, <3>6 DEF shVars
    <3> QED
      BY <3>2, <3>3, <3>4, <3>5, <3>6 DEF NextSecretHandling
  <2> QED
    BY <2>1, <2>2
<1> QED
  BY <1>1, <1>2 DEF TypedInv, FindingTyped

(* The state of the detector is well formed at each step, for repositories *)
(* of any size (run, _scan_literals, _name_assignment_findings).           *)
THEOREM SecretTypeCorrect ==
  ASSUME NEW CONSTANT repos, \A r \in repos : WellFormed(r)
  PROVE  SecretSpec(repos) => []SecretTypeOK
<1>1. InitSecretHandling(repos) /\ CompleteInv /\ SecretInv => TypedInv
  BY DEF InitSecretHandling, TypedInv, CompleteInv
<1>2. SecretSpec(repos) => []TypedInv
  BY <1>1, TypedInvStep, CompleteInvHolds, SecretInvHolds, PTL DEF SecretSpec
<1>3. TypedInv => SecretTypeOK
  BY Zenon DEF TypedInv, SecretInv, PositionOK, SecretTypeOK, FindingTyped
<1> QED
  BY <1>2, <1>3, PTL

----------------------------------------------------------------------------
(* Parameter-injection: what is reported as a request is one, and no       *)
(* request that the code can resolve is lost or graded by the name it has  *)
(* in the text.                                                            *)

\* The names of known functions and constructors.
Surface == SsrfSinks \cup HttpClientConstructors

\* A known name starts with the name of a module, and has one part only if it is
\* urlopen; no module is one.
LEMMA SurfaceNames ==
  /\ \A n \in Surface : n # <<>> /\ Len(n) > 0 /\ n[1] \in ModuleHeads /\ (n[1] = "urlopen" <=> Len(n) = 1)
  /\ \A m \in HttpSinkModules : m \notin Surface /\ Len(m) > 0 /\ m[1] \in ModuleHeads
  /\ <<>> \notin Surface
<1>1. \A n \in SsrfSinks : n # <<>> /\ Len(n) > 0 /\ n[1] \in ModuleHeads /\ (n[1] = "urlopen" <=> Len(n) = 1)
  <2>1. \A m \in {"requests", "httpx"}, v \in VerbMethods \cup {"request"} :
          <<m, v>> # <<>> /\ Len(<<m, v>>) = 2 /\ <<m, v>>[1] \in ModuleHeads \ {"urlopen"}
    BY DEF ModuleHeads
  <2>2. \A n \in {<<"httpx", "stream">>, <<"urllib", "request", "urlopen">>} :
          n # <<>> /\ Len(n) > 1 /\ n[1] \in ModuleHeads \ {"urlopen"}
    BY DEF ModuleHeads
  <2>3. <<"urlopen">> # <<>> /\ Len(<<"urlopen">>) = 1 /\ <<"urlopen">>[1] = "urlopen" /\ "urlopen" \in ModuleHeads
    BY DEF ModuleHeads
  <2> QED
    BY <2>1, <2>2, <2>3 DEF SsrfSinks
<1>2. \A n \in HttpClientConstructors : n # <<>> /\ Len(n) > 0 /\ n[1] \in ModuleHeads /\ n[1] # "urlopen" /\ Len(n) # 1
  <2>1. \A n \in {<<"httpx", "Client">>, <<"httpx", "AsyncClient">>, <<"requests", "Session">>} :
          n # <<>> /\ Len(n) = 2 /\ n[1] \in ModuleHeads \ {"urlopen"}
    BY DEF ModuleHeads
  <2>2. \A n \in {<<"requests", "sessions", "Session">>, <<"aiohttp", "ClientSession">>} :
          n # <<>> /\ Len(n) \in 2..3 /\ n[1] \in ModuleHeads \ {"urlopen"}
    BY DEF ModuleHeads
  <2> QED
    BY <2>1, <2>2 DEF HttpClientConstructors
<1>3. \A m \in HttpSinkModules :
        Len(m) > 0 /\ m[1] \in ModuleHeads \ {"urlopen"} /\ (Len(m) = 1 \/ m = <<"urllib", "request">>)
  BY DEF HttpSinkModules, ModuleHeads
<1>4. <<"urllib", "request">> \notin HttpClientConstructors
  BY DEF HttpClientConstructors
<1>5. <<"urllib", "request">> \notin SsrfSinks
  <2>1. \A m \in {"requests", "httpx"}, v \in VerbMethods \cup {"request"} : <<"urllib", "request">> # <<m, v>>
    OBVIOUS
  <2>2. <<"urllib", "request">> \notin {<<"httpx", "stream">>, <<"urllib", "request", "urlopen">>, <<"urlopen">>}
    OBVIOUS
  <2> QED
    BY <2>1, <2>2 DEF SsrfSinks
<1> QED
  BY <1>1, <1>2, <1>3, <1>4, <1>5 DEF Surface

IdOrNone == Ids \cup {NoId}

LEMMA Widened == \A s \in Seq(Ids) : s \in Seq(IdOrNone)
  BY DEF IdOrNone

\* Short sequences.
LEMMA Lengths ==
  ASSUME NEW n \in Dotted
  PROVE  /\ Len(n) \in Nat /\ (n # <<>> <=> Len(n) > 0) /\ n \in Seq(Ids)
         /\ n # <<>> => Len(n) = 1 \/ Len(n) > 1
         /\ Len(n) = 1 => n = <<n[1]>> /\ Tail(n) = <<>>
         /\ n # <<>> => Tail(n) \in Seq(Ids) /\ Tail(n) \in Seq(IdOrNone)
         /\ \A x : n = <<x>> => Len(n) = 1 /\ n[1] = x /\ n # <<>>
<1>1. n \in Seq(Ids)
  BY DEF Dotted
<1>2. Len(n) \in Nat /\ (n # <<>> <=> Len(n) > 0)
  BY <1>1, EmptySeq
<1>3. Len(n) = 1 => n = <<n[1]>>
  BY <1>1
<1>4. n # <<>> => Tail(n) \in Seq(Ids) /\ Len(Tail(n)) = Len(n) - 1
  BY <1>1, HeadTailProperties
<1>5. Len(n) = 1 => Tail(n) = <<>>
  <2> SUFFICES ASSUME Len(n) = 1 PROVE Tail(n) = <<>>
    OBVIOUS
  <2>1. Tail(n) \in Seq(Ids) /\ Len(Tail(n)) = 0
    BY <1>2, <1>4
  <2> QED
    BY <2>1, EmptySeq
<1>6. n # <<>> => Len(n) = 1 \/ Len(n) > 1
  BY <1>1, <1>2
<1>7. \A x : n = <<x>> => Len(n) = 1 /\ n[1] = x /\ n # <<>>
  OBVIOUS
<1>8. n # <<>> => Tail(n) \in Seq(IdOrNone)
  BY <1>4, Widened, Zenon
<1> QED
  BY <1>1, <1>2, <1>3, <1>4, <1>5, <1>6, <1>7, <1>8, Zenon

\* The parts of an import.
LEMMA ImportTyped ==
  ASSUME NEW f \in PySource, NEW i \in f.imports
  PROVE  /\ i.module \in Seq(IdOrNone) /\ i.name \in IdOrNone /\ i.level \in Nat
         /\ Append(i.module, i.name) \in Seq(IdOrNone) /\ Append(i.module, i.name) \o <<>> = Append(i.module, i.name)
         /\ i.module \o <<>> = i.module
<1>1. f.imports \in SUBSET PyImport
  BY DEF PySource
<1>2. i.module \in Seq(Ids) /\ i.name \in IdOrNone /\ i.level \in Nat
  BY <1>1 DEF PyImport, Dotted, IdOrNone
<1>3. i.module \in Seq(IdOrNone)
  BY <1>2, Widened
<1>4. Append(i.module, i.name) \in Seq(IdOrNone)
  BY <1>2, <1>3
<1> QED
  BY <1>2, <1>3, <1>4, ConcatEmptySeq, Zenon

\* An import without renaming.
PlainImport(i) == i.name = NoId /\ i.as = NoId

\* A renaming import is the only one of its name.
LEMMA OneImport ==
  ASSUME NEW f, PlainSource(f), NEW i \in f.imports, ~PlainImport(i)
  PROVE  \A j \in f.imports : ImportedAs(j) = ImportedAs(i) => j = i
BY DEF PlainSource, PlainImport

\* A name denotes itself if no import renames its first part.
LEMMA DenotesItself ==
  ASSUME NEW f, PlainSource(f), f \in PySource, NEW n \in Dotted,
         \A i \in f.imports : n # <<>> /\ ImportedAs(i) = n[1] => PlainImport(i)
  PROVE  Denotes(f, n) = n
<1> DEFINE by == {i \in f.imports : n # <<>> /\ ImportedAs(i) = n[1]}
<1>1. CASE by = {}
  BY <1>1 DEF Denotes
<1>2. CASE by # {}
  <2> DEFINE i == CHOOSE i \in by : TRUE
  <2>1. i \in by
    BY <1>2
  <2> HIDE DEF i
  <2>2. PlainImport(i) /\ i.level = 0
    BY <2>1 DEF PlainSource, PlainImport
  <2>3. Denotes(f, n) = IF by = {} THEN n
                        ELSE IF i.level > 0 THEN <<>>
                        ELSE IF i.name # NoId THEN Append(i.module, i.name) \o Tail(n)
                        ELSE IF i.as # NoId THEN i.module \o Tail(n)
                        ELSE n
    BY DEF Denotes, i
  <2> HIDE DEF by
  <2> QED
    BY <2>2, <2>3, <1>2 DEF PlainImport
<1> QED
  BY <1>1, <1>2

\* What a renamed name denotes.
LEMMA DenotesRenamed ==
  ASSUME NEW f, PlainSource(f), NEW n \in Dotted, n # <<>>,
         NEW k \in f.imports, ImportedAs(k) = n[1], ~PlainImport(k)
  PROVE  /\ k.level > 0 => Denotes(f, n) = <<>>
         /\ k.level = 0 /\ k.name # NoId => Denotes(f, n) = Append(k.module, k.name) \o Tail(n)
         /\ k.level = 0 /\ k.name = NoId => Denotes(f, n) = k.module \o Tail(n)
<1> DEFINE by == {i \in f.imports : n # <<>> /\ ImportedAs(i) = n[1]}
           i == CHOOSE i \in by : TRUE
<1>1. by = {k}
  BY OneImport
<1>2. i = k
  BY <1>1
<1>3. Denotes(f, n) = IF by = {} THEN n
                      ELSE IF i.level > 0 THEN <<>>
                      ELSE IF i.name # NoId THEN Append(i.module, i.name) \o Tail(n)
                      ELSE IF i.as # NoId THEN i.module \o Tail(n)
                      ELSE n
  BY DEF Denotes
<1> HIDE DEF by, i
<1>4. by # {} /\ (k.name = NoId => k.as # NoId)
  BY <1>1 DEF PlainImport
<1>5. CASE k.level > 0
  BY <1>2, <1>3, <1>4, <1>5
<1>6. CASE k.level = 0
  BY <1>2, <1>3, <1>4, <1>6
<1> QED
  BY <1>5, <1>6, Zenon

\* What the code makes of a name: nothing, or what a listed import says.
Symbol(f, n) == {i \in SymbolAliases(f) : n = <<ImportedAs(i)>>}
Module(f, n) == {i \in ModuleAliases(f) : Len(n) > 1 /\ n[1] = i.as}

LEMMA CanonicalCases ==
  ASSUME NEW f, NEW n
  PROVE  /\ Symbol(f, n) = {} /\ Module(f, n) = {} => CanonicalHttpName(f, n) = n
         /\ Symbol(f, n) # {} => \E i \in Symbol(f, n) : CanonicalHttpName(f, n) = Append(i.module, i.name)
         /\ Symbol(f, n) = {} /\ Module(f, n) # {} =>
              \E i \in Module(f, n) : CanonicalHttpName(f, n) = i.module \o Tail(n)
<1> DEFINE s == CHOOSE i \in Symbol(f, n) : TRUE
           m == CHOOSE i \in Module(f, n) : TRUE
<1>1. CanonicalHttpName(f, n) = IF Symbol(f, n) # {} THEN Append(s.module, s.name)
                                ELSE IF Module(f, n) # {} THEN m.module \o Tail(n)
                                ELSE n
  BY DEF CanonicalHttpName, Symbol, Module
<1>2. (Symbol(f, n) # {} => s \in Symbol(f, n)) /\ (Module(f, n) # {} => m \in Module(f, n))
  OBVIOUS
<1> HIDE DEF s, m
<1>3. CASE Symbol(f, n) # {}
  BY <1>1, <1>2, <1>3
<1>4. CASE Symbol(f, n) = {} /\ Module(f, n) # {}
  BY <1>1, <1>2, <1>4
<1>5. CASE Symbol(f, n) = {} /\ Module(f, n) = {}
  BY <1>1, <1>5
<1> QED
  BY <1>3, <1>4, <1>5

\* The two kinds of listed imports.
LEMMA Listed ==
  ASSUME NEW f, NEW n
  PROVE  /\ \A i \in Symbol(f, n) : /\ i \in f.imports /\ ~PlainImport(i) /\ i.module \in HttpSinkModules
                                    /\ i.name # NoId /\ i.level = 0 /\ n = <<ImportedAs(i)>>
         /\ \A i \in Module(f, n) : /\ i \in f.imports /\ ~PlainImport(i) /\ i.module \in HttpSinkModules
                                    /\ i.name = NoId /\ i.as # NoId /\ ImportedAs(i) = n[1] /\ Len(n) > 1
BY DEF Symbol, Module, SymbolAliases, ModuleAliases, PlainImport, ImportedAs

\* The name is a sequence; one that an alias stands for starts with that of a
\* module.
LEMMA CanonicalHead ==
  ASSUME NEW f \in PySource, NEW n \in Dotted, CanonicalHttpName(f, n) # n
  PROVE  CanonicalHttpName(f, n)[1] \in ModuleHeads /\ CanonicalHttpName(f, n) \in Seq(IdOrNone)
<1>1. CASE Symbol(f, n) # {}
  <2>1. PICK i \in Symbol(f, n) : CanonicalHttpName(f, n) = Append(i.module, i.name)
    BY <1>1, CanonicalCases
  <2>2. i \in f.imports /\ i.module \in HttpSinkModules
    BY Listed, Zenon
  <2>3. i.module \in Seq(IdOrNone) /\ i.name \in IdOrNone /\ Len(i.module) > 0 /\ i.module[1] \in ModuleHeads
    BY <2>2, ImportTyped, SurfaceNames
  <2> QED
    BY <2>1, <2>3
<1>2. CASE Symbol(f, n) = {} /\ Module(f, n) # {}
  <2>1. PICK i \in Module(f, n) : CanonicalHttpName(f, n) = i.module \o Tail(n)
    BY <1>2, CanonicalCases
  <2>2. i \in f.imports /\ i.module \in HttpSinkModules /\ Len(n) > 1
    BY Listed, Zenon
  <2>3. i.module \in Seq(IdOrNone) /\ Len(i.module) > 0 /\ i.module[1] \in ModuleHeads
    BY <2>2, ImportTyped, SurfaceNames
  <2>4. Tail(n) \in Seq(IdOrNone)
    BY <2>2, Lengths
  <2> QED
    BY <2>1, <2>3, <2>4
<1> QED
  BY <1>1, <1>2, CanonicalCases

\* What the code takes for a known name denotes it.
LEMMA SoundName ==
  ASSUME NEW f \in PySource, PlainSource(f), NEW n \in Dotted, CanonicalHttpName(f, n) \in Surface
  PROVE  Denotes(f, n) = CanonicalHttpName(f, n)
<1>1. CASE Symbol(f, n) # {}
  <2>1. PICK i \in Symbol(f, n) : CanonicalHttpName(f, n) = Append(i.module, i.name)
    BY <1>1, CanonicalCases
  <2>2. i \in f.imports /\ ~PlainImport(i) /\ i.name # NoId /\ i.level = 0 /\ n = <<ImportedAs(i)>>
    BY Listed, Zenon
  <2>3. n # <<>> /\ n[1] = ImportedAs(i) /\ Tail(n) = <<>>
    BY <2>2, Lengths
  <2>4. Denotes(f, n) = Append(i.module, i.name) \o <<>>
    BY <2>2, <2>3, DenotesRenamed
  <2> QED
    BY <2>1, <2>2, <2>4, ImportTyped, Zenon
<1>2. CASE Symbol(f, n) = {} /\ Module(f, n) # {}
  <2>1. PICK i \in Module(f, n) : CanonicalHttpName(f, n) = i.module \o Tail(n)
    BY <1>2, CanonicalCases
  <2>2. i \in f.imports /\ ~PlainImport(i) /\ i.name = NoId /\ ImportedAs(i) = n[1] /\ Len(n) > 1
    BY Listed, Zenon
  <2>3. i.level = 0 /\ n # <<>>
    BY <2>2 DEF PlainSource
  <2> QED
    BY <2>1, <2>2, <2>3, DenotesRenamed
<1>3. CASE Symbol(f, n) = {} /\ Module(f, n) = {}
  <2>1. CanonicalHttpName(f, n) = n
    BY <1>3, CanonicalCases
  <2>2. n # <<>> /\ n[1] \in ModuleHeads /\ (n[1] = "urlopen" <=> Len(n) = 1)
    BY <2>1, SurfaceNames
  <2>3. ASSUME NEW i \in f.imports, ImportedAs(i) = n[1], ~PlainImport(i)
        PROVE  FALSE
    <3>1. i \in SymbolAliases(f) /\ n[1] = "urlopen"
      BY <2>2, <2>3 DEF PlainSource, PlainImport
    <3>2. n = <<ImportedAs(i)>>
      BY <2>2, <2>3, <3>1, Lengths
    <3> QED
      BY <1>3, <3>1, <3>2 DEF Symbol
  <2> QED
    BY <2>1, <2>2, <2>3, DenotesItself
<1> QED
  BY <1>1, <1>2, <1>3

\* A known name is resolved if the code resolves imports of its kind.
LEMMA CompleteName ==
  ASSUME NEW f \in PySource, PlainSource(f), NEW n \in Dotted, Denotes(f, n) \in Surface, ~Unresolved(f, n)
  PROVE  CanonicalHttpName(f, n) = Denotes(f, n)
<1>1. CASE \A i \in f.imports : n # <<>> /\ ImportedAs(i) = n[1] => PlainImport(i)
  <2>1. Denotes(f, n) = n
    BY <1>1, DenotesItself
  <2>2. Symbol(f, n) = {}
    BY <1>1, Listed
  <2>3. Module(f, n) = {}
    BY <1>1, Listed
  <2> QED
    BY <2>1, <2>2, <2>3, CanonicalCases
<1>2. CASE \E i \in f.imports : n # <<>> /\ ImportedAs(i) = n[1] /\ ~PlainImport(i)
  <2>1. PICK i \in f.imports : n # <<>> /\ ImportedAs(i) = n[1] /\ ~PlainImport(i)
    BY <1>2
  <2>2. i.module \in HttpSinkModules /\ (i.name = NoId \/ ~(Len(n) > 1))
    BY <2>1 DEF Unresolved, PlainImport
  <2>3. i.level \in Nat
    BY ImportTyped
  <2>4. i.level = 0
    BY <2>1, <2>3, DenotesRenamed, SurfaceNames
  <2>5. CASE i.name # NoId
    <3>1. n = <<ImportedAs(i)>> /\ Tail(n) = <<>>
      BY <2>1, <2>2, <2>5, Lengths
    <3>2. i \in Symbol(f, n)
      BY <2>2, <2>4, <2>5, <3>1 DEF Symbol, SymbolAliases
    <3>3. PICK j \in Symbol(f, n) : CanonicalHttpName(f, n) = Append(j.module, j.name)
      BY <3>2, CanonicalCases
    <3>4. j = i
      BY <2>1, <3>1, Listed, OneImport
    <3>5. Denotes(f, n) = Append(i.module, i.name) \o <<>>
      BY <2>1, <2>4, <2>5, <3>1, DenotesRenamed
    <3> QED
      BY <3>3, <3>4, <3>5, ImportTyped, Zenon
  <2>6. CASE i.name = NoId
    <3>1. Denotes(f, n) = i.module \o Tail(n) /\ i.as # NoId
      BY <2>1, <2>4, <2>6, DenotesRenamed DEF PlainImport
    <3>2. Len(n) > 1
      <4> SUFFICES ASSUME ~(Len(n) > 1) PROVE FALSE
        OBVIOUS
      <4>1. Len(n) = 1
        BY <2>1, Lengths, Zenon
      <4>2. Tail(n) = <<>>
        BY <4>1, Lengths
      <4>3. Denotes(f, n) = i.module
        BY <3>1, <4>2, ImportTyped
      <4> QED
        BY <2>2, <4>3, SurfaceNames
    <3>3. Symbol(f, n) = {}
      <4> Len(n) \in Nat
        BY Lengths, Zenon
      <4>1. Len(n) # 1
        BY <3>2
      <4>2. \A x : n # <<x>>
        BY <4>1, Lengths, Zenon
      <4> QED
        BY <4>2 DEF Symbol
    <3>4. i \in Module(f, n)
      BY <2>1, <2>2, <2>6, <3>1, <3>2 DEF Module, ModuleAliases, ImportedAs
    <3>5. PICK j \in Module(f, n) : CanonicalHttpName(f, n) = j.module \o Tail(n)
      BY <3>3, <3>4, CanonicalCases
    <3>6. j = i
      BY <2>1, <3>5, Listed, OneImport
    <3> QED
      BY <3>1, <3>5, <3>6
  <2> QED
    BY <2>5, <2>6
<1> QED
  BY <1>1, <1>2

----------------------------------------------------------------------------
\* What the detector makes of a file.
FindingsOf(k) ==
  IF sources[k].language = "python" THEN CheckCalls(k, sources[k])
  ELSE {ExecFinding(k, l) : l \in ExecLines(sources[k])}

\* The findings are those of the files that were scanned.
ScannedInv ==
  /\ WellFormedSources(sources) /\ position \in Nat
  /\ \A x \in injections : x.file \in DOMAIN sources /\ x \in FindingsOf(x.file)
  /\ \A k \in DOMAIN sources : k < position => FindingsOf(k) \subseteq injections

LEMMA FindingsName ==
  ASSUME NEW k, NEW x \in FindingsOf(k)
  PROVE  x.file = k
<1>1. CASE sources[k].language = "python"
  BY <1>1 DEF FindingsOf, CheckCalls, SsrfFinding
<1>2. CASE sources[k].language # "python"
  BY <1>2 DEF FindingsOf, ExecFinding
<1> QED
  BY <1>1, <1>2

\* Scanning the file at the position.
LEMMA ScanStep ==
  ASSUME ScannedInv, position \in DOMAIN sources, sources' = sources, position' = position + 1,
         injections' = injections \cup FindingsOf(position)
  PROVE  ScannedInv'
<1>1. \A k : FindingsOf(k)' = FindingsOf(k)
  BY DEF FindingsOf
<1>2. WellFormedSources(sources') /\ position' \in Nat
  BY DEF ScannedInv
<1>3. ASSUME NEW x \in injections'
      PROVE  x.file \in DOMAIN sources /\ x \in FindingsOf(x.file)
  <2>1. CASE x \in injections
    BY <2>1 DEF ScannedInv
  <2>2. CASE x \in FindingsOf(position)
    BY <2>2, FindingsName
  <2> QED
    BY <1>3, <2>1, <2>2
<1>4. DOMAIN sources \subseteq Nat
  BY DEF ScannedInv, WellFormedSources
<1>5. ASSUME NEW k \in DOMAIN sources, k < position'
      PROVE  FindingsOf(k) \subseteq injections'
  <2>1. k < position \/ k = position
    BY <1>4, <1>5 DEF ScannedInv
  <2> QED
    BY <2>1 DEF ScannedInv
<1> QED
  BY <1>1, <1>2, <1>3, <1>5 DEF ScannedInv

LEMMA ScannedInvHolds ==
  ASSUME NEW CONSTANT repos, \A files \in repos : WellFormedSources(files)
  PROVE  InjectionSpec(repos) => []ScannedInv
<1>1. InitInjection(repos) => ScannedInv
  <2> SUFFICES ASSUME InitInjection(repos) PROVE ScannedInv
    OBVIOUS
  <2>1. WellFormedSources(sources) /\ position = 1 /\ injections = {}
    BY DEF InitInjection
  <2>2. \A k \in DOMAIN sources : ~(k < 1)
    BY <2>1 DEF WellFormedSources
  <2> QED
    BY <2>1, <2>2 DEF ScannedInv
<1>2. ScannedInv /\ [NextInjection]_piVars => ScannedInv'
  <2> SUFFICES ASSUME ScannedInv, [NextInjection]_piVars PROVE ScannedInv'
    OBVIOUS
  <2>1. CASE ScanPyFile
    BY <2>1, ScanStep DEF ScanPyFile, FindingsOf
  <2>2. CASE ScanJsFile
    BY <2>2, ScanStep DEF ScanJsFile, FindingsOf
  <2>3. CASE UNCHANGED piVars
    BY <2>3 DEF piVars, ScannedInv, FindingsOf
  <2> QED
    BY <2>1, <2>2, <2>3 DEF NextInjection
<1> QED
  BY <1>1, <1>2, PTL DEF InjectionSpec

\* The files and calls that the findings are about.
LEMMA SourceTyped ==
  ASSUME WellFormedSources(sources), NEW k \in DOMAIN sources, sources[k].language = "python"
  PROVE  /\ sources[k] \in PySource /\ PlainSource(sources[k])
         /\ \A n \in DOMAIN sources[k].calls : sources[k].calls[n].callee \in Dotted
<1>1. sources[k] \in PySource \cup JsSource
  BY DEF WellFormedSources
<1>2. sources[k] \notin JsSource
  BY DEF JsSource
<1>3. sources[k].calls \in Seq(PyCall)
  BY <1>1, <1>2 DEF PySource
<1>4. \A n \in DOMAIN sources[k].calls : sources[k].calls[n] \in PyCall
  BY <1>3
<1> QED
  BY <1>1, <1>2, <1>4 DEF WellFormedSources, PyCall

\* The receiver of a method starts with the name the method's callee starts with.
LEMMA HeadOfOuter ==
  ASSUME NEW S, NEW n \in Seq(S), Len(n) > 1
  PROVE  Outer(n) # <<>> /\ Outer(n)[1] = n[1]
<1>1. n \in Seq(S) /\ Len(n) - 1 \in Nat /\ Len(n) - 1 > 0 /\ 1 <= Len(n)
  OBVIOUS
<1>2. Len(Outer(n)) = Len(n) - 1 /\ Outer(n)[1] = n[1]
  BY <1>1 DEF Outer
<1> QED
  BY <1>1, <1>2, EmptySeq

\* A receiver of the code is not named like an import or a module.
LEMMA ReceiverHead ==
  ASSUME NEW f, PlainSource(f), NEW r, BindingsOf(f, r) # {}
  PROVE  r # <<>> /\ r[1] \notin ModuleHeads /\ \A i \in f.imports : ImportedAs(i) # r[1]
BY DEF BindingsOf, PlainSource

\* The code's proof of a receiver is one.
LEMMA ReceiverIsClient ==
  ASSUME NEW f \in PySource, PlainSource(f), NEW r \in HttpClientReceivers(f),
         \A b \in BindingsOf(f, r) : b.form # "unnoted"
  PROVE  IsClient(f, r)
<1>1. \A b \in f.bindings : b.made \in Dotted
  BY DEF PySource, PyBinding
<1>2. ASSUME NEW b \in BindingsOf(f, r)
      PROVE  MakesClient(f, b) /\ b \in f.bindings
  BY DEF HttpClientReceivers, BoundOtherwise, BindingsOf
<1>3. ASSUME NEW b \in BindingsOf(f, r)
      PROVE  b.form = "value" /\ Denotes(f, b.made) \in HttpClientConstructors
  <2>1. b.form = "value" /\ CanonicalHttpName(f, b.made) \in HttpClientConstructors /\ b.made \in Dotted
    BY <1>1, <1>2 DEF MakesClient
  <2> QED
    BY <2>1, SoundName DEF Surface
<1>4. BindingsOf(f, r) # {}
  BY DEF HttpClientReceivers, BindingsOf
<1> QED
  BY <1>3, <1>4 DEF IsClient

\* A client whose constructor the code resolves is a receiver.
LEMMA ClientIsReceiver ==
  ASSUME NEW f \in PySource, PlainSource(f), NEW r, IsClient(f, r),
         \A b \in BindingsOf(f, r) : ~Unresolved(f, b.made)
  PROVE  r \in HttpClientReceivers(f)
<1>1. \A b \in f.bindings : b.made \in Dotted
  BY DEF PySource, PyBinding
<1>2. ASSUME NEW b \in BindingsOf(f, r)
      PROVE  MakesClient(f, b)
  <2>1. b.form = "value" /\ Denotes(f, b.made) \in HttpClientConstructors /\ b.made \in Dotted /\ ~Unresolved(f, b.made)
    BY <1>1 DEF IsClient, BindingsOf
  <2>2. CanonicalHttpName(f, b.made) = Denotes(f, b.made)
    BY <2>1, CompleteName DEF Surface
  <2> QED
    BY <2>1, <2>2 DEF MakesClient
<1>3. \A i \in f.imports : r # <<ImportedAs(i)>>
  BY ReceiverHead DEF IsClient
<1>4. \E b \in f.bindings : b.target = r /\ MakesClient(f, b)
  BY <1>2 DEF IsClient, BindingsOf
<1>5. \A b \in f.bindings : b.target = r => MakesClient(f, b)
  BY <1>2 DEF BindingsOf
<1> QED
  BY <1>3, <1>4, <1>5 DEF HttpClientReceivers, BoundOtherwise

\* The invariant implies that only requests are reported: one call of one file is
\* looked at (_check_call).
LEMMA ReportedIsReal == ScannedInv /\ ~Unseen => OnlyRequestsAreReported
<1> SUFFICES ASSUME ScannedInv, NEW x \in injections, x.class = "ssrf",
                    sources[x.file].calls[x.at].of = "name",
                    Noted(sources[x.file], sources[x.file].calls[x.at])
             PROVE  IsRequest(sources[x.file], sources[x.file].calls[x.at])
  BY DEF OnlyRequestsAreReported
<1> DEFINE k == x.file
           f == sources[k]
<1>1. k \in DOMAIN sources /\ x \in FindingsOf(k) /\ WellFormedSources(sources)
  BY DEF ScannedInv
<1>2. f.language = "python"
  <2> SUFFICES ASSUME f.language # "python" PROVE FALSE
    OBVIOUS
  <2>1. x \in {ExecFinding(k, l) : l \in ExecLines(f)}
    BY <1>1 DEF FindingsOf
  <2> QED
    BY <2>1 DEF ExecFinding
<1>3. f \in PySource /\ PlainSource(f) /\ \A i \in DOMAIN f.calls : f.calls[i].callee \in Dotted
  BY <1>1, <1>2, SourceTyped
<1>4. x \in CheckCalls(k, f)
  BY <1>1, <1>2 DEF FindingsOf
<1> HIDE DEF f, k
<1>5. PICK i \in DOMAIN f.calls :
        /\ IsSsrf(f, CanonicalHttpName(f, f.calls[i].callee), f.calls[i])
        /\ x = SsrfFinding(k, i, Severity(f, CanonicalHttpName(f, f.calls[i].callee), f.calls[i]))
  BY <1>4 DEF CheckCalls
<1>6. x.at = i
  BY <1>5 DEF SsrfFinding
<1> DEFINE c == f.calls[i]
           n == CanonicalHttpName(f, c.callee)
<1>7. c.callee \in Dotted /\ Noted(f, c)
  BY <1>3, <1>6 DEF f, k
<1>8. CASE n \in SsrfSinks
  <2>1. Denotes(f, c.callee) = n
    BY <1>3, <1>7, <1>8, SoundName DEF Surface
  <2> QED
    BY <1>6, <1>8, <2>1 DEF IsRequest, f, k
<1>9. CASE Len(n) > 1 /\ Outer(n) \in HttpClientReceivers(f) /\ Final(n) \in InstanceSinks
  <2>1. BindingsOf(f, Outer(n)) # {}
    BY <1>9 DEF HttpClientReceivers, BindingsOf
  <2>2. Outer(n)[1] \notin ModuleHeads
    BY <1>3, <2>1, ReceiverHead
  <2>3. n = c.callee
    <3> SUFFICES ASSUME n # c.callee PROVE FALSE
      OBVIOUS
    <3>1. n[1] \in ModuleHeads /\ n \in Seq(IdOrNone)
      BY <1>3, <1>7, CanonicalHead
    <3>2. Outer(n)[1] = n[1]
      BY <1>9, <3>1, HeadOfOuter
    <3> QED
      BY <2>2, <3>1, <3>2
  <2>4. IsClient(f, Outer(c.callee))
    BY <1>3, <1>7, <1>9, <2>3, ReceiverIsClient DEF Noted
  <2> QED
    BY <1>6, <1>9, <2>3, <2>4 DEF IsRequest, f, k
<1> QED
  BY <1>5, <1>8, <1>9 DEF IsSsrf

\* No file makes the detector report as a request what Python's imports and the
\* bindings of the file do not make one (_http_client_receivers, _check_call).
THEOREM ReportedRequestsAreReal ==
  ASSUME NEW CONSTANT repos, \A files \in repos : WellFormedSources(files), ~Unseen
  PROVE  InjectionSpec(repos) => []OnlyRequestsAreReported
<1>1. ScannedInv => OnlyRequestsAreReported
  BY ReportedIsReal
<1> QED
  BY <1>1, ScannedInvHolds, PTL

\* The invariant implies that a request of a scanned file has its finding
\* (_check_call).
LEMMA RequestIsReported == ScannedInv => RequestsKeepTheirSeverity
<1> SUFFICES ASSUME ScannedInv, NEW k \in DOMAIN sources, k < position, sources[k].language = "python",
                    NEW i \in DOMAIN sources[k].calls,
                    sources[k].calls[i].of = "name",
                    Noted(sources[k], sources[k].calls[i]),
                    ~Unresolved(sources[k], sources[k].calls[i].callee),
                    IsRequest(sources[k], sources[k].calls[i]),
                    FreeUrl(sources[k], Denotes(sources[k], sources[k].calls[i].callee), sources[k].calls[i]),
                    \A b \in BindingsOf(sources[k], Outer(sources[k].calls[i].callee)) : ~Unresolved(sources[k], b.made)
             PROVE  SsrfFinding(k, i, Severity(sources[k], Denotes(sources[k], sources[k].calls[i].callee),
                                               sources[k].calls[i])) \in injections
  BY DEF RequestsKeepTheirSeverity, Severity
<1> DEFINE f == sources[k]
           c == f.calls[i]
           name == Denotes(f, c.callee)
<1>1. f \in PySource /\ PlainSource(f) /\ c.callee \in Dotted
  BY SourceTyped DEF ScannedInv
<1>2. CheckCalls(k, f) \subseteq injections
  BY DEF ScannedInv, FindingsOf
<1>3. CASE name \in SsrfSinks
  <2>1. CanonicalHttpName(f, c.callee) = name
    BY <1>1, <1>3, CompleteName DEF Surface
  <2> QED
    BY <1>2, <1>3, <2>1 DEF CheckCalls, IsSsrf
<1>4. CASE Len(c.callee) > 1 /\ Final(c.callee) \in InstanceSinks /\ IsClient(f, Outer(c.callee))
  <2>1. c.callee \in Seq(Ids) /\ c.callee # <<>>
    BY <1>1, <1>4, Lengths
  <2>2. \A j \in f.imports : ImportedAs(j) # c.callee[1]
    BY <1>1, <1>4, <2>1, ReceiverHead, HeadOfOuter DEF IsClient
  <2>3. name = c.callee
    BY <1>1, <2>2, DenotesItself
  <2>4. CanonicalHttpName(f, c.callee) = c.callee
    <3>1. Symbol(f, c.callee) = {}
      BY <1>1, <2>2, Listed, Lengths
    <3>2. Module(f, c.callee) = {}
      BY <2>2, Listed
    <3> QED
      BY <3>1, <3>2, CanonicalCases
  <2>5. Outer(c.callee) \in HttpClientReceivers(f)
    BY <1>1, <1>4, ClientIsReceiver
  <2> QED
    BY <1>2, <1>4, <2>3, <2>4, <2>5 DEF CheckCalls, IsSsrf
<1> QED
  BY <1>3, <1>4 DEF IsRequest

\* Every request of a varying URL that the code can resolve is reported, with the
\* severity of the verb it denotes and not of the name in the text (_check_call).
THEOREM RequestsAreReported ==
  ASSUME NEW CONSTANT repos, \A files \in repos : WellFormedSources(files)
  PROVE  InjectionSpec(repos) => []RequestsKeepTheirSeverity
<1>1. ScannedInv => RequestsKeepTheirSeverity
  BY RequestIsReported
<1> QED
  BY <1>1, ScannedInvHolds, PTL

----------------------------------------------------------------------------
(* Parameter injection, JS: scopes found by lines are those of the braces.  *)

Token == [token : JsToken, line : Nat]

\* What the tokens of a text are.
LEMMA TextShape ==
  ASSUME NEW text \in Seq(Token)
  PROVE  /\ Len(text) \in Nat /\ DOMAIN text = 1..Len(text)
         /\ \A p \in 1..Len(text) : text[p].token \in JsToken /\ text[p].line \in Nat
<1>1. Len(text) \in Nat /\ DOMAIN text = 1..Len(text)
  BY LenProperties
<1>2. \A p \in 1..Len(text) : text[p] \in Token
  BY ElementOfSeq, Zenon
<1> QED
  BY <1>1, <1>2 DEF Token

\* Braces opened less those closed from o to q.
Net(text, o, q) == Count(text, "open", o, q) - Count(text, "close", o, q)

Delta(t) == IF t = "open" THEN 1 ELSE IF t = "close" THEN -1 ELSE 0

\* Tokens of one kind are counted by a number.
LEMMA CountTyped ==
  ASSUME NEW text, NEW token, NEW o \in Int, NEW q \in Int
  PROVE  /\ IsFiniteSet({p \in o..q : text[p].token = token})
         /\ Count(text, token, o, q) \in Nat
<1>1. IsFiniteSet({p \in o..q : text[p].token = token})
  <2>1. {p \in o..q : text[p].token = token} \in SUBSET (o..q)
    OBVIOUS
  <2> QED
    BY <2>1, FS_Interval, FS_Subset
<1> QED
  BY <1>1, FS_CardinalityType DEF Count

\* Counts of two adjoining stretches add up.
LEMMA CountSplits ==
  ASSUME NEW text, NEW token, NEW o \in Int, NEW m \in Int, NEW q \in Int, o <= m, m <= q + 1
  PROVE  Count(text, token, o, q) = Count(text, token, o, m - 1) + Count(text, token, m, q)
<1> DEFINE A == {p \in o..(m - 1) : text[p].token = token}
<1> DEFINE B == {p \in m..q : text[p].token = token}
<1> DEFINE C == {p \in o..q : text[p].token = token}
<1>1. IsFiniteSet(A) /\ IsFiniteSet(B)
  <2>1. m - 1 \in Int
    OBVIOUS
  <2>2. A \in SUBSET (o..(m - 1)) /\ B \in SUBSET (m..q)
    OBVIOUS
  <2>3. IsFiniteSet(o..(m - 1)) /\ IsFiniteSet(m..q)
    BY <2>1, FS_Interval
  <2> HIDE DEF A, B
  <2> QED
    BY <2>2, <2>3, FS_Subset
<1>2. C = A \cup B
  OBVIOUS
<1>3. A \cap B = {}
  OBVIOUS
<1>4. Cardinality(A \cup B) = Cardinality(A) + Cardinality(B) - Cardinality(A \cap B)
  <2> HIDE DEF A, B
  <2> QED
    BY <1>1, FS_Union
<1>5. Cardinality(A \cap B) = 0
  BY <1>3, FS_EmptySet
<1>6. Cardinality(A) \in Nat /\ Cardinality(B) \in Nat
  <2> HIDE DEF A, B
  <2> QED
    BY <1>1, FS_CardinalityType
<1>7. /\ Count(text, token, o, q) = Cardinality(C)
      /\ Count(text, token, o, m - 1) = Cardinality(A)
      /\ Count(text, token, m, q) = Cardinality(B)
  BY DEF Count
<1> HIDE DEF A, B, C
<1> QED
  BY <1>2, <1>4, <1>5, <1>6, <1>7

\* Counting in a single place.
LEMMA CountOne ==
  ASSUME NEW text, NEW token, NEW q \in Int
  PROVE  Count(text, token, q, q) = IF text[q].token = token THEN 1 ELSE 0
<1> DEFINE B == {p \in q..q : text[p].token = token}
<1>1. CASE text[q].token = token
  <2>1. B = {} \cup {q}
    BY <1>1
  <2>2. Cardinality({} \cup {q}) = 1
    BY FS_EmptySet, FS_AddElement
  <2> QED
    BY <1>1, <2>1, <2>2 DEF Count
<1>2. CASE text[q].token # token
  <2>1. B = {}
    BY <1>2
  <2> QED
    BY <1>2, <2>1, FS_EmptySet DEF Count
<1> QED
  BY <1>1, <1>2

\* Counting from left to right, and in two parts.
LEMMA NetCounts ==
  ASSUME NEW text
  PROVE  /\ \A o, q \in Int : Net(text, o, q) \in Int
         /\ \A o \in Int : Net(text, o, o) = Delta(text[o].token)
         /\ \A o \in Int : Net(text, o, o - 1) = 0
         /\ \A o, m, q \in Int : o <= m /\ m <= q + 1 =>
              Net(text, o, q) = Net(text, o, m - 1) + Net(text, m, q)
         /\ \A o, q \in Int : o <= q => Net(text, o, q) = Net(text, o, q - 1) + Delta(text[q].token)
<1>1. \A o, q \in Int : Net(text, o, q) \in Int
  <2> TAKE o, q \in Int
  <2>1. Count(text, "open", o, q) \in Nat /\ Count(text, "close", o, q) \in Nat
    BY CountTyped
  <2> QED
    BY <2>1 DEF Net
<1>2. \A o \in Int : Net(text, o, o) = Delta(text[o].token)
  BY CountOne DEF Net, Delta
<1>3. ASSUME NEW o \in Int, NEW m \in Int, NEW q \in Int, o <= m, m <= q + 1
      PROVE  Net(text, o, q) = Net(text, o, m - 1) + Net(text, m, q)
  <2>1. /\ Count(text, "open", o, q) = Count(text, "open", o, m - 1) + Count(text, "open", m, q)
        /\ Count(text, "close", o, q) = Count(text, "close", o, m - 1) + Count(text, "close", m, q)
    BY <1>3, CountSplits
  <2>2. m - 1 \in Int
    OBVIOUS
  <2>3. \A t : /\ Count(text, t, o, m - 1) \in Nat /\ Count(text, t, m, q) \in Nat
    BY <2>2, CountTyped
  <2> QED
    BY <2>1, <2>3 DEF Net
<1>4. ASSUME NEW o \in Int
      PROVE  Net(text, o, o - 1) = 0
  <2>1. \A t : {p \in o..(o - 1) : text[p].token = t} = {}
    OBVIOUS
  <2>2. \A t : Count(text, t, o, o - 1) = 0
    BY <2>1, FS_EmptySet DEF Count
  <2> QED
    BY <2>2 DEF Net
<1>5. ASSUME NEW o \in Int, NEW q \in Int, o <= q
      PROVE  Net(text, o, q) = Net(text, o, q - 1) + Delta(text[q].token)
  <2>1. q <= q + 1
    OBVIOUS
  <2> QED
    BY <1>2, <1>3, <1>5, <2>1
<1> QED
  BY <1>1, <1>2, <1>3, <1>4, <1>5, Zenon

\* The brace at o is open after q; it is closed at c.
OpenAfter(text, o, q) == \A r \in o..q : Net(text, o, r) > 0
Matching(text, o, c) == o < c /\ Net(text, o, c) = 0 /\ OpenAfter(text, o, c - 1)

\* The braces around p are those that are open in front of it.
LEMMA EnclosingIsOpen ==
  ASSUME NEW text, NEW p \in Int
  PROVE  \A o : o \in Enclosing(text, p) <=> o \in 1..(p - 1) /\ OpenAfter(text, o, p - 1)
<1> SUFFICES ASSUME NEW o \in 1..(p - 1)
             PROVE  (\A q \in o..(p - 1) : Count(text, "open", o, q) > Count(text, "close", o, q))
                    <=> OpenAfter(text, o, p - 1)
  BY DEF Enclosing
<1>1. \A q \in o..(p - 1) : Net(text, o, q) > 0 <=> Count(text, "open", o, q) > Count(text, "close", o, q)
  <2> TAKE q \in o..(p - 1)
  <2>1. o \in Int /\ q \in Int
    OBVIOUS
  <2>2. Count(text, "open", o, q) \in Nat /\ Count(text, "close", o, q) \in Nat
    BY <2>1, CountTyped
  <2> QED
    BY <2>2 DEF Net
<1> QED
  BY <1>1 DEF OpenAfter

\* Blocks around one place nest.
LEMMA BlocksNest ==
  ASSUME NEW text, NEW p \in Int, NEW o1 \in Int, NEW o2 \in Int, NEW c1 \in Int, NEW c2 \in Int,
         o1 < o2, o2 < p, p < c1, p < c2, Matching(text, o1, c1), Matching(text, o2, c2)
  PROVE  c2 < c1
<1> SUFFICES ASSUME c1 <= c2
             PROVE  FALSE
  OBVIOUS
<1>1. Net(text, o1, c1) = Net(text, o1, o2 - 1) + Net(text, o2, c1)
  <2>1. o1 <= o2 /\ o2 <= c1 + 1
    OBVIOUS
  <2>2. \A o, m, q \in Int : o <= m /\ m <= q + 1 =>
          Net(text, o, q) = Net(text, o, m - 1) + Net(text, m, q)
    BY NetCounts, Zenon
  <2> QED
    BY <2>1, <2>2, Zenon
<1>2. Net(text, o1, o2 - 1) > 0
  <2>1. o2 - 1 \in o1..(c1 - 1)
    OBVIOUS
  <2> QED
    BY <2>1 DEF Matching, OpenAfter
<1>3. Net(text, o2, c1) >= 0
  <2>1. CASE c1 = c2
    BY <2>1 DEF Matching
  <2>2. CASE c1 < c2
    <3>1. c1 \in o2..(c2 - 1)
      BY <2>2
    <3>2. Net(text, o2, c1) > 0
      BY <3>1 DEF Matching, OpenAfter
    <3>3. Net(text, o2, c1) \in Int
      BY NetCounts
    <3> QED
      BY <3>2, <3>3
  <2> QED
    BY <2>1, <2>2
<1>4. Net(text, o1, c1) = 0
  BY DEF Matching
<1>5. Net(text, o1, o2 - 1) \in Int /\ Net(text, o2, c1) \in Int
  <2>1. o2 - 1 \in Int
    OBVIOUS
  <2> QED
    BY <2>1, NetCounts
<1> QED
  BY <1>1, <1>2, <1>3, <1>4, <1>5

BlockState == [stack : Seq(Nat), spans : SUBSET (Nat \X Nat), stray : BOOLEAN]

\* What a token t does to the blocks b, so that they become d.
TokenEffect(b, t, d) ==
  LET n == Len(b.stack)
  IN  /\ d \in BlockState /\ n \in Nat
      /\ t.token = "open" => /\ Len(d.stack) = n + 1 /\ d.stack[n + 1] = t.line
                             /\ \A i \in 1..n : d.stack[i] = b.stack[i]
                             /\ d.spans = b.spans /\ d.stray = b.stray
      /\ t.token = "close" /\ n > 0 => /\ Len(d.stack) = n - 1
                                       /\ \A i \in 1..(n - 1) : d.stack[i] = b.stack[i]
                                       /\ d.spans = b.spans \cup {<<b.stack[n], t.line>>}
                                       /\ d.stray = b.stray
      /\ t.token = "close" /\ n = 0 => d.stack = b.stack /\ d.spans = b.spans /\ d.stray = TRUE
      /\ t.token \notin {"open", "close"} => d = b

\* AfterToken does to a state of the stack what TokenEffect says.
LEMMA TokenStep ==
  ASSUME NEW b \in BlockState, NEW t \in Token
  PROVE  TokenEffect(b, t, AfterToken(b, t))
<1> DEFINE n == Len(b.stack)
<1> DEFINE s == b.stack
<1> DEFINE d == AfterToken(b, t)
<1>1. /\ s \in Seq(Nat) /\ b.spans \in SUBSET (Nat \X Nat) /\ b.stray \in BOOLEAN
      /\ t.line \in Nat
  BY DEF BlockState, Token
<1>2. n \in Nat /\ \A i \in 1..n : s[i] \in Nat
  <2>1. n = Len(s)
    OBVIOUS
  <2> HIDE DEF s, n
  <2> QED
    BY <1>1, <2>1, LenProperties, ElementOfSeq
<1>3. /\ b = [stack |-> b.stack, spans |-> b.spans, stray |-> b.stray]
  BY DEF BlockState
<1>4. StripJsNoise(t.token) = "open" <=> t.token = "open"
  BY DEF StripJsNoise
<1>5. StripJsNoise(t.token) = "close" <=> t.token = "close"
  BY DEF StripJsNoise
<1>6. CASE t.token = "open"
  <2>1. d = [b EXCEPT !.stack = Append(s, t.line)]
    BY <1>4, <1>6 DEF AfterToken
  <2>2. /\ Append(s, t.line) \in Seq(Nat) /\ Len(Append(s, t.line)) = n + 1
        /\ \A i \in 1..n : Append(s, t.line)[i] = s[i]
        /\ Append(s, t.line)[n + 1] = t.line
    <3>1. n = Len(s)
      OBVIOUS
    <3> HIDE DEF s, n
    <3> QED
      BY <1>1, <3>1, AppendProperties
  <2>3. d = [stack |-> Append(s, t.line), spans |-> b.spans, stray |-> b.stray]
    BY <2>1, <1>3
  <2> HIDE DEF d, s
  <2>4. d \in BlockState
    BY <2>2, <2>3, <1>1 DEF BlockState
  <2>5. d.stack = Append(s, t.line) /\ d.spans = b.spans /\ d.stray = b.stray
    BY <2>3
  <2> QED
    BY <1>2, <1>6, <2>2, <2>4, <2>5 DEF TokenEffect, d, s
<1>7. CASE t.token = "close" /\ n > 0
  <2> DEFINE e == SubSeq(s, 1, n - 1)
  <2>1. d = [b EXCEPT !.stack = e, !.spans = b.spans \cup {<<s[n], t.line>>}]
    BY <1>4, <1>5, <1>7 DEF AfterToken
  <2>2. e \in Seq(Nat) /\ Len(e) = n - 1 /\ \A i \in 1..(n - 1) : e[i] = s[i]
    <3>1. 1 \in 1..(n + 1) /\ n - 1 \in 0..n
      BY <1>2, <1>7
    <3>2. n = Len(s)
      OBVIOUS
    <3> HIDE DEF s, n
    <3> QED
      BY <1>1, <1>2, <1>7, <3>1, <3>2, SubSeqProperties
  <2>3. d = [stack |-> e, spans |-> b.spans \cup {<<s[n], t.line>>}, stray |-> b.stray]
    BY <2>1, <1>3
  <2>4. <<s[n], t.line>> \in Nat \X Nat
    BY <1>1, <1>2, <1>7
  <2> HIDE DEF d, s, e
  <2>5. d \in BlockState
    BY <2>2, <2>3, <2>4, <1>1 DEF BlockState
  <2>6. d.stack = e /\ d.spans = b.spans \cup {<<s[n], t.line>>} /\ d.stray = b.stray
    BY <2>3
  <2> QED
    BY <1>2, <1>7, <2>2, <2>5, <2>6 DEF TokenEffect, d, s
<1>8. CASE t.token = "close" /\ n = 0
  <2>1. d = [b EXCEPT !.stray = TRUE]
    BY <1>4, <1>5, <1>8 DEF AfterToken
  <2>2. d = [stack |-> b.stack, spans |-> b.spans, stray |-> TRUE]
    BY <2>1, <1>3
  <2> HIDE DEF d
  <2>3. d \in BlockState
    BY <2>2, <1>1 DEF BlockState
  <2>4. d.stack = b.stack /\ d.spans = b.spans /\ d.stray = TRUE
    BY <2>2
  <2> QED
    BY <1>2, <1>8, <2>3, <2>4 DEF TokenEffect, d
<1>9. CASE t.token \notin {"open", "close"}
  <2>1. d = b
    BY <1>4, <1>5, <1>9 DEF AfterToken
  <2> HIDE DEF d
  <2> QED
    BY <1>2, <1>9, <2>1 DEF TokenEffect, d
<1>10. n = 0 \/ n > 0
  BY <1>2
<1> QED
  BY <1>6, <1>7, <1>8, <1>9, <1>10

\* The blocks are those after the last token.
LEMMA BlocksUnfold ==
  ASSUME NEW text \in Seq(Token)
  PROVE  \E after : /\ BraceBlocks(text) = after[Len(text)]
                    /\ after[0] = NoBlocks
                    /\ \A k \in 0..Len(text) : after[k] \in BlockState
                    /\ \A k \in 1..Len(text) : after[k] = AfterToken(after[k - 1], text[k])
<1> DEFINE n == Len(text)
<1> DEFINE S == BlockState
<1> DEFINE step == [k \in 1..n |-> [b \in S |-> AfterToken(b, text[k])]]
<1> DEFINE rec(f) == [p \in 0..n |-> IF p = 0 THEN NoBlocks ELSE AfterToken(f[p - 1], text[p])]
<1>0. n \in Nat /\ \A k \in 1..n : text[k] \in Token
  BY LenProperties, ElementOfSeq
<1>1. step \in [1..n -> [S -> S]]
  <2>1. ASSUME NEW k \in 1..n, NEW b \in S PROVE AfterToken(b, text[k]) \in S
    <3>1. text[k] \in Token
      BY <1>0
    <3> QED
      BY <3>1, TokenStep DEF TokenEffect
  <2> HIDE DEF n, S
  <2> QED
    BY <2>1
<1>2. PICK f \in [0..n -> S] : f[0] = NoBlocks /\ \A k \in 1..n : f[k] = step[k][f[k - 1]]
  <2>1. NoBlocks \in S
    BY DEF NoBlocks, BlockState
  <2>2. \E f \in [0..n -> S] : Recursion(f, n, NoBlocks, step)
    <3> HIDE DEF S, step, n
    <3> QED
      BY <1>0, <1>1, <2>1, SegmentRecursion, Zenon
  <2> HIDE DEF S, step, n
  <2> QED
    BY <2>2 DEF Recursion
<1>3. \A k \in 1..n : f[k] = AfterToken(f[k - 1], text[k])
  <2> TAKE k \in 1..n
  <2>1. k - 1 \in 0..n
    BY <1>0
  <2> HIDE DEF n, S
  <2>2. f[k - 1] \in S
    BY <1>2, <2>1
  <2> QED
    BY <1>2, <2>2
<1> DEFINE after == CHOOSE h : h = rec(h)
<1>4. f = rec(f)
  <2>1. ASSUME NEW p \in 0..n
        PROVE  f[p] = IF p = 0 THEN NoBlocks ELSE AfterToken(f[p - 1], text[p])
    <3> HIDE DEF n, S, step
    <3>1. CASE p = 0
      BY <1>2, <3>1
    <3>2. CASE p # 0
      <4>1. p \in 1..n
        BY <3>2, <1>0
      <4> QED
        BY <1>3, <3>2, <4>1, Zenon
    <3> QED
      BY <3>1, <3>2
  <2> HIDE DEF n, S, step
  <2>2. f = [p \in 0..n |-> IF p = 0 THEN NoBlocks ELSE AfterToken(f[p - 1], text[p])]
    BY <2>1, Zenon
  <2> QED
    BY <2>2, Zenon
<1>5. after = rec(after)
  <2> HIDE DEF rec
  <2> QED
    BY <1>4, Zenon
<1>6. BraceBlocks(text) = after[n]
  BY DEF BraceBlocks
<1> HIDE DEF after
<1>7. \A p \in 0..n : after[p] = IF p = 0 THEN NoBlocks ELSE AfterToken(after[p - 1], text[p])
  <2> HIDE DEF n
  <2> QED
    BY <1>5, Zenon
<1>8. after[0] = NoBlocks
  <2>1. 0 \in 0..n
    BY <1>0
  <2> HIDE DEF n
  <2> QED
    BY <1>7, <2>1, Zenon
<1>9. \A k \in 1..n : after[k] = AfterToken(after[k - 1], text[k])
  <2> TAKE k \in 1..n
  <2>1. k \in 0..n /\ k # 0
    BY <1>0
  <2> HIDE DEF n
  <2> QED
    BY <1>7, <2>1, Zenon
<1> DEFINE P == {k \in 0..n : after[k] \in S}
<1>10. \A k \in 0..n : k \in P
  <2>1. 0 \in P
    <3>1. after[0] \in S
      BY <1>8 DEF NoBlocks, BlockState
    <3> HIDE DEF S
    <3> QED
      BY <1>0, <3>1
  <2>2. \A k \in 1..n : k - 1 \in P => k \in P
    <3> TAKE k \in 1..n
    <3> HAVE k - 1 \in P
    <3>1. after[k - 1] \in S /\ text[k] \in Token
      BY <1>0
    <3>2. after[k] \in S
      BY <3>1, <1>9, TokenStep DEF TokenEffect
    <3> HIDE DEF S
    <3> QED
      BY <3>2, <1>0
  <2> HIDE DEF P, n
  <2> QED
    BY <1>0, <2>1, <2>2, SegmentInduction, Zenon
<1> QED
  BY <1>6, <1>8, <1>9, <1>10

\* Which braces are open after one more token, and which it closes.
LEMMA OpenStep ==
  ASSUME NEW text \in Seq(Token), NEW k \in 1..Len(text)
  PROVE  /\ \A o \in 1..(k - 1) :
              /\ OpenAfter(text, o, k) <=> /\ OpenAfter(text, o, k - 1)
                                           /\ text[k].token = "close" => Net(text, o, k - 1) # 1
              /\ Matching(text, o, k) <=> /\ OpenAfter(text, o, k - 1)
                                          /\ text[k].token = "close" /\ Net(text, o, k - 1) = 1
         /\ OpenAfter(text, k, k) <=> text[k].token = "open"
         /\ \A o \in 1..k : Net(text, o, k) = Net(text, o, k - 1) + Delta(text[k].token)
         /\ \A o \in 1..k : Net(text, o, k - 1) \in Int
<1>0. k \in Nat
  BY TextShape
<1>1. \A o \in 1..k : /\ Net(text, o, k) = Net(text, o, k - 1) + Delta(text[k].token)
                      /\ Net(text, o, k - 1) \in Int
  <2> TAKE o \in 1..k
  <2>1. o \in Int /\ k \in Int /\ k - 1 \in Int /\ o <= k
    BY <1>0
  <2> QED
    BY <2>1, NetCounts
<1>2. OpenAfter(text, k, k) <=> text[k].token = "open"
  <2>1. Net(text, k, k) = Delta(text[k].token)
    <3>1. k \in Int
      BY <1>0
    <3> QED
      BY <3>1, NetCounts
  <2>2. OpenAfter(text, k, k) <=> Net(text, k, k) > 0
    <3>1. \A r : r \in k..k <=> r = k
      BY <1>0
    <3> QED
      BY <3>1 DEF OpenAfter
  <2> QED
    BY <2>1, <2>2 DEF Delta
<1>3. ASSUME NEW o \in 1..(k - 1)
      PROVE  /\ OpenAfter(text, o, k) <=> /\ OpenAfter(text, o, k - 1)
                                          /\ text[k].token = "close" => Net(text, o, k - 1) # 1
             /\ Matching(text, o, k) <=> /\ OpenAfter(text, o, k - 1)
                                         /\ text[k].token = "close" /\ Net(text, o, k - 1) = 1
  <2>1. o \in 1..k /\ o < k /\ k - 1 \in o..(k - 1)
    BY <1>0
  <2>2. OpenAfter(text, o, k) <=> OpenAfter(text, o, k - 1) /\ Net(text, o, k) > 0
    <3>1. \A r : r \in o..k <=> r \in o..(k - 1) \/ r = k
      BY <1>0
    <3> QED
      BY <3>1 DEF OpenAfter
  <2>3. Matching(text, o, k) <=> OpenAfter(text, o, k - 1) /\ Net(text, o, k) = 0
    BY <2>1 DEF Matching
  <2>4. OpenAfter(text, o, k - 1) => Net(text, o, k - 1) > 0
    BY <2>1 DEF OpenAfter
  <2>5. /\ Net(text, o, k) = Net(text, o, k - 1) + Delta(text[k].token)
        /\ Net(text, o, k - 1) \in Int
    BY <1>1, <2>1
  <2>6. CASE text[k].token = "open"
    <3>1. Net(text, o, k) = Net(text, o, k - 1) + 1
      BY <2>5, <2>6 DEF Delta
    <3>2. text[k].token # "close"
      BY <2>6
    <3> QED
      BY <2>2, <2>3, <2>4, <2>5, <3>1, <3>2
  <2>7. CASE text[k].token = "close"
    <3>1. Net(text, o, k) = Net(text, o, k - 1) - 1
      BY <2>5, <2>7 DEF Delta
    <3> QED
      BY <2>2, <2>3, <2>4, <2>5, <2>7, <3>1
  <2>8. CASE text[k].token \notin {"open", "close"}
    <3>1. Net(text, o, k) = Net(text, o, k - 1)
      BY <2>5, <2>8 DEF Delta
    <3>2. text[k].token # "close"
      BY <2>8
    <3> QED
      BY <2>2, <2>3, <2>4, <2>5, <3>1, <3>2
  <2> QED
    BY <2>6, <2>7, <2>8
<1> QED
  BY <1>1, <1>2, <1>3

\* The stack holds the open braces in their order.
Stacked(text, b, p, w) ==
  /\ w \in [1..Len(b.stack) -> 1..p]
  /\ \A i \in 1..Len(b.stack) :
       /\ b.stack[i] = text[w[i]].line
       /\ OpenAfter(text, w[i], p)
       /\ Net(text, w[i], p) = Len(b.stack) - i + 1
  /\ \A o \in 1..p : OpenAfter(text, o, p) => \E i \in 1..Len(b.stack) : w[i] = o

\* The spans are those of the matching braces.
SpansTo(text, b, p) ==
  \A s : s \in b.spans <=> \E c \in 1..p : \E o \in 1..(c - 1) :
           Matching(text, o, c) /\ s = <<text[o].line, text[c].line>>

\* Nothing is stray if no brace was closed too many.
NoStray(text, b, p) ==
  /\ b.stray = FALSE <=> \A q \in 1..p : Net(text, 1, q) >= 0
  /\ b.stray = FALSE => Net(text, 1, p) = Len(b.stack)

\* One more token leaves on the stack the lines of the braces that are open.
LEMMA StackStep ==
  ASSUME NEW text \in Seq(Token), NEW k \in 1..Len(text), NEW b \in BlockState,
         NEW w, Stacked(text, b, k - 1, w)
  PROVE  \E v : Stacked(text, AfterToken(b, text[k]), k, v)
<1> DEFINE d == AfterToken(b, text[k])
<1> DEFINE n == Len(b.stack)
<1> DEFINE t == text[k].token
<1>0. k \in Nat /\ k > 0 /\ text[k] \in Token
  BY TextShape, ElementOfSeq
<1>1. /\ d \in BlockState /\ n \in Nat
      /\ t = "open" => /\ Len(d.stack) = n + 1 /\ d.stack[n + 1] = text[k].line
                    /\ \A i \in 1..n : d.stack[i] = b.stack[i]
      /\ t = "close" /\ n > 0 => /\ Len(d.stack) = n - 1
                             /\ \A i \in 1..(n - 1) : d.stack[i] = b.stack[i]
      /\ t = "close" /\ n = 0 => d.stack = b.stack
      /\ t \notin {"open", "close"} => d = b
  <2>1. TokenEffect(b, text[k], d)
    BY <1>0, TokenStep
  <2> HIDE DEF d
  <2> QED
    BY <2>1 DEF TokenEffect
<1>2. /\ w \in [1..n -> 1..(k - 1)]
      /\ \A i \in 1..n : /\ b.stack[i] = text[w[i]].line
                         /\ OpenAfter(text, w[i], k - 1)
                         /\ Net(text, w[i], k - 1) = n - i + 1
      /\ \A o \in 1..(k - 1) : OpenAfter(text, o, k - 1) => \E i \in 1..n : w[i] = o
  BY DEF Stacked
<1>3. /\ \A o \in 1..(k - 1) :
           OpenAfter(text, o, k) <=> OpenAfter(text, o, k - 1) /\ (t = "close" => Net(text, o, k - 1) # 1)
      /\ OpenAfter(text, k, k) <=> t = "open"
      /\ \A o \in 1..k : Net(text, o, k) = Net(text, o, k - 1) + Delta(t)
      /\ \A o \in 1..k : Net(text, o, k - 1) \in Int
  BY OpenStep
<1>4. \A i \in 1..n : w[i] \in 1..(k - 1) /\ w[i] \in 1..k
  BY <1>0, <1>2
<1>5. \A o \in 1..k : o = k \/ o \in 1..(k - 1)
  BY <1>0
<1> HIDE DEF d, n, t
<1>6. CASE t = "open"
  <2> DEFINE v == [i \in 1..(n + 1) |-> IF i = n + 1 THEN k ELSE w[i]]
  <2>1. \A i \in 1..(n + 1) : i = n + 1 \/ i \in 1..n
    BY <1>1
  <2>2. /\ n + 1 \in 1..(n + 1) /\ \A i \in 1..n : i \in 1..(n + 1) /\ i # n + 1
    BY <1>1
  <2>3. v[n + 1] = k /\ \A i \in 1..n : v[i] = w[i]
    BY <2>2
  <2>4. v \in [1..(n + 1) -> 1..k]
    BY <2>1, <2>3, <1>0, <1>4
  <2> HIDE DEF v
  <2>5. ASSUME NEW i \in 1..n
        PROVE  /\ d.stack[i] = text[v[i]].line /\ OpenAfter(text, v[i], k)
               /\ Net(text, v[i], k) = (n + 1) - i + 1
    <3>1. d.stack[i] = text[v[i]].line
      BY <1>1, <1>2, <1>6, <2>3
    <3>2. OpenAfter(text, v[i], k)
      BY <1>2, <1>3, <1>4, <1>6, <2>3
    <3>3. Net(text, w[i], k) = (n - i + 1) + 1
      BY <1>2, <1>3, <1>4, <1>6 DEF Delta
    <3> QED
      BY <3>1, <3>2, <3>3, <2>3, <1>1
  <2>6. d.stack[n + 1] = text[v[n + 1]].line /\ OpenAfter(text, v[n + 1], k)
    BY <1>1, <1>3, <1>6, <2>3
  <2>7. Net(text, v[n + 1], k) = (n + 1) - (n + 1) + 1
    <3>1. Net(text, k, k) = Delta(t)
      BY <1>0, NetCounts DEF t
    <3> QED
      BY <3>1, <1>1, <1>6, <2>3 DEF Delta
  <2>8. ASSUME NEW o \in 1..k, OpenAfter(text, o, k)
        PROVE  \E i \in 1..(n + 1) : v[i] = o
    <3>1. CASE o = k
      BY <3>1, <2>2, <2>3
    <3>2. CASE o # k
      <4>1. PICK i \in 1..n : w[i] = o
        BY <3>2, <2>8, <1>2, <1>3, <1>5
      <4> QED
        BY <4>1, <2>2, <2>3
    <3> QED
      BY <3>1, <3>2
  <2>9. Len(d.stack) = n + 1
    BY <1>1, <1>6
  <2>10. Stacked(text, d, k, v)
    BY <2>1, <2>4, <2>5, <2>6, <2>7, <2>8, <2>9 DEF Stacked
  <2> QED
    BY <2>10 DEF d
<1>7. CASE t = "close" /\ n > 0
  <2> DEFINE v == [i \in 1..(n - 1) |-> w[i]]
  <2>1. \A i \in 1..(n - 1) : i \in 1..n /\ v[i] = w[i]
    BY <1>1
  <2>2. v \in [1..(n - 1) -> 1..k]
    BY <2>1, <1>4
  <2> HIDE DEF v
  <2>3. ASSUME NEW i \in 1..(n - 1)
        PROVE  /\ d.stack[i] = text[v[i]].line /\ OpenAfter(text, v[i], k)
               /\ Net(text, v[i], k) = (n - 1) - i + 1
    <3>1. d.stack[i] = text[v[i]].line
      BY <1>1, <1>2, <1>7, <2>1
    <3>2. OpenAfter(text, w[i], k - 1) /\ Net(text, w[i], k - 1) = n - i + 1
      BY <1>2, <2>1
    <3>3. n - i + 1 # 1
      BY <1>1
    <3>4. OpenAfter(text, v[i], k)
      BY <1>3, <1>4, <2>1, <3>2, <3>3
    <3>5. Net(text, w[i], k) = (n - i + 1) + -1
      BY <1>3, <1>4, <1>7, <2>1, <3>2 DEF Delta
    <3> QED
      BY <3>1, <3>4, <3>5, <2>1, <1>1
  <2>4. ASSUME NEW o \in 1..k, OpenAfter(text, o, k)
        PROVE  \E i \in 1..(n - 1) : v[i] = o
    <3>1. o # k
      BY <2>4, <1>3, <1>7
    <3>2. o \in 1..(k - 1)
      BY <3>1, <1>5
    <3>3. OpenAfter(text, o, k - 1) /\ Net(text, o, k - 1) # 1
      BY <1>3, <1>7, <2>4, <3>2
    <3>4. PICK i \in 1..n : w[i] = o
      BY <1>2, <3>2, <3>3
    <3>5. n - i + 1 # 1
      BY <1>2, <3>3, <3>4
    <3>6. i \in 1..(n - 1)
      BY <1>1, <3>5
    <3> QED
      BY <2>1, <3>4, <3>6
  <2>5. Len(d.stack) = n - 1
    BY <1>1, <1>7
  <2>6. Stacked(text, d, k, v)
    BY <2>2, <2>3, <2>4, <2>5 DEF Stacked
  <2> QED
    BY <2>6 DEF d
<1>8. CASE (t = "close" /\ n = 0) \/ t \notin {"open", "close"}
  <2>1. d.stack = b.stack /\ Len(d.stack) = n
    BY <1>1, <1>8 DEF n
  <2>2. w \in [1..n -> 1..k]
    BY <1>2, <1>4
  <2>3. ASSUME NEW i \in 1..n
        PROVE  /\ d.stack[i] = text[w[i]].line /\ OpenAfter(text, w[i], k)
               /\ Net(text, w[i], k) = n - i + 1
    <3>1. t \notin {"open", "close"}
      BY <1>1, <1>8
    <3>2. Net(text, w[i], k) = Net(text, w[i], k - 1)
      <4>1. Delta(t) = 0
        BY <3>1 DEF Delta
      <4>2. Net(text, w[i], k - 1) \in Int
        BY <1>3, <1>4
      <4> QED
        BY <1>3, <1>4, <4>1, <4>2
    <3> QED
      BY <1>2, <1>3, <1>4, <2>1, <3>1, <3>2
  <2>4. ASSUME NEW o \in 1..k, OpenAfter(text, o, k)
        PROVE  \E i \in 1..n : w[i] = o
    <3>1. o # k
      BY <2>4, <1>3, <1>8
    <3> QED
      BY <2>4, <3>1, <1>2, <1>3, <1>5
  <2>5. Stacked(text, d, k, w)
    BY <2>1, <2>2, <2>3, <2>4 DEF Stacked
  <2> QED
    BY <2>5 DEF d
<1> QED
  BY <1>1, <1>6, <1>7, <1>8

\* One more token leaves as spans the lines of the braces that match.
LEMMA SpansStep ==
  ASSUME NEW text \in Seq(Token), NEW k \in 1..Len(text), NEW b \in BlockState,
         NEW w, Stacked(text, b, k - 1, w), SpansTo(text, b, k - 1)
  PROVE  SpansTo(text, AfterToken(b, text[k]), k)
<1> DEFINE d == AfterToken(b, text[k])
<1> DEFINE n == Len(b.stack)
<1> DEFINE t == text[k].token
<1>0. k \in Nat /\ k > 0 /\ text[k] \in Token
  BY TextShape, ElementOfSeq
<1>1. /\ n \in Nat
      /\ t = "open" => d.spans = b.spans
      /\ t = "close" /\ n > 0 => d.spans = b.spans \cup {<<b.stack[n], text[k].line>>}
      /\ t = "close" /\ n = 0 => d.spans = b.spans
      /\ t \notin {"open", "close"} => d = b
  <2>1. TokenEffect(b, text[k], d)
    BY <1>0, TokenStep
  <2> HIDE DEF d
  <2> QED
    BY <2>1 DEF TokenEffect
<1>2. /\ w \in [1..n -> 1..(k - 1)]
      /\ \A i \in 1..n : /\ b.stack[i] = text[w[i]].line
                         /\ OpenAfter(text, w[i], k - 1)
                         /\ Net(text, w[i], k - 1) = n - i + 1
      /\ \A o \in 1..(k - 1) : OpenAfter(text, o, k - 1) => \E i \in 1..n : w[i] = o
  BY DEF Stacked
<1>3. \A o \in 1..(k - 1) : Matching(text, o, k) <=> /\ OpenAfter(text, o, k - 1)
                                                     /\ t = "close" /\ Net(text, o, k - 1) = 1
  BY OpenStep
<1>4. \A c \in 1..k : c = k \/ c \in 1..(k - 1)
  BY <1>0
<1>5. \A c \in 1..(k - 1) : c \in 1..k
  BY <1>0
<1> DEFINE Span(o, c) == <<text[o].line, text[c].line>>
<1> DEFINE New(s) == \E o \in 1..(k - 1) : Matching(text, o, k) /\ s = Span(o, k)
<1>6. \A s : (\E c \in 1..k : \E o \in 1..(c - 1) : Matching(text, o, c) /\ s = Span(o, c))
             <=> s \in b.spans \/ New(s)
  <2> TAKE s
  <2>1. s \in b.spans <=> \E c \in 1..(k - 1) : \E o \in 1..(c - 1) : Matching(text, o, c) /\ s = Span(o, c)
    BY DEF SpansTo
  <2>2. k \in 1..k
    BY <1>0
  <2> QED
    BY <1>4, <1>5, <2>1, <2>2, Zenon
<1> HIDE DEF d, n, t
<1>7. \A s : s \in d.spans <=> s \in b.spans \/ New(s)
  <2>1. CASE t = "close" /\ n > 0
    <3>1. n \in 1..n
      BY <1>1, <2>1
    <3>2. w[n] \in 1..(k - 1) /\ Matching(text, w[n], k) /\ b.stack[n] = text[w[n]].line
      <4>1. w[n] \in 1..(k - 1) /\ OpenAfter(text, w[n], k - 1) /\ b.stack[n] = text[w[n]].line
        BY <1>2, <3>1
      <4>2. Net(text, w[n], k - 1) = 1
        <5>1. Net(text, w[n], k - 1) = n - n + 1
          BY <1>2, <3>1
        <5> QED
          BY <5>1, <1>1
      <4> QED
        BY <4>1, <4>2, <1>3, <2>1
    <3>3. \A o \in 1..(k - 1) : Matching(text, o, k) => o = w[n]
      <4> SUFFICES ASSUME NEW o \in 1..(k - 1), Matching(text, o, k)
                   PROVE  o = w[n]
        OBVIOUS
      <4>1. OpenAfter(text, o, k - 1) /\ Net(text, o, k - 1) = 1
        BY <1>3
      <4>2. PICK i \in 1..n : w[i] = o
        BY <1>2, <4>1
      <4>3. n - i + 1 = 1
        BY <1>2, <4>1, <4>2
      <4>4. i = n
        BY <1>1, <4>3
      <4> QED
        BY <4>2, <4>4
    <3>4. \A s : New(s) <=> s = Span(w[n], k)
      <4> HIDE DEF Span
      <4> QED
        BY <3>2, <3>3, Zenon
    <3>5. Span(w[n], k) = <<b.stack[n], text[k].line>>
      BY <3>2
    <3>6. d.spans = b.spans \cup {<<b.stack[n], text[k].line>>}
      BY <1>1, <2>1
    <3> HIDE DEF Span, New
    <3> QED
      BY <3>4, <3>5, <3>6
  <2>2. CASE ~(t = "close" /\ n > 0)
    <3>1. d.spans = b.spans
      BY <1>1, <2>2
    <3>2. \A o \in 1..(k - 1) : ~Matching(text, o, k)
      <4> SUFFICES ASSUME NEW o \in 1..(k - 1), Matching(text, o, k)
                   PROVE  FALSE
        OBVIOUS
      <4>1. t = "close" /\ OpenAfter(text, o, k - 1)
        BY <1>3
      <4>2. PICK i \in 1..n : w[i] = o
        BY <1>2, <4>1
      <4> QED
        BY <4>1, <4>2, <2>2, <1>1
    <3> QED
      BY <3>1, <3>2
  <2> QED
    BY <2>1, <2>2
<1> QED
  BY <1>6, <1>7, Zenon DEF SpansTo, d

\* One more token leaves a note of whether a brace closed nothing.
LEMMA StrayStep ==
  ASSUME NEW text \in Seq(Token), NEW k \in 1..Len(text), NEW b \in BlockState, NoStray(text, b, k - 1)
  PROVE  NoStray(text, AfterToken(b, text[k]), k)
<1> DEFINE d == AfterToken(b, text[k])
<1> DEFINE n == Len(b.stack)
<1> DEFINE t == text[k].token
<1>0. k \in Nat /\ k > 0 /\ text[k] \in Token /\ b.stray \in BOOLEAN
  <2>1. b.stray \in BOOLEAN
    BY DEF BlockState
  <2> QED
    BY <2>1, TextShape, ElementOfSeq
<1>1. /\ n \in Nat
      /\ t = "open" => Len(d.stack) = n + 1 /\ d.stray = b.stray
      /\ t = "close" /\ n > 0 => Len(d.stack) = n - 1 /\ d.stray = b.stray
      /\ t = "close" /\ n = 0 => d.stack = b.stack /\ d.stray = TRUE
      /\ t \notin {"open", "close"} => d = b
  <2>1. TokenEffect(b, text[k], d)
    BY <1>0, TokenStep
  <2> HIDE DEF d
  <2> QED
    BY <2>1 DEF TokenEffect
<1>2. /\ Net(text, 1, k) = Net(text, 1, k - 1) + Delta(t)
      /\ Net(text, 1, k - 1) \in Int
  <2>1. 1 \in 1..k
    BY <1>0
  <2> QED
    BY <2>1, OpenStep
<1>3. (\A q \in 1..k : Net(text, 1, q) >= 0) <=> (\A q \in 1..(k - 1) : Net(text, 1, q) >= 0) /\ Net(text, 1, k) >= 0
  <2>1. \A q : q \in 1..k <=> q \in 1..(k - 1) \/ q = k
    BY <1>0
  <2> QED
    BY <2>1
<1>4. /\ b.stray = FALSE <=> \A q \in 1..(k - 1) : Net(text, 1, q) >= 0
      /\ b.stray = FALSE => Net(text, 1, k - 1) = n
  BY DEF NoStray
<1> HIDE DEF d, n, t
<1>5. /\ d.stray = FALSE <=> b.stray = FALSE /\ Net(text, 1, k) >= 0
      /\ d.stray = FALSE => Net(text, 1, k) = Len(d.stack)
  <2>1. CASE t = "open"
    <3>1. Delta(t) = 1 /\ d.stray = b.stray /\ Len(d.stack) = n + 1
      BY <1>1, <2>1 DEF Delta
    <3> QED
      BY <3>1, <1>1, <1>2, <1>4
  <2>2. CASE t = "close" /\ n > 0
    <3>1. Delta(t) = -1 /\ d.stray = b.stray /\ Len(d.stack) = n - 1
      BY <1>1, <2>2 DEF Delta
    <3> QED
      BY <3>1, <1>1, <1>2, <1>4, <2>2
  <2>3. CASE t = "close" /\ n = 0
    <3>1. Delta(t) = -1 /\ d.stray = TRUE
      BY <1>1, <2>3 DEF Delta
    <3> QED
      BY <3>1, <1>1, <1>2, <1>4, <2>3
  <2>4. CASE t \notin {"open", "close"}
    <3>1. Delta(t) = 0 /\ d.stray = b.stray /\ Len(d.stack) = n
      BY <1>1, <2>4 DEF Delta, n
    <3> QED
      BY <3>1, <1>1, <1>2, <1>4
  <2>5. n = 0 \/ n > 0
    BY <1>1
  <2> QED
    BY <2>1, <2>2, <2>3, <2>4, <2>5
<1> QED
  BY <1>3, <1>4, <1>5, Zenon DEF NoStray, d

\* The blocks that the code finds: a span for each pair of matching braces, and
\* nothing left over if and only if the braces balance.
LEMMA BlocksFound ==
  ASSUME NEW text \in Seq(Token)
  PROVE  LET b == BraceBlocks(text)
         IN  /\ b \in BlockState /\ SpansTo(text, b, Len(text)) /\ NoStray(text, b, Len(text))
             /\ \E w : Stacked(text, b, Len(text), w)
<1> DEFINE n == Len(text)
<1>0. n \in Nat
  BY LenProperties
<1>1. PICK after : /\ BraceBlocks(text) = after[n]
                   /\ after[0] = NoBlocks
                   /\ \A k \in 0..n : after[k] \in BlockState
                   /\ \A k \in 1..n : after[k] = AfterToken(after[k - 1], text[k])
  BY BlocksUnfold, Zenon
<1> DEFINE Good(k) == /\ SpansTo(text, after[k], k) /\ NoStray(text, after[k], k)
                      /\ \E w : Stacked(text, after[k], k, w)
<1> DEFINE P == {k \in 0..n : Good(k)}
<1>2. Good(0)
  <2> DEFINE b == NoBlocks
  <2>1. b.stack = <<>> /\ b.spans = {} /\ b.stray = FALSE /\ Len(b.stack) = 0
    BY DEF NoBlocks
  <2>2. SpansTo(text, b, 0)
    BY <2>1 DEF SpansTo
  <2>3. NoStray(text, b, 0)
    <3>1. Net(text, 1, 0) = 0
      <4>1. Net(text, 1, 1 - 1) = 0
        BY NetCounts
      <4>2. 1 - 1 = 0
        OBVIOUS
      <4> QED
        BY <4>1, <4>2
    <3> QED
      BY <2>1, <3>1 DEF NoStray
  <2>4. \E w : Stacked(text, b, 0, w)
    <3> DEFINE w == [i \in 1..0 |-> 0]
    <3>1. w \in [1..0 -> 1..0]
      OBVIOUS
    <3> HIDE DEF b, w
    <3>2. Stacked(text, b, 0, w)
      BY <2>1, <3>1 DEF Stacked
    <3> QED
      BY <3>2
  <2> HIDE DEF b
  <2> QED
    BY <2>2, <2>3, <2>4, <1>1 DEF b
<1>3. 0 \in P
  <2>1. 0 \in 0..n
    BY <1>0
  <2> QED
    BY <1>2, <2>1
<1>4. ASSUME NEW k \in 1..n, k - 1 \in P
      PROVE  k \in P
  <2>1. k - 1 \in 0..n /\ k \in 0..n
    BY <1>0
  <2>2. after[k - 1] \in BlockState /\ after[k] = AfterToken(after[k - 1], text[k])
    BY <1>1, <2>1
  <2>3. Good(k - 1)
    BY <1>4
  <2>4. PICK w : Stacked(text, after[k - 1], k - 1, w)
    BY <2>3
  <2>5. Good(k)
    BY <2>2, <2>3, <2>4, StackStep, SpansStep, StrayStep
  <2> HIDE DEF Good
  <2> QED
    BY <2>1, <2>5
<1>5. n \in P
  <2>1. \A k \in 0..n : k \in P
    <3> HIDE DEF P, n
    <3> QED
      BY <1>0, <1>3, <1>4, SegmentInduction, Zenon
  <2>2. n \in 0..n
    BY <1>0
  <2> HIDE DEF P, n
  <2> QED
    BY <2>1, <2>2
<1>6. after[n] \in BlockState
  <2>1. n \in 0..n
    BY <1>0
  <2> QED
    BY <1>1, <2>1
<1>7. Good(n)
  <2> HIDE DEF Good
  <2> QED
    BY <1>5
<1> QED
  BY <1>1, <1>6, <1>7

\* The code rejects a text exactly if its braces do not balance.
LEMMA AcceptsBalanced ==
  ASSUME NEW text \in Seq(Token)
  PROVE  LET b == BraceBlocks(text)
         IN  /\ (b.stack # <<>> \/ b.stray) <=> ~Balanced(text)
             /\ Balanced(text) => \A o \in 1..Len(text) : ~OpenAfter(text, o, Len(text))
<1> DEFINE b == BraceBlocks(text)
<1> DEFINE n == Len(text)
<1>0. n \in Nat /\ DOMAIN text = 1..n
  BY LenProperties
<1>1. b \in BlockState /\ NoStray(text, b, n)
  BY BlocksFound
<1>2. PICK w : Stacked(text, b, n, w)
  BY BlocksFound
<1>3. Balanced(text) <=> (\A q \in 1..n : Net(text, 1, q) >= 0) /\ Net(text, 1, n) = 0
  <2>1. ASSUME NEW q \in Int
        PROVE  /\ Count(text, "open", 1, q) >= Count(text, "close", 1, q) <=> Net(text, 1, q) >= 0
               /\ Count(text, "open", 1, q) = Count(text, "close", 1, q) <=> Net(text, 1, q) = 0
    <3>1. Count(text, "open", 1, q) \in Nat /\ Count(text, "close", 1, q) \in Nat
      <4>1. 1 \in Int
        OBVIOUS
      <4> QED
        BY <4>1, CountTyped
    <3> QED
      BY <3>1 DEF Net
  <2>2. n \in Int /\ \A q \in 1..n : q \in Int
    BY <1>0
  <2> HIDE DEF n
  <2>3. Balanced(text) <=> /\ \A q \in 1..n : Count(text, "open", 1, q) >= Count(text, "close", 1, q)
                           /\ Count(text, "open", 1, n) = Count(text, "close", 1, n)
    BY <1>0 DEF Balanced, n
  <2> QED
    BY <2>1, <2>2, <2>3
<1>4. /\ b.stack \in Seq(Nat) /\ b.stray \in BOOLEAN
  BY <1>1 DEF BlockState
<1>5. b.stack = <<>> <=> Len(b.stack) = 0
  <2> DEFINE s == b.stack
  <2>1. s \in Seq(Nat)
    BY <1>4
  <2> HIDE DEF s
  <2>2. s = <<>> <=> Len(s) = 0
    BY <2>1, EmptySeq
  <2> QED
    BY <2>2 DEF s
<1>6. /\ b.stray = FALSE <=> \A q \in 1..n : Net(text, 1, q) >= 0
      /\ b.stray = FALSE => Net(text, 1, n) = Len(b.stack)
  BY <1>1 DEF NoStray
<1> HIDE DEF b, n
<1>7. (b.stack # <<>> \/ b.stray) <=> ~Balanced(text)
  BY <1>3, <1>4, <1>5, <1>6
<1>8. Balanced(text) => \A o \in 1..n : ~OpenAfter(text, o, n)
  <2> SUFFICES ASSUME Balanced(text), NEW o \in 1..n, OpenAfter(text, o, n)
               PROVE  FALSE
    OBVIOUS
  <2>1. Len(b.stack) = 0
    BY <1>5, <1>7
  <2>2. \E i \in 1..Len(b.stack) : w[i] = o
    BY <1>2 DEF Stacked
  <2> QED
    BY <2>1, <2>2
<1> QED
  BY <1>7, <1>8 DEF b, n

\* Texts for which the lines tell what the positions tell.
Proper(text) == text \in Seq(Token) /\ Numbered(text) /\ LaidOut(text) /\ Balanced(text)
ItemsOf(text) == {p \in 1..Len(text) : text[p].token \in Items}

\* What a line of a proper text holds.
LEMMA ProperShape ==
  ASSUME NEW text, Proper(text)
  PROVE  /\ Len(text) \in Nat /\ DOMAIN text = 1..Len(text)
         /\ \A p \in 1..Len(text) : text[p].line \in 1..(HugeLine - 1) /\ text[p].line \in Nat
         /\ \A p, q \in 1..Len(text) : p <= q => text[p].line <= text[q].line
         /\ \A p \in ItemsOf(text) : /\ p \in 1..Len(text)
                                     /\ text[p].token \notin {"open", "close"}
                                     /\ \A q \in 1..Len(text) : text[q].line = text[p].line =>
                                          /\ q # p => text[q].token \notin Items
                                          /\ q < p => text[q].token # "close"
                                          /\ q > p => text[q].token # "open"
<1>1. /\ Len(text) \in Nat /\ DOMAIN text = 1..Len(text)
      /\ \A p \in 1..Len(text) : text[p].line \in Nat
  BY TextShape DEF Proper
<1>2. /\ \A p \in 1..Len(text) : text[p].line \in 1..(HugeLine - 1)
      /\ \A p, q \in 1..Len(text) : p <= q => text[p].line <= text[q].line
  BY <1>1 DEF Proper, Numbered
<1>3. ASSUME NEW p \in ItemsOf(text)
      PROVE  /\ p \in 1..Len(text)
             /\ text[p].token \notin {"open", "close"}
             /\ \A q \in 1..Len(text) : text[q].line = text[p].line =>
                  /\ q # p => text[q].token \notin Items
                  /\ q < p => text[q].token # "close"
                  /\ q > p => text[q].token # "open"
  <2>1. p \in 1..Len(text) /\ text[p].token \in Items
    BY DEF ItemsOf
  <2>2. text[p].token \notin {"open", "close"}
    BY <2>1 DEF Items
  <2>3. \A q \in 1..Len(text) : q # p /\ text[q].line = text[p].line =>
          /\ text[q].token \notin Items
          /\ q < p => text[q].token # "close"
          /\ q > p => text[q].token # "open"
    BY <1>1, <2>1 DEF Proper, LaidOut
  <2>4. text[p].token # "close" /\ text[p].token # "open"
    BY <2>2
  <2> QED
    BY <2>1, <2>2, <2>3, <2>4
<1> QED
  BY <1>1, <1>2, <1>3

\* A brace has one partner.
LEMMA MatchShape ==
  ASSUME NEW text, NEW o \in Int, NEW c \in Int, Matching(text, o, c)
  PROVE  /\ text[o].token = "open" /\ text[c].token = "close"
         /\ \A d \in Int : Matching(text, o, d) => d = c
<1>1. o <= o /\ o \in o..(c - 1) /\ o <= c /\ c - 1 \in o..(c - 1) /\ c - 1 \in Int
  BY DEF Matching
<1>2. Net(text, o, o) > 0 /\ Net(text, o, c - 1) > 0 /\ Net(text, o, c) = 0
  BY <1>1 DEF Matching, OpenAfter
<1>3. Net(text, o, o) = Delta(text[o].token)
  BY NetCounts
<1>4. Net(text, o, c) = Net(text, o, c - 1) + Delta(text[c].token) /\ Net(text, o, c - 1) \in Int
  BY <1>1, NetCounts
<1>5. text[o].token = "open"
  BY <1>2, <1>3 DEF Delta
<1>6. text[c].token = "close"
  <2>1. Delta(text[c].token) \in Int /\ Delta(text[c].token) < 0
    <3>1. Delta(text[c].token) \in Int
      BY DEF Delta
    <3> QED
      BY <3>1, <1>2, <1>4
  <2> QED
    BY <2>1 DEF Delta
<1>7. ASSUME NEW d \in Int, Matching(text, o, d)
      PROVE  d = c
  <2>1. CASE d < c
    <3>1. d \in o..(c - 1) /\ Net(text, o, d) = 0
      BY <1>7, <2>1 DEF Matching
    <3>2. Net(text, o, d) > 0
      BY <3>1 DEF Matching, OpenAfter
    <3> QED
      BY <3>1, <3>2
  <2>2. CASE c < d
    <3>1. c \in o..(d - 1)
      BY <2>2 DEF Matching
    <3>2. Net(text, o, c) > 0
      BY <3>1, <1>7 DEF Matching, OpenAfter
    <3> QED
      BY <3>2, <1>2
  <2> QED
    BY <2>1, <2>2
<1> QED
  BY <1>5, <1>6, <1>7

\* A brace that is open at an item is closed after it.
LEMMA ClosesAfter ==
  ASSUME NEW text, Proper(text), NEW p \in ItemsOf(text), NEW o \in Enclosing(text, p)
  PROVE  /\ o \in 1..Len(text) /\ o < p
         /\ \E c \in (p + 1)..Len(text) : Matching(text, o, c)
<1> DEFINE n == Len(text)
<1>0. /\ n \in Nat /\ p \in 1..n /\ text[p].token \notin {"open", "close"}
      /\ text \in Seq(Token)
  BY ProperShape DEF Proper
<1>1. o \in 1..(p - 1) /\ OpenAfter(text, o, p - 1)
  <2>1. p \in Int
    BY <1>0
  <2> QED
    BY <2>1, EnclosingIsOpen
<1>2. ~OpenAfter(text, o, n)
  <2>1. o \in 1..n
    BY <1>0, <1>1
  <2> QED
    BY <1>0, <2>1, AcceptsBalanced DEF Proper
<1> HIDE DEF n
<1> DEFINE Shut == {q \in o..n : ~(Net(text, o, q) > 0)}
<1>3. PICK c \in Shut : \A q \in Shut : c <= q
  <2>1. Shut \in SUBSET Nat
    BY <1>0, <1>1
  <2>2. Shut # {}
    BY <1>2 DEF OpenAfter
  <2> HIDE DEF Shut
  <2> QED
    BY <2>1, <2>2, LeastExists
<1>4. c \in Int /\ o \in Int /\ c <= n /\ o <= c
  BY <1>0, <1>1
<1>5. c > p - 1
  <2>1. c \in o..(p - 1) => Net(text, o, c) > 0
    BY <1>1 DEF OpenAfter
  <2>2. c \notin o..(p - 1)
    BY <2>1, <1>3
  <2> QED
    BY <2>2, <1>0, <1>1, <1>4
<1>6. OpenAfter(text, o, c - 1)
  <2> SUFFICES ASSUME NEW q \in o..(c - 1) PROVE Net(text, o, q) > 0
    BY DEF OpenAfter
  <2>1. q \in o..n /\ ~(c <= q)
    BY <1>0, <1>4
  <2>2. q \notin Shut
    BY <2>1, <1>3
  <2> QED
    BY <2>1, <2>2
<1>7. Net(text, o, c) = Net(text, o, c - 1) + Delta(text[c].token) /\ Net(text, o, c - 1) \in Int
      /\ Net(text, o, c - 1) > 0
  <2>1. c - 1 \in Int
    BY <1>4
  <2>2. c - 1 \in o..(c - 1)
    BY <1>0, <1>1, <1>4, <1>5
  <2> QED
    BY <1>4, <1>6, <2>1, <2>2, NetCounts DEF OpenAfter
<1>8. ~(Net(text, o, c) > 0)
  BY <1>3
<1>9. Net(text, o, c) = 0 /\ text[c].token = "close"
  <2>1. CASE text[c].token = "close"
    <3>1. Delta(text[c].token) = -1
      BY <2>1 DEF Delta
    <3> QED
      BY <2>1, <3>1, <1>7, <1>8
  <2>2. CASE text[c].token # "close"
    <3>1. Delta(text[c].token) \in {0, 1}
      BY <2>2 DEF Delta
    <3> QED
      BY <3>1, <1>7, <1>8
  <2> QED
    BY <2>1, <2>2
<1>10. c # p
  BY <1>0, <1>9
<1>11. c \in (p + 1)..n /\ Matching(text, o, c)
  BY <1>0, <1>1, <1>4, <1>5, <1>6, <1>9, <1>10 DEF Matching
<1>12. o \in 1..n /\ o < p
  BY <1>0, <1>1
<1> QED
  BY <1>11, <1>12 DEF n

\* A block whose lines are around that of an item is around the item.
LEMMA LinesTell ==
  ASSUME NEW text, Proper(text), NEW p \in ItemsOf(text), NEW o \in 1..Len(text), NEW c \in 1..Len(text),
         Matching(text, o, c), text[o].line <= text[p].line, text[p].line <= text[c].line
  PROVE  o \in Enclosing(text, p) /\ o < p /\ p < c
<1> DEFINE n == Len(text)
<1>0. /\ n \in Nat /\ p \in 1..n /\ o \in 1..n /\ c \in 1..n
      /\ \A r, q \in 1..n : r <= q => text[r].line <= text[q].line
      /\ \A q \in 1..n : text[q].line \in Nat
      /\ text[p].token \notin {"open", "close"}
      /\ \A q \in 1..n : text[q].line = text[p].line =>
           /\ q < p => text[q].token # "close"
           /\ q > p => text[q].token # "open"
  BY ProperShape
<1>1. text[o].token = "open" /\ text[c].token = "close"
  <2>1. o \in Int /\ c \in Int
    OBVIOUS
  <2> QED
    BY <2>1, MatchShape
<1> HIDE DEF n
<1>2. o # p /\ c # p
  BY <1>0, <1>1
<1>3. o < p
  <2> SUFFICES ASSUME p < o PROVE FALSE
    BY <1>0, <1>2
  <2>1. text[o].line = text[p].line
    <3>1. text[p].line <= text[o].line
      BY <1>0
    <3>2. text[p].line \in Nat /\ text[o].line \in Nat
      BY <1>0
    <3> QED
      BY <3>1, <3>2
  <2> QED
    BY <1>0, <1>1, <2>1
<1>4. p < c
  <2> SUFFICES ASSUME c < p PROVE FALSE
    BY <1>0, <1>2
  <2>1. text[c].line = text[p].line
    <3>1. text[c].line <= text[p].line
      BY <1>0
    <3>2. text[p].line \in Nat /\ text[c].line \in Nat
      BY <1>0
    <3> QED
      BY <3>1, <3>2
  <2> QED
    BY <1>0, <1>1, <2>1
<1>5. o \in 1..(p - 1) /\ OpenAfter(text, o, p - 1)
  <2>1. \A q \in o..(p - 1) : q \in o..(c - 1)
    BY <1>0, <1>4
  <2>2. OpenAfter(text, o, p - 1)
    BY <2>1 DEF Matching, OpenAfter
  <2> QED
    BY <1>0, <1>3, <2>2
<1>6. p \in Int
  BY <1>0
<1> QED
  BY <1>3, <1>4, <1>5, <1>6, EnclosingIsOpen

\* Two blocks around an item, the inner one with its lines within the outer one's.
LEMMA LinesNest ==
  ASSUME NEW text, Proper(text), NEW p \in ItemsOf(text),
         NEW o1 \in Enclosing(text, p), NEW o2 \in Enclosing(text, p), o1 <= o2,
         NEW c1 \in (p + 1)..Len(text), NEW c2 \in (p + 1)..Len(text),
         Matching(text, o1, c1), Matching(text, o2, c2)
  PROVE  text[o1].line <= text[o2].line /\ text[c2].line <= text[c1].line /\ c2 <= c1
<1>0. /\ p \in 1..Len(text) /\ Len(text) \in Nat
      /\ \A r, q \in 1..Len(text) : r <= q => text[r].line <= text[q].line
  BY ProperShape
<1>1. o1 \in 1..Len(text) /\ o1 < p /\ o2 \in 1..Len(text) /\ o2 < p
  BY ClosesAfter
<1>2. /\ o1 \in Int /\ o2 \in Int /\ c1 \in Int /\ c2 \in Int /\ p \in Int /\ p < c1 /\ p < c2
      /\ c1 \in 1..Len(text) /\ c2 \in 1..Len(text)
  BY <1>0, <1>1
<1>3. c2 <= c1
  <2>1. CASE o1 = o2
    <3>1. c1 = c2
      BY <1>2, <2>1, MatchShape
    <3> QED
      BY <1>2, <3>1
  <2>2. CASE o1 # o2
    <3>1. o1 < o2
      BY <1>2, <2>2
    <3>2. c2 < c1
      BY <1>1, <1>2, <3>1, BlocksNest
    <3> QED
      BY <1>2, <3>2
  <2> QED
    BY <2>1, <2>2
<1> QED
  BY <1>0, <1>1, <1>2, <1>3

\* What is around an inner block is around all that it holds.
LEMMA Inherits ==
  ASSUME NEW text, Proper(text), NEW p \in ItemsOf(text), NEW d \in ItemsOf(text),
         NEW m \in Enclosing(text, p), m \in Enclosing(text, d), NEW o \in Enclosing(text, p), o <= m
  PROVE  o \in Enclosing(text, d)
<1>0. p \in 1..Len(text) /\ d \in 1..Len(text) /\ Len(text) \in Nat
  BY ProperShape
<1>1. PICK c \in (p + 1)..Len(text) : Matching(text, m, c)
  BY ClosesAfter
<1>2. PICK e \in (p + 1)..Len(text) : Matching(text, o, e)
  BY ClosesAfter
<1>3. m \in 1..Len(text) /\ m < d /\ o \in 1..Len(text) /\ \E x \in (d + 1)..Len(text) : Matching(text, m, x)
  BY ClosesAfter
<1>4. d < c
  <2>1. PICK x \in (d + 1)..Len(text) : Matching(text, m, x)
    BY <1>3
  <2>2. x = c
    <3>1. x \in Int /\ c \in Int /\ m \in Int
      BY <1>0, <1>3
    <3> QED
      BY <1>1, <2>1, <3>1, MatchShape
  <2> QED
    BY <1>0, <2>2
<1>5. c <= e
  BY <1>1, <1>2, LinesNest
<1>6. /\ d \in Int /\ c \in Int /\ e \in Int /\ o \in Int /\ m \in Int
      /\ o \in 1..(d - 1)
  BY <1>0, <1>3
<1>7. OpenAfter(text, o, d - 1)
  <2>1. \A q \in o..(d - 1) : q \in o..(e - 1)
    BY <1>4, <1>5, <1>6
  <2> QED
    BY <1>2, <2>1 DEF Matching, OpenAfter
<1> QED
  BY <1>6, <1>7, EnclosingIsOpen

\* The line that stands for the end of the file is a number.
LEMMA HugeLineIsNat == HugeLine \in Nat /\ HugeLine > 1
BY DEF HugeLine

Span(text, o, c) == <<text[o].line, text[c].line>>

\* The scope that the code finds for what stands on the line of p.
Scope(text, p) == InnermostSpanContaining(BraceBlocks(text).spans, text[p].line)

\* It is the span of the last brace that is open, or the whole file.
InnermostBlock(text, p, s) ==
  \/ Enclosing(text, p) = {} /\ s = <<1, HugeLine>>
  \/ \E m \in Enclosing(text, p) : \E c \in (p + 1)..Len(text) :
       /\ Matching(text, m, c) /\ s = Span(text, m, c)
       /\ \A o \in Enclosing(text, p) : o <= m

\* The smallest of the spans around a line is that of the innermost block around
\* the item on it (_innermost_span_containing).
LEMMA ScopeIsInnermostBlock ==
  ASSUME NEW text, Proper(text), NEW p \in ItemsOf(text)
  PROVE  InnermostBlock(text, p, Scope(text, p))
<1> DEFINE n == Len(text)
<1> DEFINE l == text[p].line
<1> DEFINE around == {s \in BraceBlocks(text).spans : s[1] <= l /\ l <= s[2]}
<1>0. /\ n \in Nat /\ p \in 1..n /\ text \in Seq(Token)
      /\ \A q \in 1..n : text[q].line \in Nat
      /\ \A r, q \in 1..n : r <= q => text[r].line <= text[q].line
  BY ProperShape DEF Proper
<1>1. \A s : s \in BraceBlocks(text).spans <=>
        \E c \in 1..n : \E o \in 1..(c - 1) : Matching(text, o, c) /\ s = Span(text, o, c)
  BY <1>0, BlocksFound DEF SpansTo, Span
<1>2. ASSUME NEW s \in around
      PROVE  \E o \in Enclosing(text, p) : \E c \in (p + 1)..n : Matching(text, o, c) /\ s = Span(text, o, c)
  <2>1. PICK c \in 1..n : \E o \in 1..(c - 1) : Matching(text, o, c) /\ s = Span(text, o, c)
    BY <1>1, <1>2
  <2>2. PICK o \in 1..(c - 1) : Matching(text, o, c) /\ s = Span(text, o, c)
    BY <2>1
  <2>3. o \in 1..n
    BY <1>0, <2>1, <2>2
  <2>4. text[o].line <= l /\ l <= text[c].line
    <3>1. s[1] = text[o].line /\ s[2] = text[c].line
      BY <2>2 DEF Span
    <3> QED
      BY <1>2, <3>1
  <2>5. o \in Enclosing(text, p) /\ p < c
    BY <2>2, <2>3, <2>4, LinesTell
  <2>6. c \in (p + 1)..n
    BY <1>0, <2>5
  <2> QED
    BY <2>2, <2>5, <2>6
<1>3. ASSUME NEW o \in Enclosing(text, p), NEW c \in (p + 1)..n, Matching(text, o, c)
      PROVE  Span(text, o, c) \in around
  <2>1. o \in 1..n /\ o < p
    BY ClosesAfter
  <2>2. c \in 1..n /\ o \in 1..(c - 1)
    BY <1>0, <2>1
  <2>3. Span(text, o, c) \in BraceBlocks(text).spans
    BY <1>1, <1>3, <2>2
  <2>4. text[o].line <= l /\ l <= text[c].line
    BY <1>0, <2>1, <2>2
  <2>5. Span(text, o, c)[1] = text[o].line /\ Span(text, o, c)[2] = text[c].line
    BY DEF Span
  <2> QED
    BY <2>3, <2>4, <2>5
<1>4. Scope(text, p) = IF around = {} THEN <<1, HugeLine>>
                       ELSE CHOOSE s \in around : \A t \in around : Size(s) <= Size(t)
  BY DEF Scope, InnermostSpanContaining
<1> HIDE DEF around, n
<1>5. CASE Enclosing(text, p) = {}
  <2>1. around = {}
    BY <1>2, <1>5
  <2> QED
    BY <1>4, <1>5, <2>1 DEF InnermostBlock
<1>6. CASE Enclosing(text, p) # {}
  <2>1. PICK m \in Enclosing(text, p) : \A o \in Enclosing(text, p) : o <= m
    <3>1. Enclosing(text, p) \in SUBSET (1..n)
      BY ClosesAfter DEF n
    <3> QED
      BY <1>0, <1>6, <3>1, LastExists
  <2>2. PICK c \in (p + 1)..n : Matching(text, m, c)
    BY ClosesAfter DEF n
  <2> DEFINE s0 == Span(text, m, c)
  <2>3. s0 \in around
    BY <1>3, <2>2
  <2>4. ASSUME NEW s \in around
        PROVE  /\ Size(s0) <= Size(s)
               /\ Size(s) <= Size(s0) => s = s0
    <3>1. PICK o \in Enclosing(text, p) : \E e \in (p + 1)..n : Matching(text, o, e) /\ s = Span(text, o, e)
      BY <1>2
    <3>2. PICK e \in (p + 1)..n : Matching(text, o, e) /\ s = Span(text, o, e)
      BY <3>1
    <3>3. text[o].line <= text[m].line /\ text[c].line <= text[e].line
      BY <2>1, <2>2, <3>2, LinesNest DEF n
    <3>4. o \in 1..n /\ m \in 1..n
      BY ClosesAfter DEF n
    <3>5. /\ text[o].line \in Nat /\ text[m].line \in Nat /\ text[c].line \in Nat /\ text[e].line \in Nat
      <4>1. c \in 1..n /\ e \in 1..n
        BY <1>0
      <4> QED
        BY <1>0, <3>4, <4>1
    <3>6. /\ Size(s0) = text[c].line - text[m].line
          /\ Size(s) = text[e].line - text[o].line
      BY <3>2 DEF Size, Span
    <3>7. Size(s0) <= Size(s)
      BY <3>3, <3>5, <3>6
    <3>8. Size(s) <= Size(s0) => text[o].line = text[m].line /\ text[c].line = text[e].line
      BY <3>3, <3>5, <3>6
    <3> QED
      BY <3>2, <3>7, <3>8 DEF Span
  <2> HIDE DEF s0
  <2>5. Scope(text, p) = CHOOSE s \in around : \A t \in around : Size(s) <= Size(t)
    BY <1>4, <2>3
  <2>6. Scope(text, p) \in around /\ \A t \in around : Size(Scope(text, p)) <= Size(t)
    <3>1. \E s \in around : \A t \in around : Size(s) <= Size(t)
      BY <2>3, <2>4, Zenon
    <3> QED
      BY <2>5, <3>1, Zenon
  <2>7. Scope(text, p) = s0
    BY <2>3, <2>4, <2>6, Zenon
  <2> QED
    BY <2>1, <2>2, <2>7, Zenon DEF InnermostBlock, s0, n
<1> QED
  BY <1>5, <1>6

\* A scope covers the line of an item if and only if the item sees what is
\* declared there.
LEMMA ScopeCovers ==
  ASSUME NEW text, Proper(text), NEW d \in ItemsOf(text), NEW p \in ItemsOf(text)
  PROVE  Scope(text, d)[1] <= text[p].line /\ text[p].line <= Scope(text, d)[2]
         <=> Enclosing(text, d) \subseteq Enclosing(text, p)
<1> DEFINE here == Scope(text, d)
<1> DEFINE l == text[p].line
<1>0. /\ Len(text) \in Nat /\ p \in 1..Len(text) /\ d \in 1..Len(text) /\ l \in 1..(HugeLine - 1)
      /\ \A q \in 1..Len(text) : text[q].line \in Nat
      /\ \A r, q \in 1..Len(text) : r <= q => text[r].line <= text[q].line
  BY ProperShape
<1>1. InnermostBlock(text, d, here)
  BY ScopeIsInnermostBlock
<1> HIDE DEF here
<1>2. CASE Enclosing(text, d) = {} /\ here = <<1, HugeLine>>
  <2>1. here[1] = 1 /\ here[2] = HugeLine
    BY <1>2
  <2>2. 1 <= l /\ l <= HugeLine
    BY <1>0, HugeLineIsNat
  <2> QED
    BY <1>2, <2>1, <2>2 DEF here
<1>3. ASSUME NEW m \in Enclosing(text, d), NEW c \in (d + 1)..Len(text), Matching(text, m, c),
             here = Span(text, m, c), \A o \in Enclosing(text, d) : o <= m
      PROVE  here[1] <= l /\ l <= here[2] <=> Enclosing(text, d) \subseteq Enclosing(text, p)
  <2>1. here[1] = text[m].line /\ here[2] = text[c].line
    BY <1>3 DEF Span
  <2>2. m \in 1..Len(text) /\ c \in 1..Len(text)
    BY <1>0, ClosesAfter
  <2>3. ASSUME here[1] <= l, l <= here[2]
        PROVE  Enclosing(text, d) \subseteq Enclosing(text, p)
    <3>1. m \in Enclosing(text, p)
      BY <1>3, <2>1, <2>2, <2>3, LinesTell
    <3> QED
      BY <1>3, <3>1, Inherits
  <2>4. ASSUME Enclosing(text, d) \subseteq Enclosing(text, p)
        PROVE  here[1] <= l /\ l <= here[2]
    <3>1. m \in Enclosing(text, p)
      BY <2>4
    <3>2. m < p /\ \E x \in (p + 1)..Len(text) : Matching(text, m, x)
      BY <3>1, ClosesAfter
    <3>3. PICK x \in (p + 1)..Len(text) : Matching(text, m, x)
      BY <3>2
    <3>4. x = c
      <4>1. x \in Int /\ c \in Int /\ m \in Int
        BY <1>0, <2>2
      <4> QED
        BY <1>3, <3>3, <4>1, MatchShape
    <3>5. m <= p /\ p <= c
      BY <1>0, <2>2, <3>2, <3>3, <3>4
    <3> QED
      BY <1>0, <2>1, <2>2, <3>5
  <2> QED
    BY <2>3, <2>4
<1> QED
  BY <1>1, <1>2, <1>3 DEF InnermostBlock, here

\* Of two scopes seen at one place the smaller is the inner one.
LEMMA SmallerIsInner ==
  ASSUME NEW text, Proper(text), NEW d \in ItemsOf(text), NEW e \in ItemsOf(text), NEW p \in ItemsOf(text),
         Enclosing(text, d) \subseteq Enclosing(text, p), Enclosing(text, e) \subseteq Enclosing(text, p)
  PROVE  Size(Scope(text, d)) <= Size(Scope(text, e)) <=> Enclosing(text, e) \subseteq Enclosing(text, d)
<1> DEFINE n == Len(text)
<1> DEFINE L(q) == text[q].line
<1> DEFINE E(q) == Enclosing(text, q)
<1> DEFINE Inmost(q, m, c) == /\ m \in E(q) /\ c \in (q + 1)..n /\ Matching(text, m, c)
                              /\ Scope(text, q) = Span(text, m, c) /\ \A o \in E(q) : o <= m
<1>0. /\ n \in Nat /\ d \in 1..n /\ e \in 1..n /\ p \in 1..n
      /\ \A q \in 1..n : L(q) \in 1..(HugeLine - 1) /\ L(q) \in Nat
  BY ProperShape
<1>1. \A q \in ItemsOf(text) : \/ E(q) = {} /\ Size(Scope(text, q)) = HugeLine - 1
                               \/ \E m, c : Inmost(q, m, c)
  <2> TAKE q \in ItemsOf(text)
  <2>1. InnermostBlock(text, q, Scope(text, q))
    BY ScopeIsInnermostBlock
  <2>2. ASSUME Scope(text, q) = <<1, HugeLine>>
        PROVE  Size(Scope(text, q)) = HugeLine - 1
    BY <2>2 DEF Size
  <2> QED
    BY <2>1, <2>2 DEF InnermostBlock
<1>2. ASSUME NEW q \in ItemsOf(text), NEW m, NEW c, Inmost(q, m, c), E(q) \subseteq E(p)
      PROVE  /\ m \in E(p) /\ m \in 1..n /\ c \in 1..n /\ m < p /\ c \in (p + 1)..n /\ Matching(text, m, c)
             /\ Size(Scope(text, q)) = L(c) - L(m)
             /\ L(m) \in 1..(HugeLine - 1) /\ L(c) \in 1..(HugeLine - 1)
             /\ L(m) \in Nat /\ L(c) \in Nat
  <2>1. m \in E(q) /\ m \in E(p) /\ c \in (q + 1)..n /\ Matching(text, m, c) /\ q \in 1..n
    BY <1>2, ProperShape
  <2>2. m \in 1..n /\ m < p /\ c \in 1..n
    BY <1>0, <2>1, ClosesAfter
  <2>3. c \in (p + 1)..n
    <3>1. PICK x \in (p + 1)..n : Matching(text, m, x)
      BY <2>1, ClosesAfter
    <3>2. x \in Int /\ c \in Int /\ m \in Int
      BY <1>0, <2>2
    <3>3. x = c
      BY <2>1, <3>1, <3>2, MatchShape
    <3> QED
      BY <3>3
  <2>4. Size(Scope(text, q)) = L(c) - L(m)
    BY <1>2 DEF Size, Span
  <2> HIDE DEF n
  <2> QED
    BY <1>0, <2>1, <2>2, <2>3, <2>4
<1>3. ASSUME E(e) \subseteq E(d)
      PROVE  Size(Scope(text, d)) <= Size(Scope(text, e))
  <2>1. CASE E(e) = {} /\ Size(Scope(text, e)) = HugeLine - 1
    <3>1. CASE E(d) = {} /\ Size(Scope(text, d)) = HugeLine - 1
      BY <2>1, <3>1, HugeLineIsNat
    <3>2. CASE \E m, c : Inmost(d, m, c)
      <4>1. PICK m, c : Inmost(d, m, c)
        BY <3>2
      <4>2. /\ Size(Scope(text, d)) = L(c) - L(m)
            /\ L(m) \in 1..(HugeLine - 1) /\ L(c) \in 1..(HugeLine - 1)
        BY <1>2, <4>1
      <4> QED
        BY <2>1, <4>2, HugeLineIsNat
    <3> QED
      BY <1>1, <3>1, <3>2
  <2>2. CASE \E m, c : Inmost(e, m, c)
    <3>1. PICK m, c : Inmost(e, m, c)
      BY <2>2
    <3>2. E(d) # {}
      BY <1>3, <3>1
    <3>3. PICK k, x : Inmost(d, k, x)
      BY <1>1, <3>2
    <3>4. m <= k
      BY <1>3, <3>1, <3>3
    <3>5. /\ m \in E(p) /\ c \in (p + 1)..n /\ Matching(text, m, c) /\ Size(Scope(text, e)) = L(c) - L(m)
          /\ L(m) \in Nat /\ L(c) \in Nat
      BY <1>2, <3>1
    <3>6. /\ k \in E(p) /\ x \in (p + 1)..n /\ Matching(text, k, x) /\ Size(Scope(text, d)) = L(x) - L(k)
          /\ L(k) \in Nat /\ L(x) \in Nat
      BY <1>2, <3>3
    <3>7. L(m) <= L(k) /\ L(x) <= L(c)
      BY <3>4, <3>5, <3>6, LinesNest
    <3> QED
      BY <3>5, <3>6, <3>7
  <2> QED
    BY <1>1, <2>1, <2>2
<1>4. ASSUME NEW o \in E(e), o \notin E(d)
      PROVE  ~(Size(Scope(text, d)) <= Size(Scope(text, e)))
  <2>1. PICK m, c : Inmost(e, m, c)
    BY <1>1, <1>4
  <2>2. /\ m \in E(p) /\ m \in 1..n /\ c \in 1..n /\ c \in (p + 1)..n /\ Matching(text, m, c)
        /\ Size(Scope(text, e)) = L(c) - L(m)
        /\ L(m) \in 1..(HugeLine - 1) /\ L(c) \in 1..(HugeLine - 1)
        /\ L(m) \in Nat /\ L(c) \in Nat
    BY <1>2, <2>1
  <2>3. CASE E(d) = {} /\ Size(Scope(text, d)) = HugeLine - 1
    BY <2>2, <2>3, HugeLineIsNat
  <2>4. CASE \E k, x : Inmost(d, k, x)
    <3>1. PICK k, x : Inmost(d, k, x)
      BY <2>4
    <3>2. /\ k \in E(p) /\ k \in E(d) /\ k \in 1..n /\ x \in 1..n /\ x \in (p + 1)..n /\ Matching(text, k, x)
          /\ Size(Scope(text, d)) = L(x) - L(k)
          /\ L(k) \in Nat /\ L(x) \in Nat
      BY <1>2, <3>1
    <3>3. o \in E(p) /\ o \in 1..n
      BY ClosesAfter
    <3>4. k < o /\ k < m /\ m \notin E(d)
      <4>1. ~(o <= k)
        BY <1>4, <3>2, <3>3, Inherits
      <4>2. o <= m
        BY <2>1
      <4>3. k < o /\ k < m
        BY <2>2, <3>2, <3>3, <4>1, <4>2, <1>0
      <4>4. m \in E(d) => m <= k
        BY <3>1
      <4> QED
        BY <4>3, <4>4, <2>2, <3>2, <1>0
    <3>5. L(k) <= L(m) /\ L(c) <= L(x)
      <4>1. k <= m
        BY <2>2, <3>2, <3>4, <1>0
      <4> QED
        BY <2>2, <3>2, <4>1, LinesNest
    <3>6. ~(L(k) = L(m) /\ L(c) = L(x))
      <4> SUFFICES ASSUME L(k) = L(m), L(c) = L(x)
                   PROVE  FALSE
        OBVIOUS
      <4>1. L(k) <= L(d) /\ L(d) <= L(x)
        <5>1. k < d /\ \E y \in (d + 1)..n : Matching(text, k, y)
          BY <3>2, ClosesAfter
        <5>2. PICK y \in (d + 1)..n : Matching(text, k, y)
          BY <5>1
        <5>3. x = y
          <6>1. x \in Int /\ y \in Int /\ k \in Int
            BY <1>0, <3>2
          <6> QED
            BY <3>2, <5>2, <6>1, MatchShape
        <5>4. k <= d /\ d <= x
          BY <1>0, <3>2, <5>1, <5>2, <5>3
        <5> QED
          BY <1>0, <3>2, <5>4, ProperShape
      <4>2. L(m) <= L(d) /\ L(d) <= L(c)
        BY <4>1
      <4>3. m \in E(d)
        BY <2>2, <4>2, LinesTell
      <4> QED
        BY <3>4, <4>3
    <3>7. /\ L(k) \in Nat /\ L(x) \in Nat /\ L(m) \in Nat /\ L(c) \in Nat
          /\ L(k) <= L(m) /\ L(c) <= L(x) /\ ~(L(k) = L(m) /\ L(c) = L(x))
      BY <2>2, <3>2, <3>5, <3>6
    <3>8. ~(L(x) - L(k) <= L(c) - L(m))
      <4> HIDE DEF L
      <4> QED
        BY <3>7
    <3> QED
      BY <2>2, <3>2, <3>8
  <2> QED
    BY <1>1, <2>3, <2>4
<1> QED
  BY <1>3, <1>4

Declared == {"regexp", "cp_module"}

\* A text without what the code does not note.
SeenThrough(text) == \A p \in DOMAIN text : text[p].token \notin {"regexp-in-comment", "cp-other"}

BindingOf(text, d) == [kind |-> text[d].token, span |-> Scope(text, d)]

\* Each declaration is a binding, with its scope (_js_bindings_by_scope).
LEMMA BindingsAreDeclarations ==
  ASSUME NEW text \in Seq(Token), SeenThrough(text)
  PROVE  \A b : b \in JsBindings(text, BraceBlocks(text).spans) <=>
           \E d \in 1..Len(text) : text[d].token \in Declared /\ b = BindingOf(text, d)
<1> DEFINE Places == {p \in DOMAIN text : text[p].token \in {"regexp", "regexp-in-comment", "cp_module"}}
<1> DEFINE B(p) == [kind |-> IF text[p].token = "cp_module" THEN "cp_module" ELSE "regexp",
                    span |-> InnermostSpanContaining(BraceBlocks(text).spans, text[p].line)]
<1>1. DOMAIN text = 1..Len(text)
  BY TextShape
<1>2. \A p : p \in Places <=> p \in 1..Len(text) /\ text[p].token \in Declared
  BY <1>1 DEF SeenThrough, Declared
<1>3. \A p \in Places : B(p) = BindingOf(text, p)
  <2> TAKE p \in Places
  <2>1. text[p].token = "cp_module" \/ text[p].token = "regexp"
    BY <1>2 DEF Declared
  <2>2. CASE text[p].token = "cp_module"
    BY <2>2 DEF BindingOf, Scope
  <2>3. CASE text[p].token = "regexp"
    BY <2>3 DEF BindingOf, Scope
  <2> QED
    BY <2>1, <2>2, <2>3
<1>4. JsBindings(text, BraceBlocks(text).spans) = {B(p) : p \in Places}
  BY DEF JsBindings
<1> HIDE DEF Places, B
<1> QED
  BY <1>2, <1>3, <1>4

\* What the code takes cp for is what the innermost block around it that declares
\* it makes it.
LEMMA ScopeJudged ==
  ASSUME NEW text, Proper(text), SeenThrough(text), NEW p \in ItemsOf(text)
  PROVE  ResolveReceiverKind(JsBindings(text, BraceBlocks(text).spans), text[p].line) = "regexp"
         <=> DeclaredAt(text, p) = {"regexp"}
<1> DEFINE bindings == JsBindings(text, BraceBlocks(text).spans)
<1> DEFINE l == text[p].line
<1> DEFINE covering == {b \in bindings : b.span[1] <= l /\ l <= b.span[2]}
<1> DEFINE nearest == {b \in covering : \A c \in covering : Size(b.span) <= Size(c.span)}
<1> DEFINE best == {b.kind : b \in nearest}
<1> DEFINE D == {d \in 1..Len(text) : text[d].token \in Declared}
<1> DEFINE visible == {d \in D : Enclosing(text, d) \subseteq Enclosing(text, p)}
<1> DEFINE inner == {d \in visible : \A e \in visible : Enclosing(text, e) \subseteq Enclosing(text, d)}
<1>0. text \in Seq(Token) /\ DOMAIN text = 1..Len(text)
  BY ProperShape DEF Proper
<1>1. D \subseteq ItemsOf(text)
  BY DEF Declared, Items, ItemsOf, JsToken
<1>2. \A b : b \in bindings <=> \E d \in D : b = BindingOf(text, d)
  BY <1>0, BindingsAreDeclarations
<1>3. \A d \in D : BindingOf(text, d).kind = text[d].token /\ BindingOf(text, d).span = Scope(text, d)
  BY DEF BindingOf
<1>4. \A b : b \in covering <=> \E d \in visible : b = BindingOf(text, d)
  <2>1. \A d \in D : (Scope(text, d)[1] <= l /\ l <= Scope(text, d)[2])
                     <=> Enclosing(text, d) \subseteq Enclosing(text, p)
    BY <1>1, ScopeCovers
  <2> HIDE DEF bindings, D, l
  <2>2. \A b : b \in covering <=> b \in bindings /\ b.span[1] <= l /\ l <= b.span[2]
    OBVIOUS
  <2>3. \A d : d \in visible <=> d \in D /\ Enclosing(text, d) \subseteq Enclosing(text, p)
    OBVIOUS
  <2> HIDE DEF covering, visible
  <2> QED
    BY <1>2, <1>3, <2>1, <2>2, <2>3
<1>5. \A d, e \in visible : Size(Scope(text, d)) <= Size(Scope(text, e))
                            <=> Enclosing(text, e) \subseteq Enclosing(text, d)
  BY <1>1, SmallerIsInner
<1>6. \A b : b \in nearest <=> \E d \in inner : b = BindingOf(text, d)
  <2>1. \A b : b \in nearest <=> b \in covering /\ \A c \in covering : Size(b.span) <= Size(c.span)
    OBVIOUS
  <2>2. \A d : d \in inner <=> d \in visible /\ \A e \in visible : Enclosing(text, e) \subseteq Enclosing(text, d)
    OBVIOUS
  <2>3. \A d \in visible : d \in D
    OBVIOUS
  <2> HIDE DEF covering, visible, nearest, inner, D
  <2>4. \A d \in visible : (\A c \in covering : Size(Scope(text, d)) <= Size(c.span))
                           <=> \A e \in visible : Size(Scope(text, d)) <= Size(Scope(text, e))
    BY <1>3, <1>4, <2>3
  <2> QED
    BY <1>3, <1>4, <1>5, <2>1, <2>2, <2>3, <2>4
<1>7. \A k : k \in best <=> \E d \in inner : k = text[d].token
  <2>1. \A k : k \in best <=> \E b \in nearest : k = b.kind
    OBVIOUS
  <2>2. \A d \in inner : d \in D
    OBVIOUS
  <2> HIDE DEF best, nearest, inner, D
  <2> QED
    BY <1>3, <1>6, <2>1, <2>2
<1>8. DeclaredAt(text, p) = {text[d].token : d \in inner}
  <2>1. {d \in DOMAIN text : /\ text[d].token \in {"regexp", "cp_module", "cp-other"}
                             /\ Enclosing(text, d) \subseteq Enclosing(text, p)} = visible
    BY <1>0 DEF SeenThrough, Declared
  <2> QED
    BY <2>1 DEF DeclaredAt
<1>9. best = DeclaredAt(text, p)
  <2>1. \A k : k \in DeclaredAt(text, p) <=> \E d \in inner : k = text[d].token
    BY <1>8
  <2> HIDE DEF best, inner
  <2> QED
    BY <1>7, <2>1
<1>10. \A k \in best : k = "regexp" \/ k = "cp_module"
  <2>1. \A d \in inner : text[d].token = "regexp" \/ text[d].token = "cp_module"
    BY DEF Declared
  <2> HIDE DEF best, inner
  <2> QED
    BY <1>7, <2>1
<1>11. ResolveReceiverKind(bindings, l) =
         CASE best = {} -> "unknown" [] "cp_module" \in best -> "cp_module" [] OTHER -> "regexp"
  BY DEF ResolveReceiverKind
<1> HIDE DEF best, bindings, l
<1>12. ResolveReceiverKind(bindings, l) = "regexp" <=> best # {} /\ "cp_module" \notin best
  BY <1>11
<1>13. best = {"regexp"} <=> best # {} /\ "cp_module" \notin best
  BY <1>10
<1> QED
  BY <1>9, <1>12, <1>13 DEF bindings, l

\* The lines that are reported as running a shell.
LEMMA ExecJudged ==
  ASSUME NEW f, f.text \in Seq(Token), Numbered(f.text), LaidOut(f.text), SeenThrough(f.text), HasChildProcess(f),
         NEW p \in DOMAIN f.text, f.text[p].token \in {"cp.exec", "child_process.exec", "exec", "/x/.exec"}
  PROVE  f.text[p].line \in ExecLines(f) <=>
           ~(\/ f.text[p].token = "/x/.exec"
             \/ f.text[p].token = "cp.exec" /\ Balanced(f.text) /\ DeclaredAt(f.text, p) = {"regexp"})
<1> DEFINE text == f.text
<1> DEFINE l == text[p].line
<1> DEFINE t == text[p].token
<1> DEFINE bindings == JsBindingsByScope(text)
<1>0. text \in Seq(Token) /\ Len(text) \in Nat /\ DOMAIN text = 1..Len(text) /\ p \in ItemsOf(text)
  <2>1. Len(text) \in Nat /\ DOMAIN text = 1..Len(text)
    BY TextShape
  <2>2. t \in Items
    BY DEF Items, JsToken
  <2> QED
    BY <2>1, <2>2 DEF ItemsOf
<1>1. l \in ExecLines(f) <=> JsIsRealExecCall(text, bindings, l)
  <2>1. l \in Lines(text)
    BY DEF Lines
  <2> QED
    BY <2>1 DEF ExecLines
<1>2. \A q \in DOMAIN text : text[q].line = l /\ text[q].token \in Items => q = p
  BY <1>0 DEF LaidOut, ItemsOf
<1>3. ASSUME NEW tokens, tokens \subseteq Items
      PROVE  OnLine(text, l, tokens) = IF t \in tokens THEN {p} ELSE {}
  <2>1. \A q : q \in OnLine(text, l, tokens) <=> q = p /\ t \in tokens
    BY <1>2, <1>3 DEF OnLine
  <2> HIDE DEF text, l, t
  <2> QED
    BY <2>1
<1>4. /\ OnLine(text, l, {"cp.exec", "child_process.exec"}) = IF t \in {"cp.exec", "child_process.exec"} THEN {p} ELSE {}
      /\ OnLine(text, l, {"/x/.exec"}) = IF t \in {"/x/.exec"} THEN {p} ELSE {}
      /\ OnLine(text, l, {"exec"}) = IF t \in {"exec"} THEN {p} ELSE {}
  <2>1. /\ {"cp.exec", "child_process.exec"} \subseteq Items
        /\ {"/x/.exec"} \subseteq Items /\ {"exec"} \subseteq Items
    BY DEF Items, JsToken
  <2> QED
    BY <1>3, <2>1
<1>5. ResolveReceiverKind(bindings, l) = "regexp" <=> Balanced(text) /\ DeclaredAt(text, p) = {"regexp"}
  <2>1. CASE Balanced(text)
    <3>1. bindings = JsBindings(text, BraceBlocks(text).spans)
      BY <1>0, <2>1, AcceptsBalanced DEF JsBindingsByScope
    <3>2. Proper(text)
      BY <1>0, <2>1 DEF Proper
    <3> QED
      BY <1>0, <2>1, <3>1, <3>2, ScopeJudged
  <2>2. CASE ~Balanced(text)
    <3>1. bindings = {}
      BY <1>0, <2>2, AcceptsBalanced DEF JsBindingsByScope
    <3>2. ResolveReceiverKind({}, l) = "unknown"
      BY DEF ResolveReceiverKind
    <3> QED
      BY <2>2, <3>1, <3>2
  <2> QED
    BY <2>1, <2>2
<1>6. p <= p
  BY <1>0
<1>7. t = "cp.exec" \/ t = "child_process.exec" \/ t = "exec" \/ t = "/x/.exec"
  OBVIOUS
<1>8. JsIsRealExecCall(text, bindings, l) <=>
        \/ t = "child_process.exec" \/ t = "exec"
        \/ t = "cp.exec" /\ ResolveReceiverKind(bindings, l) # "regexp"
  <2>0. JsIsRealExecCall(text, bindings, l) <=>
          LET onReceiver == OnLine(text, l, {"cp.exec", "child_process.exec"})
          IN  \/ \E q \in onReceiver :
                   /\ \A r \in onReceiver : q <= r
                   /\ text[q].token = "child_process.exec" \/ ResolveReceiverKind(bindings, l) # "regexp"
              \/ /\ onReceiver = {} /\ OnLine(text, l, {"/x/.exec"}) = {}
                 /\ OnLine(text, l, {"exec"}) # {}
    BY DEF JsIsRealExecCall
  <2>9. text[p].token = t
    OBVIOUS
  <2> HIDE DEF text, l, t, bindings
  <2>1. CASE t = "cp.exec"
    <3>1. OnLine(text, l, {"cp.exec", "child_process.exec"}) = {p}
      BY <1>4, <2>1
    <3> QED
      BY <1>6, <2>0, <2>1, <2>9, <3>1
  <2>2. CASE t = "child_process.exec"
    <3>1. OnLine(text, l, {"cp.exec", "child_process.exec"}) = {p}
      BY <1>4, <2>2
    <3> QED
      BY <1>6, <2>0, <2>2, <2>9, <3>1
  <2>3. CASE t = "exec"
    <3>1. OnLine(text, l, {"cp.exec", "child_process.exec"}) = {} /\ OnLine(text, l, {"/x/.exec"}) = {}
          /\ OnLine(text, l, {"exec"}) = {p}
      BY <1>4, <2>3
    <3> QED
      BY <2>0, <2>3, <3>1
  <2>4. CASE t = "/x/.exec"
    <3>1. OnLine(text, l, {"cp.exec", "child_process.exec"}) = {} /\ OnLine(text, l, {"exec"}) = {}
      BY <1>4, <2>4
    <3> QED
      BY <2>0, <2>4, <3>1
  <2> QED
    BY <1>7, <2>1, <2>2, <2>3, <2>4
<1>9. l \in ExecLines(f) <=> ~(t = "/x/.exec" \/ (t = "cp.exec" /\ ResolveReceiverKind(bindings, l) = "regexp"))
  <2> HIDE DEF text, l, t, bindings
  <2> QED
    BY <1>1, <1>7, <1>8
<1> QED
  BY <1>5, <1>9

\* The invariant implies that of the calls of exec those are silent that match a
\* regular expression (_js_is_real_exec_call).
LEMMA ExecIsJudged == ScannedInv /\ ~Unseen => ExecSilentOnlyOnRegExp
<1> SUFFICES ASSUME ScannedInv, ~Unseen, NEW k \in DOMAIN sources, k < position, sources[k].language = "js",
                    HasChildProcess(sources[k]), LaidOut(sources[k].text), SeenThrough(sources[k].text),
                    NEW p \in DOMAIN sources[k].text,
                    sources[k].text[p].token \in {"cp.exec", "child_process.exec", "exec", "/x/.exec"}
             PROVE  ExecFinding(k, sources[k].text[p].line) \in injections <=>
                      ~(\/ sources[k].text[p].token = "/x/.exec"
                        \/ /\ sources[k].text[p].token = "cp.exec" /\ Balanced(sources[k].text)
                           /\ DeclaredAt(sources[k].text, p) = {"regexp"})
  BY DEF ExecSilentOnlyOnRegExp, SeenThrough
<1> DEFINE f == sources[k]
<1> DEFINE l == f.text[p].line
<1>1. f.text \in Seq(Token) /\ Numbered(f.text)
  <2>1. f \in PySource \cup JsSource
    BY DEF ScannedInv, WellFormedSources
  <2>2. f \notin PySource
    BY DEF PySource
  <2> QED
    BY <2>1, <2>2 DEF ScannedInv, WellFormedSources, JsSource, Token
<1>2. l \in ExecLines(f) <=>
        ~(\/ f.text[p].token = "/x/.exec"
          \/ f.text[p].token = "cp.exec" /\ Balanced(f.text) /\ DeclaredAt(f.text, p) = {"regexp"})
  BY <1>1, ExecJudged
<1>3. FindingsOf(k) = {ExecFinding(k, i) : i \in ExecLines(f)}
  BY DEF FindingsOf
<1> HIDE DEF f, l
<1>4. ExecFinding(k, l) \in FindingsOf(k) <=> l \in ExecLines(f)
  BY <1>3 DEF ExecFinding
<1>5. ExecFinding(k, l) \in injections => ExecFinding(k, l) \in FindingsOf(k)
  <2>1. ExecFinding(k, l).file = k
    BY DEF ExecFinding
  <2> QED
    BY <2>1 DEF ScannedInv
<1>6. FindingsOf(k) \subseteq injections
  BY DEF ScannedInv
<1>7. ExecFinding(k, l) \in injections <=> l \in ExecLines(f)
  BY <1>4, <1>5, <1>6
<1> QED
  BY <1>2, <1>7 DEF f, l

\* In texts laid out line by line a call of exec is silent only if it matches a
\* regular expression by JS's own scopes, however deep the blocks
\* (_js_bindings_by_scope, _js_block_spans_by_line, _js_is_real_exec_call).
THEOREM ExecsAreJudgedByScope ==
  ASSUME NEW CONSTANT repos, \A files \in repos : WellFormedSources(files), ~Unseen
  PROVE  InjectionSpec(repos) => []ExecSilentOnlyOnRegExp
<1>1. ScannedInv => ExecSilentOnlyOnRegExp
  BY ExecIsJudged
<1> QED
  BY <1>1, ScannedInvHolds, PTL
=============================================================================
