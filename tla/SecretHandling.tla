--------------------------- MODULE SecretHandling ---------------------------
(***************************************************************************)
(* detectors/secret_handling.py: secrets that lie in the tracked files of  *)
(* a repository.  Files that hold credentials by their name; literals that *)
(* look like a credential, or are assigned to a name that does; names that *)
(* are logged.                                                             *)
(*                                                                         *)
(* The scanned repository is not trusted: what it says about itself (a     *)
(* pragma, a test directory, a name with "mock") may lower the confidence  *)
(* of a finding and may never remove one.                                  *)
(***************************************************************************)
EXTENDS SecretShapes, FiniteSets

CONSTANTS
  TreePaths,      (* the files of the tree that may hold credentials       *)
  KindOf,         (* by name: "env" for every kind without a certificate   *)
  DirOf,
  TestDirs,       (* directories of a test path                            *)
  Keys,           (* key pairs                                             *)
  Absent          (* no certificate, no private key                        *)

Certificate == [key : Keys, selfSigned : BOOLEAN, testIdentity : BOOLEAN]

ASSUME SecretAssumption ==
  /\ Absent \notin Keys \cup Certificate
  /\ KindOf \in [TreePaths -> {"env", "example env", "pem", "crt", "key", "other"}]
  /\ TestDirs \subseteq {DirOf[p] : p \in TreePaths}

\* What a PEM file holds: a certificate, a private key or, as a bundle, both.
Content == [cert : Certificate \cup {Absent}, key : Keys \cup {Absent}]

\* An argument of a log call: code, an interpolation in a template, or prose.
Argument == [in : {"code", "template", "prose"}, chain : Seq(Name)]
Assignment == [name : Name, value : Value]

\* A line of source.  matches: the literals that are not assigned to a name;
\* depth: of the statement in the syntax tree; comment: a comment line (JS).
Line == [matches : Seq(Value), assigns : Seq(Assignment), log : Seq(Argument), depth : Nat,
         pragma : BOOLEAN, comment : BOOLEAN, wrapped : BOOLEAN]
File == [language : {"python", "js", "other"}, test : BOOLEAN, lines : Seq(Line)]

\* A repository as it can be: a literal's id stands for its text.
WellFormed(r) ==
  /\ r.tracked \subseteq TreePaths /\ r.holds \in [TreePaths -> Content] /\ r.cryptography \in BOOLEAN
  /\ r.files \in Seq(File)
  /\ \A k \in DOMAIN r.files : \A i, j \in DOMAIN r.files[k].lines :
       LET a == r.files[k].lines[i].assigns
           b == r.files[k].lines[j].assigns
       IN  \A m \in DOMAIN a, n \in DOMAIN b : a[m].value.id = b[n].value.id => a[m].value = b[n].value

VARIABLES
  repo,       (* its files, the tracked paths, what each path holds, and
                 whether the cryptography package is there                 *)
  tracked,    (* tracked paths not inspected yet                           *)
  file, line, (* the position in the files                                 *)
  pending,    (* assignments of the file not judged yet                    *)
  seen,       (* what was judged                                           *)
  findings

shVars == <<repo, tracked, file, line, pending, seen, findings>>

----------------------------------------------------------------------------
(* Tracked files                                                           *)

\* A certificate that is self-signed and says it is a test's.  Unknown
\* without the cryptography package.
IsTestCert(p) ==
  /\ repo.cryptography /\ repo.holds[p].cert # Absent
  /\ repo.holds[p].cert.selfSigned /\ repo.holds[p].cert.testIdentity

\* Bug variant: the directory alone pairs a key with a certificate.
SiblingByDirectory(p) == \E q \in TreePaths : DirOf[q] = DirOf[p] /\ KindOf[q] \in {"pem", "crt"} /\ IsTestCert(q)

\* A test certificate in the directory of the key p that is the key's.
SiblingSelfSignedCert(p) ==
  \E q \in TreePaths :
    /\ DirOf[q] = DirOf[p] /\ KindOf[q] \in {"pem", "crt"} /\ IsTestCert(q)
    /\ repo.holds[p].key = repo.holds[q].cert.key

\* A certificate speaks for its file, before any key in it is looked at.
IsDemotedTestCert(p) ==
  \/ KindOf[p] = "pem" /\ IsTestCert(p)
  \/ KindOf[p] = "pem" /\ repo.holds[p].key # Absent /\ SiblingSelfSignedCert(p)
  \/ KindOf[p] = "key" /\ SiblingSelfSignedCert(p)

BearsSecret(p) == KindOf[p] \in {"env", "pem", "key"}

TrackedFinding(p) ==
  LET tags == ComposeDemotion(Tagged("test-cert", DirOf[p] \in TestDirs /\ IsDemotedTestCert(p)), FALSE, {})
  IN  [kind |-> "tracked", where |-> <<p>>, what |-> <<>>, times |-> 1, tags |-> tags,
       confidence |-> Confidence("HIGH", tags)]

InspectTracked(p) ==
  /\ p \in tracked
  /\ tracked' = tracked \ {p}
  /\ findings' = IF BearsSecret(p) THEN findings \cup {TrackedFinding(p)} ELSE findings
  /\ UNCHANGED <<repo, file, line, pending, seen>>

----------------------------------------------------------------------------
(* Literals                                                                *)

\* The literals of a line, assigned or not.
ValuesOf(l) == l.matches \o [j \in DOMAIN l.assigns |-> l.assigns[j].value]

\* Bug variant: the signs of one literal are those of the line.
ValueTagsOfLine(f, i, n) ==
  LET l == f.lines[i]
      V == {ValuesOf(l)[m] : m \in DOMAIN ValuesOf(l)}
  IN  ComposeDemotion(Tagged("author-suppressed", l.pragma)
                        \cup Tagged("fake-marker", \E v \in V : v.shaped /\ HasFakeMarker(v)),
                      f.test, Tagged("non-credential-shape", \E v \in V : v.shaped /\ IsNonCredentialShape(v)))

\* The signs that a literal of credential shape is a stand-in.
ValueTags(f, i, n) ==
  LET v == ValuesOf(f.lines[i])[n]
  IN  ComposeDemotion(Tagged("author-suppressed", f.lines[i].pragma)
                        \cup Tagged("fake-marker", HasFakeMarker(v)),
                      f.test, Tagged("non-credential-shape", IsNonCredentialShape(v)))

ValueFindings(k, i) ==
  LET f == repo.files[k]
      Shown == {n \in DOMAIN ValuesOf(f.lines[i]) :
                  ValuesOf(f.lines[i])[n].shaped /\ ~ValuesOf(f.lines[i])[n].known}
  IN  {[kind |-> "value", where |-> <<k, i>>, what |-> <<n>>, times |-> 1,
        tags |-> ValueTags(f, i, n), confidence |-> Confidence("HIGH", ValueTags(f, i, n))] : n \in Shown}

\* The assignments of a file that are judged, as <<line, number>>.
Assignments(f) ==
  {p \in UNION {{i} \X DOMAIN f.lines[i].assigns : i \in DOMAIN f.lines} :
     /\ f.language = "python" \/ (f.language = "js" /\ ~f.lines[p[1]].comment)
     /\ ~f.lines[p[1]].assigns[p[2]].value.known /\ ~f.lines[p[1]].assigns[p[2]].value.placeholder}

\* ast.walk goes level by level, the line scan from top to bottom.
Before(f, p, q) ==
  LET Depth(r) == IF f.language = "python" THEN f.lines[r[1]].depth ELSE 0
  IN  \/ Depth(p) < Depth(q)
      \/ Depth(p) = Depth(q) /\ p[1] < q[1]
      \/ Depth(p) = Depth(q) /\ p[1] = q[1] /\ p[2] < q[2]

At(f, p) == f.lines[p[1]].assigns[p[2]]

\* Copies of one literal under one name are one secret.
Key(f, p) == <<At(f, p).name, At(f, p).value.id>>

NameTags(f, p) ==
  LET a == At(f, p)
  IN  ComposeDemotion(Tagged("author-suppressed", f.lines[p[1]].pragma)
                        \cup Tagged("fake-marker", HasFakeMarker(a.value))
                        \cup Tagged("non-credential-shape", IsNonCredentialShape(a.value)),
                      f.test, Tagged("mock-name", HasMockMarker(a.name)))

NameFinding(k, p) ==
  LET f == repo.files[k]
  IN  [kind |-> "name", where |-> <<k, p[1]>>, what |-> <<At(f, p).name, At(f, p).value.id>>,
       times |-> Cardinality({q \in Assignments(f) : Key(f, q) = Key(f, p)}), tags |-> NameTags(f, p),
       confidence |-> Confidence("MEDIUM", NameTags(f, p))]

\* The lines of a file, one after the other, for what they contain; at the
\* last the assignments are collected.
ScanLine ==
  /\ tracked = {} /\ file \in DOMAIN repo.files /\ line \in DOMAIN repo.files[file].lines
  /\ findings' = findings \cup ValueFindings(file, line)
  /\ line' = line + 1
  /\ pending' = IF line = Len(repo.files[file].lines) THEN Assignments(repo.files[file]) ELSE {}
  /\ UNCHANGED <<repo, tracked, file, seen>>

\* The next assignment, unless a copy of it was judged: the first one
\* speaks for all.
JudgeAssignment ==
  \E p \in pending :
    LET f == repo.files[file]
    IN  /\ \A q \in pending \ {p} : Before(f, p, q)
        /\ pending' = pending \ {p}
        /\ seen' = seen \cup {Key(f, p)}
        /\ findings' = IF Key(f, p) \notin seen /\ LooksSecret(At(f, p).name)
                       THEN findings \cup {NameFinding(file, p)}
                       ELSE findings
        /\ UNCHANGED <<repo, tracked, file, line>>

----------------------------------------------------------------------------
(* Logging                                                                 *)

\* Bug variant: a helper that says it redacts is believed.
LogsSecretUnwrapped(f, l) ==
  ~l.wrapped /\ f.language # "other"
    /\ \E j \in DOMAIN l.log : l.log[j].in # "prose" /\ ChainIsSecret(l.log[j].chain)

\* Does the line log a name that looks secret?  Not in the prose of the
\* message, and not on a comment line.  A redacting helper around the
\* argument is only mentioned in the finding.
LogsSecret(f, l) ==
  /\ f.language = "python" \/ (f.language = "js" /\ ~l.comment)
  /\ \E j \in DOMAIN l.log : l.log[j].in # "prose" /\ ChainIsSecret(l.log[j].chain)

LogFinding(k, i) ==
  [kind |-> "log", where |-> <<k, i>>, what |-> <<>>, times |-> 1,
   tags |-> Tagged("wrapped", repo.files[k].language = "js" /\ repo.files[k].lines[i].wrapped),
   confidence |-> "LOW"]

\* Bug variant: the file is left before all its assignments are judged.
ScanLoggingEarly ==
  /\ tracked = {} /\ file \in DOMAIN repo.files
  /\ line \notin DOMAIN repo.files[file].lines
  /\ LET f == repo.files[file]
     IN  findings' = findings \cup {LogFinding(file, i) : i \in {i \in DOMAIN f.lines : LogsSecret(f, f.lines[i])}}
  /\ file' = file + 1 /\ line' = 1 /\ seen' = {}
  /\ UNCHANGED <<repo, tracked, pending>>

\* Once the assignments are judged, what is logged; then the next file.
ScanLogging ==
  /\ tracked = {} /\ file \in DOMAIN repo.files
  /\ line \notin DOMAIN repo.files[file].lines /\ pending = {}
  /\ LET f == repo.files[file]
     IN  findings' = findings \cup {LogFinding(file, i) : i \in {i \in DOMAIN f.lines : LogsSecret(f, f.lines[i])}}
  /\ file' = file + 1 /\ line' = 1 /\ seen' = {}
  /\ UNCHANGED <<repo, tracked, pending>>

----------------------------------------------------------------------------
\* The start, on one of the given repositories.
InitSecretHandling(repos) ==
  /\ repo \in repos
  /\ tracked = repo.tracked
  /\ file = 1 /\ line = 1 /\ pending = {} /\ seen = {} /\ findings = {}

SecretHandlingDone == tracked = {} /\ file \notin DOMAIN repo.files

NextSecretHandling ==
  \/ \E p \in tracked : InspectTracked(p)
  \/ ScanLine
  \/ JudgeAssignment
  \/ ScanLogging

SecretSpec(repos) == InitSecretHandling(repos) /\ [][NextSecretHandling]_shVars

----------------------------------------------------------------------------
(* Properties                                                              *)

\* The state of the detector is well formed: what is pending belongs to the
\* current file, which is left only when nothing is.
SecretTypeOK ==
  /\ WellFormed(repo)
  /\ tracked \subseteq TreePaths
  /\ file \in 1..(Len(repo.files) + 1) /\ line \in Nat \ {0}
  /\ pending # {} => file \in DOMAIN repo.files /\ pending \subseteq Assignments(repo.files[file])
  /\ \A g \in findings :
       /\ g.kind \in {"tracked", "value", "name", "log"} /\ g.times \in Nat \ {0}
       /\ g.confidence \in {"HIGH", "MEDIUM", "LOW"}

\* Line i of file k is code in a language that is read.
IsRead(k, i) ==
  repo.files[k].language = "python" \/ (repo.files[k].language = "js" /\ ~repo.files[k].lines[i].comment)

ValueTold(k, i, n) ==
  LET v == ValuesOf(repo.files[k].lines[i])[n]
  IN  v.shaped /\ ~v.known
        => \E g \in findings : g.kind = "value" /\ g.where = <<k, i>> /\ g.what = <<n>>

\* The places where the j-th assignment of line i stands again, word by word.
Copies(k, i, j) ==
  LET f == repo.files[k]
  IN  {q \in UNION {{m} \X DOMAIN f.lines[m].assigns : m \in DOMAIN f.lines} :
         At(f, q) = At(f, <<i, j>>) /\ (f.language = "js" => ~f.lines[q[1]].comment)}

AssignmentTold(k, i, j) ==
  LET a == At(repo.files[k], <<i, j>>)
  IN  IsRead(k, i) /\ LooksSecret(a.name) /\ ~a.value.known /\ ~a.value.placeholder
        => \E g \in findings : /\ g.kind = "name" /\ g.where[1] = k /\ g.what = <<a.name, a.value.id>>
                               /\ g.times = Cardinality(Copies(k, i, j))

LogTold(k, i, j) ==
  LET arg == repo.files[k].lines[i].log[j]
  IN  IsRead(k, i) /\ arg.in # "prose" /\ LooksSecret(arg.chain[Len(arg.chain)])
        => \E g \in findings : g.kind = "log" /\ g.where = <<k, i>>

\* What is tracked or written in a file is reported whatever the repository
\* says about itself: no pragma, directory, name with "mock", made-up value,
\* test certificate or redacting helper removes a finding, and copies that
\* are folded into one finding are all counted in it.  (The one law that the
\* comments of secret_handling.py invoke: such signs only demote.)
SignalsNeverSilence ==
  SecretHandlingDone =>
    /\ \A p \in repo.tracked : BearsSecret(p) => \E g \in findings : g.kind = "tracked" /\ g.where = <<p>>
    /\ \A k \in DOMAIN repo.files : \A i \in DOMAIN repo.files[k].lines :
         /\ \A n \in DOMAIN ValuesOf(repo.files[k].lines[i]) : ValueTold(k, i, n)
         /\ \A j \in DOMAIN repo.files[k].lines[i].assigns : AssignmentTold(k, i, j)
         /\ \A j \in DOMAIN repo.files[k].lines[i].log : LogTold(k, i, j)

\* A literal of credential shape keeps its confidence in any directory and
\* next to any other literal, unless it is itself made up, or its own line
\* has the pragma, or it is a phrase in a test file; an assigned one, unless
\* a sign of its own value, line or name lowers it.  (_compose_demotion, the
\* match-scoped loop of _scan_literals.)
RealSecretStaysHigh ==
  \A g \in findings : g.kind \in {"value", "name"} /\ g.confidence = "LOW" =>
    LET f == repo.files[g.where[1]]
        l == f.lines[g.where[2]]
        V == IF g.kind = "value" THEN {ValuesOf(l)[g.what[1]]}
             ELSE {a.value : a \in {l.assigns[j] : j \in {j \in DOMAIN l.assigns :
                                      <<l.assigns[j].name, l.assigns[j].value.id>> = g.what}}}
    IN  \/ l.pragma
        \/ \E v \in V : \/ HasFakeMarker(v)
                        \/ IsNonCredentialShape(v) /\ (f.test \/ g.kind = "name")
        \/ g.kind = "name" /\ f.test /\ HasMockMarker(g.what[1])

\* A tracked file is demoted only in a test directory, and only if it holds a
\* certificate known to be self-signed and named like a test, or the very key
\* of such a certificate next to it: the key of another certificate is not
\* enough in a file of its own.  A bundle is judged by its certificate, with
\* whatever key it holds.  (_is_demoted_test_cert, _sibling_self_signed_cert.)
TestCertNeedsAllSignals ==
  \A g \in findings : g.kind = "tracked" /\ g.confidence = "LOW" =>
    LET p == g.where[1]
    IN  /\ repo.cryptography /\ DirOf[p] \in TestDirs
        /\ \E q \in TreePaths :
             /\ DirOf[q] = DirOf[p] /\ repo.holds[q].cert # Absent
             /\ repo.holds[q].cert.selfSigned /\ repo.holds[q].cert.testIdentity
             /\ p = q \/ repo.holds[p].key = repo.holds[q].cert.key
=============================================================================
