---------------------------- MODULE SecretShapes ----------------------------
(***************************************************************************)
(* detectors/secret_handling.py, the judgments that it shares with         *)
(* secret_leak_response: which names and values look like secrets, which   *)
(* look like stand-ins, and how signs of the latter lower the confidence   *)
(* of a finding.                                                           *)
(*                                                                         *)
(* An identifier is its sequence of words, joined by a separator or by     *)
(* camelCase.  A value is described by what its regular expressions tell   *)
(* apart.                                                                  *)
(***************************************************************************)
EXTENDS Naturals, Sequences

----------------------------------------------------------------------------
(* Names                                                                   *)

\* What _SECRET_NAME finds; the last two stand for one match of two words.
SecretWords == {"secret", "token", "password", "passwd", "api_key", "private_key"}
\* Words that contain a match: what follows it is a letter.
GluedWords == {"tokenizer", "passwordless"}
PrefixWords == {"next", "page", "continuation"}
CoreWords == {"token", "cursor"}
ExcludeWords == {"access", "refresh", "auth", "secret", "password", "passwd", "client", "bearer",
                 "session", "private", "csrf", "id", "api", "key"}
MockWords == {"mock", "fake", "dummy", "stub", "placeholder", "sample", "demo", "test", "fixture",
              "example"}
AccessorWords == {"value", "raw", "plain", "text", "str", "content", "data", "payload"}

Words == SecretWords \cup GluedWords \cup PrefixWords \cup CoreWords \cup ExcludeWords
           \cup MockWords \cup AccessorWords \cup {"list", "config", "env", "plan"}

Name == [words : Seq(Words) \ {<<>>}, camel : BOOLEAN]

NameWords(n) ==
  UNION {CASE n.words[i] = "api_key"     -> {"api", "key"}
           [] n.words[i] = "private_key" -> {"private", "key"}
           [] OTHER                      -> {n.words[i]} : i \in DOMAIN n.words}

HasMockMarker(n) == NameWords(n) \cap MockWords # {}

\* A continuation handle of a paged answer: no credential.
IsPaginationCursor(n) ==
  LET W == NameWords(n)
  IN  /\ W \cap ExcludeWords = {}
      /\ \/ "cursor" \in W
         \/ W \cap PrefixWords # {} /\ W \cap CoreWords # {}

\* Only the first match of _SECRET_NAME counts, and no letter may touch it:
\* in camelCase the neighbouring words do.
LooksSecret(n) ==
  /\ \E i \in DOMAIN n.words :
       /\ n.words[i] \in SecretWords
       /\ \A j \in 1..(i - 1) : n.words[j] \notin SecretWords \cup GluedWords
  /\ n.camel => Len(n.words) = 1
  /\ ~IsPaginationCursor(n)

\* A member chain is judged by its last segment, or by the one before if
\* the last is a generic accessor.
ChainIsSecret(chain) ==
  LET last == chain[Len(chain)]
  IN  \/ LooksSecret(last)
      \/ /\ Len(last.words) = 1 /\ last.words[1] \in AccessorWords
         /\ Len(chain) >= 2 /\ LooksSecret(chain[Len(chain) - 1])

----------------------------------------------------------------------------
(* Values                                                                  *)

\* shaped: one of _SECRET_VALUE_PATTERNS matches; known: the curated example
\* keys; placeholder: _PLACEHOLDER or shorter than 8; upper: has a capital;
\* joined: has a _ or a -; segments: its runs of letters and digits.
Value == [id : STRING, shaped : BOOLEAN, known : BOOLEAN, placeholder : BOOLEAN, upper : BOOLEAN,
          joined : BOOLEAN, segments : Seq({"word", "marker", "xxxx", "long", "digits"})]

\* A whole word that says it is made up, or a run of x.
HasFakeMarker(v) == \E i \in DOMAIN v.segments : v.segments[i] \in {"marker", "xxxx"}

\* A lowercase phrase.
IsNonCredentialShape(v) ==
  /\ v.joined /\ ~v.upper /\ Len(v.segments) >= 2
  /\ \A i \in DOMAIN v.segments : v.segments[i] \in {"word", "marker", "xxxx"}

----------------------------------------------------------------------------
(* Confidence                                                              *)

Tagged(tag, holds) == IF holds THEN {tag} ELSE {}

\* The tags of a finding: it is demoted if there is one.  Each standalone
\* sign demotes; a test path only together with another sign.
ComposeDemotion(standalone, testPath, cosignals) ==
  IF testPath /\ standalone \cup cosignals # {}
  THEN standalone \cup cosignals \cup {"test-path"}
  ELSE standalone

Confidence(base, tags) == IF tags = {} THEN base ELSE "LOW"
=============================================================================
