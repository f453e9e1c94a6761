---------------------------- MODULE MCDetectors ----------------------------
(* Three detectors in the order in which the scanner calls them.  None     *)
(* looks at what another one found, so each run has files for one only.    *)
EXTENDS MCParamInjection, MCSecrets

vars == <<piVars, shVars, slVars>>

NoSecrets == InitSecretHandling({Repo(<<>>)}) /\ InitSecretLeak({Server({}, <<>>, b1 :> NoText, <<>>)})

Init ==
  \/ (\E family \in DOMAIN InjectionRepos : InitInjection(InjectionRepos[family])) /\ NoSecrets
  \/ InitInjection({<<>>}) /\ InitSecrets

Next ==
  \/ NextInjection /\ UNCHANGED <<shVars, slVars>>
  \/ InjectionDone /\ NextSecrets /\ UNCHANGED piVars

Spec == Init /\ [][Next]_vars
=============================================================================
