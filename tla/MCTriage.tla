------------------------------ MODULE MCTriage ------------------------------
(* Two findings that collide and one of another spine: enough for a suffix *)
(* to shift, for a neighbour to disturb it and, with TopCount 2, for an    *)
(* open finding to be left out of the summary.                             *)
EXTENDS Triage, TLC

CONSTANTS a, b, c, log, shell

MCDetectSeq == <<a, b, c>>
MCSpineOf == a :> log @@ b :> log @@ c :> shell
=============================================================================
