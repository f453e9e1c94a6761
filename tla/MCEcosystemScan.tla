-------------------------- MODULE MCEcosystemScan --------------------------
(* A local target, a URL target, and a second local target that has been   *)
(* given the name of the first.                                            *)
EXTENDS EcosystemScan, TLC

CONSTANTS here, there, hereSlug, thereSlug, path, url, mirror

MCSlugOf == here :> hereSlug @@ there :> thereSlug
MCConfig == << [name |-> here, location |-> path], [name |-> there, location |-> url],
               [name |-> here, location |-> mirror] >>
=============================================================================
