--------------------------- MODULE MCScanPipeline ---------------------------
(* A Python server, a Python test file, a TypeScript test file and a       *)
(* tracked .env; one detector that may report any one finding about them   *)
(* and one that adds a fixed low-severity finding.                         *)
EXTENDS ScanPipeline, TLC

CONSTANTS server, testpy, spects, dotenv, sinks, hygiene

MCFileSeq == <<server, testpy, spects>>
MCDetectors == <<sinks, hygiene>>
MCOutcomes == server :> {"read", "unparsed"} @@ testpy :> {"read", "oversize"}
                @@ spects :> {"read", "unreadable"}

AnyReport ==
  [file : {server, testpy}, dataflow : {TRUE}, sev : {0, 2, 3}, conf : Confidences,
   at : {"strong", "weak"}, flow : {"tainted", "clean", "unseen"}]
  \cup [file : {server, testpy}, dataflow : BOOLEAN, sev : {0, 2, 3}, conf : Confidences,
        at : {"module", "called", "uncalled"}, flow : {"unseen"}]
  \cup [file : {spects}, dataflow : BOOLEAN, sev : {0, 3}, conf : {0, 2},
        at : {"module"}, flow : {"unseen"}]
  \cup [file : {server, dotenv}, dataflow : {FALSE}, sev : {1}, conf : {1},
        at : {"whole"}, flow : {"unseen"}]

AReport == [file |-> server, dataflow |-> TRUE, sev |-> 3, conf |-> 1,
            at |-> "module", flow |-> "unseen"]

MCReports == sinks :> {<<>>} \cup {<<r>> : r \in AnyReport}
               @@ hygiene :> {<<>>, <<AReport>>}
=============================================================================
