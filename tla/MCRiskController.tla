--------------------------- MODULE MCRiskController ---------------------------
(* Instances of RiskController for TLC: a data monitor and a processing       *)
(* monitor, the committee's HOLD and the operator's emergency stop.            *)
EXTENDS RiskController

CONSTANT c1

MCTrigger == {"DI_STALE_DATA", "DI_INGESTION_FAILURE", "PR_PROCESSING_TIMEOUT",
              "IN_CONTROLLER_ERROR", "MN_COMMITTEE_HOLD", "MN_EMERGENCY_STOP"}

MCOwner == [t \in MCTrigger |->
                CASE t \in {"DI_STALE_DATA", "DI_INGESTION_FAILURE"} -> 1
                  [] t = "PR_PROCESSING_TIMEOUT" -> 2
                  [] OTHER -> 0]

\* Each monitor reports triggers of its own category and errors of its check, and
\* BaseMonitor.check reports PR_PROCESSING_TIMEOUT for any monitor that is slow.
Slow == <<"PR_PROCESSING_TIMEOUT", 1>>
MCReports == <<{<<"DI_STALE_DATA", 2>>, <<"DI_INGESTION_FAILURE", 1>>, Slow},
               {<<"IN_CONTROLLER_ERROR", 2>>, Slow}>>

MCCallerHalts == {<<"MN_COMMITTEE_HOLD", 1>>, <<"MN_EMERGENCY_STOP", 3>>}
MCGuardTriggers == {"DI_STALE_DATA"}
===============================================================================
