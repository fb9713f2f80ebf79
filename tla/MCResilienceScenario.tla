------------------------- MODULE MCResilienceScenario -------------------------
(***************************************************************************)
(* Instance of ResilienceScenario for TLC: one event before the outage,    *)
(* one that has to be buffered, one after it, on two topics, and one      *)
(* fault besides the scenario's own.                                       *)
(***************************************************************************)
EXTENDS ResilienceScenarioProperties
=============================================================================
