------------------------- MODULE MCDiagnosticSession -------------------------
(* The script of run_uds_session() and the thresholds of the analyzer. *)
EXTENDS DiagnosticSessionProperties

MCScript == <<"extendedSession", "vin", "speed", "rpm", "dtcs", "dtcs", "dtcs",
              "unknownDid", "unknownDid", "unknownDid">>

MCThreshold == <<3, 3, 2>>

(* The script is enough for a finding of each rule, and every event of it is needed. *)
ASSUME EveryRuleFires ==
  /\ Findings(Transcript(Len(Script))) = Rule
  /\ Findings(Transcript(Len(Script) - 1)) # Rule

=============================================================================
