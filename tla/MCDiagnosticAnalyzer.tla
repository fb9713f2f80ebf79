------------------------ MODULE MCDiagnosticAnalyzer ------------------------
(* Small instances of DiagnosticAnalyzer for TLC. *)
EXTENDS DiagnosticAnalyzerProperties

CONSTANTS powertrain, battery

ECUs == {powertrain, battery}
MCThreshold == <<2, 3, 2>>
MCWindow == <<1, 1, 0>>

(* A negative answer to a DTC query counts for rules 1 and 2, a positive   *)
(* one that lists P0217 for rules 2 and 3.                                 *)
MCResponses ==
  {[positive |-> FALSE, dtc |-> TRUE, p0217 |-> FALSE],
   [positive |-> TRUE, dtc |-> TRUE, p0217 |-> TRUE]}

=============================================================================
