------------------------------- MODULE MCDemoRun -------------------------------
(* A run of the demo on an instance small enough for TLC. *)
EXTENDS DemoRunProperties
=============================================================================
