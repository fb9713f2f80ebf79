--------------------------- MODULE MCDemoController ---------------------------
(* The dashboard's controller on instances small enough for TLC. *)
EXTENDS DemoControllerProperties
=============================================================================
