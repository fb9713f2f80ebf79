---------------------------- MODULE MCEdgeGateway ----------------------------
(* The edge gateway on instances small enough for TLC. *)
EXTENDS EdgeGatewayProperties
=============================================================================
