--------------------------- MODULE MCDashboardState ---------------------------
(* The dashboard's state on an instance small enough for TLC. *)
EXTENDS DashboardStateProperties
=============================================================================
