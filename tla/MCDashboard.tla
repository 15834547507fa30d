----------------------------- MODULE MCDashboard -----------------------------
(***************************************************************************)
(* Dashboard with gauges that tell a zeroed field from a reading.          *)
(***************************************************************************)
EXTENDS Dashboard
=============================================================================
