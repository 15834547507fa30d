------------------------------ MODULE MCTCPLink ------------------------------
(***************************************************************************)
(* TCPLink on small instances.                                             *)
(***************************************************************************)
EXTENDS TCPLink
=============================================================================
