----------------------------- MODULE MCTCPServer -----------------------------
(***************************************************************************)
(* TCPServer on small instances.                                           *)
(***************************************************************************)
EXTENDS TCPServer
=============================================================================
