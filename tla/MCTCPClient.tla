----------------------------- MODULE MCTCPClient -----------------------------
(***************************************************************************)
(* TCPClient with two connections, the one lost and the next, and room for *)
(* a packet and a part of another.  No symmetry: the run checks liveness.  *)
(***************************************************************************)
EXTENDS TCPClient
=============================================================================
