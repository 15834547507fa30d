----------------------------- MODULE MCEspServer -----------------------------
(***************************************************************************)
(* EspServer with the handles of one connection and of the next.           *)
(***************************************************************************)
EXTENDS EspServer
=============================================================================
