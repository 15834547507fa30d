----------------------------- MODULE MCBleClient -----------------------------
(***************************************************************************)
(* BleClient as it is: it has no constants.                                *)
(***************************************************************************)
EXTENDS BleClient
=============================================================================
