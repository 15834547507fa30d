----------------------------- MODULE MCUartUplink -----------------------------
(***************************************************************************)
(* UartUplink on small instances.                                          *)
(***************************************************************************)
EXTENDS UartUplink
=============================================================================
