------------------------------ MODULE MCUartLink ------------------------------
(***************************************************************************)
(* UartLink on small instances.                                            *)
(***************************************************************************)
EXTENDS UartLink

\* The board forwards whole packets, whatever has become of the ones before.
Whole == Forward => \E p \in Edits : down' = down \o F!Bytes(p)

\* The behaviours of UartLink in which nothing but the log of the client's board
\* breaks a packet up: the uplink delivers whole ones, and the program opens and
\* reads its port between two of them.
LogSpec == Init /\ [][Act /\ Track /\ Whole /\ (BreaksUp => Log)]_vars
=============================================================================
