------------------------------- MODULE UartFeed -------------------------------
(***************************************************************************)
(* What the server program and its board promise the client's half of the  *)
(* UART link: a sequence of packets to notify, each of them SBUFLEN bytes  *)
(* in the order they were sent, though perhaps of different packets.       *)
(*                                                                         *)
(* A byte is the number of the edit that made its packet and its place     *)
(* there; those of the zeroed buffer of a program that has just started    *)
(* are all the same.                                                       *)
(***************************************************************************)
EXTENDS Naturals, Sequences

CONSTANT SBUFLEN   (* the bytes of a packet                              *)

VARIABLES
  edits,    (* the number of edits of the panel so far                   *)
  packet,   (* the packet the board is about to notify; empty if none    *)
  last,     (* the newest edit that a byte read so far belongs to        *)
  broken    (* some packet was broken up on the way                      *)

feedVars == << edits, packet, last, broken >>

Place == 1 .. SBUFLEN

ZeroByte == << 0, 0 >>

Bytes(p) == [i \in Place |-> IF p = 0 THEN ZeroByte ELSE << p, i >>]

\* The bytes are of the zeroed buffer, or of edits in the order they were made
\* and not before this one.
InOrder(bytes, from) ==
  \A j \in Place :
    /\ bytes[j][1] \in {0} \cup from .. edits
    /\ \A i \in 1 .. j : bytes[j][1] = 0 \/ bytes[i][1] <= bytes[j][1]

Newest(bytes, than) ==
  CHOOSE e \in {than} \cup {bytes[i][1] : i \in Place} :
    e >= than /\ \A i \in Place : e >= bytes[i][1]

Init ==
  /\ edits = 0
  /\ packet = << >>
  /\ last = 0
  /\ broken = FALSE

Edit ==
  /\ edits' = edits + 1
  /\ UNCHANGED << packet, last, broken >>

\* The packets that can come next: whole ones, unless one was broken up before.
Readable ==
  {b \in IF broken THEN [Place -> {ZeroByte} \cup (1 .. edits) \X Place]
         ELSE {Bytes(p) : p \in 0 .. edits} : InOrder(b, last)}

\* The board reads a packet.
Read ==
  /\ packet = << >>
  /\ packet' \in Readable
  /\ last' = Newest(packet', last)
  /\ UNCHANGED << edits, broken >>

Notify ==
  /\ packet # << >> /\ packet' = << >>
  /\ UNCHANGED << edits, last, broken >>

Break ==
  /\ broken' = TRUE
  /\ UNCHANGED << edits, packet, last >>

Next == Edit \/ Read \/ Notify \/ Break

Spec == Init /\ [][Next]_feedVars

=============================================================================
