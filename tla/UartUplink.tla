------------------------------ MODULE UartUplink ------------------------------
(***************************************************************************)
(* The server's half of the UART link: UartServer filled by the server's   *)
(* panel, and the loop of app_main() of the server's board                 *)
(* (esp32/server/src/main.c), which reads packets from the serial line and *)
(* notifies them over BLE.  Nothing marks where a packet begins; the board *)
(* flushes what has arrived after every packet and when nobody has         *)
(* subscribed.  The subscriber comes and goes as EspServer says, here at   *)
(* any time.                                                               *)
(***************************************************************************)
EXTENDS Naturals, Sequences

CONSTANTS
  SBUFLEN,      (* the bytes of a packet                                 *)
  Cap,          (* a bound on the bytes under way on a serial line       *)
  MaxEdits,     (* a bound on the edits of the panel                     *)
  MaxExits      (* a bound on the times the program is closed or crashes *)

ASSUME UplinkAssumption ==
  /\ SBUFLEN \in Nat \ {0} /\ Cap \in Nat /\ Cap >= SBUFLEN
  /\ MaxEdits \in Nat /\ MaxExits \in Nat

Edits == 0 .. MaxEdits

VARIABLES
  main, worker, m_isRunning, m_status, open, m_buf, temp_buf,
  up,           (* the bytes from the server program to its board        *)
  board,        (* where the board's main task is                        *)
  buffer,       (* the packet it has read; empty when it has none        *)
  link,         (* a client's board has subscribed                       *)
  edits,        (* the number of edits so far                            *)
  exits,        (* the times the program was closed or crashed so far    *)
  last,         (* history: the newest edit the board has read           *)
  broken        (* history: some packet was broken up                    *)

S == INSTANCE UartServer WITH Packet <- Edits, ZeroPacket <- 0

F == INSTANCE UartFeed WITH packet <- buffer

sVars == << main, worker, m_isRunning, m_status, open, m_buf, temp_buf >>

vars == << sVars, up, board, buffer, link, edits, exits, last, broken >>

Init ==
  /\ S!Started /\ up = << >>
  /\ board = "check" /\ buffer = << >> /\ link = FALSE
  /\ edits = 0 /\ exits = 0
  /\ last = 0 /\ broken = FALSE

-----------------------------------------------------------------------------
(* The server program. *)

ServerFrame == UNCHANGED << board, buffer, link, last >>

Exit(free) ==
  /\ free \/ exits < MaxExits
  /\ exits' = IF free THEN exits ELSE exits + 1
  /\ UNCHANGED edits

Edit ==
  /\ edits < MaxEdits
  /\ edits' = edits + 1
  /\ S!SetBuffer(edits')
  /\ ServerFrame /\ UNCHANGED exits

ServerRuns == S!WorkerProgress /\ ServerFrame /\ UNCHANGED << edits, exits >>

ServerFails == S!WorkerFails /\ ServerFrame /\ UNCHANGED << edits, exits >>

ServerEnds == S!Destructor /\ ServerFrame /\ UNCHANGED << edits, exits >>

ServerQuits == Exit(FALSE) /\ S!Quit /\ ServerFrame

\* A crash, or, for free, another start after the program has ended.
ServerRestarts ==
  Exit(main = "gone") /\ (\E k \in 0 .. SBUFLEN : S!Restart(k)) /\ ServerFrame

-----------------------------------------------------------------------------
(* The board. *)

BoardGoto(from, to) ==
  board = from /\ board' = to /\ UNCHANGED << sVars, link, edits, exits >>

Check ==
  /\ BoardGoto("check", IF link THEN "read" ELSE "flush")
  /\ UNCHANGED << up, buffer, last >>

\* ReadPacket broken on purpose: one byte too few is asked for.
ReadPacketShort ==
  /\ Len(up) >= SBUFLEN
  /\ BoardGoto("read", "notify")
  /\ buffer' = Append(SubSeq(up, 1, SBUFLEN - 1), F!ZeroByte)
  /\ up' = SubSeq(up, SBUFLEN, Len(up))
  /\ last' = F!Newest(buffer', last)

\* uart_read_bytes() returns SBUFLEN.
ReadPacket ==
  /\ Len(up) >= SBUFLEN
  /\ BoardGoto("read", "notify")
  /\ buffer' = SubSeq(up, 1, SBUFLEN)
  /\ up' = SubSeq(up, SBUFLEN + 1, Len(up))
  /\ last' = F!Newest(buffer', last)

\* It times out before that, with nothing or with a part of a packet.
ReadTimesOut ==
  /\ Len(up) < SBUFLEN
  /\ BoardGoto("read", "flush")
  /\ up' = << >>
  /\ UNCHANGED << buffer, last >>

\* The packet is notified, or that fails: refused, or lost with the connection.
Notify ==
  /\ BoardGoto("notify", "flush")
  /\ buffer' = << >>
  /\ UNCHANGED << up, last >>

\* uart_flush_input() drops what has arrived, which may end within a packet.
Flush(k) ==
  /\ BoardGoto("flush", "check")
  /\ k <= Len(up) /\ up' = SubSeq(up, k + 1, Len(up))
  /\ UNCHANGED << buffer, last >>

BoardRuns == Check \/ ReadPacket \/ ReadTimesOut \/ Notify \/ \E k \in 0 .. Cap : Flush(k)

LinkChanges ==
  /\ link' = ~link
  /\ UNCHANGED << sVars, up, board, buffer, edits, exits, last >>

-----------------------------------------------------------------------------

\* The steps that break a packet up: a write or the program ends within it, or a
\* flush comes when only a part of it has arrived.
BreaksUp ==
  \/ \E k \in 1 .. SBUFLEN - 1 : S!WriteFails(k) \/ S!Restart(k)
  \/ board = "flush" /\ up' # << >> /\ (Len(up) - Len(up')) % SBUFLEN # 0

Act ==
  \/ Edit \/ ServerRuns \/ ServerFails \/ ServerEnds \/ ServerQuits \/ ServerRestarts
  \/ BoardRuns \/ LinkChanges

Track == broken' = (broken \/ BreaksUp)

Next == Act /\ Track

Spec == Init /\ [][Next]_vars

\* The program's threads and the board's task run; a port that can be opened is
\* opened sooner or later.
FairSpec ==
  /\ Spec
  /\ WF_vars(ServerRuns /\ Track)
  /\ WF_vars(ServerEnds /\ Track)
  /\ WF_vars(BoardRuns /\ Track)

-----------------------------------------------------------------------------
(* Properties. *)

\* Whatever is written in part, cut by a flush or dropped, the board only reads
\* bytes in the order they were sent, and packets that are whole as long as none
\* has been broken up.
ImplementsFeed == F!Spec

\* Closing the window ends the program, whatever becomes of the port: the worker
\* leaves both loops, and no write holds it for ever.
DestructorReturns == main = "stop" ~> main \in {"gone", "gui"}

ServerUp == main = "gui" /\ worker # "done"

\* A step of a link that keeps up: packets travel whole, the line holds one at
\* most and no flush drops it, and no call fails.
KeepsUp ==
  /\ ~BreaksUp /\ (Len(up') > Len(up) => up = << >>)
  /\ ~(board = "flush" /\ Len(up) >= SBUFLEN /\ up' # up)
  /\ ~ServerFails

\* However packets were broken up before, once the program and the subscriber
\* stay and the link keeps up, the board reads packet after packet, and each of
\* them is the panel's, all of it.
RealignsItself ==
  <>[](ServerUp /\ link) /\ <>[][KeepsUp]_vars =>
    /\ []<>(board = "notify")
    /\ <>[](buffer \in {<< >>, S!Bytes(m_buf)})

=============================================================================
