------------------------------- MODULE UartLink -------------------------------
(***************************************************************************)
(* The client's half of the UART link, fed by what UartUplink implements:  *)
(* UartFeed delivers packets over BLE, NOTIFY_RX of the client's board     *)
(* (esp32/client/src/main.c) writes them to the serial line, UartClient    *)
(* reads them, and the window of the client program polls it.  The board's *)
(* log goes out of the same UART as the packets.                           *)
(*                                                                         *)
(* The window reads every field in the same way, in a critical section of  *)
(* its own: the model follows one of them.                                 *)
(***************************************************************************)
EXTENDS Naturals, Sequences

CONSTANTS
  SBUFLEN,      (* the bytes of a packet                                 *)
  Followed,     (* the field of the window the model follows             *)
  Cap,          (* a bound on the bytes under way on the serial line     *)
  MaxEdits,     (* a bound on the edits of the panel                     *)
  MaxExits      (* a bound on the times the program is closed or crashes *)

ASSUME LinkAssumption ==
  /\ SBUFLEN \in Nat \ {0} /\ Followed \in 1 .. SBUFLEN
  /\ Cap \in Nat /\ Cap >= SBUFLEN
  /\ MaxEdits \in Nat /\ MaxExits \in Nat

Edits == 0 .. MaxEdits

\* A value the panel never had.
Garbage == MaxEdits + 1

VARIABLES
  edits, last, broken,   (* see UartFeed                                 *)
  dtor, reader, m_stop, m_status, open, m_buffer,
  down,         (* the bytes from the client's board to the program      *)
  tick,         (* the next step of the window's timer                   *)
  display,      (* what the window shows in the field                    *)
  newest,       (* history: the newest edit the field has shown          *)
  exits         (* the times the program was closed or crashed so far    *)

F == INSTANCE UartFeed WITH packet <- << >>

C == INSTANCE UartClient

feedVars == << edits, last >>
clientVars == << dtor, reader, m_stop, m_status, open, m_buffer >>
windowVars == << tick, display, newest >>

vars == << feedVars, broken, clientVars, down, windowVars, exits >>

Blank == 0

Init ==
  /\ F!Init
  /\ C!Started /\ down = << >>
  /\ tick = "idle" /\ display = Blank /\ newest = Blank
  /\ exits = 0

-----------------------------------------------------------------------------
(* The boards. *)

ClientFrame == UNCHANGED << clientVars, windowVars, exits >>

Edit == edits < MaxEdits /\ F!Edit /\ ClientFrame /\ UNCHANGED down

\* A packet is broken up before it gets here.
PacketBreaks == ~broken /\ F!Break /\ ClientFrame /\ UNCHANGED down

\* The server's board notifies a packet that UartFeed lets it read, and the
\* client's board writes it out, NOTIFY_RX.  A notification that is refused, or
\* lost with the connection, changes nothing here.
Forward ==
  /\ Len(down) + SBUFLEN <= Cap
  /\ \E b \in F!Readable : down' = down \o b /\ last' = F!Newest(b, last)
  /\ ClientFrame /\ UNCHANGED edits

\* ESP_LOGE() of the client's board, byte after byte.
Log ==
  /\ Len(down) < Cap
  /\ down' = Append(down, << Garbage, 0 >>)
  /\ UNCHANGED feedVars /\ ClientFrame

\* Bytes that come while the port is closed are lost.
LoseUnread ==
  /\ ~open /\ down # << >>
  /\ down' = << >>
  /\ UNCHANGED feedVars /\ ClientFrame

-----------------------------------------------------------------------------
(* The client program. *)

Exit(free) ==
  /\ free \/ exits < MaxExits
  /\ exits' = IF free THEN exits ELSE exits + 1

ClientRuns == C!ReaderProgress /\ UNCHANGED << feedVars, windowVars, exits >>

ClientFails == C!OpenFails /\ UNCHANGED << feedVars, windowVars, exits >>

ClientEnds == C!Destructor /\ UNCHANGED << feedVars, windowVars, exits >>

\* The timer fires: the fields are read next, or the window goes blank.
Poll ==
  /\ tick = "idle" /\ dtor = "run"
  /\ IF m_status
     THEN tick' = "show" /\ UNCHANGED display
     ELSE tick' = "clear" /\ display' = Blank
  /\ UNCHANGED << feedVars, clientVars, down, newest, exits >>

\* What a getter makes of its byte: one from another place of its packet is
\* some other value.
Shown(f) ==
  IF m_buffer = C!Zeroed \/ m_buffer[f] = F!ZeroByte THEN Blank
  ELSE IF m_buffer[f][2] = f THEN m_buffer[f][1] ELSE Garbage

Show(v) ==
  /\ tick = "show" /\ tick' = "idle"
  /\ display' = v
  /\ newest' = IF v \in {Blank, Garbage} THEN newest ELSE v
  /\ UNCHANGED << feedVars, clientVars, down, exits >>

\* ShowField broken on purpose: the getter takes a byte from another place.
ShowFieldShifted ==
  Show(IF m_buffer = C!Zeroed \/ m_buffer[1] = F!ZeroByte THEN Blank ELSE Garbage)

\* The getter, and what the canvas makes of it.
ShowField == Show(Shown(Followed))

ClearBuffer ==
  /\ tick = "clear" /\ tick' = "idle"
  /\ C!ClearBuffer
  /\ UNCHANGED << feedVars, display, newest, exits >>

Window == Poll \/ ShowField \/ ClearBuffer

\* The event loop ends between two timeouts.
ClientQuits ==
  /\ tick = "idle"
  /\ Exit(FALSE)
  /\ C!Quit
  /\ UNCHANGED << feedVars, windowVars >>

\* A crash, or, for free, another start after the program has ended.
ClientRestarts ==
  /\ Exit(dtor = "gone")
  /\ C!Restart
  /\ tick' = "idle"
  /\ display' = Blank
  /\ UNCHANGED << feedVars, newest >>

-----------------------------------------------------------------------------

\* The steps that break a packet up: the log is written, or the port is read or
\* cleared when only a part of it has arrived.
BreaksUp ==
  \/ Log
  \/ \E k \in 1 .. SBUFLEN - 1 : C!ReadPart(k)
  \/ reader = "open" /\ down' # << >> /\ (Len(down) - Len(down')) % SBUFLEN # 0

Act ==
  \/ Edit \/ Forward \/ Log \/ LoseUnread
  \/ ClientRuns \/ ClientFails \/ ClientEnds \/ Window \/ ClientQuits \/ ClientRestarts

Track == broken' = (broken \/ BreaksUp)

Next == PacketBreaks \/ (Act /\ Track)

Spec == Init /\ [][Next]_vars

\* The program's threads and the timer run; a port that can be opened is opened
\* sooner or later.  Nothing says that packets come.
FairSpec ==
  /\ Spec
  /\ WF_vars(ClientRuns /\ Track)
  /\ WF_vars(ClientEnds /\ Track)
  /\ WF_vars(Window /\ Track)

-----------------------------------------------------------------------------
(* Properties. *)

\* Every variable has its type.
TypeOK ==
  /\ C!TypeOK
  /\ edits \in Edits
  /\ last \in Edits
  /\ broken \in BOOLEAN
  /\ tick \in {"idle", "show", "clear"}
  /\ display \in Edits \cup {Garbage}
  /\ newest \in Edits
  /\ exits \in 0 .. MaxExits

OneField(v) == [f \in {Followed} |-> v]

Speedometer ==
  INSTANCE Speedometer WITH
    Field <- {Followed}, panel <- edits,
    display <- OneField(display), newest <- OneField(newest)

\* README.md:42, of the UART target: "the behavior on your computer should be the
\* same".
SameAsTCP == Speedometer!Spec

Aligned ==
  INSTANCE Speedometer WITH
    Field <- {Followed}, panel <- edits,
    display <- OneField(IF broken /\ display = Garbage THEN Blank ELSE display),
    newest <- OneField(newest)

\* As long as every packet travels whole the window shows what it does over TCP;
\* afterwards it may show values that never were, but none that is older than
\* what it has shown before.
SameWhileInStep == Aligned!Spec

ClientUp == dtor = "run" /\ reader # "done"

\* Once no packet and no log comes any more, the window goes blank and stays so.
BlankWithoutPackets ==
  <>[]ClientUp /\ <>[][~Log /\ ~Forward]_vars => <>[](display = Blank)

\* A step of a link that keeps up, all of whose packets are p: the line holds one
\* at most, what is read is a packet or all there is, and none is waited for in
\* vain.
KeepsUp(p) ==
  /\ ~Log /\ ~ClientFails
  /\ Len(down') > Len(down) => down = << >> /\ down' = F!Bytes(p)
  /\ Len(down') < Len(down) => down' = << >> \/ Len(down) - Len(down') = SBUFLEN
  /\ ~(reader = "wait" /\ reader' = "fail" /\ down = << >>)

\* However packets were broken up before, once the program stays up, the board
\* notifies one and the same packet again and again and the link keeps up, the
\* field comes to show that packet and keeps showing it.
RealignsItself ==
  \A p \in Edits :
    <>[]ClientUp /\ <>[][KeepsUp(p)]_vars /\ []<>(down = F!Bytes(p))
      => <>[](display = p)

=============================================================================
