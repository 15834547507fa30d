------------------------------- MODULE TCPLink -------------------------------
(***************************************************************************)
(* The two desktop programs joined by a connection: TCPServer filled by    *)
(* the server's panel, TCPClient polled by the client's window, over the   *)
(* same Sockets.  Field i of the panel is byte i of the packet, and a      *)
(* packet is the number of the edit that made it; number 0 is the zeroed   *)
(* buffer.  Both programs may be closed or crash, and be started again.    *)
(***************************************************************************)
EXTENDS Sockets

CONSTANTS
  SBUFLEN,      (* the bytes of a packet                                 *)
  MaxEdits,     (* a bound on the edits of the panel                     *)
  MaxExits      (* a bound on the times a program is closed or crashes   *)

ASSUME LinkAssumption == SBUFLEN \in Nat \ {0} /\ MaxEdits \in Nat /\ MaxExits \in Nat

Field == 1 .. SBUFLEN

Edits == 0 .. MaxEdits

VARIABLES
  s_main, s_worker, s_sockfd, s_running, s_fatal, s_buf, s_temp, s_connfd,
  c_dtor, c_reader, c_stop, c_status, c_sockfd, c_fd, c_tmpbuf, c_buffer,
  tick,         (* the next step of the client window's timer            *)
  display,      (* what the client's window shows                        *)
  edits,        (* the number of edits so far                            *)
  newest,       (* history: the newest edit each field has shown         *)
  exits         (* the times a program was closed or crashed so far      *)

S == INSTANCE TCPServer WITH
       Packet <- Edits, ZeroPacket <- 0,
       main <- s_main, worker <- s_worker, m_sockfd <- s_sockfd, m_is_running <- s_running,
       fatal <- s_fatal, m_buf <- s_buf, temp_buf <- s_temp, connfd <- s_connfd

C == INSTANCE TCPClient WITH
       Packet <- Edits,
       dtor <- c_dtor, reader <- c_reader, m_stop <- c_stop, m_status <- c_status,
       m_sockfd <- c_sockfd, fd <- c_fd, tmpbuf <- c_tmpbuf, m_buffer <- c_buffer

ASSUME DescriptorAssumption == C!NoFd \notin Conn

sVars == << s_main, s_worker, s_sockfd, s_running, s_fatal, s_buf, s_temp, s_connfd >>
cVars == << c_dtor, c_reader, c_stop, c_status, c_sockfd, c_fd, c_tmpbuf, c_buffer >>
windowVars == << tick, display, newest >>

vars == << net, sVars, cVars, windowVars, edits, exits >>

Blank == [f \in Field |-> 0]

(* The steps of the timer's handler; step f reads field f. *)
Idle == 0
Clearing == SBUFLEN + 1

Init ==
  /\ S!Init
  /\ C!ClientInit
  /\ tick = Idle
  /\ display = Blank
  /\ edits = 0
  /\ newest = Blank
  /\ exits = 0

Exit(free) ==
  /\ free \/ exits < MaxExits
  /\ exits' = IF free THEN exits ELSE exits + 1

-----------------------------------------------------------------------------
(* The server program. *)

\* Edit broken on purpose: the panel outlives the service.
EditAnyTime ==
  /\ edits < MaxEdits
  /\ edits' = edits + 1
  /\ s_buf' = edits'
  /\ UNCHANGED << net, s_main, s_worker, s_sockfd, s_running, s_fatal, s_temp, s_connfd >>
  /\ UNCHANGED << cVars, windowVars, exits >>

\* A setter called by the panel.
Edit ==
  /\ edits < MaxEdits
  /\ edits' = edits + 1
  /\ S!SetBuffer(edits')
  /\ UNCHANGED << cVars, windowVars, exits >>

ServerStep ==
  /\ S!Construct \/ S!ConstructFails \/ S!Destructor \/ S!Worker
  /\ UNCHANGED << cVars, windowVars, edits, exits >>

\* The user's doing, or, for free, the event loop's on a fatal error.
ServerQuits ==
  /\ Exit(s_fatal)
  /\ S!Quit
  /\ UNCHANGED << cVars, windowVars, edits >>

\* A crash, or, for free, another start after the program has ended.
ServerRestarts ==
  /\ Exit(s_main = "gone")
  /\ S!Restart
  /\ UNCHANGED << cVars, windowVars, edits >>

-----------------------------------------------------------------------------
(* The client program. *)

\* Poll broken on purpose: the window is not blanked.
PollKeepsDisplay ==
  /\ tick = Idle /\ c_dtor = "run"
  /\ tick' = IF c_status THEN 1 ELSE Clearing
  /\ UNCHANGED << net, sVars, cVars, display, newest, edits, exits >>

\* The timer fires: the fields are read next, or the window goes blank.
Poll ==
  /\ tick = Idle /\ c_dtor = "run"
  /\ IF c_status
     THEN tick' = 1 /\ UNCHANGED display
     ELSE tick' = Clearing /\ display' = Blank
  /\ UNCHANGED << net, sVars, cVars, newest, edits, exits >>

\* ShowField broken on purpose: the getter sees the packet being received.
ShowFieldUnfinished ==
  /\ tick \in Field
  /\ LET v == IF Len(c_tmpbuf) >= tick THEN c_tmpbuf[tick][1]
              ELSE IF c_buffer = C!Zeroed THEN 0 ELSE c_buffer[tick][1]
     IN  /\ display' = [display EXCEPT ![tick] = v]
         /\ newest' = [newest EXCEPT ![tick] = IF v = 0 THEN @ ELSE v]
  /\ tick' = IF tick = SBUFLEN THEN Idle ELSE tick + 1
  /\ UNCHANGED << net, sVars, cVars, edits, exits >>

\* One getter, in its own critical section, and what the canvas makes of it.
ShowField ==
  /\ tick \in Field
  /\ LET v == IF c_buffer = C!Zeroed THEN 0 ELSE c_buffer[tick][1]
     IN  /\ display' = [display EXCEPT ![tick] = v]
         /\ newest' = [newest EXCEPT ![tick] = IF v = 0 THEN @ ELSE v]
  /\ tick' = IF tick = SBUFLEN THEN Idle ELSE tick + 1
  /\ UNCHANGED << net, sVars, cVars, edits, exits >>

\* COMService::clearBuffer(), called by the timer.
ClearBuffer ==
  /\ tick = Clearing
  /\ tick' = Idle
  /\ C!ClearBuffer
  /\ UNCHANGED << sVars, display, newest, edits, exits >>

Window == Poll \/ ShowField \/ ClearBuffer

\* The event loop ends between two timeouts.
ClientQuits ==
  /\ tick = Idle
  /\ Exit(FALSE)
  /\ C!Quit
  /\ UNCHANGED << sVars, windowVars, edits >>

ClientStep ==
  /\ C!Reader \/ C!Destructor
  /\ UNCHANGED << sVars, windowVars, edits, exits >>

ClientRestarts ==
  /\ Exit(c_dtor = "gone")
  /\ C!Restart
  /\ tick' = Idle
  /\ display' = Blank
  /\ UNCHANGED << sVars, newest, edits >>

-----------------------------------------------------------------------------

Next ==
  \/ Edit \/ ServerStep \/ ServerQuits \/ ServerRestarts
  \/ Window \/ ClientQuits \/ ClientStep \/ ClientRestarts

Spec == Init /\ [][Next]_vars

ServerFrame == UNCHANGED << cVars, windowVars, edits, exits >>

ClientFrame == UNCHANGED << sVars, windowVars, edits, exits >>

ReadReturns == c_reader = "read" /\ C!ReaderProgress

\* The programs' threads and the timer run; accept() and read() do not fail or
\* get interrupted for ever when there is something for them.
Fairness ==
  /\ WF_vars(ServerFrame /\ S!Construct)
  /\ WF_vars(s_fatal /\ ServerQuits)
  /\ WF_vars(ServerFrame /\ S!Destructor)
  /\ WF_vars(ServerFrame /\ S!WorkerProgress)
  /\ SF_vars(ServerFrame /\ S!Accepted)
  /\ WF_vars(ClientFrame /\ C!Destructor)
  /\ WF_vars(ClientFrame /\ C!ReaderProgress)
  /\ SF_vars(ClientFrame /\ ReadReturns)
  /\ WF_vars(Window)

FairSpec == Spec /\ Fairness

-----------------------------------------------------------------------------
(* Properties. *)

\* Each program behaves as its own module says, with the other one as its
\* peer: what was checked of them apart holds of them together.
EachAsSpecified == S!Spec /\ C!Spec

\* Fields never go back to an older edit, not even over a reconnection or a
\* restart of either program: no packet outlives the connection it was sent on.
Speedometer == INSTANCE Speedometer WITH panel <- edits

ImplementsSpeedometer == Speedometer!Spec

ServerUp == s_main = "gui" /\ s_worker \notin {"none", "done"}

ClientUp == c_dtor = "run" /\ c_reader # "done"

\* Once both programs stay up, the window comes to show the last edit, all of
\* it, and keeps showing it.
ShowsLastEdit ==
  <>[](ServerUp /\ ClientUp) => <>[](\A f \in Field : display[f] = s_buf)

\* Once the server program has gone, the window goes blank and stays so.
BlankWithoutServer ==
  <>[](s_main = "gone") /\ <>[](c_dtor = "run") => <>[](display = Blank)

=============================================================================
