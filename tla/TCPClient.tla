------------------------------ MODULE TCPClient ------------------------------
(***************************************************************************)
(* desktop/client/src/tcpservice.cpp: the TCPService object of the client  *)
(* program.  The worker thread connects, collects SBUFLEN bytes over as    *)
(* many reads as it takes and stores them in m_buffer; when the connection *)
(* ends it drops it and starts over.  The main thread runs the window,     *)
(* which may clear m_buffer, and then the destructor, which has to get the *)
(* worker out of a blocking read.  A step is one system call, one access   *)
(* of an atomic shared by the threads or one critical section of m_mtx.    *)
(***************************************************************************)
EXTENDS Sockets

CONSTANTS
  Packet,      (* the packets a server sends                             *)
  SBUFLEN      (* the bytes of a packet                                  *)

ASSUME ClientAssumption == SBUFLEN \in Nat \ {0}

NoFd == "none"

ASSUME NoFdAssumption == NoFd \notin Conn

VARIABLES
  dtor,        (* where the main thread is; "run" before the destructor  *)
  reader,      (* where the worker thread is                             *)
  m_stop,
  m_status,    (* COMService::m_status                                   *)
  m_sockfd,    (* the connection, or NoFd for -1                         *)
  fd,          (* the value of m_sockfd the destructor passes on         *)
  tmpbuf,      (* tmpbuf[0 .. nread - 1]                                 *)
  m_buffer     (* the bytes of m_buffer; empty when it is zeroed         *)

clientVars == << dtor, reader, m_stop, m_status, m_sockfd, fd, tmpbuf, m_buffer >>

DtorState == {"run", "stop", "check", "load", "shutdown", "join", "close", "gone"}

ReaderState == {"top", "socket", "connect", "setStatus", "readCheck", "read",
                "store", "drop", "shut", "close", "forget", "done"}

Zeroed == << >>

\* A process that has just started, but for the two descriptors.
Started ==
  /\ dtor = "run" /\ reader = "top"
  /\ m_stop = FALSE /\ m_status = FALSE
  /\ tmpbuf = << >> /\ m_buffer = Zeroed

\* ClientInit broken on purpose: m_sockfd is not initialized.
ClientInitUnset == Started /\ m_sockfd = "garbage" /\ fd = NoFd

ClientInit == Started /\ m_sockfd = NoFd /\ fd = NoFd

\* The bytes of a packet, in the order they are sent.
Bytes(p) == [i \in 1 .. SBUFLEN |-> << p, i >>]

Messages == {Bytes(p) : p \in Packet}

-----------------------------------------------------------------------------
(* The worker thread: run(). *)

Goto(from, to) == reader = from /\ reader' = to /\ UNCHANGED << dtor, m_stop, fd >>

\* A step that decides where to go next, or waits, and changes nothing else.
Pass(from, to) ==
  Goto(from, to) /\ UNCHANGED << m_status, m_sockfd, tmpbuf, m_buffer, net >>

TopNext == IF m_stop THEN "done" ELSE IF m_status THEN "readCheck" ELSE "socket"

\* Top broken on purpose: only a complete packet resets nread.
TopKeepsCount ==
  /\ Goto("top", TopNext)
  /\ tmpbuf' = IF Len(tmpbuf) = SBUFLEN THEN << >> ELSE tmpbuf
  /\ UNCHANGED << m_status, m_sockfd, m_buffer, net >>

\* while (!m_stop), and if (!m_status): only this thread writes m_status.
\* A read phase starts with nread = 0.
Top ==
  /\ Goto("top", TopNext)
  /\ tmpbuf' = << >>
  /\ UNCHANGED << m_status, m_sockfd, m_buffer, net >>

Socket ==
  /\ Goto("socket", "connect")
  /\ \E c \in Conn : OpenClient(c) /\ m_sockfd' = c
  /\ UNCHANGED << m_status, tmpbuf, m_buffer >>

\* socket() fails: the thread returns and nothing starts it again.
SocketFails ==
  /\ Goto("socket", "done")
  /\ m_sockfd' = NoFd
  /\ UNCHANGED << m_status, tmpbuf, m_buffer, net >>

ConnectSucceeds ==
  /\ Goto("connect", "setStatus")
  /\ Connect(m_sockfd)
  /\ UNCHANGED << m_status, m_sockfd, tmpbuf, m_buffer >>

\* The socket is closed and, after a pause, the loop starts over.
ConnectRefused == ConnectFails /\ Pass("connect", "close")

SetStatus ==
  /\ Goto("setStatus", "readCheck")
  /\ m_status' = TRUE
  /\ UNCHANGED << m_sockfd, tmpbuf, m_buffer, net >>

\* ReadCheck broken on purpose: the inner loop does not look at m_stop.
ReadCheckDeaf == Pass("readCheck", IF Len(tmpbuf) = SBUFLEN THEN "store" ELSE "read")

\* while (nread < SBUFLEN && !m_stop), and what follows when it ends.
ReadCheck ==
  Pass("readCheck", IF Len(tmpbuf) = SBUFLEN THEN "store" ELSE IF m_stop THEN "drop" ELSE "read")

\* read() returns k bytes, as many as it likes of those that have arrived.
ReadBytes(k) ==
  /\ Goto("read", "readCheck")
  /\ k <= SBUFLEN - Len(tmpbuf) /\ k <= Len(down[m_sockfd])
  /\ tmpbuf' = tmpbuf \o SubSeq(down[m_sockfd], 1, k)
  /\ Take(m_sockfd, k)
  /\ UNCHANGED << m_status, m_sockfd, m_buffer >>

\* read() is interrupted by a signal.
ReadInterrupted == Pass("read", "readCheck")

\* ReadEnds broken on purpose: the end of the stream is retried.
ReadEndsRetried == reader = "read" /\ AtEnd(m_sockfd) /\ Pass("read", "readCheck")

\* read() returns 0, or fails.
ReadEnds == reader = "read" /\ AtEnd(m_sockfd) /\ Pass("read", "drop")

\* The critical section that publishes a complete packet.
Store ==
  /\ Goto("store", "top")
  /\ m_buffer' = tmpbuf
  /\ UNCHANGED << m_status, m_sockfd, tmpbuf, net >>

ClearStatus ==
  /\ Goto("drop", "shut")
  /\ m_status' = FALSE
  /\ UNCHANGED << m_sockfd, tmpbuf, m_buffer, net >>

ShutdownSocket ==
  /\ Goto("shut", "close")
  /\ ShutClient(m_sockfd)
  /\ UNCHANGED << m_status, m_sockfd, tmpbuf, m_buffer >>

\* CloseSocket broken on purpose: only shutdown() is called.
CloseSocketOmitted == Pass("close", "forget")

CloseSocket ==
  /\ Goto("close", "forget")
  /\ CloseClient(m_sockfd)
  /\ UNCHANGED << m_status, m_sockfd, tmpbuf, m_buffer >>

ForgetSocket ==
  /\ Goto("forget", "top")
  /\ m_sockfd' = NoFd
  /\ UNCHANGED << m_status, tmpbuf, m_buffer, net >>

\* The steps the thread does not need a failing call for.
ReaderProgress ==
  \/ Top \/ Socket \/ ConnectSucceeds \/ ConnectRefused \/ SetStatus \/ ReadCheck
  \/ \E k \in 1 .. SBUFLEN : ReadBytes(k)
  \/ ReadEnds \/ Store \/ ClearStatus \/ ShutdownSocket \/ CloseSocket \/ ForgetSocket

Reader == ReaderProgress \/ SocketFails \/ ReadInterrupted

-----------------------------------------------------------------------------
(* The main thread. *)

DtorGoto(from, to) == dtor = from /\ dtor' = to /\ UNCHANGED << reader, m_status, tmpbuf >>

DtorPass(from, to) == DtorGoto(from, to) /\ UNCHANGED << m_stop, m_sockfd, fd, m_buffer, net >>

\* clearBuffer(), called by the window.
ClearBuffer ==
  /\ DtorGoto("run", "run")
  /\ m_buffer' = Zeroed
  /\ UNCHANGED << m_stop, m_sockfd, fd, net >>

\* The event loop has ended and the window is destroyed.
Quit == DtorPass("run", "stop")

SetStop ==
  /\ DtorGoto("stop", "check")
  /\ m_stop' = TRUE
  /\ UNCHANGED << m_sockfd, fd, m_buffer, net >>

\* CheckStatus broken on purpose: the worker is joined without a shutdown().
CheckStatusOmitted == DtorPass("check", "join")

CheckStatus == DtorPass("check", IF m_status THEN "load" ELSE "join")

LoadFd ==
  /\ DtorGoto("load", "shutdown")
  /\ fd' = m_sockfd
  /\ UNCHANGED << m_stop, m_sockfd, m_buffer, net >>

\* shutdown() on a descriptor closed meanwhile, or on -1, does nothing.
WakeReader ==
  /\ DtorGoto("shutdown", "join")
  /\ IF fd = NoFd THEN UNCHANGED net ELSE ShutClient(fd)
  /\ UNCHANGED << m_stop, m_sockfd, fd, m_buffer >>

Join == reader = "done" /\ DtorPass("join", "close")

CloseLast ==
  /\ DtorGoto("close", "gone")
  /\ IF m_sockfd = NoFd THEN UNCHANGED net ELSE CloseClient(m_sockfd)
  /\ UNCHANGED << m_stop, m_sockfd, fd, m_buffer >>

Destructor == SetStop \/ CheckStatus \/ LoadFd \/ WakeReader \/ Join \/ CloseLast

\* The process ends, by returning from main() or by a crash, and is started
\* again.
Restart ==
  /\ ClientDies
  /\ dtor' = "run" /\ reader' = "top"
  /\ m_stop' = FALSE /\ m_status' = FALSE
  /\ m_sockfd' = NoFd /\ fd' = NoFd
  /\ tmpbuf' = << >> /\ m_buffer' = Zeroed

Client == Reader \/ ClearBuffer \/ Quit \/ Destructor \/ Restart

-----------------------------------------------------------------------------

\* The server programs, as far as this one can tell.
Peer == ServerCall(Messages) /\ UNCHANGED clientVars

vars == << clientVars, net >>

Init == ClientInit /\ SocketsInit

Next == Client \/ Peer

\* Threads that can run do, and a blocked call returns once it can.  Nothing
\* makes a user quit, a program restart, or a call fail.
ClientFairness == WF_vars(Destructor) /\ WF_vars(ReaderProgress)

\* A server gets round to the connections whose client has gone: it accepts
\* them, notices and closes them.  Without it Conn could run out.
PeerFairness ==
  /\ WF_vars(Peer /\ queue # << >> /\ cli[Head(queue)] = "none" /\ Accept)
  /\ WF_vars(Peer /\ \E c \in Conn : cli[c] = "none" /\ srv[c] = "open" /\ CloseServer(c))

Spec == Init /\ [][Next]_vars

FairSpec == Spec /\ ClientFairness /\ PeerFairness

-----------------------------------------------------------------------------
(* Properties. *)

\* Every variable has its type.
TypeOK ==
  /\ SocketsTypeOK
  /\ dtor \in DtorState
  /\ reader \in ReaderState
  /\ m_stop \in BOOLEAN
  /\ m_status \in BOOLEAN
  /\ m_sockfd \in Conn \cup {NoFd}
  /\ fd \in Conn \cup {NoFd}

\* The window sees a zeroed buffer or the bytes of one packet, in order: short
\* reads, a connection lost in the middle of a packet and a reconnection never
\* mix two packets or shift their bytes.
WholePackets == m_buffer \in {Zeroed} \cup Messages

\* Once the destructor waits for the worker, the worker is not in a read that
\* nothing will end: either it saw m_stop, or the destructor saw m_status and
\* shut down the socket the worker reads from.
NoStrandedRead == dtor = "join" /\ reader = "read" => cli[m_sockfd] = "shut"

\* No descriptor is open but the one in m_sockfd, on every way out of a
\* connection, and none at the end.
NoLeakedFd ==
  /\ \A c \in Conn : cli[c] # "none" => c = m_sockfd
  /\ dtor = "gone" => \A c \in Conn : cli[c] = "none"

\* The destructor returns, whatever the worker is doing when it starts.
DestructorReturns == dtor = "stop" ~> dtor \in {"gone", "run"}

=============================================================================
