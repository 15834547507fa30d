------------------------------ MODULE TCPServer ------------------------------
(***************************************************************************)
(* desktop/server/src/tcpservice.cpp: the TCPService object of the server  *)
(* program, from its constructor to the end of its destructor.  The main   *)
(* thread builds it, runs the GUI, which fills m_buf, and destroys it; the *)
(* worker thread accepts one client at a time and sends it the buffer      *)
(* until the send fails or the service stops.  A step is one system call,  *)
(* one access of an atomic or one critical section of m_mtx.               *)
(***************************************************************************)
EXTENDS Sockets

CONSTANTS
  Packet,      (* the contents the buffer can have                       *)
  ZeroPacket,  (* its content before the window fills it                 *)
  SBUFLEN      (* the bytes of a packet                                  *)

ASSUME ServerAssumption == ZeroPacket \in Packet /\ SBUFLEN \in Nat \ {0}

VARIABLES
  main,          (* where the main thread is                             *)
  worker,        (* where the worker thread is                           *)
  m_sockfd,      (* "unset" for -1, else whether the descriptor is valid *)
  m_is_running,
  fatal,         (* a fatalErrorOccurred is queued for the event loop    *)
  m_buf,
  temp_buf,      (* the copy being sent                                  *)
  connfd         (* the connection being served                          *)

serverVars == << main, worker, m_sockfd, m_is_running, fatal, m_buf, temp_buf, connfd >>

MainState == {"ctor", "gui", "stop", "shutdown", "close", "wait", "gone"}

WorkerState == {"none", "listen", "setRunning", "accept", "blocked", "check",
                "snapshot", "send", "close", "failed", "done"}

Serving == {"check", "snapshot", "send", "close"}

NoConn == "none"

\* A process that has just started, but for the buffer.
Started ==
  /\ main = "ctor" /\ worker = "none"
  /\ m_sockfd = "unset" /\ m_is_running = FALSE
  /\ fatal = FALSE
  /\ temp_buf = ZeroPacket /\ connfd = NoConn

\* ServerInit broken on purpose: m_buf is not initialized.
ServerInitUnset == Started /\ m_buf = "garbage"

ServerInit == Started /\ m_buf = ZeroPacket

\* The bytes of a packet, in the order they are sent.
Bytes(p) == [i \in 1 .. SBUFLEN |-> << p, i >>]

Messages == {Bytes(p) : p \in Packet}

-----------------------------------------------------------------------------
(* The main thread. *)

MainGoto(from, to) == main = from /\ main' = to /\ UNCHANGED << temp_buf, connfd >>

\* A step that decides where to go next, or waits, and changes nothing else.
MainPass(from, to) ==
  MainGoto(from, to) /\ UNCHANGED << worker, m_sockfd, m_is_running, fatal, m_buf, net >>

\* socket(), setsockopt() and bind() succeed and the worker is started.
Construct ==
  /\ MainGoto("ctor", "gui")
  /\ Bind
  /\ m_sockfd' = "open"
  /\ worker' = "listen"
  /\ UNCHANGED << m_is_running, fatal, m_buf >>

\* One of them fails: the descriptor is closed and no worker is started.
ConstructFails ==
  /\ MainGoto("ctor", "gui")
  /\ fatal' = TRUE
  /\ UNCHANGED << worker, m_sockfd, m_is_running, m_buf, net >>

\* A critical section of insert_helper leaves p in the buffer.
SetBuffer(p) ==
  /\ MainGoto("gui", "gui")
  /\ m_buf' = p
  /\ UNCHANGED << worker, m_sockfd, m_is_running, fatal, net >>

\* The user closes the window, or the event loop delivers a fatal error.
Quit == MainPass("gui", "stop")

\* The destructor.
StopRunning ==
  /\ MainGoto("stop", IF m_sockfd = "unset" THEN "wait" ELSE "shutdown")
  /\ m_is_running' = FALSE
  /\ UNCHANGED << worker, m_sockfd, fatal, m_buf, net >>

\* ShutdownListener broken on purpose: close() is left to wake accept().
ShutdownOmitted == MainPass("shutdown", "close")

ShutdownListener ==
  /\ MainGoto("shutdown", "close")
  /\ ShutListener
  /\ UNCHANGED << worker, m_sockfd, m_is_running, fatal, m_buf >>

CloseSocket ==
  /\ MainGoto("close", "wait")
  /\ CloseListener(worker = "blocked")
  /\ m_sockfd' = "closed"
  /\ UNCHANGED << worker, m_is_running, fatal, m_buf >>

Wait == worker \in {"none", "done"} /\ MainPass("wait", "gone")

Destructor == StopRunning \/ ShutdownListener \/ CloseSocket \/ Wait

Main == Construct \/ ConstructFails \/ (\E p \in Packet : SetBuffer(p)) \/ Quit \/ Destructor

-----------------------------------------------------------------------------
(* The worker thread. *)

Goto(from, to) == worker = from /\ worker' = to /\ UNCHANGED << main, m_sockfd, m_buf >>

\* A step that decides where to go next, or waits, and changes nothing else.
Pass(from, to) == Goto(from, to) /\ UNCHANGED << m_is_running, fatal, temp_buf, connfd, net >>

ListenSucceeds ==
  /\ Goto("listen", "setRunning")
  /\ m_sockfd = "open"
  /\ Listen
  /\ UNCHANGED << m_is_running, fatal, temp_buf, connfd >>

\* The descriptor is closed, or another server listens on the port.
ListenFails ==
  /\ Goto("listen", "done")
  /\ fatal' = TRUE
  /\ UNCHANGED << m_is_running, temp_buf, connfd, net >>

SetRunning ==
  /\ Goto("setRunning", "accept")
  /\ m_is_running' = TRUE
  /\ UNCHANGED << fatal, temp_buf, connfd, net >>

\* accept() blocks, unless its descriptor is closed or does not listen.
CallAccept == m_sockfd = "open" /\ listener = "listening" /\ Pass("accept", "blocked")

\* By the time it is called on a closed descriptor, the socket that the last
\* accept() kept is gone.
CallAcceptFails ==
  /\ Goto("accept", "failed")
  /\ \/ m_sockfd = "open" /\ listener # "listening" /\ UNCHANGED net
     \/ m_sockfd = "closed" /\ StopListening("none")
  /\ UNCHANGED << m_is_running, fatal, temp_buf, connfd >>

\* accept() returns a connection.
Accepted ==
  /\ Goto("blocked", "check")
  /\ listener = "listening"
  /\ Accept
  /\ connfd' = Head(queue)
  /\ UNCHANGED << m_is_running, fatal, temp_buf >>

\* accept() fails because its socket was shut down, or for want of a
\* descriptor, or because the connection was aborted.
AcceptFails == Pass("blocked", "failed")

AcceptWoken == listener # "listening" /\ AcceptFails

\* RetryAccept broken on purpose: a failed accept() ends the worker.
RetryAcceptNever == Pass("failed", "done")

RetryAccept == Pass("failed", IF m_is_running THEN "accept" ELSE "done")

\* while (m_is_running)
CheckRunning == Pass("check", IF m_is_running THEN "snapshot" ELSE "close")

\* After INTERVAL milliseconds, copy the buffer under the mutex.
Snapshot ==
  /\ Goto("snapshot", "send")
  /\ temp_buf' = m_buf
  /\ UNCHANGED << m_is_running, fatal, connfd, net >>

SendSucceeds ==
  /\ Goto("send", "check")
  /\ Send(connfd, Bytes(temp_buf)) \/ SendLost(connfd)
  /\ UNCHANGED << m_is_running, fatal, temp_buf, connfd >>

\* ConnectionLost broken on purpose: the break is missing.
ConnectionLostIgnored == worker = "send" /\ SendFails(connfd) /\ Pass("send", "check")

ConnectionLost == worker = "send" /\ SendFails(connfd) /\ Pass("send", "close")

\* CloseConnection broken on purpose: connfd is not closed.
CloseConnectionLeaks ==
  /\ Goto("close", "accept")
  /\ connfd' = NoConn
  /\ UNCHANGED << m_is_running, fatal, temp_buf, net >>

CloseConnection ==
  /\ Goto("close", "accept")
  /\ CloseServer(connfd)
  /\ connfd' = NoConn
  /\ UNCHANGED << m_is_running, fatal, temp_buf >>

\* The steps the worker does not need a failing call for.
WorkerProgress ==
  \/ ListenSucceeds \/ (m_sockfd # "open" /\ ListenFails) \/ SetRunning
  \/ CallAccept \/ CallAcceptFails \/ Accepted \/ AcceptWoken \/ RetryAccept
  \/ CheckRunning \/ Snapshot \/ SendSucceeds \/ ConnectionLost \/ CloseConnection

Worker == WorkerProgress \/ ListenFails \/ AcceptFails

-----------------------------------------------------------------------------

\* The process ends, by returning from main() or by a crash, and is started
\* again.
Restart ==
  /\ main # "ctor"
  /\ ServerDies(IF worker = "send" THEN {connfd} ELSE {}, {Bytes(temp_buf)})
  /\ main' = "ctor" /\ worker' = "none"
  /\ m_sockfd' = "unset" /\ m_is_running' = FALSE
  /\ fatal' = FALSE
  /\ m_buf' = ZeroPacket /\ temp_buf' = ZeroPacket /\ connfd' = NoConn

Server == Main \/ Worker \/ Restart

\* The client programs, as far as this one can tell.
Peer == (\E c \in Conn : ClientCall(c)) /\ UNCHANGED serverVars

vars == << serverVars, net >>

Init == ServerInit /\ SocketsInit

Next == Server \/ Peer

\* Threads that can run do, a blocked call returns once it can, and the event
\* loop delivers a queued fatal error.  Nothing makes a user quit or edit, a
\* program restart, or a call fail.
ServerFairness ==
  /\ WF_vars(fatal /\ Quit)
  /\ WF_vars(Destructor)
  /\ WF_vars(WorkerProgress)

\* A client that has something to read reads, or closes.
PeerReads ==
  \A c \in Conn : WF_vars(UNCHANGED serverVars /\ \/ \E k \in 1 .. Len(down[c]) : Take(c, k)
                                                  \/ down[c] # << >> /\ CloseClient(c))

Spec == Init /\ [][Next]_vars

FairSpec == Spec /\ ServerFairness /\ PeerReads

-----------------------------------------------------------------------------
(* Properties. *)

\* Every variable has its type.
TypeOK ==
  /\ SocketsTypeOK
  /\ main \in MainState
  /\ worker \in WorkerState
  /\ m_sockfd \in {"unset", "open", "closed"}
  /\ m_is_running \in BOOLEAN
  /\ fatal \in BOOLEAN
  /\ m_buf \in Packet
  /\ temp_buf \in Packet
  /\ connfd \in Conn \cup {NoConn}

\* The worker holds the one connection it serves and no other, on every way
\* out of the two loops; and when the destructor has returned, the service
\* holds no socket at all.
NoLeakedSocket ==
  /\ {c \in Conn : srv[c] = "open"} = IF worker \in Serving THEN {connfd} ELSE {}
  /\ main = "gone" => listener = "none" /\ \A c \in Conn : srv[c] = "none"

Ended == main \in {"gone", "ctor"}

\* Once the worker has announced that it runs, the destructor returns: the
\* shutdown wakes a blocked accept() and the cleared flag ends both loops.  A
\* fatal error ends the program too, whichever call failed.
Terminates == fatal \/ (main = "stop" /\ m_is_running) ~> Ended

\* A client that has gone is noticed, and its connection closed.
DropsDeadClient ==
  \A c \in Conn : srv[c] = "open" /\ cli[c] = "none" ~> srv[c] # "open"

\* A client that stays queued for ever waits behind one that is served and never
\* leaves, and behind nothing else, unless accept() fails again and again.
WaitsBehindOneServed ==
  \A c \in Conn :
    <>[](srv[c] = "queued")
      => \/ \E d \in Conn : <>[](srv[d] = "open" /\ cli[d] = "open")
         \/ []<>(worker = "failed")

\* The destructor always returns (tcpservice.h:22, tcpservice.cpp:78).
DestructorReturns == main = "stop" ~> Ended

=============================================================================
