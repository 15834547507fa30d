---------------------------- MODULE TCPLinkProofs ----------------------------
(***************************************************************************)
(* TCPLink proved for any number of connections, edits and exits: each     *)
(* program, running against the other one, does what its own module says   *)
(* with the most general peer, so what is proved of each of them apart     *)
(* holds of them together; and the two together implement Speedometer.     *)
(*                                                                         *)
(* A peer's call is more than the effect of a system call: it is a call    *)
(* that makes sense at the time, of a server on a connection it has        *)
(* accepted, of a client on a descriptor it holds.  That the other program *)
(* only makes such calls follows from the inductive invariants of the two  *)
(* modules, taken from TCPServerProofs and TCPClientProofs, and from       *)
(* JoinInv, which is about both.                                           *)
(*                                                                         *)
(* For the refinement OrderInv puts the places an edit passes through in a *)
(* row, from the server's copy over each connection, the client's two      *)
(* buffers and the history of the display, and says that no place holds an *)
(* edit older than one that is further on.  It survives a restart of the   *)
(* server, which begins with a zeroed buffer: the bytes of it are blank,   *)
(* and the next edit is newer than all there were.                         *)
(***************************************************************************)
EXTENDS TCPLink, TLAPS

SP == INSTANCE TCPServerProofs WITH
       Packet <- Edits, ZeroPacket <- 0,
       main <- s_main, worker <- s_worker, m_sockfd <- s_sockfd, m_is_running <- s_running,
       fatal <- s_fatal, m_buf <- s_buf, temp_buf <- s_temp, connfd <- s_connfd

CP == INSTANCE TCPClientProofs WITH
       Packet <- Edits,
       dtor <- c_dtor, reader <- c_reader, m_stop <- c_stop, m_status <- c_status,
       m_sockfd <- c_sockfd, fd <- c_fd, tmpbuf <- c_tmpbuf, m_buffer <- c_buffer

JoinInv ==
  /\ edits \in Edits
  /\ s_worker = "listen" /\ s_sockfd = "open" => listener = "bound"
  /\ c_reader \in {"connect", "setStatus", "shut", "close"} => cli[c_sockfd] # "none"
  /\ c_reader = "done" /\ c_dtor # "gone" /\ c_sockfd \in Conn => cli[c_sockfd] # "none"
  /\ \A c \in Conn : rst[c] => srv[c] = "open"
  /\ \A c \in Conn : srv[c] = "queued" => down[c] = << >>
  /\ down = [c \in Conn |-> down[c]]

LinkInv == SP!IInv /\ CP!IInv /\ CP!StreamInv /\ JoinInv

\* What the modules assume of their constants.
LEMMA Assumptions ==
  /\ SP!SocketsAssumption /\ SP!ServerAssumption
  /\ CP!SocketsAssumption /\ CP!ClientAssumption /\ CP!NoFdAssumption
  BY SocketsAssumption, LinkAssumption, DescriptorAssumption
     DEF SP!SocketsAssumption, SP!ServerAssumption, CP!SocketsAssumption, CP!ClientAssumption,
         CP!NoFdAssumption, CP!NoFd, C!NoFd, Edits

\* The modules instantiated here and in TCPLink are the same ones.
LEMMA SameServer == /\ S!Next => SP!Next
                    /\ S!Init => SP!Init
                    /\ UNCHANGED S!vars => UNCHANGED SP!vars
<1>1. S!Next => SP!Next
  BY DEF
       S!net, S!Unused, S!OpenClient, S!QueueFull, S!Connect, S!ConnectFails,
       S!ShutClient, S!CloseClient, S!ClientDies, S!Take, S!Bind, S!Listen,
       S!StopListening, S!ShutListener, S!CloseListener, S!Accept, S!Send, S!SendLost,
       S!SendFails, S!CloseServer, S!SentPart, S!ServerDies, S!ClientCall, S!ServerCall,
       S!serverVars, S!MainState, S!WorkerState, S!Serving, S!NoConn, S!Bytes, S!Messages,
       S!MainGoto, S!MainPass, S!Construct, S!ConstructFails, S!SetBuffer, S!Quit,
       S!StopRunning, S!ShutdownListener, S!CloseSocket, S!Wait, S!Destructor, S!Main,
       S!Goto, S!Pass, S!ListenSucceeds, S!ListenFails, S!SetRunning, S!CallAccept,
       S!CallAcceptFails, S!Accepted, S!AcceptFails, S!AcceptWoken, S!RetryAccept,
       S!CheckRunning, S!Snapshot, S!SendSucceeds, S!ConnectionLost, S!CloseConnection,
       S!WorkerProgress, S!Worker, S!Restart, S!Server, S!Peer, S!vars, S!Next, SP!net,
       SP!Unused, SP!OpenClient, SP!QueueFull, SP!Connect, SP!ConnectFails, SP!ShutClient,
       SP!CloseClient, SP!ClientDies, SP!Take, SP!Bind, SP!Listen, SP!StopListening,
       SP!ShutListener, SP!CloseListener, SP!Accept, SP!Send, SP!SendLost, SP!SendFails,
       SP!CloseServer, SP!SentPart, SP!ServerDies, SP!ClientCall, SP!ServerCall,
       SP!serverVars, SP!MainState, SP!WorkerState, SP!Serving, SP!NoConn, SP!Bytes,
       SP!Messages, SP!MainGoto, SP!MainPass, SP!Construct, SP!ConstructFails,
       SP!SetBuffer, SP!Quit, SP!StopRunning, SP!ShutdownListener, SP!CloseSocket,
       SP!Wait, SP!Destructor, SP!Main, SP!Goto, SP!Pass, SP!ListenSucceeds,
       SP!ListenFails, SP!SetRunning, SP!CallAccept, SP!CallAcceptFails, SP!Accepted,
       SP!AcceptFails, SP!AcceptWoken, SP!RetryAccept, SP!CheckRunning, SP!Snapshot,
       SP!SendSucceeds, SP!ConnectionLost, SP!CloseConnection, SP!WorkerProgress,
       SP!Worker, SP!Restart, SP!Server, SP!Peer, SP!vars, SP!Next
<1>2. S!Init => SP!Init
  BY DEF S!Init, S!ServerInit, S!Started, S!NoConn, S!SocketsInit,
         SP!Init, SP!ServerInit, SP!Started, SP!NoConn, SP!SocketsInit
<1>3. UNCHANGED S!vars => UNCHANGED SP!vars
  BY DEF S!vars, S!serverVars, S!net, SP!vars, SP!serverVars, SP!net
<1>4. QED
  BY <1>1, <1>2, <1>3

LEMMA SameClient == /\ C!Next => CP!Next
                    /\ C!Init => CP!Init
                    /\ UNCHANGED C!vars => UNCHANGED CP!vars
<1>1. C!Next => CP!Next
  BY DEF
       C!net, C!Unused, C!OpenClient, C!QueueFull, C!Connect, C!ConnectFails,
       C!ShutClient, C!CloseClient, C!ClientDies, C!Take, C!AtEnd, C!Bind, C!Listen,
       C!StopListening, C!ShutListener, C!CloseListener, C!Accept, C!Send, C!SendLost,
       C!SendFails, C!CloseServer, C!SentPart, C!ServerDies, C!ClientCall, C!ServerCall,
       C!NoFd, C!clientVars, C!DtorState, C!ReaderState, C!Zeroed, C!Bytes, C!Messages,
       C!Goto, C!Pass, C!TopNext, C!Top, C!Socket, C!SocketFails, C!ConnectSucceeds,
       C!ConnectRefused, C!SetStatus, C!ReadCheck, C!ReadBytes, C!ReadInterrupted,
       C!ReadEnds, C!Store, C!ClearStatus, C!ShutdownSocket, C!CloseSocket,
       C!ForgetSocket, C!ReaderProgress, C!Reader, C!DtorGoto, C!DtorPass, C!ClearBuffer,
       C!Quit, C!SetStop, C!CheckStatus, C!LoadFd, C!WakeReader, C!Join, C!CloseLast,
       C!Destructor, C!Restart, C!Client, C!Peer, C!vars, C!Next, CP!net, CP!Unused,
       CP!OpenClient, CP!QueueFull, CP!Connect, CP!ConnectFails, CP!ShutClient,
       CP!CloseClient, CP!ClientDies, CP!Take, CP!AtEnd, CP!Bind, CP!Listen,
       CP!StopListening, CP!ShutListener, CP!CloseListener, CP!Accept, CP!Send,
       CP!SendLost, CP!SendFails, CP!CloseServer, CP!SentPart, CP!ServerDies,
       CP!ClientCall, CP!ServerCall, CP!NoFd, CP!clientVars, CP!DtorState, CP!ReaderState,
       CP!Zeroed, CP!Bytes, CP!Messages, CP!Goto, CP!Pass, CP!TopNext, CP!Top, CP!Socket,
       CP!SocketFails, CP!ConnectSucceeds, CP!ConnectRefused, CP!SetStatus, CP!ReadCheck,
       CP!ReadBytes, CP!ReadInterrupted, CP!ReadEnds, CP!Store, CP!ClearStatus,
       CP!ShutdownSocket, CP!CloseSocket, CP!ForgetSocket, CP!ReaderProgress, CP!Reader,
       CP!DtorGoto, CP!DtorPass, CP!ClearBuffer, CP!Quit, CP!SetStop, CP!CheckStatus,
       CP!LoadFd, CP!WakeReader, CP!Join, CP!CloseLast, CP!Destructor, CP!Restart,
       CP!Client, CP!Peer, CP!vars, CP!Next
<1>2. C!Init => CP!Init
  BY DEF C!Init, C!ClientInit, C!Started, C!NoFd, C!Zeroed, C!SocketsInit,
         CP!Init, CP!ClientInit, CP!Started, CP!NoFd, CP!Zeroed, CP!SocketsInit
<1>3. UNCHANGED C!vars => UNCHANGED CP!vars
  BY DEF C!vars, C!clientVars, C!net, CP!vars, CP!clientVars, CP!net
<1>4. QED
  BY <1>1, <1>2, <1>3

LEMMA ServerKeeps == SP!IInv /\ [S!Next]_(S!vars) => SP!IInv'
  BY Assumptions, SameServer, SP!NextIInv

LEMMA ClientKeeps ==
  CP!IInv /\ CP!StreamInv /\ [C!Next]_(C!vars) => CP!IInv' /\ CP!StreamInv'
  BY Assumptions, SameClient, CP!NextIInv, CP!NextStream

-----------------------------------------------------------------------------
(* The server program, as the client sees it. *)

\* Stopping to listen once more changes nothing.
LEMMA StopIsCall ==
  ASSUME LinkInv, NEW state \in {"shut", "none"}, S!StopListening(state),
         listener # "none" \/ state = "none"
  PROVE  C!ServerCall(C!Messages) \/ UNCHANGED C!net
<1>1. CASE listener # "none"
  <2>1. C!StopListening(state)
    BY DEF S!StopListening, C!StopListening
  <2>2. QED
    BY <1>1, <2>1 DEF C!ServerCall
<1>2. CASE listener = "none"
  <2>1. /\ queue \in Seq(Conn) /\ srv \in [Conn -> {"none", "queued", "open"}]
        /\ \A i \in 1 .. Len(queue) : srv[queue[i]] = "queued"
        /\ \A c \in Conn : srv[c] # "queued"
    BY <1>2 DEF LinkInv, SP!IInv, SP!QueueInv, SP!TypeOK, SP!SocketsTypeOK
  <2>2. \A i \in 1 .. Len(queue) : queue[i] \in Conn
    BY <2>1
  <2>3. ~(1 \in 1 .. Len(queue))
    BY <2>1, <2>2
  <2>4. queue = << >>
    BY <2>1, <2>3
  <2>5. [c \in Conn |-> IF srv[c] = "queued" THEN "none" ELSE srv[c]] = srv
    BY <2>1
  <2>6. QED
    BY <1>2, <2>4, <2>5 DEF S!StopListening, C!net
<1>3. QED
  BY <1>1, <1>2

LEMMA ServerMainIsPeer ==
  ASSUME LinkInv, S!Main
  PROVE  C!ServerCall(C!Messages) \/ UNCHANGED C!net
<1>. USE DEF S!MainGoto, S!MainPass, S!net
<1>1. CASE S!Construct
  <2>1. listener = "none"
    BY <1>1 DEF S!Construct, LinkInv, SP!IInv, SP!ListenerInv
  <2>2. QED
    BY <1>1, <2>1 DEF S!Construct, S!Bind, C!Bind, C!ServerCall
<1>2. CASE S!ShutdownListener
  <2>1. CASE listener = "listening"
    BY <1>2, <2>1, StopIsCall DEF S!ShutdownListener, S!ShutListener
  <2>2. CASE listener # "listening"
    BY <1>2, <2>2 DEF S!ShutdownListener, S!ShutListener, C!net
  <2>3. QED
    BY <2>1, <2>2
<1>3. CASE S!CloseSocket
  <2>1. S!StopListening("none") \/ UNCHANGED C!net
    BY <1>3 DEF S!CloseSocket, S!CloseListener, C!net
  <2>2. QED
    BY <2>1, StopIsCall
<1>4. CASE S!ConstructFails \/ (\E p \in Edits : S!SetBuffer(p)) \/ S!Quit \/ S!StopRunning \/ S!Wait
  BY <1>4 DEF S!ConstructFails, S!SetBuffer, S!Quit, S!StopRunning, S!Wait, C!net
<1>5. QED
  BY <1>1, <1>2, <1>3, <1>4 DEF S!Main, S!Destructor

LEMMA ServerWorkerIsPeer ==
  ASSUME LinkInv, S!Worker
  PROVE  C!ServerCall(C!Messages) \/ UNCHANGED C!net
<1>. USE DEF S!Goto, S!Pass, S!net
<1>1. CASE S!ListenSucceeds
  <2>1. listener = "bound"
    BY <1>1 DEF S!ListenSucceeds, LinkInv, JoinInv
  <2>2. QED
    BY <1>1, <2>1 DEF S!ListenSucceeds, S!Listen, C!Listen, C!ServerCall
<1>2. CASE S!CallAcceptFails
  <2>1. S!StopListening("none") \/ UNCHANGED C!net
    BY <1>2 DEF S!CallAcceptFails, C!net
  <2>2. QED
    BY <2>1, StopIsCall
<1>3. CASE S!Accepted
  BY <1>3 DEF S!Accepted, S!Accept, C!Accept, C!ServerCall
<1>4. CASE S!SendSucceeds
  <2>1. s_worker \in SP!Serving /\ s_connfd \in Conn /\ srv[s_connfd] = "open" /\ s_temp \in Edits
    BY <1>4 DEF S!SendSucceeds, LinkInv, SP!IInv, SP!WorkerInv, SP!TypeOK, SP!Serving
  <2>2. S!Bytes(s_temp) \in C!Messages
    BY <2>1 DEF S!Bytes, C!Bytes, C!Messages
  <2>3. C!Send(s_connfd, S!Bytes(s_temp)) \/ C!SendLost(s_connfd)
    BY <1>4 DEF S!SendSucceeds, S!Send, S!SendLost, C!Send, C!SendLost
  <2>4. QED
    BY <2>1, <2>2, <2>3 DEF C!ServerCall
<1>5. CASE S!CloseConnection
  <2>1. s_connfd \in Conn /\ srv[s_connfd] = "open"
    BY <1>5 DEF S!CloseConnection, LinkInv, SP!IInv, SP!WorkerInv, SP!Serving
  <2>2. C!CloseServer(s_connfd)
    BY <1>5 DEF S!CloseConnection, S!CloseServer, C!CloseServer
  <2>3. QED
    BY <2>1, <2>2 DEF C!ServerCall
<1>6. CASE \/ S!ListenFails \/ S!SetRunning \/ S!CallAccept \/ S!AcceptFails \/ S!AcceptWoken
           \/ S!RetryAccept \/ S!CheckRunning \/ S!Snapshot \/ S!ConnectionLost
  BY <1>6 DEF S!ListenFails, S!SetRunning, S!CallAccept, S!AcceptFails, S!AcceptWoken,
     S!RetryAccept, S!CheckRunning, S!Snapshot, S!ConnectionLost, C!net
<1>7. QED
  BY <1>1, <1>2, <1>3, <1>4, <1>5, <1>6 DEF S!Worker, S!WorkerProgress

LEMMA ServerRestartIsPeer ==
  ASSUME LinkInv, S!Restart
  PROVE  C!ServerCall(C!Messages)
<1>. DEFINE sending == IF s_worker = "send" THEN {s_connfd} ELSE {}
            accepted == {c \in Conn : srv[c] = "open"}
<1>1. sending \subseteq accepted /\ s_temp \in Edits
  BY DEF LinkInv, SP!IInv, SP!WorkerInv, SP!TypeOK, SP!Serving
<1>2. {S!Bytes(s_temp)} \subseteq C!Messages
  BY <1>1 DEF S!Bytes, C!Bytes, C!Messages
<1>3. S!ServerDies(sending, {S!Bytes(s_temp)})
  BY DEF S!Restart
<1>4. C!ServerDies(accepted, C!Messages)
  <2>1. CASE UNCHANGED down
    BY <1>3, <2>1 DEF S!ServerDies, C!ServerDies
  <2>2. ASSUME NEW c \in sending, NEW k \in 1 .. Len(S!Bytes(s_temp)),
               S!SentPart(c, S!Bytes(s_temp), k)
        PROVE  C!ServerDies(accepted, C!Messages)
    <3>1. c \in accepted /\ S!Bytes(s_temp) \in C!Messages
      BY <1>1, <1>2
    <3>2. C!SentPart(c, S!Bytes(s_temp), k)
      BY <2>2 DEF S!SentPart, C!SentPart
    <3>. HIDE DEF sending, accepted
    <3>3. QED
      BY <1>3, <3>1, <3>2 DEF S!ServerDies, C!ServerDies
  <2>3. QED
    BY <1>3, <2>1, <2>2 DEF S!ServerDies
<1>5. QED
  BY <1>4 DEF C!ServerCall

-----------------------------------------------------------------------------
(* The client program, as the server sees it. *)

ClientCalls == \E c \in Conn : S!ClientCall(c)

LEMMA ClientReaderIsPeer ==
  ASSUME LinkInv, C!Reader
  PROVE  ClientCalls \/ UNCHANGED S!net
<1>. USE DEF C!Goto, C!Pass, C!net
<1>1. CASE C!Socket
  BY <1>1 DEF C!Socket, C!OpenClient, C!Unused, S!OpenClient, S!Unused, S!ClientCall, ClientCalls
<1>2. CASE C!ConnectSucceeds
  <2>1. c_sockfd \in Conn /\ cli[c_sockfd] = "fresh"
    BY <1>2 DEF C!ConnectSucceeds, LinkInv, CP!IInv, CP!SocketInv, CP!Holding,
                CP!StreamInv, CP!CollectInv
  <2>2. S!Connect(c_sockfd)
    BY <1>2 DEF C!ConnectSucceeds, C!Connect, C!QueueFull, S!Connect, S!QueueFull
  <2>3. QED
    BY <2>1, <2>2 DEF S!ClientCall, ClientCalls
<1>3. ASSUME NEW k \in 1 .. SBUFLEN, C!ReadBytes(k)
      PROVE  ClientCalls
  <2>1. c_sockfd \in Conn /\ down[c_sockfd] \in Seq(CP!Byte)
    BY <1>3 DEF C!ReadBytes, LinkInv, CP!IInv, CP!SocketInv, CP!Connected, CP!StreamInv,
                CP!ConnStream
  <2>2. k \in 1 .. Len(down[c_sockfd])
    BY <1>3, <2>1, LinkAssumption DEF C!ReadBytes
  <2>3. S!Take(c_sockfd, k)
    BY <1>3 DEF C!ReadBytes, C!Take, S!Take
  <2>4. QED
    BY <2>1, <2>2, <2>3 DEF S!ClientCall, ClientCalls
<1>4. CASE C!ShutdownSocket
  <2>1. c_sockfd \in Conn /\ cli \in [Conn -> {"none", "fresh", "open", "shut"}]
    BY <1>4 DEF C!ShutdownSocket, LinkInv, CP!IInv, CP!SocketInv, CP!Holding, CP!TypeOK,
                CP!SocketsTypeOK
  <2>2. S!ShutClient(c_sockfd)
    BY <1>4 DEF C!ShutdownSocket, C!ShutClient, S!ShutClient
  <2>3. cli[c_sockfd] # "open" => UNCHANGED S!net
    BY <2>1, <2>2 DEF S!ShutClient, S!net
  <2>4. QED
    BY <2>1, <2>2, <2>3 DEF S!ClientCall, ClientCalls
<1>5. CASE C!CloseSocket
  <2>1. c_sockfd \in Conn /\ cli[c_sockfd] # "none"
    BY <1>5 DEF C!CloseSocket, LinkInv, CP!IInv, CP!SocketInv, CP!Holding, JoinInv
  <2>2. S!CloseClient(c_sockfd)
    BY <1>5 DEF C!CloseSocket, C!CloseClient, S!CloseClient
  <2>3. QED
    BY <2>1, <2>2 DEF S!ClientCall, ClientCalls
<1>6. CASE \/ C!Top \/ C!SocketFails \/ C!ConnectRefused \/ C!SetStatus \/ C!ReadCheck
           \/ C!ReadInterrupted \/ C!ReadEnds \/ C!Store \/ C!ClearStatus \/ C!ForgetSocket
  BY <1>6 DEF C!Top, C!SocketFails, C!ConnectRefused, C!SetStatus, C!ReadCheck,
     C!ReadInterrupted, C!ReadEnds, C!Store, C!ClearStatus, C!ForgetSocket, S!net
<1>7. QED
  BY <1>1, <1>2, <1>3, <1>4, <1>5, <1>6 DEF C!Reader, C!ReaderProgress

LEMMA ClientMainIsPeer ==
  ASSUME LinkInv, C!ClearBuffer \/ C!Quit \/ C!Destructor
  PROVE  ClientCalls \/ UNCHANGED S!net
<1>. USE DEF C!DtorGoto, C!DtorPass, C!net
<1>0. /\ cli \in [Conn -> {"none", "fresh", "open", "shut"}]
      /\ c_fd \in Conn \cup {C!NoFd} /\ c_sockfd \in Conn \cup {C!NoFd}
  BY DEF LinkInv, CP!IInv, CP!TypeOK, CP!SocketsTypeOK, CP!NoFd, C!NoFd
<1>1. CASE C!WakeReader
  <2>1. CASE c_fd = C!NoFd
    BY <1>1, <2>1 DEF C!WakeReader, S!net
  <2>2. CASE c_fd # C!NoFd
    <3>1. c_fd \in Conn /\ S!ShutClient(c_fd)
      BY <1>0, <1>1, <2>2 DEF C!WakeReader, C!ShutClient, S!ShutClient
    <3>2. cli[c_fd] # "open" => UNCHANGED S!net
      BY <1>0, <3>1 DEF S!ShutClient, S!net
    <3>3. QED
      BY <3>1, <3>2 DEF S!ClientCall, ClientCalls
  <2>3. QED
    BY <2>1, <2>2
<1>2. CASE C!CloseLast
  <2>1. CASE c_sockfd = C!NoFd
    BY <1>2, <2>1 DEF C!CloseLast, S!net
  <2>2. CASE c_sockfd # C!NoFd
    <3>1. c_sockfd \in Conn /\ S!CloseClient(c_sockfd)
      BY <1>0, <1>2, <2>2 DEF C!CloseLast, C!CloseClient, S!CloseClient
    <3>2. cli[c_sockfd] # "none"
      BY <1>2, <3>1 DEF C!CloseLast, LinkInv, JoinInv, CP!IInv, CP!HandShake
    <3>3. QED
      BY <3>1, <3>2 DEF S!ClientCall, ClientCalls
  <2>3. QED
    BY <2>1, <2>2
<1>3. CASE C!ClearBuffer \/ C!Quit \/ C!SetStop \/ C!CheckStatus \/ C!LoadFd \/ C!Join
  BY <1>3 DEF C!ClearBuffer, C!Quit, C!SetStop, C!CheckStatus, C!LoadFd, C!Join, S!net
<1>4. QED
  BY <1>1, <1>2, <1>3 DEF C!Destructor

\* The end of the process closes the one descriptor that is open.
LEMMA ClientRestartIsPeer ==
  ASSUME LinkInv, C!Restart
  PROVE  ClientCalls \/ UNCHANGED S!net
<1>1. /\ cli' = [c \in Conn |-> "none"]
      /\ down' = [c \in Conn |-> << >>]
      /\ rst' = [c \in Conn |-> srv[c] # "none" /\ (rst[c] \/ down[c] # << >>)]
      /\ UNCHANGED << listener, queue, srv >>
  BY DEF C!Restart, C!ClientDies
<1>2. /\ cli \in [Conn -> {"none", "fresh", "open", "shut"}]
      /\ DOMAIN down = Conn
      /\ rst \in [Conn -> BOOLEAN]
      /\ \A c \in Conn : cli[c] # "none" => c = c_sockfd
      /\ \A c \in Conn : cli[c] = "none" => down[c] = << >>
      /\ \A c \in Conn : rst[c] => srv[c] # "none"
  BY DEF LinkInv, JoinInv, CP!IInv, CP!TypeOK, CP!SocketsTypeOK, CP!SocketInv, CP!StreamInv,
         CP!ConnStream
<1>3. CASE \A c \in Conn : cli[c] = "none"
  <2>1. cli' = cli
    BY <1>1, <1>2, <1>3
  <2>2. rst' = rst
    BY <1>1, <1>2, <1>3
  <2>3. down' = down
    <3>1. [c \in Conn |-> << >>] = [c \in Conn |-> down[c]]
      BY <1>2, <1>3
    <3>2. down = [c \in Conn |-> down[c]]
      BY DEF LinkInv, JoinInv
    <3>3. QED
      BY <1>1, <3>1, <3>2
  <2>4. QED
    BY <1>1, <2>1, <2>2, <2>3 DEF S!net
<1>4. CASE \E c \in Conn : cli[c] # "none"
  <2>1. PICK d \in Conn : cli[d] # "none"
    BY <1>4
  <2>2. \A c \in Conn : c # d => cli[c] = "none" /\ down[c] = << >>
    BY <1>2, <2>1
  <2>3. cli' = [cli EXCEPT ![d] = "none"]
    BY <1>1, <1>2, <2>2
  <2>4. down' = [down EXCEPT ![d] = << >>]
    BY <1>1, <1>2, <2>2
  <2>5. rst' = [rst EXCEPT ![d] = srv[d] # "none" /\ (@ \/ down[d] # << >>)]
    BY <1>1, <1>2, <2>2
  <2>6. QED
    BY <1>1, <2>1, <2>3, <2>4, <2>5 DEF S!CloseClient, S!ClientCall, ClientCalls
<1>5. QED
  BY <1>3, <1>4

-----------------------------------------------------------------------------
(* JoinInv, a step of either program at a time. *)

\* What a call of the server leaves on the connections.
LEMMA ServerCallJoins ==
  ASSUME LinkInv, C!ServerCall(C!Messages) \/ UNCHANGED C!net
  PROVE  /\ cli' = cli
         /\ \A c \in Conn : rst'[c] => srv'[c] = "open"
         /\ \A c \in Conn : srv'[c] = "queued" => down'[c] = << >>
         /\ down' = [c \in Conn |-> down'[c]]
<1>0. /\ queue \in Seq(Conn)
      /\ srv \in [Conn -> {"none", "queued", "open"}]
      /\ rst \in [Conn -> BOOLEAN]
      /\ DOMAIN down = Conn /\ down = [c \in Conn |-> down[c]]
      /\ \A c \in Conn : rst[c] => srv[c] = "open"
      /\ \A c \in Conn : srv[c] = "queued" => down[c] = << >>
  BY DEF LinkInv, JoinInv, CP!IInv, CP!TypeOK, CP!SocketsTypeOK
<1>1. CASE C!Bind \/ C!Listen \/ UNCHANGED C!net
  BY <1>0, <1>1 DEF C!Bind, C!Listen, C!net
<1>2. ASSUME NEW state \in {"shut", "none"}, C!StopListening(state)
      PROVE  /\ cli' = cli
             /\ \A c \in Conn : rst'[c] => srv'[c] = "open"
             /\ \A c \in Conn : srv'[c] = "queued" => down'[c] = << >>
             /\ down' = [c \in Conn |-> down'[c]]
  BY <1>0, <1>2 DEF C!StopListening
<1>3. CASE C!Accept
  BY <1>0, <1>3 DEF C!Accept
<1>4. ASSUME NEW d \in Conn, srv[d] = "open",
             (\E bytes \in C!Messages : C!Send(d, bytes)) \/ C!SendLost(d) \/ C!CloseServer(d)
      PROVE  /\ cli' = cli
             /\ \A c \in Conn : rst'[c] => srv'[c] = "open"
             /\ \A c \in Conn : srv'[c] = "queued" => down'[c] = << >>
             /\ down' = [c \in Conn |-> down'[c]]
  <2>1. CASE \E bytes \in C!Messages : C!Send(d, bytes)
    BY <1>0, <1>4, <2>1, ZenonT(30) DEF C!Send
  <2>2. CASE C!SendLost(d) \/ C!CloseServer(d)
    BY <1>0, <1>4, <2>2 DEF C!SendLost, C!CloseServer
  <2>3. QED
    BY <1>4, <2>1, <2>2
<1>5. ASSUME NEW sending, C!ServerDies(sending, C!Messages)
      PROVE  /\ cli' = cli
             /\ \A c \in Conn : rst'[c] => srv'[c] = "open"
             /\ \A c \in Conn : srv'[c] = "queued" => down'[c] = << >>
             /\ down' = [c \in Conn |-> down'[c]]
  BY <1>0, <1>5 DEF C!ServerDies, C!SentPart
<1>6. QED
  BY <1>1, <1>2, <1>3, <1>4, <1>5 DEF C!ServerCall

\* What a call of the client leaves on the connections.
LEMMA ClientCallJoins ==
  ASSUME LinkInv, ClientCalls \/ UNCHANGED S!net
  PROVE  /\ listener' = listener
         /\ \A c \in Conn : rst'[c] => srv'[c] = "open"
         /\ \A c \in Conn : srv'[c] = "queued" => down'[c] = << >>
         /\ down' = [c \in Conn |-> down'[c]]
<1>0. /\ srv \in [Conn -> {"none", "queued", "open"}]
      /\ rst \in [Conn -> BOOLEAN]
      /\ DOMAIN down = Conn /\ down = [c \in Conn |-> down[c]]
      /\ \A c \in Conn : rst[c] => srv[c] = "open"
      /\ \A c \in Conn : srv[c] = "queued" => down[c] = << >>
      /\ \A c \in Conn : cli[c] = "fresh" => srv[c] = "none" /\ down[c] = << >>
  BY DEF LinkInv, JoinInv, CP!IInv, CP!TypeOK, CP!SocketsTypeOK, CP!StreamInv, CP!QueueInv,
         CP!ConnStream
<1>1. CASE UNCHANGED S!net
  BY <1>0, <1>1 DEF S!net
<1>2. ASSUME NEW d \in Conn, S!ClientCall(d)
      PROVE  /\ listener' = listener
             /\ \A c \in Conn : rst'[c] => srv'[c] = "open"
             /\ \A c \in Conn : srv'[c] = "queued" => down'[c] = << >>
             /\ down' = [c \in Conn |-> down'[c]]
  <2>1. CASE S!OpenClient(d) \/ S!ShutClient(d)
    BY <1>0, <2>1 DEF S!OpenClient, S!ShutClient
  <2>2. CASE cli[d] = "fresh" /\ S!Connect(d)
    BY <1>0, <2>2 DEF S!Connect
  <2>3. CASE S!CloseClient(d)
    BY <1>0, <2>3 DEF S!CloseClient
  <2>4. ASSUME NEW k \in 1 .. Len(down[d]), S!Take(d, k)
        PROVE  /\ listener' = listener
               /\ \A c \in Conn : rst'[c] => srv'[c] = "open"
               /\ \A c \in Conn : srv'[c] = "queued" => down'[c] = << >>
               /\ down' = [c \in Conn |-> down'[c]]
    <3>1. srv[d] # "queued"
      BY <1>0, <2>4
    <3>2. UNCHANGED << listener, srv, rst >> /\ \A c \in Conn : c # d => down'[c] = down[c]
      BY <1>0, <2>4 DEF S!Take
    <3>3. down' = [c \in Conn |-> down'[c]]
      BY <1>0, <2>4 DEF S!Take
    <3>4. QED
      BY <1>0, <3>1, <3>2, <3>3
  <2>5. QED
    BY <1>2, <2>1, <2>2, <2>3, <2>4 DEF S!ClientCall
<1>3. QED
  BY <1>1, <1>2 DEF ClientCalls

\* The socket is bound, and nothing else, until the worker has listened.
LEMMA ServerBound ==
  ASSUME LinkInv, S!Main \/ S!Worker \/ S!Restart
  PROVE  s_worker' = "listen" /\ s_sockfd' = "open" => listener' = "bound"
<1>0. s_worker = "listen" /\ s_sockfd = "open" => listener = "bound"
  BY DEF LinkInv, JoinInv
<1>1. CASE S!Main
  <2>. USE DEF S!MainGoto, S!MainPass, S!net
  <2>1. CASE S!Construct
    BY <2>1 DEF S!Construct, S!Bind
  <2>2. CASE S!ShutdownListener
    BY <1>0, <2>2 DEF S!ShutdownListener, S!ShutListener
  <2>3. CASE S!CloseSocket
    BY <2>3 DEF S!CloseSocket
  <2>4. CASE S!ConstructFails \/ (\E p \in Edits : S!SetBuffer(p)) \/ S!Quit \/ S!StopRunning \/ S!Wait
    BY <1>0, <2>4 DEF S!ConstructFails, S!SetBuffer, S!Quit, S!StopRunning, S!Wait
  <2>5. QED
    BY <1>1, <2>1, <2>2, <2>3, <2>4 DEF S!Main, S!Destructor
<1>2. CASE S!Worker
  BY <1>2 DEF S!Worker, S!WorkerProgress, S!Goto, S!Pass, S!ListenSucceeds, S!ListenFails,
     S!SetRunning, S!CallAccept, S!CallAcceptFails, S!Accepted, S!AcceptWoken, S!AcceptFails,
     S!RetryAccept, S!CheckRunning, S!Snapshot, S!SendSucceeds, S!ConnectionLost,
     S!CloseConnection
<1>3. CASE S!Restart
  BY <1>3 DEF S!Restart
<1>4. QED
  BY <1>1, <1>2, <1>3

LEMMA ServerJoins ==
  ASSUME LinkInv, S!Main \/ S!Worker \/ S!Restart, UNCHANGED cVars, edits' \in Edits
  PROVE  JoinInv'
<1>1. C!ServerCall(C!Messages) \/ UNCHANGED C!net
  BY ServerMainIsPeer, ServerWorkerIsPeer, ServerRestartIsPeer
<1>2. /\ cli' = cli
      /\ \A c \in Conn : rst'[c] => srv'[c] = "open"
      /\ \A c \in Conn : srv'[c] = "queued" => down'[c] = << >>
      /\ down' = [c \in Conn |-> down'[c]]
  BY <1>1, ServerCallJoins
<1>3. UNCHANGED << c_reader, c_dtor, c_sockfd >>
  BY DEF cVars
<1>4. QED
  BY <1>2, <1>3, ServerBound DEF LinkInv, JoinInv

\* The client holds the descriptor it is about to use.
LEMMA ClientHolds ==
  ASSUME LinkInv, C!Reader \/ C!ClearBuffer \/ C!Quit \/ C!Destructor \/ C!Restart
  PROVE  /\ c_reader' \in {"connect", "setStatus", "shut", "close"} => cli'[c_sockfd'] # "none"
         /\ c_reader' = "done" /\ c_dtor' # "gone" /\ c_sockfd' \in Conn => cli'[c_sockfd'] # "none"
<1>0. /\ c_reader \in {"connect", "setStatus", "shut", "close"} => cli[c_sockfd] # "none"
      /\ c_reader = "done" /\ c_dtor # "gone" /\ c_sockfd \in Conn => cli[c_sockfd] # "none"
      /\ cli \in [Conn -> {"none", "fresh", "open", "shut"}]
      /\ C!NoFd \notin Conn
      /\ CP!SocketInv /\ CP!HandShake
      /\ c_fd \in Conn \cup {C!NoFd} /\ c_sockfd \in Conn \cup {C!NoFd}
  BY DescriptorAssumption
     DEF LinkInv, JoinInv, CP!IInv, CP!TypeOK, CP!SocketsTypeOK, CP!NoFd, C!NoFd
<1>1. CASE C!Reader
  <2>. USE DEF C!Goto, C!Pass, C!net
  <2>1. CASE C!Socket
    BY <1>0, <2>1 DEF C!Socket, C!OpenClient
  <2>2. CASE C!ConnectSucceeds \/ C!ShutdownSocket
    BY <1>0, <2>2 DEF C!ConnectSucceeds, C!Connect, C!ShutdownSocket, C!ShutClient,
                      CP!SocketInv, CP!Holding
  <2>3. CASE C!CloseSocket \/ C!ForgetSocket \/ C!SocketFails \/ \E k \in 1 .. SBUFLEN : C!ReadBytes(k)
    BY <1>0, <2>3 DEF C!CloseSocket, C!ForgetSocket, C!SocketFails, C!ReadBytes
  <2>4. CASE \/ C!Top \/ C!ConnectRefused \/ C!SetStatus \/ C!ReadCheck
             \/ C!ReadInterrupted \/ C!ReadEnds \/ C!Store \/ C!ClearStatus
    <3>1. C!NoFd = CP!NoFd
      BY DEF C!NoFd, CP!NoFd
    <3>2. QED
      BY <1>0, <2>4, <3>1 DEF C!Top, C!TopNext, C!ConnectRefused, C!SetStatus, C!ReadCheck,
         C!ReadInterrupted, C!ReadEnds, C!Store, C!ClearStatus,
         CP!SocketInv, CP!Holding, CP!Connected
  <2>5. QED
    BY <1>1, <2>1, <2>2, <2>3, <2>4 DEF C!Reader, C!ReaderProgress
<1>2. CASE C!ClearBuffer \/ C!Quit \/ C!Destructor
  <2>. USE DEF C!DtorGoto, C!DtorPass, C!net
  <2>1. CASE C!WakeReader
    <3>1. \A c \in Conn : cli[c] # "none" => cli'[c] # "none"
      BY <1>0, <2>1 DEF C!WakeReader, C!ShutClient
    <3>2. c_reader \in {"connect", "setStatus", "shut", "close"} => c_sockfd \in Conn
      BY <1>0 DEF CP!SocketInv, CP!Holding
    <3>3. UNCHANGED << c_reader, c_sockfd >> /\ c_dtor # "gone"
      BY <2>1 DEF C!WakeReader
    <3>4. QED
      BY <1>0, <3>1, <3>2, <3>3
  <2>2. CASE C!CloseLast
    BY <1>0, <2>2 DEF C!CloseLast, CP!HandShake
  <2>3. CASE C!ClearBuffer \/ C!Quit \/ C!SetStop \/ C!CheckStatus \/ C!LoadFd \/ C!Join
    BY <1>0, <2>3 DEF C!ClearBuffer, C!Quit, C!SetStop, C!CheckStatus, C!LoadFd, C!Join
  <2>4. QED
    BY <1>2, <2>1, <2>2, <2>3 DEF C!Destructor
<1>3. CASE C!Restart
  BY <1>3 DEF C!Restart
<1>4. QED
  BY <1>1, <1>2, <1>3

LEMMA ClientJoins ==
  ASSUME LinkInv, C!Reader \/ C!ClearBuffer \/ C!Quit \/ C!Destructor \/ C!Restart,
         UNCHANGED << sVars, edits >>
  PROVE  JoinInv'
<1>1. ClientCalls \/ UNCHANGED S!net
  BY ClientReaderIsPeer, ClientMainIsPeer, ClientRestartIsPeer
<1>2. /\ listener' = listener
      /\ \A c \in Conn : rst'[c] => srv'[c] = "open"
      /\ \A c \in Conn : srv'[c] = "queued" => down'[c] = << >>
      /\ down' = [c \in Conn |-> down'[c]]
  BY <1>1, ClientCallJoins
<1>3. UNCHANGED << s_worker, s_sockfd, edits >>
  BY DEF sVars
<1>4. QED
  BY <1>2, <1>3, ClientHolds DEF LinkInv, JoinInv

-----------------------------------------------------------------------------
(* The theorems. *)

\* A step of the two programs together is a step of each of them, or none.
EachSteps == [S!Next]_(S!vars) /\ [C!Next]_(C!vars)

LEMMA ServerSteps ==
  ASSUME LinkInv, S!Main \/ S!Worker \/ S!Restart, UNCHANGED cVars, edits' \in Edits
  PROVE  EachSteps /\ LinkInv'
<1>1. S!Next
  BY DEF S!Next, S!Server
<1>2. C!Peer \/ UNCHANGED C!vars
  BY ServerMainIsPeer, ServerWorkerIsPeer, ServerRestartIsPeer
     DEF C!Peer, C!vars, C!clientVars, cVars
<1>3. EachSteps
  BY <1>1, <1>2 DEF C!Next, EachSteps
<1>4. QED
  BY <1>3, ServerKeeps, ClientKeeps, ServerJoins DEF LinkInv, EachSteps

LEMMA ClientSteps ==
  ASSUME LinkInv, C!Reader \/ C!ClearBuffer \/ C!Quit \/ C!Destructor \/ C!Restart,
         UNCHANGED << sVars, edits >>
  PROVE  EachSteps /\ LinkInv'
<1>1. C!Next
  BY DEF C!Next, C!Client
<1>2. S!Peer \/ UNCHANGED S!vars
  BY ClientReaderIsPeer, ClientMainIsPeer, ClientRestartIsPeer
     DEF S!Peer, S!vars, S!serverVars, sVars, ClientCalls
<1>3. EachSteps
  BY <1>1, <1>2 DEF S!Next, EachSteps
<1>4. QED
  BY <1>3, ServerKeeps, ClientKeeps, ClientJoins DEF LinkInv, EachSteps

LEMMA QuietSteps ==
  ASSUME LinkInv, UNCHANGED << net, sVars, cVars, edits >>
  PROVE  EachSteps /\ LinkInv'
<1>1. EachSteps
  BY DEF EachSteps, S!vars, S!serverVars, S!net, C!vars, C!clientVars, C!net, net, sVars, cVars
<1>2. JoinInv'
  BY DEF LinkInv, JoinInv, net, sVars, cVars
<1>3. QED
  BY <1>1, <1>2, ServerKeeps, ClientKeeps DEF LinkInv, EachSteps

LEMMA NextSteps ==
  ASSUME LinkInv, [Next]_vars
  PROVE  EachSteps /\ LinkInv'
<1>0. edits \in 0 .. MaxEdits /\ MaxEdits \in Nat
  BY LinkAssumption DEF LinkInv, JoinInv, Edits
<1>1. CASE Edit
  <2>1. edits' \in Edits /\ S!SetBuffer(edits') /\ UNCHANGED cVars
    BY <1>0, <1>1 DEF Edit, Edits
  <2>2. S!Main
    BY <2>1 DEF S!Main
  <2>3. QED
    BY <2>1, <2>2, ServerSteps
<1>2. CASE ServerStep \/ ServerQuits \/ ServerRestarts
  <2>1. /\ S!Main \/ S!Worker \/ S!Restart
        /\ UNCHANGED cVars /\ UNCHANGED edits
    BY <1>2 DEF ServerStep, ServerQuits, ServerRestarts, S!Main
  <2>2. edits' \in Edits
    BY <1>0, <2>1 DEF Edits
  <2>3. QED
    BY <2>1, <2>2, ServerSteps
<1>3. CASE Poll \/ ShowField
  BY <1>3, QuietSteps DEF Poll, ShowField
<1>4. CASE ClearBuffer \/ ClientQuits \/ ClientStep \/ ClientRestarts
  <2>1. /\ C!Reader \/ C!ClearBuffer \/ C!Quit \/ C!Destructor \/ C!Restart
        /\ UNCHANGED << sVars, edits >>
    BY <1>4 DEF ClearBuffer, ClientQuits, ClientStep, ClientRestarts
  <2>2. QED
    BY <2>1, ClientSteps
<1>5. CASE UNCHANGED vars
  BY <1>5, QuietSteps DEF vars
<1>6. QED
  BY <1>1, <1>2, <1>3, <1>4, <1>5 DEF Next, Window

LEMMA InitLinkInv == Init => LinkInv
<1>. SUFFICES ASSUME Init PROVE LinkInv
  OBVIOUS
<1>1. S!Init /\ C!Init
  BY DEF Init, S!Init, C!Init, S!SocketsInit, C!SocketsInit
<1>2. SP!IInv /\ CP!IInv /\ CP!StreamInv
  BY <1>1, Assumptions, SameServer, SameClient, SP!InitIInv, CP!InitIInv, CP!InitStream
<1>3. JoinInv
  BY LinkAssumption
     DEF Init, S!Init, S!ServerInit, S!Started, S!SocketsInit, C!ClientInit, C!Started, JoinInv, Edits
<1>4. QED
  BY <1>2, <1>3 DEF LinkInv

LEMMA SpecLinkInv == Spec => []LinkInv
<1>1. LinkInv /\ [Next]_vars => LinkInv'
  BY NextSteps
<1>2. QED
  BY <1>1, InitLinkInv, PTL DEF Spec

\* Each program, joined to the other one, keeps to its own specification: no
\* step of either surprises the other's model of its peer.
THEOREM LinkEachAsSpecified == Spec => EachAsSpecified
<1>1. Init => S!Init /\ C!Init
  BY DEF Init, S!Init, C!Init, S!SocketsInit, C!SocketsInit
<1>2. LinkInv /\ [Next]_vars => [S!Next]_(S!vars) /\ [C!Next]_(C!vars)
  BY NextSteps DEF EachSteps
<1>3. QED
  BY <1>1, <1>2, SpecLinkInv, PTL DEF Spec, EachAsSpecified, S!Spec, C!Spec

-----------------------------------------------------------------------------
(* The edits on their way from the panel to the display. *)

Values(s) == {s[i][1] : i \in 1 .. Len(s)}

Shown == {newest[f] : f \in Field}

Stored == Values(c_buffer)

Collected == Values(c_tmpbuf)

Arrived(c) == Values(down[c])

\* Edit b did not come before edit a, or one of them is not an edit.
NotBefore(b, a) == a = 0 \/ b = 0 \/ a <= b

\* No edit of B came before one of A.
Older(A, B) == \A a \in A, b \in B : NotBefore(b, a)

\* No byte of s has overtaken another.
InOrder(s) == \A i, j \in 1 .. Len(s) : i <= j => NotBefore(s[j][1], s[i][1])

RangeInv ==
  /\ newest \in [Field -> 0 .. edits]
  /\ display \in [Field -> Nat]
  /\ Stored \subseteq 0 .. edits
  /\ Collected \subseteq 0 .. edits
  /\ \A c \in Conn : Arrived(c) \subseteq 0 .. edits
  /\ s_temp \in 0 .. edits
  /\ s_buf \in {0, edits}

\* A station further from the panel holds nothing newer than a nearer one.
OrderInv ==
  /\ Older(Shown, Stored) /\ Older(Shown, Collected) /\ Older(Shown, {s_temp})
  /\ Older(Stored, Collected) /\ Older(Stored, {s_temp})
  /\ Older(Collected, {s_temp})
  /\ \A c \in Conn :
       /\ Older(Shown, Arrived(c)) /\ Older(Stored, Arrived(c)) /\ Older(Collected, Arrived(c))
       /\ Older(Arrived(c), {s_temp})
       /\ InOrder(down[c])

FlowInv == LinkInv /\ RangeInv /\ OrderInv

LEMMA ValuesAppend ==
  ASSUME NEW E, NEW s \in Seq(E), NEW b \in Seq(E)
  PROVE  /\ Values(s \o b) \subseteq Values(s) \cup Values(b)
         /\ InOrder(s) /\ InOrder(b) /\ Older(Values(s), Values(b)) => InOrder(s \o b)
<1>1. /\ Len(s) \in Nat /\ Len(b) \in Nat /\ Len(s \o b) = Len(s) + Len(b)
      /\ \A i \in 1 .. Len(s \o b) :
           (s \o b)[i] = IF i <= Len(s) THEN s[i] ELSE b[i - Len(s)]
  OBVIOUS
<1>2. \A i \in 1 .. Len(s \o b) :
        \/ i \in 1 .. Len(s) /\ (s \o b)[i] = s[i]
        \/ i > Len(s) /\ i - Len(s) \in 1 .. Len(b) /\ (s \o b)[i] = b[i - Len(s)]
  BY <1>1
<1>3. Values(s \o b) \subseteq Values(s) \cup Values(b)
  BY <1>2 DEF Values
<1>4. ASSUME InOrder(s), InOrder(b), Older(Values(s), Values(b)),
             NEW i \in 1 .. Len(s \o b), NEW j \in 1 .. Len(s \o b), i <= j
      PROVE  NotBefore((s \o b)[j][1], (s \o b)[i][1])
  <2>0. i \in Nat /\ j \in Nat
    BY <1>1
  <2>1. CASE i \in 1 .. Len(s) /\ j \in 1 .. Len(s)
    BY <1>1, <1>4, <2>1, <2>0 DEF InOrder
  <2>2. CASE i \in 1 .. Len(s) /\ j > Len(s)
    <3>1. s[i][1] \in Values(s) /\ b[j - Len(s)][1] \in Values(b)
      BY <1>1, <1>2, <2>0, <2>2 DEF Values
    <3>2. (s \o b)[i] = s[i] /\ (s \o b)[j] = b[j - Len(s)]
      BY <1>1, <2>0, <2>2
    <3>3. QED
      BY <1>4, <3>1, <3>2 DEF Older
  <2>3. CASE i > Len(s) /\ j > Len(s)
    <3>1. /\ i - Len(s) \in 1 .. Len(b) /\ j - Len(s) \in 1 .. Len(b)
          /\ i - Len(s) <= j - Len(s)
      BY <1>1, <1>4, <2>0, <2>3
    <3>2. (s \o b)[i] = b[i - Len(s)] /\ (s \o b)[j] = b[j - Len(s)]
      BY <1>1, <2>0, <2>3
    <3>3. QED
      BY <1>4, <3>1, <3>2 DEF InOrder
  <2>4. QED
    BY <1>1, <1>4, <2>0, <2>1, <2>2, <2>3
<1>5. QED
  BY <1>3, <1>4 DEF InOrder

LEMMA ValuesSplit ==
  ASSUME NEW E, NEW s \in Seq(E), InOrder(s), NEW k \in Nat, k <= Len(s)
  PROVE  /\ Values(SubSeq(s, 1, k)) \subseteq Values(s)
         /\ Values(SubSeq(s, k + 1, Len(s))) \subseteq Values(s)
         /\ InOrder(SubSeq(s, k + 1, Len(s)))
         /\ Older(Values(SubSeq(s, 1, k)), Values(SubSeq(s, k + 1, Len(s))))
<1>1. /\ Len(s) \in Nat /\ Len(SubSeq(s, 1, k)) = k
      /\ Len(SubSeq(s, k + 1, Len(s))) = Len(s) - k
      /\ \A i \in 1 .. k : i \in 1 .. Len(s) /\ SubSeq(s, 1, k)[i] = s[i]
      /\ \A i \in 1 .. Len(s) - k :
           i \in Nat /\ i + k \in 1 .. Len(s) /\ SubSeq(s, k + 1, Len(s))[i] = s[i + k]
  OBVIOUS
<1>2. /\ Values(SubSeq(s, 1, k)) \subseteq Values(s)
      /\ Values(SubSeq(s, k + 1, Len(s))) \subseteq Values(s)
  BY <1>1 DEF Values
<1>3. ASSUME NEW i \in 1 .. Len(s) - k, NEW j \in 1 .. Len(s) - k, i <= j
      PROVE  NotBefore(SubSeq(s, k + 1, Len(s))[j][1], SubSeq(s, k + 1, Len(s))[i][1])
  <2>1. i + k \in 1 .. Len(s) /\ j + k \in 1 .. Len(s) /\ i + k <= j + k
    BY <1>1, <1>3
  <2>2. QED
    BY <1>1, <2>1 DEF InOrder
<1>4. ASSUME NEW i \in 1 .. k, NEW j \in 1 .. Len(s) - k
      PROVE  NotBefore(SubSeq(s, k + 1, Len(s))[j][1], SubSeq(s, 1, k)[i][1])
  <2>1. i \in 1 .. Len(s) /\ j + k \in 1 .. Len(s) /\ i <= j + k
    BY <1>1, <1>4
  <2>2. QED
    BY <1>1, <2>1 DEF InOrder
<1>5. InOrder(SubSeq(s, k + 1, Len(s)))
  BY <1>1, <1>3 DEF InOrder
<1>6. Older(Values(SubSeq(s, 1, k)), Values(SubSeq(s, k + 1, Len(s))))
  BY <1>1, <1>4 DEF Values, Older
<1>7. QED
  BY <1>2, <1>5, <1>6

LEMMA FlowTypes ==
  ASSUME LinkInv
  PROVE  /\ edits \in Nat /\ SBUFLEN \in Nat
         /\ down = [c \in Conn |-> down[c]]
         /\ \A c \in Conn : down[c] \in Seq(CP!Byte)
         /\ c_tmpbuf \in Seq(CP!Byte)
         /\ s_connfd \in Conn \cup {SP!NoConn}
  BY LinkAssumption DEF LinkInv, JoinInv, Edits, CP!StreamInv, CP!ConnStream, CP!CollectInv,
                        SP!IInv, SP!TypeOK

\* A buffer of the client holds bytes of one packet.
LEMMA OnePacket ==
  ASSUME LinkInv
  PROVE  /\ Older(Collected, Collected)
         /\ Older(Stored, Stored)
         /\ c_buffer # << >> => \E p \in Edits : /\ Len(c_buffer) = SBUFLEN
                                               /\ \A i \in Field : c_buffer[i][1] = p
<1>0. \A p \in Edits : NotBefore(p, p)
  BY LinkAssumption DEF Edits, NotBefore
<1>1. Older(Collected, Collected)
  <2>1. CASE c_tmpbuf = << >>
    BY <2>1 DEF Collected, Values, Older
  <2>2. CASE c_tmpbuf # << >>
    <3>1. PICK p \in Edits : \A i \in 1 .. Len(c_tmpbuf) : c_tmpbuf[i] = << p, i >>
      BY <2>2 DEF LinkInv, CP!StreamInv, CP!CollectInv
    <3>2. \A v \in Collected : v = p
      BY <3>1 DEF Collected, Values
    <3>3. QED
      BY <1>0, <3>2 DEF Older
  <2>3. QED
    BY <2>1, <2>2
<1>2. CASE c_buffer = << >>
  BY <1>1, <1>2 DEF Stored, Values, Older
<1>3. CASE c_buffer # << >>
  <2>1. PICK p \in Edits : c_buffer = [i \in 1 .. SBUFLEN |-> << p, i >>]
    BY <1>3 DEF LinkInv, CP!StreamInv, CP!WholePackets, CP!Zeroed, CP!Messages, CP!Bytes
  <2>2. SBUFLEN \in Nat
    BY LinkAssumption
  <2>3. Len(c_buffer) = SBUFLEN /\ \A i \in Field : c_buffer[i] = << p, i >>
    BY <2>1, <2>2 DEF Field
  <2>4. \A i \in Field : c_buffer[i][1] = p
    BY <2>3
  <2>5. \A v \in Stored : v = p
    BY <2>3, <2>4 DEF Stored, Values, Field
  <2>6. QED
    BY <1>0, <1>1, <2>3, <2>4, <2>5 DEF Older
<1>4. QED
  BY <1>2, <1>3

-----------------------------------------------------------------------------
(* The stations, a step at a time. *)

\* A step that forgets edits on their way, or moves none.
LEMMA ForgetFlow ==
  ASSUME RangeInv, OrderInv,
         UNCHANGED << newest, edits >>, display' \in [Field -> Nat],
         c_buffer' \in {c_buffer, << >>}, c_tmpbuf' \in {c_tmpbuf, << >>},
         \A c \in Conn : down'[c] \in {down[c], << >>},
         s_temp' \in {s_temp, 0}, s_buf' \in {s_buf, 0}, edits \in Nat
  PROVE  RangeInv' /\ OrderInv'
<1>1. /\ Shown' = Shown /\ Stored' \subseteq Stored /\ Collected' \subseteq Collected
      /\ \A c \in Conn : Arrived(c)' \subseteq Arrived(c) /\ (InOrder(down[c]) => InOrder(down'[c]))
  BY DEF Shown, Stored, Collected, Arrived, Values, InOrder
<1>2. \A A : Older(A, {s_temp}) => Older(A, {s_temp'})
  BY DEF Older, NotBefore
<1>3. RangeInv'
  BY <1>1 DEF RangeInv
<1>4. OrderInv'
  BY <1>1, <1>2 DEF OrderInv, Older, InOrder
<1>5. QED
  BY <1>3, <1>4

\* An edit, and the worker's copy of the panel's buffer, are the newest there is.
LEMMA EditFlow ==
  ASSUME RangeInv, OrderInv, edits \in Nat, edits' = edits + 1, s_buf' = edits',
         UNCHANGED << newest, display, c_buffer, c_tmpbuf, down, s_temp >>
  PROVE  RangeInv' /\ OrderInv'
<1>1. /\ Shown' = Shown /\ Stored' = Stored /\ Collected' = Collected
      /\ \A c \in Conn : Arrived(c)' = Arrived(c)
  BY DEF Shown, Stored, Collected, Arrived
<1>2. \A v \in 0 .. edits : v \in 0 .. edits'
  BY DEF RangeInv
<1>3. RangeInv'
  BY <1>1, <1>2 DEF RangeInv
<1>4. OrderInv'
  BY <1>1 DEF OrderInv, Older, InOrder
<1>5. QED
  BY <1>3, <1>4

LEMMA SnapshotFlow ==
  ASSUME RangeInv, OrderInv, edits \in Nat, s_temp' = s_buf,
         UNCHANGED << newest, display, c_buffer, c_tmpbuf, down, s_buf, edits >>
  PROVE  RangeInv' /\ OrderInv'
<1>1. /\ Shown' = Shown /\ Stored' = Stored /\ Collected' = Collected
      /\ \A c \in Conn : Arrived(c)' = Arrived(c)
  BY DEF Shown, Stored, Collected, Arrived
<1>2. RangeInv'
  BY <1>1 DEF RangeInv
<1>3. \A A \in SUBSET (0 .. edits) : Older(A, {s_temp'})
  BY DEF RangeInv, Older, NotBefore
<1>4. Shown \subseteq 0 .. edits
  BY DEF RangeInv, Shown
<1>5. OrderInv'
  BY <1>1, <1>3, <1>4 DEF OrderInv, RangeInv, Older, InOrder
<1>6. QED
  BY <1>2, <1>5

\* Bytes of the copy join what is on its way on d.
LEMMA SendFlow ==
  ASSUME LinkInv, RangeInv, OrderInv, NEW d \in Conn, NEW b \in Seq(CP!Byte),
         Values(b) \subseteq {s_temp}, down' = [down EXCEPT ![d] = @ \o b],
         s_temp' \in {s_temp, 0}, s_buf' \in {s_buf, 0},
         UNCHANGED << newest, display, c_buffer, c_tmpbuf, edits >>
  PROVE  RangeInv' /\ OrderInv'
<1>0. /\ edits \in Nat /\ down[d] \in Seq(CP!Byte)
      /\ down'[d] = down[d] \o b /\ \A c \in Conn : c # d => down'[c] = down[c]
  BY FlowTypes
<1>1. /\ Shown' = Shown /\ Stored' = Stored /\ Collected' = Collected
      /\ \A c \in Conn : c # d => Arrived(c)' = Arrived(c)
  BY <1>0 DEF Shown, Stored, Collected, Arrived
<1>2. Arrived(d)' \subseteq Arrived(d) \cup {s_temp}
  BY <1>0, ValuesAppend DEF Arrived
<1>3. \A c \in Conn : Arrived(c)' \subseteq Arrived(c) \cup {s_temp}
  BY <1>1, <1>2
<1>4. InOrder(down'[d])
  <2>1. NotBefore(s_temp, s_temp)
    BY <1>0 DEF RangeInv, NotBefore
  <2>2. InOrder(b)
    <3>1. \A i \in 1 .. Len(b) : b[i][1] \in Values(b)
      BY DEF Values
    <3>2. \A i \in 1 .. Len(b) : b[i][1] = s_temp
      BY <3>1
    <3>3. QED
      BY <2>1, <3>2 DEF InOrder
  <2>3. Older(Values(down[d]), Values(b))
    BY DEF OrderInv, Arrived, Older
  <2>4. QED
    BY <1>0, <2>2, <2>3, ValuesAppend DEF OrderInv
<1>5. RangeInv'
  BY <1>0, <1>1, <1>3 DEF RangeInv
<1>6. \A A : Older(A, {s_temp}) => Older(A, {s_temp'})
  BY DEF Older, NotBefore
<1>7. \A c \in Conn : Older(Arrived(c)', {s_temp'})
  <2>1. NotBefore(s_temp, s_temp)
    BY <1>0 DEF RangeInv, NotBefore
  <2>2. \A c \in Conn : Older(Arrived(c)', {s_temp})
    BY <1>3, <2>1 DEF OrderInv, Older
  <2>3. QED
    BY <1>6, <2>2
<1>8. \A c \in Conn : /\ Older(Shown, Arrived(c)') /\ Older(Stored, Arrived(c)')
                      /\ Older(Collected, Arrived(c)')
  BY <1>3 DEF OrderInv, Older
<1>9. \A c \in Conn : InOrder(down'[c])
  BY <1>0, <1>4 DEF OrderInv
<1>10. OrderInv'
  <2>1. /\ Older(Shown, Stored)' /\ Older(Shown, Collected)' /\ Older(Shown, {s_temp})'
        /\ Older(Stored, Collected)' /\ Older(Stored, {s_temp})' /\ Older(Collected, {s_temp})'
    BY <1>1, <1>6 DEF OrderInv, Older
  <2>2. \A c \in Conn :
          /\ Older(Shown, Arrived(c))' /\ Older(Stored, Arrived(c))' /\ Older(Collected, Arrived(c))'
          /\ Older(Arrived(c), {s_temp})'
    BY <1>1, <1>7, <1>8 DEF Older
  <2>3. \A c \in Conn : InOrder(down[c])'
    BY <1>9 DEF InOrder
  <2>4. QED
    BY <2>1, <2>2, <2>3 DEF OrderInv
<1>11. QED
  BY <1>5, <1>10

\* read() moves the first bytes on c_sockfd.
LEMMA ReadFlow ==
  ASSUME LinkInv, RangeInv, OrderInv, NEW k \in 1 .. SBUFLEN, C!ReadBytes(k),
         UNCHANGED << newest, display, edits, s_temp, s_buf >>
  PROVE  RangeInv' /\ OrderInv'
<1>0. PICK d \in Conn : d = c_sockfd
  BY DEF C!ReadBytes, C!Goto, LinkInv, CP!IInv, CP!SocketInv, CP!Connected
<1>. DEFINE s == down[d]
<1>1. edits \in Nat /\ s \in Seq(CP!Byte) /\ c_tmpbuf \in Seq(CP!Byte)
  BY FlowTypes
<1>2. /\ k \in Nat /\ k <= Len(s)
      /\ c_tmpbuf' = c_tmpbuf \o SubSeq(s, 1, k)
      /\ down' = [down EXCEPT ![d] = SubSeq(s, k + 1, Len(s))]
      /\ c_buffer' = c_buffer
  BY <1>0, LinkAssumption DEF C!ReadBytes, C!Take
<1>3. /\ down'[d] = SubSeq(s, k + 1, Len(s))
      /\ \A c \in Conn : c # d => down'[c] = down[c]
  BY <1>1, <1>2, FlowTypes
<1>4. /\ Values(SubSeq(s, 1, k)) \subseteq Values(s)
      /\ Values(SubSeq(s, k + 1, Len(s))) \subseteq Values(s)
      /\ InOrder(SubSeq(s, k + 1, Len(s)))
      /\ Older(Values(SubSeq(s, 1, k)), Values(SubSeq(s, k + 1, Len(s))))
  <2>1. InOrder(s)
    BY <1>1 DEF OrderInv
  <2>. HIDE DEF s
  <2>2. QED
    BY <1>1, <1>2, <2>1, ValuesSplit
<1>5. Collected' \subseteq Collected \cup Values(SubSeq(s, 1, k))
  <2>1. SubSeq(s, 1, k) \in Seq(CP!Byte)
    BY <1>1, <1>2
  <2>. HIDE DEF s
  <2>2. QED
    BY <1>1, <1>2, <2>1, ValuesAppend DEF Collected
<1>6. /\ Shown' = Shown /\ Stored' = Stored
      /\ Arrived(d)' = Values(SubSeq(s, k + 1, Len(s)))
      /\ \A c \in Conn : c # d => Arrived(c)' = Arrived(c)
  BY <1>2, <1>3 DEF Shown, Stored, Arrived, C!ReadBytes
<1>7. Collected' \subseteq Collected \cup Arrived(d) /\ \A c \in Conn : Arrived(c)' \subseteq Arrived(c)
  <2>1. Values(s) = Arrived(d)
    BY DEF Arrived
  <2>. HIDE DEF s
  <2>2. Collected' \subseteq Collected \cup Arrived(d)
    BY <1>4, <1>5, <2>1
  <2>3. Arrived(d)' \subseteq Arrived(d)
    BY <1>4, <1>6, <2>1
  <2>4. QED
    BY <1>6, <2>2, <2>3
<1>8. RangeInv'
  BY <1>1, <1>6, <1>7 DEF RangeInv
<1>9. /\ Older(Shown, Collected') /\ Older(Stored, Collected') /\ Older(Collected', {s_temp})
  BY <1>1, <1>7 DEF OrderInv, Older
<1>10. \A c \in Conn : /\ Older(Shown, Arrived(c)') /\ Older(Stored, Arrived(c)')
                       /\ Older(Arrived(c)', {s_temp})
  BY <1>7 DEF OrderInv, Older
<1>11. Older(Collected', Arrived(d)')
  <2>1. Older(Collected, Arrived(d)')
    BY <1>1, <1>7 DEF OrderInv, Older
  <2>2. Older(Values(SubSeq(s, 1, k)), Arrived(d)')
    BY <1>4, <1>6
  <2>. HIDE DEF s
  <2>3. QED
    BY <1>5, <2>1, <2>2 DEF Older
<1>12. ASSUME NEW c \in Conn, c # d PROVE Older(Collected', Arrived(c)')
  <2>1. cli[c] = "none"
    BY <1>0, <1>1, <1>12 DEF LinkInv, CP!IInv, CP!SocketInv
  <2>2. down[c] = << >>
    BY <2>1 DEF LinkInv, CP!StreamInv, CP!ConnStream
  <2>3. Arrived(c)' = {}
    BY <1>3, <1>12, <2>2 DEF Arrived, Values
  <2>4. QED
    BY <2>3 DEF Older
<1>13. \A c \in Conn : InOrder(down'[c])
  BY <1>3, <1>4 DEF OrderInv
<1>14. OrderInv'
  <2>1. /\ Older(Shown, Stored)' /\ Older(Shown, Collected)' /\ Older(Shown, {s_temp})'
        /\ Older(Stored, Collected)' /\ Older(Stored, {s_temp})' /\ Older(Collected, {s_temp})'
    BY <1>6, <1>9 DEF OrderInv, Older
  <2>. HIDE DEF s
  <2>2. \A c \in Conn :
          /\ Older(Shown, Arrived(c))' /\ Older(Stored, Arrived(c))' /\ Older(Collected, Arrived(c))'
          /\ Older(Arrived(c), {s_temp})'
    <3>1. \A c \in Conn : Older(Collected', Arrived(c)')
      BY <1>11, <1>12
    <3>2. \A c \in Conn : Older(Collected, Arrived(c))'
      BY <3>1 DEF Older
    <3>3. \A c \in Conn : /\ Older(Shown, Arrived(c))' /\ Older(Stored, Arrived(c))'
                          /\ Older(Arrived(c), {s_temp})'
      BY <1>6, <1>10 DEF Older
    <3>4. QED
      BY <3>2, <3>3
  <2>3. \A c \in Conn : InOrder(down[c])'
    BY <1>13 DEF InOrder
  <2>4. QED
    BY <2>1, <2>2, <2>3 DEF OrderInv
<1>15. QED
  BY <1>8, <1>14

\* What was collected becomes what the window reads.
LEMMA StoreFlow ==
  ASSUME LinkInv, RangeInv, OrderInv, c_buffer' = c_tmpbuf,
         UNCHANGED << newest, display, c_tmpbuf, down, s_temp, s_buf, edits >>
  PROVE  RangeInv' /\ OrderInv'
<1>1. /\ Shown' = Shown /\ Stored' = Collected /\ Collected' = Collected
      /\ \A c \in Conn : Arrived(c)' = Arrived(c)
  BY DEF Shown, Stored, Collected, Arrived
<1>2. Older(Collected, Collected)
  BY OnePacket
<1>3. RangeInv'
  BY <1>1 DEF RangeInv
<1>4. OrderInv'
  BY <1>1, <1>2 DEF OrderInv, Older, InOrder
<1>5. QED
  BY <1>3, <1>4

\* A field shows what the window reads.
LEMMA ShowFlow ==
  ASSUME LinkInv, RangeInv, OrderInv, ShowField
  PROVE  /\ RangeInv' /\ OrderInv'
         /\ Speedometer!Next
<1>. DEFINE v == IF c_buffer = C!Zeroed THEN 0 ELSE c_buffer[tick][1]
<1>1. /\ tick \in Field /\ edits \in Nat
      /\ display' = [display EXCEPT ![tick] = v]
      /\ newest' = [newest EXCEPT ![tick] = IF v = 0 THEN @ ELSE v]
      /\ UNCHANGED << edits, c_buffer, c_tmpbuf, down, s_temp, s_buf >>
  BY FlowTypes DEF ShowField, net, sVars, cVars
<1>2. v = 0 \/ v \in Stored
  <2>1. CASE c_buffer = << >>
    BY <2>1 DEF C!Zeroed
  <2>2. CASE c_buffer # << >>
    <3>1. Len(c_buffer) = SBUFLEN
      BY <2>2, OnePacket
    <3>2. v = c_buffer[tick][1]
      BY <2>2 DEF C!Zeroed
    <3>3. QED
      BY <1>1, <3>1, <3>2 DEF Stored, Values, Field
  <2>3. QED
    BY <2>1, <2>2
<1>. HIDE DEF v
<1>3. /\ Stored' = Stored /\ Collected' = Collected
      /\ \A c \in Conn : Arrived(c)' = Arrived(c)
  BY <1>1 DEF Stored, Collected, Arrived
<1>4. v \in 0 .. edits /\ v \in Nat
  <2>1. \A x \in Stored \cup {0} : x \in 0 .. edits
    BY <1>1 DEF RangeInv
  <2>2. v \in Stored \cup {0}
    BY <1>2
  <2>3. QED
    BY <1>1, <2>1, <2>2
<1>5. newest' \in [Field -> 0 .. edits] /\ display' \in [Field -> Nat]
  BY <1>1, <1>4 DEF RangeInv
<1>6. Shown' \subseteq Shown \cup Stored
  BY <1>1, <1>2 DEF Shown, RangeInv
<1>7. RangeInv'
  BY <1>1, <1>3, <1>5 DEF RangeInv
<1>8. OrderInv'
  <2>1. Older(Stored, Stored)
    BY OnePacket
  <2>2. /\ Older(Shown', Stored) /\ Older(Shown', Collected) /\ Older(Shown', {s_temp})
        /\ \A c \in Conn : Older(Shown', Arrived(c))
    BY <1>6, <2>1 DEF OrderInv, Older
  <2>3. /\ Older(Shown, Stored)' /\ Older(Shown, Collected)' /\ Older(Shown, {s_temp})'
        /\ \A c \in Conn : Older(Shown, Arrived(c))'
    BY <1>1, <1>3, <2>2 DEF Older
  <2>4. /\ Older(Stored, Collected)' /\ Older(Stored, {s_temp})' /\ Older(Collected, {s_temp})'
        /\ \A c \in Conn :
             /\ Older(Stored, Arrived(c))' /\ Older(Collected, Arrived(c))'
             /\ Older(Arrived(c), {s_temp})' /\ InOrder(down[c])'
    BY <1>1, <1>3 DEF OrderInv, Older, InOrder
  <2>5. QED
    BY <2>3, <2>4 DEF OrderInv
<1>9. Speedometer!Next
  <2>1. CASE v = 0
    <3>1. newest' = newest
      BY <1>1, <2>1 DEF RangeInv
    <3>2. display' = [f \in Field |-> IF f \in {tick} THEN 0 ELSE display[f]]
      BY <1>1, <2>1 DEF RangeInv
    <3>3. Speedometer!Clear({tick})
      BY <1>1, <3>1, <3>2 DEF Speedometer!Clear, Speedometer!Blank
    <3>4. QED
      BY <1>1, <3>3 DEF Speedometer!Next
  <2>2. CASE v # 0
    <3>1. v \in Stored /\ newest[tick] \in Shown /\ newest[tick] \in 0 .. edits
      BY <1>1, <1>2, <2>2 DEF Shown, RangeInv
    <3>2. newest[tick] = 0 \/ newest[tick] <= v
      BY <2>2, <3>1 DEF OrderInv, Older, NotBefore
    <3>3. v \in newest[tick] .. edits
      BY <1>1, <1>4, <3>1, <3>2
    <3>4. newest' = [newest EXCEPT ![tick] = v]
      BY <1>1, <2>2
    <3>5. Speedometer!Show(tick)
      BY <1>1, <3>3, <3>4 DEF Speedometer!Show
    <3>6. QED
      BY <1>1, <3>5 DEF Speedometer!Next
  <2>3. QED
    BY <2>1, <2>2
<1>10. QED
  BY <1>7, <1>8, <1>9

\* What the server's worker sends is the copy it has made.
LEMMA SentBytes ==
  ASSUME LinkInv
  PROVE  /\ S!Bytes(s_temp) \in Seq(CP!Byte) /\ Len(S!Bytes(s_temp)) = SBUFLEN
         /\ Values(S!Bytes(s_temp)) \subseteq {s_temp}
         /\ \A k \in 1 .. SBUFLEN :
              /\ SubSeq(S!Bytes(s_temp), 1, k) \in Seq(CP!Byte)
              /\ Values(SubSeq(S!Bytes(s_temp), 1, k)) \subseteq {s_temp}
<1>1. s_temp \in Edits /\ SBUFLEN \in Nat
  BY LinkAssumption DEF LinkInv, SP!IInv, SP!TypeOK
<1>. DEFINE b == S!Bytes(s_temp)
<1>2. b = [i \in 1 .. SBUFLEN |-> << s_temp, i >>]
  BY DEF S!Bytes
<1>. HIDE DEF b
<1>3. b \in Seq(CP!Byte) /\ Len(b) = SBUFLEN /\ \A i \in 1 .. Len(b) : b[i][1] = s_temp
  BY <1>1, <1>2 DEF CP!Byte, CP!Place
<1>4. ASSUME NEW k \in 1 .. SBUFLEN
      PROVE  /\ SubSeq(b, 1, k) \in Seq(CP!Byte)
             /\ Values(SubSeq(b, 1, k)) \subseteq {s_temp}
  <2>1. /\ SubSeq(b, 1, k) \in Seq(CP!Byte)
        /\ Len(SubSeq(b, 1, k)) = k
        /\ \A i \in 1 .. k : i \in 1 .. Len(b) /\ SubSeq(b, 1, k)[i] = b[i]
    BY <1>1, <1>3
  <2>2. QED
    BY <1>3, <2>1 DEF Values
<1>5. Values(b) \subseteq {s_temp}
  BY <1>3 DEF Values
<1>6. QED
  BY <1>3, <1>4, <1>5 DEF b

LEMMA ServerFlow ==
  ASSUME LinkInv, RangeInv, OrderInv, UNCHANGED << cVars, windowVars, edits >>,
         \/ S!Construct \/ S!ConstructFails \/ S!Destructor \/ S!Worker \/ S!Quit \/ S!Restart
  PROVE  RangeInv' /\ OrderInv'
<1>0. /\ edits \in Nat /\ display' \in [Field -> Nat]
      /\ UNCHANGED << newest, display, c_buffer, c_tmpbuf, edits >>
  BY FlowTypes DEF RangeInv, cVars, windowVars
<1>1. CASE UNCHANGED << down, s_temp, s_buf >>
  BY <1>0, <1>1, ForgetFlow
<1>2. CASE S!Construct \/ S!ConstructFails \/ S!Destructor \/ S!Quit
  <2>. USE DEF S!MainGoto, S!MainPass, S!net
  <2>1. CASE S!Construct \/ S!ConstructFails \/ S!Quit \/ S!StopRunning \/ S!Wait
    BY <1>1, <2>1 DEF S!Construct, S!ConstructFails, S!Quit, S!StopRunning, S!Wait, S!Bind
  <2>2. CASE S!ShutdownListener \/ S!CloseSocket
    BY <1>1, <2>2 DEF S!ShutdownListener, S!CloseSocket, S!ShutListener, S!CloseListener,
                      S!StopListening
  <2>3. QED
    BY <1>2, <2>1, <2>2 DEF S!Destructor
<1>3. CASE S!Worker
  <2>. USE DEF S!Goto, S!Pass, S!net
  <2>1. CASE S!Snapshot
    BY <1>0, <2>1, SnapshotFlow DEF S!Snapshot
  <2>2. CASE S!SendSucceeds
    <3>1. CASE S!SendLost(s_connfd)
      BY <1>1, <2>2, <3>1 DEF S!SendSucceeds, S!SendLost
    <3>2. CASE S!Send(s_connfd, S!Bytes(s_temp))
      <4>1. s_connfd \in Conn
        BY <2>2 DEF S!SendSucceeds, LinkInv, SP!IInv, SP!WorkerInv, SP!Serving
      <4>2. /\ down' = [down EXCEPT ![s_connfd] = @ \o S!Bytes(s_temp)]
            /\ s_temp' = s_temp /\ s_buf' = s_buf
        BY <2>2, <3>2 DEF S!SendSucceeds, S!Send
      <4>3. PICK d \in Conn : d = s_connfd
        BY <4>1
      <4>4. PICK b \in Seq(CP!Byte) : b = S!Bytes(s_temp) /\ Values(b) \subseteq {s_temp}
        BY SentBytes
      <4>5. down' = [down EXCEPT ![d] = @ \o b]
        BY <4>2, <4>3, <4>4
      <4>6. QED
        BY <1>0, <4>2, <4>4, <4>5, SendFlow
    <3>3. QED
      BY <2>2, <3>1, <3>2 DEF S!SendSucceeds
  <2>3. CASE S!ListenSucceeds \/ S!ListenFails \/ S!SetRunning \/ S!CallAccept \/ S!CallAcceptFails
    BY <1>1, <2>3 DEF S!ListenSucceeds, S!ListenFails, S!SetRunning, S!CallAccept,
                      S!CallAcceptFails, S!Listen, S!StopListening
  <2>4. CASE \/ S!Accepted \/ S!AcceptWoken \/ S!AcceptFails \/ S!RetryAccept \/ S!CheckRunning
             \/ S!ConnectionLost \/ S!CloseConnection
    BY <1>1, <2>4 DEF S!Accepted, S!AcceptWoken, S!AcceptFails, S!RetryAccept, S!CheckRunning,
                      S!ConnectionLost, S!CloseConnection, S!Accept, S!CloseServer
  <2>5. QED
    BY <1>3, <2>1, <2>2, <2>3, <2>4 DEF S!Worker, S!WorkerProgress
<1>4. CASE S!Restart
  <2>1. s_temp' = 0 /\ s_buf' = 0
    BY <1>4 DEF S!Restart
  <2>2. CASE UNCHANGED down
    BY <1>0, <2>1, <2>2, ForgetFlow
  <2>3. CASE s_worker = "send" /\ \E k \in 1 .. Len(S!Bytes(s_temp)) :
                                    S!SentPart(s_connfd, S!Bytes(s_temp), k)
    <3>1. s_connfd \in Conn
      BY <2>3 DEF LinkInv, SP!IInv, SP!WorkerInv, SP!Serving
    <3>2. PICK k \in 1 .. SBUFLEN :
            down' = [down EXCEPT ![s_connfd] = @ \o SubSeq(S!Bytes(s_temp), 1, k)]
      BY <2>3, SentBytes DEF S!SentPart
    <3>3. PICK d \in Conn : d = s_connfd
      BY <3>1
    <3>4. PICK b \in Seq(CP!Byte) :
            b = SubSeq(S!Bytes(s_temp), 1, k) /\ Values(b) \subseteq {s_temp}
      BY SentBytes
    <3>5. down' = [down EXCEPT ![d] = @ \o b]
      BY <3>2, <3>3, <3>4
    <3>6. QED
      BY <1>0, <2>1, <3>4, <3>5, SendFlow
  <2>4. QED
    BY <1>4, <2>2, <2>3 DEF S!Restart, S!ServerDies
<1>5. QED
  BY <1>2, <1>3, <1>4

LEMMA ClientFlow ==
  ASSUME LinkInv, RangeInv, OrderInv,
         UNCHANGED << sVars, newest, edits >>, display' \in [Field -> Nat],
         \/ (C!Reader \/ C!ClearBuffer \/ C!Quit \/ C!Destructor) /\ UNCHANGED display
         \/ C!Restart
  PROVE  RangeInv' /\ OrderInv'
<1>0. edits \in Nat /\ UNCHANGED << newest, edits, s_temp, s_buf >>
  BY FlowTypes DEF sVars
<1>1. CASE /\ c_buffer' \in {c_buffer, << >>} /\ c_tmpbuf' \in {c_tmpbuf, << >>}
           /\ \A c \in Conn : down'[c] \in {down[c], << >>}
  BY <1>0, <1>1, ForgetFlow
<1>2. /\ UNCHANGED down => \A c \in Conn : down'[c] \in {down[c], << >>}
      /\ \A c \in Conn : C!CloseClient(c) => \A e \in Conn : down'[e] \in {down[e], << >>}
  <2>1. \A c \in Conn : C!CloseClient(c) => down' = [down EXCEPT ![c] = << >>]
    BY DEF C!CloseClient
  <2>2. \A c, e \in Conn : C!CloseClient(c) => down'[e] \in {down[e], << >>}
    BY <2>1, FlowTypes
  <2>3. QED
    BY <2>2
<1>3. CASE C!Reader /\ UNCHANGED display
  <2>. USE DEF C!Goto, C!Pass, C!net
  <2>1. CASE \E k \in 1 .. SBUFLEN : C!ReadBytes(k)
    BY <1>0, <1>3, <2>1, ReadFlow
  <2>2. CASE C!Store
    BY <1>0, <1>3, <2>2, StoreFlow DEF C!Store
  <2>3. CASE C!CloseSocket
    <3>1. c_sockfd \in Conn
      BY <2>3 DEF C!CloseSocket, LinkInv, CP!IInv, CP!SocketInv, CP!Holding
    <3>2. QED
      BY <1>1, <1>2, <2>3, <3>1 DEF C!CloseSocket
  <2>4. CASE \/ C!Top \/ C!Socket \/ C!SocketFails \/ C!ConnectSucceeds \/ C!ConnectRefused
             \/ C!SetStatus \/ C!ReadCheck
    BY <1>1, <1>2, <2>4 DEF C!Top, C!Socket, C!SocketFails, C!ConnectSucceeds, C!ConnectRefused,
                            C!SetStatus, C!ReadCheck, C!OpenClient, C!Connect
  <2>5. CASE \/ C!ReadInterrupted \/ C!ReadEnds \/ C!ClearStatus \/ C!ShutdownSocket
             \/ C!ForgetSocket
    BY <1>1, <1>2, <2>5 DEF C!ReadInterrupted, C!ReadEnds, C!ClearStatus, C!ShutdownSocket,
                            C!ForgetSocket, C!ShutClient
  <2>6. QED
    BY <1>3, <2>1, <2>2, <2>3, <2>4, <2>5 DEF C!Reader, C!ReaderProgress
<1>4. CASE C!ClearBuffer \/ C!Quit \/ C!Destructor
  <2>. USE DEF C!DtorGoto, C!DtorPass, C!net
  <2>1. CASE C!CloseLast
    <3>1. c_sockfd \in Conn \/ c_sockfd = C!NoFd
      BY DEF LinkInv, CP!IInv, CP!TypeOK, CP!NoFd, C!NoFd
    <3>2. QED
      BY <1>1, <1>2, <2>1, <3>1 DEF C!CloseLast
  <2>2. CASE C!ClearBuffer \/ C!Quit \/ C!SetStop \/ C!CheckStatus
    BY <1>1, <1>2, <2>2 DEF C!ClearBuffer, C!Quit, C!SetStop, C!CheckStatus, C!Zeroed
  <2>3. CASE C!LoadFd \/ C!WakeReader \/ C!Join
    BY <1>1, <1>2, <2>3 DEF C!LoadFd, C!WakeReader, C!Join, C!ShutClient
  <2>4. QED
    BY <1>4, <2>1, <2>2, <2>3 DEF C!Destructor
<1>5. CASE C!Restart
  BY <1>1, <1>5 DEF C!Restart, C!ClientDies, C!Zeroed
<1>6. QED
  BY <1>3, <1>4, <1>5

-----------------------------------------------------------------------------
(* The refinement. *)

LEMMA InitFlow == Init => RangeInv /\ OrderInv /\ Speedometer!Init
<1>. SUFFICES ASSUME Init PROVE RangeInv /\ OrderInv /\ Speedometer!Init
  OBVIOUS
<1>1. /\ c_buffer = << >> /\ c_tmpbuf = << >> /\ \A c \in Conn : down[c] = << >>
      /\ s_temp = 0 /\ s_buf = 0 /\ edits = 0
      /\ newest = [f \in Field |-> 0] /\ display = [f \in Field |-> 0]
  BY DEF Init, Blank, S!Init, S!ServerInit, S!Started, S!SocketsInit, C!ClientInit, C!Started,
         C!Zeroed
<1>2. Stored = {} /\ Collected = {} /\ \A c \in Conn : Arrived(c) = {} /\ InOrder(down[c])
  BY <1>1 DEF Stored, Collected, Arrived, Values, InOrder
<1>3. \A v \in Shown : v = 0
  BY <1>1 DEF Shown
<1>4. RangeInv
  BY <1>1, <1>2 DEF RangeInv
<1>5. OrderInv
  BY <1>1, <1>2, <1>3 DEF OrderInv, Older, NotBefore
<1>6. Speedometer!Init
  BY <1>1 DEF Speedometer!Init, Speedometer!Blank
<1>7. QED
  BY <1>4, <1>5, <1>6

\* A step of the two programs edits the panel, shows a field, blanks some or
\* shows nothing of itself, and leaves the order of the edits as it was.
LEMMA NextFlow ==
  ASSUME FlowInv, [Next]_vars
  PROVE  FlowInv' /\ [Speedometer!Next]_(Speedometer!vars)
<1>0. /\ LinkInv /\ LinkInv' /\ RangeInv /\ OrderInv /\ edits \in Nat
      /\ display \in [Field -> Nat]
  BY NextSteps, FlowTypes DEF FlowInv, RangeInv
<1>. SUFFICES RangeInv' /\ OrderInv' /\ [Speedometer!Next]_(Speedometer!vars)
  BY <1>0 DEF FlowInv
<1>. USE DEF Speedometer!vars
<1>1. CASE Edit
  <2>1. /\ edits' = edits + 1 /\ s_buf' = edits'
        /\ UNCHANGED << newest, display, c_buffer, c_tmpbuf, down, s_temp >>
    BY <1>1 DEF Edit, S!SetBuffer, S!MainGoto, S!net, cVars, windowVars
  <2>2. Speedometer!Next
    BY <2>1 DEF Speedometer!Next, Speedometer!Edit
  <2>3. QED
    BY <1>0, <2>1, <2>2, EditFlow
<1>2. CASE ServerStep \/ ServerQuits \/ ServerRestarts
  <2>1. /\ S!Construct \/ S!ConstructFails \/ S!Destructor \/ S!Worker \/ S!Quit \/ S!Restart
        /\ UNCHANGED << cVars, windowVars, edits >>
    BY <1>2 DEF ServerStep, ServerQuits, ServerRestarts
  <2>2. UNCHANGED << edits, display, newest >>
    BY <2>1 DEF windowVars
  <2>3. QED
    BY <1>0, <2>1, <2>2, ServerFlow
<1>3. CASE ShowField
  BY <1>0, <1>3, ShowFlow
<1>4. Blank \in [Field -> Nat] /\ (display' = Blank /\ UNCHANGED << edits, newest >> => Speedometer!Next)
  <2>1. Blank \in [Field -> Nat]
    BY DEF Blank
  <2>2. ASSUME display' = Blank, UNCHANGED << edits, newest >>
        PROVE  Speedometer!Clear(Field)
    BY <2>2 DEF Blank, Speedometer!Clear, Speedometer!Blank
  <2>3. QED
    BY <2>1, <2>2 DEF Speedometer!Next
<1>5. CASE Poll
  <2>1. /\ UNCHANGED << newest, edits, c_buffer, c_tmpbuf, down, s_temp, s_buf >>
        /\ display' = display \/ display' = Blank
    BY <1>5 DEF Poll, net, sVars, cVars
  <2>2. display' \in [Field -> Nat]
    BY <1>0, <1>4, <2>1
  <2>3. RangeInv' /\ OrderInv'
    BY <1>0, <2>1, <2>2, ForgetFlow
  <2>4. QED
    BY <1>4, <2>1, <2>3
<1>6. CASE ClearBuffer \/ ClientQuits \/ ClientStep
  <2>1. /\ C!Reader \/ C!ClearBuffer \/ C!Quit \/ C!Destructor
        /\ UNCHANGED << sVars, newest, display, edits >>
    BY <1>6 DEF ClearBuffer, ClientQuits, ClientStep, windowVars
  <2>2. QED
    BY <1>0, <2>1, ClientFlow
<1>7. CASE ClientRestarts
  <2>1. C!Restart /\ display' = Blank /\ UNCHANGED << sVars, newest, edits >>
    BY <1>7 DEF ClientRestarts
  <2>2. QED
    BY <1>0, <1>4, <2>1, ClientFlow
<1>8. CASE UNCHANGED vars
  <2>1. UNCHANGED << newest, display, edits, c_buffer, c_tmpbuf, down, s_temp, s_buf >>
    BY <1>8 DEF vars, net, sVars, cVars, windowVars
  <2>2. QED
    BY <1>0, <2>1, ForgetFlow
<1>9. QED
  BY <1>1, <1>2, <1>3, <1>5, <1>6, <1>7, <1>8 DEF Next, Window

\* What the client's window shows is blank or an edit of the server's panel,
\* and never goes back to an older one: edits stay in order on their way from
\* the panel, over any number of connections and restarts of either program.
THEOREM LinkImplementsSpeedometer == Spec => ImplementsSpeedometer
<1>1. Init => FlowInv /\ Speedometer!Init
  BY InitLinkInv, InitFlow DEF FlowInv
<1>2. FlowInv /\ [Next]_vars => FlowInv' /\ [Speedometer!Next]_(Speedometer!vars)
  BY NextFlow
<1>3. QED
  BY <1>1, <1>2, PTL DEF Spec, ImplementsSpeedometer, Speedometer!Spec

=============================================================================
