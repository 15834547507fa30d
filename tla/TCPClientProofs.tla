--------------------------- MODULE TCPClientProofs ---------------------------
(***************************************************************************)
(* TCPClient proved for any number of connections, packets and bytes per   *)
(* packet: types, no leaked descriptor, that the destructor never waits    *)
(* for a worker that is stranded in read(), and that m_buffer only ever    *)
(* holds whole packets.                                                    *)
(*                                                                         *)
(* The inductive invariant says, for each place of the worker, whether     *)
(* m_status is set and what m_sockfd refers to, and, for each place of the *)
(* destructor, what it has already made sure of.  The heart is HandShake:  *)
(* the worker enters read() only after it has seen m_stop clear, which is  *)
(* after it set m_status, so a destructor that has set m_stop and then     *)
(* finds m_status clear cannot find the worker in read() later on, and one *)
(* that finds it set shuts down the very socket the worker reads from.     *)
(*                                                                         *)
(* Whole packets need to know what is on its way as well (StreamInv): the  *)
(* first byte on a connection is the one after the last the worker took,   *)
(* the bytes follow each other up to the end of a packet, and as long as   *)
(* both ends are there the last one ends a packet.                         *)
(***************************************************************************)
EXTENDS TCPClient, TLAPS

\* The lemmas about the calls on the sockets speak of none of the service's variables:
\* any values will do for those.
Sk == INSTANCE TCPServerProofs WITH
        Packet <- {0}, ZeroPacket <- 0,
        main <- 0, worker <- 0, m_sockfd <- 0, m_is_running <- 0, fatal <- 0,
        m_buf <- 0, temp_buf <- 0, connfd <- 0

LEMMA SocketsAssumptions == Sk!SocketsAssumption /\ Sk!ServerAssumption
  BY SocketsAssumption, ClientAssumption DEF Sk!SocketsAssumption, Sk!ServerAssumption

LEMMA SameSockets ==
  /\ SocketsInit <=> Sk!SocketsInit
  /\ SocketsTypeOK <=> Sk!SocketsTypeOK
  /\ SocketsTypeOK' <=> Sk!SocketsTypeOK'
  /\ QueueInv <=> Sk!QueueInv
  /\ QueueInv' <=> Sk!QueueInv'
  BY DEF SocketsInit, Sk!SocketsInit, SocketsTypeOK, Sk!SocketsTypeOK, QueueInv, Sk!QueueInv

LEMMA SameClientCalls ==
  /\ \A c : /\ OpenClient(c) <=> Sk!OpenClient(c)
            /\ Connect(c) <=> Sk!Connect(c)
            /\ ShutClient(c) <=> Sk!ShutClient(c)
            /\ CloseClient(c) <=> Sk!CloseClient(c)
            /\ \A k : Take(c, k) <=> Sk!Take(c, k)
            /\ ClientCall(c) <=> Sk!ClientCall(c)
  /\ ClientDies <=> Sk!ClientDies
  BY DEF OpenClient, Sk!OpenClient, Unused, Sk!Unused, Connect, Sk!Connect, QueueFull, Sk!QueueFull,
         ShutClient, Sk!ShutClient, CloseClient, Sk!CloseClient, Take, Sk!Take,
         ClientCall, Sk!ClientCall, ClientDies, Sk!ClientDies

LEMMA SameServerCalls ==
  /\ Bind <=> Sk!Bind
  /\ Listen <=> Sk!Listen
  /\ Accept <=> Sk!Accept
  /\ \A state : StopListening(state) <=> Sk!StopListening(state)
  /\ \A c : /\ \A bytes : Send(c, bytes) <=> Sk!Send(c, bytes)
            /\ SendLost(c) <=> Sk!SendLost(c)
            /\ CloseServer(c) <=> Sk!CloseServer(c)
  /\ \A sending, messages : ServerDies(sending, messages) <=> Sk!ServerDies(sending, messages)
  /\ \A messages : ServerCall(messages) <=> Sk!ServerCall(messages)
  BY DEF Bind, Sk!Bind, Listen, Sk!Listen, Accept, Sk!Accept, StopListening, Sk!StopListening,
         Send, Sk!Send, SendLost, Sk!SendLost, CloseServer, Sk!CloseServer,
         SentPart, Sk!SentPart, ServerDies, Sk!ServerDies, ServerCall, Sk!ServerCall

LEMMA SocketsInitType == SocketsInit => SocketsTypeOK
  BY SocketsAssumptions, SameSockets, Sk!SocketsInitType

LEMMA ClientCallType ==
  ASSUME SocketsTypeOK, NEW c \in Conn,
         \/ OpenClient(c)
         \/ ShutClient(c)
         \/ CloseClient(c)
         \/ ClientDies
         \/ \E k \in Nat : Take(c, k)
  PROVE  SocketsTypeOK'
  BY SocketsAssumptions, SameSockets, SameClientCalls, Sk!ClientCallType

LEMMA ConnectType ==
  ASSUME SocketsTypeOK, NEW c \in Conn, Connect(c)
  PROVE  SocketsTypeOK'
  BY SocketsAssumptions, SameSockets, SameClientCalls, Sk!ConnectType

LEMMA ServerCallType ==
  ASSUME SocketsTypeOK, NEW messages, ServerCall(messages)
  PROVE  SocketsTypeOK' /\ cli' = cli
  BY SocketsAssumptions, SameSockets, SameServerCalls, Sk!ServerCallType

LEMMA SocketsInitQueue == SocketsInit => QueueInv
  BY SocketsAssumptions, SameSockets, Sk!SocketsInitQueue

LEMMA AcceptQueue ==
  ASSUME SocketsTypeOK, QueueInv, Accept
  PROVE  /\ QueueInv'
         /\ Head(queue) \in Conn /\ srv[Head(queue)] = "queued"
         /\ srv' = [srv EXCEPT ![Head(queue)] = "open"]
  BY SocketsAssumptions, SameSockets, SameServerCalls, Sk!AcceptQueue

LEMMA ConnectQueue ==
  ASSUME SocketsTypeOK, QueueInv, NEW c \in Conn, cli[c] = "fresh", Connect(c)
  PROVE  QueueInv'
  BY SocketsAssumptions, SameSockets, SameClientCalls, Sk!ConnectQueue

LEMMA StopListeningQueue ==
  ASSUME SocketsTypeOK, QueueInv, NEW state, StopListening(state)
  PROVE  QueueInv'
  BY SocketsAssumptions, SameSockets, SameServerCalls, Sk!StopListeningQueue

LEMMA ServerCallQueue ==
  ASSUME SocketsTypeOK, QueueInv,
         \/ listener = "none" /\ Bind
         \/ Listen
         \/ \E c \in Conn : /\ srv[c] = "open"
                            /\ (\E bytes : Send(c, bytes)) \/ SendLost(c) \/ CloseServer(c)
         \/ \E sending, messages : ServerDies(sending, messages)
  PROVE  QueueInv'
  BY SocketsAssumptions, SameSockets, SameServerCalls, Sk!ServerCallQueue

LEMMA ClientCallQueue ==
  ASSUME SocketsTypeOK, QueueInv, NEW c \in Conn, ClientCall(c)
  PROVE  SocketsTypeOK' /\ QueueInv'
  BY SocketsAssumptions, SameSockets, SameClientCalls, Sk!ClientCallQueue

-----------------------------------------------------------------------------
(* The service. *)

\* Where the worker is connected, as m_status tells the other threads.
Connected == {"readCheck", "read", "store", "drop"}

\* Where the worker has a socket without telling.
Holding == {"connect", "setStatus", "shut", "close", "forget"}

SocketInv ==
  /\ reader \in Connected => m_status /\ m_sockfd \in Conn /\ cli[m_sockfd] \in {"open", "shut"}
  /\ reader \in Holding => ~m_status /\ m_sockfd \in Conn
  /\ reader = "socket" => ~m_status /\ m_sockfd = NoFd
  /\ reader \in {"top", "done"} => (m_status <=> m_sockfd # NoFd)
  /\ reader = "setStatus" => cli[m_sockfd] \in {"open", "shut"}
  /\ reader = "forget" => cli[m_sockfd] = "none"
  /\ reader = "top" /\ m_status => cli[m_sockfd] \in {"open", "shut"}
  /\ \A c \in Conn : cli[c] # "none" => c = m_sockfd

HandShake ==
  /\ dtor \notin {"run", "stop"} => m_stop
  /\ dtor = "shutdown" /\ reader = "read" => fd = m_sockfd
  /\ dtor = "join" /\ reader = "read" => cli[m_sockfd] = "shut"
  /\ dtor \in {"close", "gone"} => reader = "done"
  /\ dtor = "gone" => \A c \in Conn : cli[c] = "none"

IInv == TypeOK /\ SocketInv /\ HandShake

LEMMA InitIInv == Init => IInv
<1>. SUFFICES ASSUME Init PROVE IInv
  OBVIOUS
<1>1. TypeOK
  BY SocketsInitType DEF Init, ClientInit, Started, TypeOK, DtorState, ReaderState
<1>2. SocketInv /\ HandShake
  BY NoFdAssumption DEF Init, ClientInit, Started, SocketsInit, SocketInv, HandShake, Connected, Holding
<1>3. QED
  BY <1>1, <1>2 DEF IInv

-----------------------------------------------------------------------------
(* The steps of the worker. *)

\* A step of the worker that touches neither the sockets nor m_sockfd.
LEMMA QuietReaderStep ==
  ASSUME IInv, Top \/ SetStatus \/ ReadCheck \/ ReadInterrupted \/ Store
                 \/ ClearStatus \/ ConnectRefused \/ ReadEnds
  PROVE  IInv'
<1>. USE DEF Goto, Pass, TopNext, net
<1>1. TypeOK'
  BY DEF IInv, TypeOK, SocketsTypeOK, ReaderState, Top, SetStatus, ReadCheck,
         ReadInterrupted, Store, ClearStatus, ConnectRefused, ReadEnds
<1>2. SocketInv'
  BY NoFdAssumption DEF IInv, TypeOK, SocketInv, Connected, Holding, Top, SetStatus, ReadCheck,
         ReadInterrupted, Store, ClearStatus, ConnectRefused, ReadEnds
<1>3. HandShake'
  BY DEF IInv, HandShake, Top, SetStatus, ReadCheck,
         ReadInterrupted, Store, ClearStatus, ConnectRefused, ReadEnds
<1>4. QED
  BY <1>1, <1>2, <1>3 DEF IInv

\* socket().
LEMMA SocketStep == ASSUME IInv, Socket \/ SocketFails PROVE IInv'
<1>. USE DEF Goto, Pass
<1>1. CASE SocketFails
  <2>1. TypeOK'
    BY <1>1 DEF SocketFails, IInv, TypeOK, SocketsTypeOK, ReaderState, net
  <2>2. SocketInv'
    BY <1>1, NoFdAssumption DEF SocketFails, IInv, SocketInv, Connected, Holding, net
  <2>3. HandShake'
    BY <1>1 DEF SocketFails, IInv, HandShake, net
  <2>4. QED
    BY <2>1, <2>2, <2>3 DEF IInv
<1>2. CASE Socket
  <2>1. PICK c \in Conn : OpenClient(c) /\ m_sockfd' = c
    BY <1>2 DEF Socket
  <2>2. SocketsTypeOK'
    BY <2>1, ClientCallType DEF IInv, TypeOK
  <2>3. TypeOK'
    BY <1>2, <2>1, <2>2 DEF Socket, IInv, TypeOK, ReaderState
  <2>4. SocketInv'
    BY <1>2, <2>1, NoFdAssumption
       DEF Socket, OpenClient, IInv, TypeOK, SocketsTypeOK, SocketInv, Connected, Holding
  <2>5. HandShake'
    BY <1>2 DEF Socket, IInv, HandShake
  <2>6. QED
    BY <2>3, <2>4, <2>5 DEF IInv
<1>3. QED
  BY <1>1, <1>2

\* The calls on the socket the worker holds.
LEMMA WorkerCallStep ==
  ASSUME IInv,
         \/ ConnectSucceeds \/ ShutdownSocket \/ CloseSocket
         \/ \E k \in 1 .. SBUFLEN : ReadBytes(k)
  PROVE  IInv'
<1>. USE DEF Goto, Pass
<1>1. m_sockfd \in Conn
  BY DEF IInv, SocketInv, Connected, Holding, ConnectSucceeds, ShutdownSocket,
         CloseSocket, ReadBytes
<1>2. CASE ConnectSucceeds
  <2>1. SocketsTypeOK'
    BY <1>1, <1>2, ConnectType DEF IInv, TypeOK, ConnectSucceeds
  <2>2. TypeOK'
    BY <1>2, <2>1 DEF ConnectSucceeds, IInv, TypeOK, ReaderState
  <2>3. SocketInv'
    BY <1>1, <1>2 DEF ConnectSucceeds, Connect, IInv, TypeOK, SocketsTypeOK,
                      SocketInv, Connected, Holding
  <2>4. HandShake'
    BY <1>2 DEF ConnectSucceeds, IInv, HandShake
  <2>5. QED
    BY <2>2, <2>3, <2>4 DEF IInv
<1>3. CASE ShutdownSocket
  <2>1. SocketsTypeOK'
    BY <1>1, <1>3, ClientCallType DEF IInv, TypeOK, ShutdownSocket
  <2>2. TypeOK'
    BY <1>3, <2>1 DEF ShutdownSocket, IInv, TypeOK, ReaderState
  <2>3. SocketInv'
    BY <1>1, <1>3 DEF ShutdownSocket, ShutClient, IInv, TypeOK, SocketsTypeOK,
                      SocketInv, Connected, Holding
  <2>4. HandShake'
    BY <1>3 DEF ShutdownSocket, IInv, HandShake
  <2>5. QED
    BY <2>2, <2>3, <2>4 DEF IInv
<1>4. CASE CloseSocket
  <2>1. SocketsTypeOK'
    BY <1>1, <1>4, ClientCallType DEF IInv, TypeOK, CloseSocket
  <2>2. TypeOK'
    BY <1>4, <2>1 DEF CloseSocket, IInv, TypeOK, ReaderState
  <2>3. SocketInv'
    BY <1>1, <1>4 DEF CloseSocket, CloseClient, IInv, TypeOK, SocketsTypeOK,
                      SocketInv, Connected, Holding
  <2>4. HandShake'
    BY <1>4 DEF CloseSocket, IInv, HandShake
  <2>5. QED
    BY <2>2, <2>3, <2>4 DEF IInv
<1>5. ASSUME NEW k \in 1 .. SBUFLEN, ReadBytes(k)
      PROVE  IInv'
  <2>0. k \in Nat
    BY ClientAssumption
  <2>1. SocketsTypeOK' /\ UNCHANGED cli
    BY <1>1, <1>5, <2>0, ClientCallType DEF IInv, TypeOK, ReadBytes, Take
  <2>2. TypeOK'
    BY <1>5, <2>1 DEF ReadBytes, IInv, TypeOK, ReaderState
  <2>3. SocketInv'
    BY <1>5, <2>1 DEF ReadBytes, IInv, SocketInv, Connected, Holding
  <2>4. HandShake'
    BY <1>5, <2>1 DEF ReadBytes, IInv, HandShake
  <2>5. QED
    BY <2>2, <2>3, <2>4 DEF IInv
<1>6. QED
  BY <1>2, <1>3, <1>4, <1>5

LEMMA ForgetSocketStep == ASSUME IInv, ForgetSocket PROVE IInv'
<1>. USE DEF Goto, Pass
<1>1. TypeOK'
  BY DEF ForgetSocket, IInv, TypeOK, SocketsTypeOK, ReaderState, net
<1>2. SocketInv'
  BY NoFdAssumption DEF ForgetSocket, IInv, SocketInv, Connected, Holding, net
<1>3. HandShake'
  BY DEF ForgetSocket, IInv, HandShake, net
<1>4. QED
  BY <1>1, <1>2, <1>3 DEF IInv

LEMMA ReaderStep == ASSUME IInv, Reader PROVE IInv'
  BY QuietReaderStep, SocketStep, WorkerCallStep, ForgetSocketStep
     DEF Reader, ReaderProgress

-----------------------------------------------------------------------------
(* The steps of the main thread, of the process and of the server. *)

\* A step of the main thread that touches no socket.
LEMMA QuietMainStep ==
  ASSUME IInv, ClearBuffer \/ Quit \/ SetStop \/ CheckStatus \/ LoadFd \/ Join
  PROVE  IInv'
<1>. USE DEF DtorGoto, DtorPass, net
<1>1. TypeOK'
  BY DEF IInv, TypeOK, SocketsTypeOK, DtorState, ClearBuffer, Quit, SetStop,
         CheckStatus, LoadFd, Join
<1>2. SocketInv'
  BY DEF IInv, SocketInv, ClearBuffer, Quit, SetStop, CheckStatus, LoadFd, Join
<1>3. HandShake'
  BY DEF IInv, HandShake, SocketInv, Connected, ClearBuffer, Quit, SetStop,
         CheckStatus, LoadFd, Join
<1>4. QED
  BY <1>1, <1>2, <1>3 DEF IInv

LEMMA WakeReaderStep == ASSUME IInv, WakeReader PROVE IInv'
<1>. USE DEF DtorGoto, DtorPass
<1>1. CASE fd = NoFd
  <2>1. TypeOK' /\ SocketInv'
    BY <1>1 DEF WakeReader, IInv, TypeOK, SocketsTypeOK, DtorState, SocketInv, net
  <2>2. HandShake'
    BY <1>1, NoFdAssumption DEF WakeReader, IInv, HandShake, SocketInv, Connected, net
  <2>3. QED
    BY <2>1, <2>2 DEF IInv
<1>2. CASE fd # NoFd
  <2>1. fd \in Conn /\ ShutClient(fd)
    BY <1>2 DEF WakeReader, IInv, TypeOK
  <2>2. SocketsTypeOK'
    BY <2>1, ClientCallType DEF IInv, TypeOK
  <2>3. TypeOK'
    BY <2>2 DEF WakeReader, IInv, TypeOK, DtorState
  <2>4. SocketInv'
    BY <2>1 DEF WakeReader, ShutClient, IInv, TypeOK, SocketsTypeOK, SocketInv,
                Connected, Holding
  <2>5. HandShake'
    BY <2>1 DEF WakeReader, ShutClient, IInv, TypeOK, SocketsTypeOK, HandShake,
                SocketInv, Connected
  <2>6. QED
    BY <2>3, <2>4, <2>5 DEF IInv
<1>3. QED
  BY <1>1, <1>2

LEMMA CloseLastStep == ASSUME IInv, CloseLast PROVE IInv'
<1>. USE DEF DtorGoto, DtorPass
<1>1. reader = "done"
  BY DEF CloseLast, IInv, HandShake
<1>2. CASE m_sockfd = NoFd
  <2>1. TypeOK' /\ SocketInv'
    BY <1>2 DEF CloseLast, IInv, TypeOK, SocketsTypeOK, DtorState, SocketInv, net
  <2>2. HandShake'
    BY <1>1, <1>2, NoFdAssumption DEF CloseLast, IInv, HandShake, SocketInv, net
  <2>3. QED
    BY <2>1, <2>2 DEF IInv
<1>3. CASE m_sockfd # NoFd
  <2>1. m_sockfd \in Conn /\ CloseClient(m_sockfd)
    BY <1>3 DEF CloseLast, IInv, TypeOK
  <2>2. SocketsTypeOK'
    BY <2>1, ClientCallType DEF IInv, TypeOK
  <2>3. TypeOK'
    BY <2>2 DEF CloseLast, IInv, TypeOK, DtorState
  <2>4. SocketInv' /\ HandShake'
    BY <1>1, <2>1 DEF CloseLast, CloseClient, IInv, TypeOK, SocketsTypeOK,
                      SocketInv, HandShake, Connected, Holding
  <2>5. QED
    BY <2>3, <2>4 DEF IInv
<1>4. QED
  BY <1>2, <1>3

LEMMA RestartStep == ASSUME IInv, Restart PROVE IInv'
<1>1. SocketsTypeOK'
  BY DEF Restart, ClientDies, IInv, TypeOK, SocketsTypeOK
<1>2. TypeOK'
  BY <1>1 DEF Restart, TypeOK, DtorState, ReaderState
<1>3. SocketInv' /\ HandShake'
  BY DEF Restart, ClientDies, SocketInv, HandShake, Connected, Holding
<1>4. QED
  BY <1>2, <1>3 DEF IInv

LEMMA PeerStep == ASSUME IInv, Peer PROVE IInv'
<1>1. SocketsTypeOK' /\ cli' = cli /\ UNCHANGED clientVars
  BY ServerCallType DEF Peer, IInv, TypeOK
<1>2. QED
  BY <1>1 DEF IInv, TypeOK, SocketInv, HandShake, clientVars

-----------------------------------------------------------------------------
(* The theorems. *)

LEMMA NextIInv == IInv /\ [Next]_vars => IInv'
<1>. SUFFICES ASSUME IInv, [Next]_vars PROVE IInv'
  OBVIOUS
<1>1. CASE Reader
  BY <1>1, ReaderStep
<1>2. CASE ClearBuffer \/ Quit \/ Destructor
  BY <1>2, QuietMainStep, WakeReaderStep, CloseLastStep DEF Destructor
<1>3. CASE Restart
  BY <1>3, RestartStep
<1>4. CASE Peer
  BY <1>4, PeerStep
<1>5. CASE UNCHANGED vars
  BY <1>5 DEF vars, clientVars, net, IInv, TypeOK, SocketsTypeOK, SocketInv, HandShake
<1>6. QED
  BY <1>1, <1>2, <1>3, <1>4, <1>5 DEF Next, Client

LEMMA SpecIInv == Spec => []IInv
  BY InitIInv, NextIInv, PTL DEF Spec

\* Every variable keeps its type.
THEOREM ClientTypeOK == Spec => []TypeOK
<1>1. IInv => TypeOK
  BY DEF IInv
<1>2. QED
  BY <1>1, SpecIInv, PTL

\* ~TCPService never joins a worker that sits in a read() nothing will end
\* (tcpservice.cpp:18-23 against 61-69).
THEOREM ClientNoStrandedRead == Spec => []NoStrandedRead
<1>1. IInv => NoStrandedRead
  BY DEF IInv, HandShake, NoStrandedRead
<1>2. QED
  BY <1>1, SpecIInv, PTL

\* The worker and the destructor between them close every socket, and no
\* socket is ever open that m_sockfd does not name.
THEOREM ClientNoLeakedFd == Spec => []NoLeakedFd
<1>1. IInv => NoLeakedFd
  BY DEF IInv, SocketInv, HandShake, NoLeakedFd
<1>2. QED
  BY <1>1, SpecIInv, PTL

-----------------------------------------------------------------------------
(* The bytes on their way from the server to m_buffer. *)

\* Where a byte stands in its packet.
Place == 1 .. SBUFLEN

Byte == Packet \X Place

\* A stretch of whole packets sent one after the other, its first and last
\* ones perhaps cut: up to the end of its packet a byte is followed by its
\* successors, and the byte after that begins a packet.
Chain(s) ==
  \A i, j \in 1 .. Len(s) : i <= j =>
    /\ s[i][2] + (j - i) <= SBUFLEN => s[j] = << s[i][1], s[i][2] + (j - i) >>
    /\ s[i][2] + (j - i) = SBUFLEN + 1 => s[j][2] = 1

\* The worker is in the middle of a packet, the one on connection c.
Partial == Len(tmpbuf) \in 1 .. SBUFLEN - 1

Mid(c) == c = m_sockfd /\ Partial

\* What the worker has collected is the beginning of one packet.
CollectInv ==
  /\ tmpbuf \in Seq(Byte) /\ Len(tmpbuf) <= SBUFLEN
  /\ tmpbuf # << >> => \E p \in Packet : \A i \in 1 .. Len(tmpbuf) : tmpbuf[i] = << p, i >>
  /\ reader \in {"socket", "connect", "setStatus"} => tmpbuf = << >>
  /\ reader = "connect" => cli[m_sockfd] = "fresh"
  /\ reader = "store" => Len(tmpbuf) = SBUFLEN
  /\ reader = "top" /\ m_status => ~Partial

\* What has arrived on a connection goes on where the worker stopped and, as
\* long as both ends are there, ends with a packet's last byte.
ConnStream(c) ==
  /\ down[c] \in Seq(Byte)
  /\ Chain(down[c])
  /\ cli[c] \in {"none", "fresh"} => down[c] = << >>
  /\ down[c] # << >> => IF Mid(c)
                        THEN down[c][1] = << tmpbuf[1][1], Len(tmpbuf) + 1 >>
                        ELSE down[c][1][2] = 1
  /\ cli[c] = "open" /\ srv[c] # "none" =>
       IF down[c] = << >> THEN ~Mid(c)
       ELSE down[c][Len(down[c])][2] = SBUFLEN

StreamInv ==
  /\ QueueInv
  /\ CollectInv
  /\ \A c \in Conn : ConnStream(c)
  /\ WholePackets

-----------------------------------------------------------------------------
(* The bytes of packets, in sequences. *)

LEMMA BytesOfPacket ==
  ASSUME NEW p \in Packet
  PROVE  /\ Bytes(p) \in Seq(Byte) /\ Len(Bytes(p)) = SBUFLEN
         /\ \A i \in Place : Bytes(p)[i] = << p, i >>
  BY ClientAssumption DEF Bytes, Byte, Place

\* SBUFLEN bytes that count from the first are a packet.
LEMMA WholePacket ==
  ASSUME NEW s \in Seq(Byte), Len(s) = SBUFLEN,
         NEW p \in Packet, \A i \in 1 .. Len(s) : s[i] = << p, i >>
  PROVE  s = Bytes(p)
<1>1. /\ s = [i \in 1 .. Len(s) |-> s[i]]
  OBVIOUS
<1>2. QED
  BY <1>1 DEF Bytes

\* Reading from the front of a chain leaves a chain.
LEMMA ChainDrop ==
  ASSUME NEW s \in Seq(Byte), Chain(s), NEW k \in Nat, k <= Len(s),
         NEW t, t = SubSeq(s, k + 1, Len(s))
  PROVE  /\ t \in Seq(Byte) /\ Len(t) = Len(s) - k
         /\ \A i \in 1 .. Len(t) : t[i] = s[i + k]
         /\ Chain(t)
<1>1. /\ t \in Seq(Byte) /\ Len(t) = Len(s) - k /\ Len(s) \in Nat
      /\ \A i \in 1 .. Len(t) : t[i] = s[i + k]
  OBVIOUS
<1>2. Chain(t)
  <2>. SUFFICES ASSUME NEW i \in 1 .. Len(t), NEW j \in 1 .. Len(t), i <= j
                PROVE  /\ t[i][2] + (j - i) <= SBUFLEN => t[j] = << t[i][1], t[i][2] + (j - i) >>
                       /\ t[i][2] + (j - i) = SBUFLEN + 1 => t[j][2] = 1
    BY DEF Chain
  <2>0. i \in Nat /\ j \in Nat /\ 1 <= i /\ i <= Len(t) /\ 1 <= j /\ j <= Len(t)
    BY <1>1
  <2>1. i + k \in 1 .. Len(s) /\ j + k \in 1 .. Len(s) /\ i + k <= j + k
    BY <1>1, <2>0
  <2>2. (j + k) - (i + k) = j - i
    BY <2>0
  <2>3. t[i] = s[i + k] /\ t[j] = s[j + k]
    BY <1>1
  <2>4. QED
    BY <2>1, <2>2, <2>3 DEF Chain
<1>3. QED
  BY <1>1, <1>2

\* The beginning of a packet goes on a chain that ends with a packet's last
\* byte, or on none.
LEMMA ChainAppend ==
  ASSUME NEW s \in Seq(Byte), Chain(s), s # << >> => s[Len(s)][2] = SBUFLEN,
         NEW p \in Packet, NEW b \in Seq(Byte), Len(b) \in Place,
         \A i \in 1 .. Len(b) : b[i] = << p, i >>,
         NEW t, t = s \o b
  PROVE  /\ t \in Seq(Byte) /\ t # << >> /\ Len(t) = Len(s) + Len(b)
         /\ Chain(t)
         /\ t[1] = IF s = << >> THEN b[1] ELSE s[1]
         /\ t[Len(t)] = b[Len(b)]
<1>0. /\ Len(s) \in Nat /\ Len(b) \in Nat /\ Len(b) > 0 /\ Len(b) <= SBUFLEN
      /\ SBUFLEN \in Nat
  BY ClientAssumption DEF Place
<1>1. /\ t \in Seq(Byte) /\ Len(t) = Len(s) + Len(b)
      /\ \A i \in 1 .. Len(s) : t[i] = s[i]
      /\ \A i \in 1 .. Len(b) : t[i + Len(s)] = b[i]
  BY <1>0
<1>2. t # << >> /\ t[Len(t)] = b[Len(b)]
  BY <1>0, <1>1
<1>3. t[1] = IF s = << >> THEN b[1] ELSE s[1]
  <2>1. CASE s = << >>
    <3>1. Len(s) = 0 /\ t[1 + Len(s)] = b[1]
      BY <1>0, <1>1, <2>1
    <3>2. QED
      BY <2>1, <3>1
  <2>2. CASE s # << >>
    BY <1>0, <1>1, <2>2
  <2>3. QED
    BY <2>1, <2>2
<1>4. Chain(t)
  <2>. SUFFICES ASSUME NEW i \in 1 .. Len(t), NEW j \in 1 .. Len(t), i <= j
                PROVE  /\ t[i][2] + (j - i) <= SBUFLEN => t[j] = << t[i][1], t[i][2] + (j - i) >>
                       /\ t[i][2] + (j - i) = SBUFLEN + 1 => t[j][2] = 1
    BY DEF Chain
  <2>0. i \in Nat /\ j \in Nat /\ i >= 1 /\ j <= Len(s) + Len(b) /\ i <= Len(s) + Len(b)
    BY <1>0, <1>1
  <2>1. CASE j <= Len(s)
    <3>1. i \in 1 .. Len(s) /\ j \in 1 .. Len(s) /\ t[i] = s[i] /\ t[j] = s[j]
      BY <1>0, <1>1, <2>0, <2>1
    <3>2. QED
      BY <3>1 DEF Chain
  <2>2. CASE i > Len(s)
    <3>1. PICK m \in Nat, n \in Nat : /\ i = m + Len(s) /\ j = n + Len(s)
                                      /\ m \in 1 .. Len(b) /\ n \in 1 .. Len(b)
      <4>1. /\ i - Len(s) \in Nat /\ j - Len(s) \in Nat
            /\ i = (i - Len(s)) + Len(s) /\ j = (j - Len(s)) + Len(s)
            /\ i - Len(s) \in 1 .. Len(b) /\ j - Len(s) \in 1 .. Len(b)
        BY <1>0, <2>0, <2>2
      <4>2. QED
        BY <4>1
    <3>2. t[i] = << p, m >> /\ t[j] = << p, n >> /\ j - i = n - m
      BY <1>0, <1>1, <3>1
    <3>3. t[i][2] = m /\ t[i][1] = p /\ t[j][2] = n
      BY <3>2
    <3>4. m + (n - m) = n /\ n <= SBUFLEN
      BY <1>0, <3>1
    <3>5. QED
      BY <1>0, <3>1, <3>2, <3>3, <3>4
  <2>3. CASE i <= Len(s) /\ j > Len(s)
    <3>1. /\ i \in 1 .. Len(s) /\ Len(s) \in 1 .. Len(s) /\ s # << >>
          /\ s[Len(s)][2] = SBUFLEN /\ t[i] = s[i]
      BY <1>0, <1>1, <2>0, <2>3
    <3>2. PICK x \in Nat : s[i][2] = x
      BY <3>1 DEF Byte, Place
    <3>3. x + (Len(s) - i) <= SBUFLEN => SBUFLEN = x + (Len(s) - i)
      <4>. SUFFICES ASSUME x + (Len(s) - i) <= SBUFLEN
                    PROVE  SBUFLEN = x + (Len(s) - i)
        OBVIOUS
      <4>1. s[Len(s)] = << s[i][1], x + (Len(s) - i) >>
        BY <3>1, <3>2, <2>0, <2>3 DEF Chain
      <4>2. s[Len(s)][2] = x + (Len(s) - i)
        BY <4>1
      <4>3. QED
        BY <3>1, <4>2
    <3>4. ~(x + (j - i) <= SBUFLEN)
      BY <1>0, <2>0, <2>3, <3>3
    <3>5. ASSUME x + (j - i) = SBUFLEN + 1 PROVE t[j][2] = 1
      <4>0. x + (Len(s) - i) <= SBUFLEN
        BY <1>0, <2>0, <2>3, <3>5
      <4>1. j = Len(s) + 1
        BY <1>0, <2>0, <3>3, <3>5, <4>0
      <4>2. t[1 + Len(s)] = b[1] /\ b[1] = << p, 1 >> /\ 1 + Len(s) = j
        BY <1>0, <1>1, <4>1
      <4>3. QED
        BY <4>2
    <3>6. QED
      BY <3>1, <3>2, <3>4, <3>5
  <2>4. QED
    <3>1. j <= Len(s) \/ i > Len(s) \/ (i <= Len(s) /\ j > Len(s))
      BY <1>0, <2>0
    <3>2. QED
      BY <3>1, <2>1, <2>2, <2>3
<1>5. QED
  BY <1>1, <1>2, <1>3, <1>4

-----------------------------------------------------------------------------
(* A step at a time. *)

\* A connection that carries what it did, and whose ends are no more open than
\* before, keeps its stream.
LEMMA SameStream ==
  ASSUME NEW c \in Conn, ConnStream(c), down'[c] = down[c],
         cli'[c] \in {"none", "fresh"} => cli[c] \in {"none", "fresh"},
         cli'[c] = "open" /\ srv'[c] # "none" => cli[c] = "open" /\ srv[c] # "none",
         Mid(c)' <=> Mid(c), Mid(c) => tmpbuf' = tmpbuf
  PROVE  ConnStream(c)'
  BY DEF ConnStream, Chain

LEMMA EmptyStream ==
  ASSUME NEW c \in Conn, down'[c] = << >>, cli'[c] = "open" => ~Mid(c)'
  PROVE  ConnStream(c)'
  BY DEF ConnStream, Chain

\* What a connection that is connected must carry.
LEMMA NewStream ==
  ASSUME NEW c \in Conn, NEW t \in Seq(Byte), t = down'[c], Chain(t),
         cli'[c] \notin {"none", "fresh"},
         t # << >> => IF Mid(c)' THEN t[1] = << tmpbuf'[1][1], Len(tmpbuf') + 1 >>
                      ELSE t[1][2] = 1,
         cli'[c] = "open" /\ srv'[c] # "none" =>
           IF t = << >> THEN ~Mid(c)' ELSE t[Len(t)][2] = SBUFLEN
  PROVE  ConnStream(c)'
  BY DEF ConnStream, Chain

LEMMA InitStream == Init => StreamInv
<1>. SUFFICES ASSUME Init PROVE StreamInv
  OBVIOUS
<1>1. QueueInv
  BY SocketsInitQueue DEF Init
<1>2. CollectInv /\ WholePackets
  BY ClientAssumption DEF Init, ClientInit, Started, CollectInv, Partial, WholePackets
<1>3. ASSUME NEW c \in Conn PROVE ConnStream(c)
  BY <1>3 DEF Init, SocketsInit, ConnStream, Chain
<1>4. QED
  BY <1>1, <1>2, <1>3 DEF StreamInv

\* A step that touches neither the sockets nor m_sockfd nor tmpbuf.
LEMMA StillStream ==
  ASSUME StreamInv, UNCHANGED << m_sockfd, tmpbuf, net >>
  PROVE  QueueInv' /\ \A c \in Conn : ConnStream(c)'
<1>1. QueueInv'
  BY DEF StreamInv, QueueInv, net
<1>2. ASSUME NEW c \in Conn PROVE ConnStream(c)'
  BY <1>2, SameStream DEF StreamInv, net, Mid, Partial
<1>3. QED
  BY <1>1, <1>2

LEMMA StreamQuietReader ==
  ASSUME IInv, StreamInv,
         \/ SetStatus \/ ReadCheck \/ ReadInterrupted \/ Store
         \/ ClearStatus \/ ConnectRefused \/ ReadEnds
  PROVE  StreamInv'
<1>. USE DEF Goto, Pass
<1>1. UNCHANGED << m_sockfd, tmpbuf, net >>
  BY DEF SetStatus, ReadCheck, ReadInterrupted, Store, ClearStatus, ConnectRefused, ReadEnds
<1>2. CollectInv'
  BY <1>1, ClientAssumption DEF StreamInv, CollectInv, Partial, net, SetStatus, ReadCheck,
     ReadInterrupted, Store, ClearStatus, ConnectRefused, ReadEnds
<1>3. CASE Store
  <2>1. Len(tmpbuf) = SBUFLEN /\ tmpbuf \in Seq(Byte) /\ tmpbuf # << >>
    BY <1>3, ClientAssumption DEF Store, StreamInv, CollectInv
  <2>2. \E p \in Packet : tmpbuf = Bytes(p)
    BY <2>1, WholePacket DEF StreamInv, CollectInv
  <2>3. WholePackets'
    BY <1>3, <2>2 DEF Store, WholePackets, Messages
  <2>4. QED
    BY <1>1, <1>2, <2>3, StillStream DEF StreamInv
<1>4. CASE ~Store
  <2>1. m_buffer' = m_buffer
    BY <1>4 DEF SetStatus, ReadCheck, ReadInterrupted, ClearStatus, ConnectRefused, ReadEnds
  <2>2. WholePackets'
    BY <2>1 DEF StreamInv, WholePackets
  <2>3. QED
    BY <1>1, <1>2, <2>2, StillStream DEF StreamInv
<1>5. QED
  BY <1>3, <1>4

LEMMA StreamQuietMain ==
  ASSUME IInv, StreamInv, ClearBuffer \/ Quit \/ SetStop \/ CheckStatus \/ LoadFd \/ Join
  PROVE  StreamInv'
<1>. USE DEF DtorGoto, DtorPass
<1>1. /\ UNCHANGED << m_sockfd, tmpbuf, net, reader, m_status >>
      /\ m_buffer' \in {m_buffer, Zeroed}
  BY DEF ClearBuffer, Quit, SetStop, CheckStatus, LoadFd, Join
<1>2. CollectInv' /\ WholePackets'
  BY <1>1 DEF StreamInv, CollectInv, Partial, WholePackets, net
<1>3. QED
  BY <1>1, <1>2, StillStream DEF StreamInv

\* A new read phase starts with nothing collected, and nothing was left over.
LEMMA StreamTop == ASSUME IInv, StreamInv, Top PROVE StreamInv'
<1>1. /\ reader = "top" /\ tmpbuf' = << >>
      /\ reader' \in {"done", "readCheck", "socket"}
      /\ UNCHANGED << m_status, m_sockfd, m_buffer, net >>
  BY DEF Top, Goto, TopNext
<1>2. ASSUME NEW c \in Conn PROVE ~Mid(c) /\ ~Mid(c)'
  BY <1>1, <1>2, NoFdAssumption DEF IInv, SocketInv, StreamInv, CollectInv, Mid, Partial
<1>3. ASSUME NEW c \in Conn PROVE ConnStream(c)'
  BY <1>1, <1>2, <1>3, SameStream DEF StreamInv, net
<1>4. CollectInv'
  BY <1>1, ClientAssumption DEF StreamInv, CollectInv, Partial
<1>5. QueueInv' /\ WholePackets'
  BY <1>1 DEF StreamInv, QueueInv, WholePackets, net
<1>6. QED
  BY <1>3, <1>4, <1>5 DEF StreamInv

LEMMA StreamSocket == ASSUME IInv, StreamInv, Socket \/ SocketFails PROVE StreamInv'
<1>1. /\ reader = "socket" /\ tmpbuf = << >>
      /\ reader' \in {"connect", "done"}
      /\ UNCHANGED << m_status, m_buffer, tmpbuf >>
  BY DEF Socket, SocketFails, Goto, StreamInv, CollectInv
<1>2. WholePackets' /\ \A c \in Conn : ~Mid(c) /\ ~Mid(c)'
  BY <1>1 DEF StreamInv, WholePackets, Mid, Partial
<1>3. CASE SocketFails
  <2>1. reader' = "done" /\ UNCHANGED net
    BY <1>3 DEF SocketFails, Goto
  <2>2. QueueInv' /\ CollectInv'
    BY <1>1, <2>1 DEF StreamInv, QueueInv, CollectInv, net
  <2>3. ASSUME NEW c \in Conn PROVE ConnStream(c)'
    BY <1>2, <2>1, <2>3, SameStream DEF StreamInv, net
  <2>4. QED
    BY <1>2, <2>2, <2>3 DEF StreamInv
<1>4. CASE Socket
  <2>1. PICK d \in Conn : OpenClient(d) /\ m_sockfd' = d
    BY <1>4 DEF Socket
  <2>2. QueueInv'
    BY <2>1, ClientCallQueue DEF ClientCall, StreamInv, IInv, TypeOK
  <2>3. CollectInv'
    BY <1>1, <1>4, <2>1 DEF Socket, Goto, OpenClient, StreamInv, CollectInv, IInv, TypeOK, SocketsTypeOK
  <2>4. ASSUME NEW c \in Conn PROVE ConnStream(c)'
    <3>1. /\ UNCHANGED << down, srv >>
          /\ cli[d] = "none" /\ cli' = [cli EXCEPT ![d] = "fresh"]
      BY <2>1 DEF OpenClient, Unused
    <3>2. cli'[c] = IF c = d THEN "fresh" ELSE cli[c]
      BY <3>1 DEF IInv, TypeOK, SocketsTypeOK
    <3>3. QED
      BY <1>2, <2>4, <3>1, <3>2, SameStream DEF StreamInv
  <2>5. QED
    BY <1>2, <2>2, <2>3, <2>4 DEF StreamInv
<1>5. QED
  BY <1>3, <1>4

LEMMA StreamConnect == ASSUME IInv, StreamInv, ConnectSucceeds PROVE StreamInv'
<1>1. /\ reader = "connect" /\ reader' = "setStatus" /\ tmpbuf = << >>
      /\ UNCHANGED << m_status, m_sockfd, m_buffer, tmpbuf >>
      /\ m_sockfd \in Conn /\ cli[m_sockfd] = "fresh" /\ Connect(m_sockfd)
  BY DEF ConnectSucceeds, Goto, StreamInv, CollectInv, IInv, SocketInv, Holding
<1>2. QueueInv'
  BY <1>1, ConnectQueue DEF StreamInv, IInv, TypeOK
<1>3. CollectInv' /\ WholePackets'
  BY <1>1 DEF StreamInv, CollectInv, WholePackets
<1>4. ASSUME NEW c \in Conn PROVE ConnStream(c)'
  <2>1. /\ down' = down /\ cli' = [cli EXCEPT ![m_sockfd] = "open"]
        /\ srv' = [srv EXCEPT ![m_sockfd] = "queued"]
    BY <1>1 DEF Connect
  <2>2. ~Mid(c) /\ ~Mid(c)'
    BY <1>1 DEF Mid, Partial
  <2>3. CASE c = m_sockfd
    BY <1>1, <2>1, <2>2, <2>3, EmptyStream DEF StreamInv, ConnStream
  <2>4. CASE c # m_sockfd
    <3>1. cli'[c] = cli[c] /\ srv'[c] = srv[c]
      BY <1>1, <2>1, <2>4 DEF IInv, TypeOK, SocketsTypeOK
    <3>2. QED
      BY <2>1, <2>2, <3>1, SameStream DEF StreamInv
  <2>5. QED
    BY <2>3, <2>4
<1>5. QED
  BY <1>2, <1>3, <1>4 DEF StreamInv

\* read() takes up the packet where the worker left it.
LEMMA StreamRead ==
  ASSUME IInv, StreamInv, NEW k \in 1 .. SBUFLEN, ReadBytes(k)
  PROVE  StreamInv'
<1>. DEFINE s == down[m_sockfd]
            t == down'[m_sockfd]
            n == Len(tmpbuf)
<1>1. /\ reader = "read" /\ reader' = "readCheck"
      /\ k <= SBUFLEN - n /\ k <= Len(s)
      /\ tmpbuf' = tmpbuf \o SubSeq(s, 1, k)
      /\ Take(m_sockfd, k)
      /\ UNCHANGED << m_status, m_sockfd, m_buffer >>
  BY DEF ReadBytes, Goto
<1>2. /\ m_sockfd \in Conn /\ cli[m_sockfd] \in {"open", "shut"}
      /\ k \in Nat /\ k >= 1 /\ SBUFLEN \in Nat
      /\ tmpbuf \in Seq(Byte) /\ n \in Nat /\ n <= SBUFLEN
  BY <1>1, ClientAssumption DEF IInv, SocketInv, Connected, StreamInv, CollectInv
<1>3. /\ s \in Seq(Byte) /\ Len(s) \in Nat /\ s # << >> /\ Chain(s)
      /\ n + k <= SBUFLEN /\ n < SBUFLEN
  BY <1>1, <1>2 DEF StreamInv, ConnStream
<1>4. /\ UNCHANGED << listener, queue, cli, srv, rst >>
      /\ down' = [down EXCEPT ![m_sockfd] = SubSeq(s, k + 1, Len(s))]
      /\ t = SubSeq(s, k + 1, Len(s))
      /\ \A c \in Conn : c # m_sockfd => down'[c] = down[c]
  BY <1>1, <1>2 DEF Take, IInv, TypeOK, SocketsTypeOK
<1>5. /\ t \in Seq(Byte) /\ Len(t) = Len(s) - k /\ Chain(t)
      /\ \A i \in 1 .. Len(t) : t[i] = s[i + k]
  <2>1. k \in Nat /\ k <= Len(s) /\ s \in Seq(Byte) /\ Chain(s) /\ t = SubSeq(s, k + 1, Len(s))
    BY <1>1, <1>2, <1>3, <1>4, SMTT(30)
  <2>. HIDE DEF s, t
  <2>2. QED
    BY <2>1, ChainDrop, ZenonT(40)
<1>6. PICK p \in Packet : /\ s[1] = << p, n + 1 >>
                          /\ \A i \in 1 .. n : tmpbuf[i] = << p, i >>
  <2>1. CASE n = 0
    <3>1. s[1] \in Byte /\ s[1][2] = 1
      BY <1>2, <1>3, <2>1 DEF StreamInv, ConnStream, Mid, Partial
    <3>2. PICK p \in Packet : s[1] = << p, 1 >>
      BY <3>1 DEF Byte, Place
    <3>3. QED
      BY <2>1, <3>2
  <2>2. CASE n > 0
    <3>1. Mid(m_sockfd) /\ tmpbuf # << >>
      BY <1>2, <1>3, <2>2 DEF Mid, Partial
    <3>2. s[1] = << tmpbuf[1][1], n + 1 >>
      BY <1>2, <1>3, <3>1 DEF StreamInv, ConnStream
    <3>3. PICK p \in Packet : \A i \in 1 .. n : tmpbuf[i] = << p, i >>
      BY <3>1 DEF StreamInv, CollectInv
    <3>4. tmpbuf[1] = << p, 1 >>
      BY <1>2, <2>2, <3>3
    <3>5. tmpbuf[1][1] = p
      BY <3>4
    <3>6. QED
      BY <3>2, <3>3, <3>5
  <2>3. QED
    BY <1>2, <2>1, <2>2
<1>7. \A j \in 1 .. k : s[j] = << p, n + j >>
  <2>. SUFFICES ASSUME NEW j \in 1 .. k PROVE s[j] = << p, n + j >>
    OBVIOUS
  <2>1. 1 \in 1 .. Len(s) /\ j \in 1 .. Len(s) /\ j \in Nat /\ 1 <= j /\ j <= k
    BY <1>1, <1>2, <1>3
  <2>2. s[1][1] = p /\ s[1][2] = n + 1
    BY <1>6
  <2>3. (n + 1) + (j - 1) <= SBUFLEN /\ (n + 1) + (j - 1) = n + j
    BY <1>2, <1>3, <2>1
  <2>4. QED
    BY <2>1, <2>2, <2>3, <1>3, ZenonT(40) DEF Chain
<1>8. /\ tmpbuf' \in Seq(Byte) /\ Len(tmpbuf') = n + k
      /\ \A i \in 1 .. n + k : tmpbuf'[i] = << p, i >>
  <2>1. /\ SubSeq(s, 1, k) \in Seq(Byte) /\ Len(SubSeq(s, 1, k)) = k
        /\ \A j \in 1 .. k : SubSeq(s, 1, k)[j] = s[j]
    BY <1>1, <1>2, <1>3, SMTT(30)
  <2>2. /\ tmpbuf' \in Seq(Byte) /\ Len(tmpbuf') = n + k
        /\ \A i \in 1 .. n : tmpbuf'[i] = tmpbuf[i]
        /\ \A j \in 1 .. k : tmpbuf'[j + n] = SubSeq(s, 1, k)[j]
    BY <1>1, <1>2, <2>1, SMTT(30)
  <2>3. ASSUME NEW i \in 1 .. n + k PROVE tmpbuf'[i] = << p, i >>
    <3>1. CASE i \in 1 .. n
      BY <1>6, <2>2, <3>1
    <3>2. CASE i \notin 1 .. n
      <4>1. i - n \in 1 .. k /\ (i - n) + n = i /\ n + (i - n) = i
        BY <1>2, <2>3, <3>2
      <4>2. QED
        BY <1>7, <2>1, <2>2, <4>1
    <3>3. QED
      BY <3>1, <3>2
  <2>4. QED
    BY <2>2, <2>3
<1>9. CollectInv' /\ WholePackets'
  <2>1. /\ Len(tmpbuf') <= SBUFLEN
        /\ \E q \in Packet : \A i \in 1 .. Len(tmpbuf') : tmpbuf'[i] = << q, i >>
    BY <1>3, <1>8
  <2>2. QED
    BY <1>1, <1>8, <2>1 DEF StreamInv, CollectInv, WholePackets
<1>10. QueueInv'
  BY <1>4 DEF StreamInv, QueueInv
<1>11. ASSUME NEW c \in Conn, c = m_sockfd PROVE ConnStream(c)'
  <2>0. /\ cli'[c] \notin {"none", "fresh"} /\ srv' = srv /\ cli' = cli /\ t = down'[c]
        /\ t \in Seq(Byte) /\ Chain(t)
    BY <1>2, <1>4, <1>5, <1>11
  <2>1. CASE t = << >>
    <3>1. Len(s) = k /\ s[Len(s)] = << p, n + k >>
      BY <1>2, <1>3, <1>5, <1>7, <2>1
    <3>2. s[Len(s)][2] = n + k
      BY <3>1
    <3>3. cli[c] = "open" /\ srv[c] # "none" => n + k = SBUFLEN
      BY <1>2, <1>3, <1>11, <3>2 DEF StreamInv, ConnStream
    <3>4. n + k = SBUFLEN => ~Mid(c)'
      BY <1>2, <1>8 DEF Mid, Partial
    <3>5. QED
      BY <2>0, <2>1, <3>3, <3>4, NewStream
  <2>2. CASE t # << >>
    <3>1. /\ Len(t) \in Nat /\ Len(t) >= 1 /\ t[1] = s[1 + k] /\ t[Len(t)] = s[Len(t) + k]
          /\ Len(t) + k = Len(s)
          /\ 1 + k \in 1 .. Len(s) /\ 1 \in 1 .. Len(s)
      <4>1. Len(t) \in Nat /\ Len(t) >= 1
        BY <1>5, <2>2
      <4>2. 1 \in 1 .. Len(t) /\ Len(t) \in 1 .. Len(t)
        BY <4>1
      <4>3. t[1] = s[1 + k] /\ t[Len(t)] = s[Len(t) + k]
        BY <1>5, <4>2
      <4>4. Len(t) + k = Len(s) /\ 1 + k <= Len(s)
        BY <1>2, <1>3, <1>5, <4>1
      <4>5. QED
        BY <1>2, <1>3, <4>1, <4>3, <4>4
    <3>2. s[1][1] = p /\ s[1][2] = n + 1
      BY <1>6
    <3>3. cli'[c] = "open" /\ srv'[c] # "none" => t[Len(t)][2] = SBUFLEN
      BY <1>3, <1>11, <2>0, <3>1 DEF StreamInv, ConnStream
    <3>4. CASE n + k < SBUFLEN
      <4>1. (n + 1) + ((1 + k) - 1) <= SBUFLEN /\ (n + 1) + ((1 + k) - 1) = n + k + 1 /\ 1 <= 1 + k
        BY <1>2, <3>4
      <4>2. t[1] = << p, n + k + 1 >>
        BY <1>3, <3>1, <3>2, <4>1 DEF Chain
      <4>3. Mid(c)'
        BY <1>1, <1>2, <1>8, <1>11, <3>4 DEF Mid, Partial
      <4>4. tmpbuf'[1] = << p, 1 >>
        BY <1>2, <1>8
      <4>5. tmpbuf'[1][1] = p
        BY <4>4
      <4>6. t[1] = << tmpbuf'[1][1], Len(tmpbuf') + 1 >>
        BY <1>8, <4>2, <4>5
      <4>7. QED
        BY <2>0, <2>2, <3>3, <4>3, <4>6, NewStream
    <3>5. CASE n + k = SBUFLEN
      <4>1. (n + 1) + ((1 + k) - 1) = SBUFLEN + 1 /\ 1 <= 1 + k
        BY <1>2, <3>5
      <4>2. t[1][2] = 1
        BY <1>3, <3>1, <3>2, <4>1 DEF Chain
      <4>3. ~Mid(c)'
        BY <1>1, <1>2, <1>8, <1>11, <3>5 DEF Mid, Partial
      <4>4. QED
        BY <2>0, <2>2, <3>3, <4>2, <4>3, NewStream
    <3>6. QED
      BY <1>2, <1>3, <3>4, <3>5
  <2>3. QED
    BY <2>1, <2>2
<1>12. ASSUME NEW c \in Conn, c # m_sockfd PROVE ConnStream(c)'
  BY <1>1, <1>4, <1>12, SameStream DEF StreamInv, Mid
<1>13. QED
  BY <1>1, <1>9, <1>10, <1>11, <1>12 DEF StreamInv

\* shutdown() leaves what has arrived to be read.
LEMMA StreamShut ==
  ASSUME IInv, StreamInv, NEW d \in Conn, ShutClient(d),
         UNCHANGED << m_sockfd, tmpbuf, m_buffer >>,
         \/ reader = "shut" /\ reader' = "close" /\ UNCHANGED m_status
         \/ UNCHANGED << reader, m_status >>
  PROVE  StreamInv'
<1>1. /\ UNCHANGED << listener, queue, srv, down >>
      /\ \A c \in Conn : cli'[c] = IF c = d /\ cli[d] = "open" THEN "shut" ELSE cli[c]
  BY DEF ShutClient, IInv, TypeOK, SocketsTypeOK
<1>2. QueueInv'
  BY <1>1 DEF StreamInv, QueueInv
<1>3. reader = "connect" => m_sockfd \in Conn
  BY DEF IInv, SocketInv, Holding
<1>4. CollectInv' /\ WholePackets'
  BY <1>1, <1>3 DEF StreamInv, CollectInv, Partial, WholePackets
<1>5. ASSUME NEW c \in Conn PROVE ConnStream(c)'
  BY <1>1, <1>5, SameStream DEF StreamInv, Mid, Partial
<1>6. QED
  BY <1>2, <1>4, <1>5 DEF StreamInv

\* close() discards what was not read.
LEMMA StreamClose ==
  ASSUME IInv, StreamInv, NEW d \in Conn, CloseClient(d),
         UNCHANGED << m_status, m_sockfd, tmpbuf, m_buffer >>,
         \/ reader = "close" /\ reader' = "forget"
         \/ reader = "done" /\ reader' = "done"
  PROVE  StreamInv'
<1>1. /\ UNCHANGED << listener, queue, srv >>
      /\ \A c \in Conn : /\ cli'[c] = IF c = d THEN "none" ELSE cli[c]
                         /\ down'[c] = IF c = d THEN << >> ELSE down[c]
  BY DEF CloseClient, IInv, TypeOK, SocketsTypeOK
<1>2. QueueInv'
  BY <1>1 DEF StreamInv, QueueInv
<1>3. CollectInv' /\ WholePackets'
  BY <1>1 DEF StreamInv, CollectInv, Partial, WholePackets
<1>4. ASSUME NEW c \in Conn, c = d PROVE ConnStream(c)'
  BY <1>1, <1>4, EmptyStream
<1>5. ASSUME NEW c \in Conn, c # d PROVE ConnStream(c)'
  BY <1>1, <1>5, SameStream DEF StreamInv, Mid, Partial
<1>6. QED
  BY <1>2, <1>3, <1>4, <1>5 DEF StreamInv

\* Nothing is left of a connection when its descriptor is forgotten.
LEMMA StreamForget == ASSUME IInv, StreamInv, ForgetSocket PROVE StreamInv'
<1>1. /\ reader = "forget" /\ reader' = "top" /\ m_sockfd' = NoFd
      /\ UNCHANGED << m_status, tmpbuf, m_buffer, net >>
      /\ m_sockfd \in Conn /\ ~m_status /\ cli[m_sockfd] = "none"
  BY DEF ForgetSocket, Goto, IInv, SocketInv, Holding
<1>2. QueueInv' /\ CollectInv' /\ WholePackets'
  BY <1>1 DEF StreamInv, QueueInv, CollectInv, Partial, WholePackets, net
<1>3. ASSUME NEW c \in Conn, c = m_sockfd PROVE ConnStream(c)'
  <2>1. cli'[c] = "none" /\ down'[c] = << >>
    BY <1>1, <1>3 DEF StreamInv, ConnStream, net
  <2>2. QED
    BY <1>3, <2>1, EmptyStream
<1>4. ASSUME NEW c \in Conn, c # m_sockfd PROVE ConnStream(c)'
  <2>1. ~Mid(c) /\ ~Mid(c)'
    BY <1>1, <1>4, NoFdAssumption DEF Mid
  <2>2. QED
    BY <1>1, <1>4, <2>1, SameStream DEF StreamInv, net
<1>5. QED
  BY <1>2, <1>3, <1>4 DEF StreamInv

LEMMA StreamRestart == ASSUME IInv, StreamInv, Restart PROVE StreamInv'
<1>1. /\ reader' = "top" /\ ~m_status' /\ tmpbuf' = << >> /\ m_buffer' = Zeroed
      /\ UNCHANGED << listener, queue, srv >>
      /\ \A c \in Conn : cli'[c] = "none" /\ down'[c] = << >>
  BY DEF Restart, ClientDies
<1>2. QueueInv'
  BY <1>1 DEF StreamInv, QueueInv
<1>3. CollectInv' /\ WholePackets'
  BY <1>1, ClientAssumption DEF CollectInv, Partial, WholePackets
<1>4. ASSUME NEW c \in Conn PROVE ConnStream(c)'
  BY <1>1, <1>4, EmptyStream
<1>5. QED
  BY <1>2, <1>3, <1>4 DEF StreamInv

-----------------------------------------------------------------------------
(* The server's part. *)

\* A server that sends a packet, or dies in the middle of one, goes on where
\* the one before ended.
LEMMA SendStream ==
  ASSUME NEW d \in Conn, NEW p \in Packet, NEW k \in Place
  PROVE  /\ IInv /\ StreamInv /\ UNCHANGED << m_sockfd, tmpbuf, cli >>
         /\ cli[d] = "open" /\ srv[d] = "open"
         /\ down' = [down EXCEPT ![d] = @ \o SubSeq(Bytes(p), 1, k)]
         /\ \A c \in Conn : srv'[c] # "none" => srv[c] # "none" /\ (c = d => k = SBUFLEN)
         => \A c \in Conn : ConnStream(c)'
<1>0. SUFFICES
        ASSUME IInv, StreamInv, UNCHANGED << m_sockfd, tmpbuf, cli >>,
               cli[d] = "open", srv[d] = "open",
               down' = [down EXCEPT ![d] = @ \o SubSeq(Bytes(p), 1, k)],
               \A c \in Conn : srv'[c] # "none" => srv[c] # "none" /\ (c = d => k = SBUFLEN)
        PROVE  \A c \in Conn : ConnStream(c)'
  OBVIOUS
<1>. DEFINE b == SubSeq(Bytes(p), 1, k)
<1>1. /\ k \in Nat /\ k >= 1 /\ k <= SBUFLEN /\ SBUFLEN \in Nat
  BY ClientAssumption DEF Place
<1>2. /\ b \in Seq(Byte) /\ Len(b) = k
      /\ \A i \in 1 .. Len(b) : b[i] = << p, i >>
  BY <1>1, BytesOfPacket DEF Place
<1>3. \A c \in Conn : /\ down'[c] = IF c = d THEN down[d] \o b ELSE down[c]
                      /\ Mid(c)' <=> Mid(c)
  BY <1>0 DEF IInv, TypeOK, SocketsTypeOK, Mid, Partial
<1>4. ASSUME NEW c \in Conn, c # d PROVE ConnStream(c)'
  BY <1>0, <1>3, <1>4, SameStream DEF StreamInv
<1>5. ASSUME NEW c \in Conn, c = d PROVE ConnStream(c)'
  <2>. DEFINE s == down[c]
              t == down'[c]
  <2>1. /\ s \in Seq(Byte) /\ Chain(s) /\ t = s \o b
        /\ s # << >> => s[Len(s)][2] = SBUFLEN
        /\ s # << >> => IF Mid(c) THEN s[1] = << tmpbuf[1][1], Len(tmpbuf) + 1 >>
                        ELSE s[1][2] = 1
        /\ s = << >> => ~Mid(c)
    BY <1>0, <1>3, <1>5 DEF StreamInv, ConnStream
  <2>2. Len(b) \in Place /\ b[1] = << p, 1 >> /\ b[Len(b)] = << p, k >>
    BY <1>1, <1>2 DEF Place
  <2>3. /\ t \in Seq(Byte) /\ t # << >> /\ Chain(t)
        /\ t[1] = IF s = << >> THEN b[1] ELSE s[1]
        /\ t[Len(t)] = b[Len(b)]
    <3>1. /\ s \in Seq(Byte) /\ Chain(s)
          /\ s # << >> => s[Len(s)][2] = SBUFLEN
          /\ b \in Seq(Byte) /\ Len(b) \in Place
          /\ \A i \in 1 .. Len(b) : b[i] = << p, i >>
          /\ t = s \o b
      BY <1>2, <2>1, <2>2
    <3>. HIDE DEF s, t, b
    <3>2. t \in Seq(Byte) /\ t # << >> /\ Chain(t)
      BY <3>1, ChainAppend
    <3>3. t[1] = IF s = << >> THEN b[1] ELSE s[1]
      BY <3>1, ChainAppend
    <3>4. t[Len(t)] = b[Len(b)]
      BY <3>1, ChainAppend
    <3>5. QED
      BY <3>2, <3>3, <3>4
  <2>4. IF Mid(c)' THEN t[1] = << tmpbuf'[1][1], Len(tmpbuf') + 1 >> ELSE t[1][2] = 1
    <3>1. CASE s = << >>
      <4>1. ~Mid(c)'
        BY <1>3, <2>1, <3>1
      <4>. HIDE DEF s, t, b
      <4>2. t[1] = << p, 1 >>
        BY <2>2, <2>3, <3>1
      <4>3. QED
        BY <4>1, <4>2
    <3>2. CASE s # << >>
      BY <1>0, <1>3, <2>1, <2>3, <3>2
    <3>3. QED
      BY <3>1, <3>2
  <2>5. srv'[c] # "none" => t[Len(t)][2] = SBUFLEN
    <3>. HIDE DEF s, t, b
    <3>1. t[Len(t)][2] = k
      BY <2>2, <2>3
    <3>2. QED
      BY <1>0, <1>5, <3>1
  <2>6. cli'[c] \notin {"none", "fresh"}
    BY <1>0, <1>5
  <2>7. QED
    BY <2>3, <2>4, <2>5, <2>6, NewStream
<1>6. QED
  BY <1>4, <1>5

LEMMA PeerQueue == ASSUME IInv, StreamInv, Peer PROVE QueueInv'
<1>. USE DEF Peer, ServerCall
<1>1. QueueInv /\ SocketsTypeOK
  BY DEF StreamInv, IInv, TypeOK
<1>2. CASE \/ listener = "none" /\ Bind
           \/ listener = "bound" /\ Listen
  BY <1>1, <1>2, ServerCallQueue
<1>3. ASSUME NEW state, StopListening(state) PROVE QueueInv'
  BY <1>1, <1>3, StopListeningQueue
<1>4. CASE Accept
  BY <1>1, <1>4, AcceptQueue
<1>5. ASSUME NEW c \in Conn, srv[c] = "open",
             (\E bytes : Send(c, bytes)) \/ SendLost(c) \/ CloseServer(c)
      PROVE  QueueInv'
  BY <1>1, <1>5, ServerCallQueue
<1>6. ASSUME NEW sending, ServerDies(sending, Messages) PROVE QueueInv'
  BY <1>1, <1>6, ServerCallQueue
<1>7. QED
  BY <1>2, <1>3, <1>4, <1>5, <1>6

LEMMA PeerStream == ASSUME IInv, StreamInv, Peer PROVE \A c \in Conn : ConnStream(c)'
<1>0. /\ UNCHANGED << m_sockfd, tmpbuf, cli >>
      /\ \A c \in Conn : ConnStream(c) /\ (Mid(c)' <=> Mid(c))
  BY ServerCallType DEF Peer, clientVars, IInv, TypeOK, StreamInv, Mid, Partial
<1>1. \/ Bind \/ Listen
      \/ \E state \in {"shut", "none"} : StopListening(state)
      \/ Accept
      \/ \E c \in Conn, bytes \in Messages : srv[c] = "open" /\ Send(c, bytes)
      \/ \E c \in Conn : SendLost(c) \/ CloseServer(c)
      \/ ServerDies({c \in Conn : srv[c] = "open"}, Messages)
  BY DEF Peer, ServerCall
<1>2. CASE \/ Bind \/ Listen
           \/ \E state \in {"shut", "none"} : StopListening(state)
           \/ \E c \in Conn : SendLost(c) \/ CloseServer(c)
  <2>1. /\ down' = down
        /\ \A c \in Conn : srv'[c] # "none" => srv[c] # "none"
    BY <1>2 DEF Bind, Listen, StopListening, SendLost, CloseServer, IInv, TypeOK, SocketsTypeOK
  <2>2. ASSUME NEW c \in Conn PROVE ConnStream(c)'
    BY <1>0, <2>1, <2>2, SameStream
  <2>3. QED
    BY <2>2
<1>3. CASE Accept
  <2>1. /\ down' = down
        /\ Head(queue) \in Conn /\ srv[Head(queue)] = "queued"
        /\ srv' = [srv EXCEPT ![Head(queue)] = "open"]
    BY <1>3, AcceptQueue DEF Accept, StreamInv, IInv, TypeOK
  <2>2. ASSUME NEW c \in Conn PROVE srv'[c] # "none" => srv[c] # "none"
    BY <2>1 DEF IInv, TypeOK, SocketsTypeOK
  <2>3. ASSUME NEW c \in Conn PROVE ConnStream(c)'
    BY <1>0, <2>1, <2>2, <2>3, SameStream
  <2>4. QED
    BY <2>3
<1>4. ASSUME NEW d \in Conn, NEW bytes \in Messages, srv[d] = "open", Send(d, bytes)
      PROVE  \A c \in Conn : ConnStream(c)'
  <2>1. PICK p \in Packet : bytes = Bytes(p)
    BY DEF Messages
  <2>2. SubSeq(Bytes(p), 1, SBUFLEN) = Bytes(p) /\ SBUFLEN \in Place
    BY BytesOfPacket, ClientAssumption DEF Place
  <2>3. /\ cli[d] = "open" /\ srv' = srv
        /\ down' = [down EXCEPT ![d] = @ \o SubSeq(Bytes(p), 1, SBUFLEN)]
    BY <1>4, <2>1, <2>2 DEF Send
  <2>4. QED
    BY <1>0, <1>4, <2>2, <2>3, SendStream
<1>5. CASE ServerDies({c \in Conn : srv[c] = "open"}, Messages)
  <2>1. \A c \in Conn : srv'[c] = "none"
    BY <1>5 DEF ServerDies
  <2>2. CASE down' = down
    <3>1. ASSUME NEW c \in Conn PROVE ConnStream(c)'
      BY <1>0, <2>1, <2>2, <3>1, SameStream
    <3>2. QED
      BY <3>1
  <2>3. ASSUME NEW d \in Conn, srv[d] = "open", NEW bytes \in Messages,
               NEW k \in 1 .. Len(bytes), SentPart(d, bytes, k)
        PROVE  \A c \in Conn : ConnStream(c)'
    <3>1. PICK p \in Packet : bytes = Bytes(p)
      BY DEF Messages
    <3>2. k \in Place
      BY <3>1, BytesOfPacket DEF Place
    <3>3. /\ cli[d] = "open"
          /\ down' = [down EXCEPT ![d] = @ \o SubSeq(Bytes(p), 1, k)]
      BY <2>3, <3>1 DEF SentPart
    <3>4. QED
      BY <1>0, <2>1, <2>3, <3>2, <3>3, SendStream
  <2>4. QED
    BY <1>5, <2>2, <2>3 DEF ServerDies
<1>6. QED
  BY <1>1, <1>2, <1>3, <1>4, <1>5

LEMMA StreamPeer == ASSUME IInv, StreamInv, Peer PROVE StreamInv'
<1>1. UNCHANGED << reader, m_status, m_sockfd, tmpbuf, m_buffer, cli >>
  BY ServerCallType DEF Peer, clientVars, IInv, TypeOK
<1>2. CollectInv' /\ WholePackets'
  BY <1>1 DEF StreamInv, CollectInv, Partial, WholePackets
<1>3. QED
  BY <1>2, PeerQueue, PeerStream DEF StreamInv

-----------------------------------------------------------------------------

LEMMA NextStream == IInv /\ StreamInv /\ [Next]_vars => StreamInv'
<1>. SUFFICES ASSUME IInv, StreamInv, [Next]_vars PROVE StreamInv'
  OBVIOUS
<1>1. CASE Reader
  <2>1. CASE ShutdownSocket
    <3>1. m_sockfd \in Conn
      BY <2>1 DEF ShutdownSocket, Goto, IInv, SocketInv, Holding
    <3>2. QED
      BY <2>1, <3>1, StreamShut DEF ShutdownSocket, Goto
  <2>2. CASE CloseSocket
    <3>1. m_sockfd \in Conn
      BY <2>2 DEF CloseSocket, Goto, IInv, SocketInv, Holding
    <3>2. QED
      BY <2>2, <3>1, StreamClose DEF CloseSocket, Goto
  <2>3. ASSUME NEW k \in 1 .. SBUFLEN, ReadBytes(k) PROVE StreamInv'
    BY <2>3, StreamRead
  <2>4. QED
    BY <1>1, <2>1, <2>2, <2>3, StreamQuietReader, StreamTop, StreamSocket, StreamConnect,
       StreamForget DEF Reader, ReaderProgress
<1>2. CASE ClearBuffer \/ Quit \/ Destructor
  <2>1. CASE WakeReader
    <3>1. CASE fd = NoFd
      <4>1. UNCHANGED << m_sockfd, tmpbuf, m_buffer, reader, m_status, net >>
        BY <2>1, <3>1 DEF WakeReader, DtorGoto
      <4>2. CollectInv' /\ WholePackets'
        BY <4>1 DEF StreamInv, CollectInv, Partial, WholePackets, net
      <4>3. QED
        BY <4>1, <4>2, StillStream DEF StreamInv
    <3>2. CASE fd # NoFd
      <4>1. fd \in Conn
        BY <3>2 DEF IInv, TypeOK
      <4>2. QED
        BY <2>1, <3>2, <4>1, StreamShut DEF WakeReader, DtorGoto
    <3>3. QED
      BY <3>1, <3>2
  <2>2. CASE CloseLast
    <3>1. reader = "done" /\ reader' = "done"
      BY <2>2 DEF CloseLast, DtorGoto, IInv, HandShake
    <3>2. CASE m_sockfd = NoFd
      <4>1. UNCHANGED << m_sockfd, tmpbuf, m_buffer, reader, m_status, net >>
        BY <2>2, <3>2 DEF CloseLast, DtorGoto
      <4>2. CollectInv' /\ WholePackets'
        BY <4>1 DEF StreamInv, CollectInv, Partial, WholePackets, net
      <4>3. QED
        BY <4>1, <4>2, StillStream DEF StreamInv
    <3>3. CASE m_sockfd # NoFd
      <4>1. m_sockfd \in Conn
        BY <3>3 DEF IInv, TypeOK
      <4>2. QED
        BY <2>2, <3>1, <3>3, <4>1, StreamClose DEF CloseLast, DtorGoto
    <3>4. QED
      BY <3>2, <3>3
  <2>3. QED
    BY <1>2, <2>1, <2>2, StreamQuietMain DEF Destructor
<1>3. CASE Restart
  BY <1>3, StreamRestart
<1>4. CASE Peer
  BY <1>4, StreamPeer
<1>5. CASE UNCHANGED vars
  <2>1. UNCHANGED << m_sockfd, tmpbuf, m_buffer, reader, m_status, net >>
    BY <1>5 DEF vars, clientVars
  <2>2. CollectInv' /\ WholePackets'
    BY <2>1 DEF StreamInv, CollectInv, Partial, WholePackets, net
  <2>3. QED
    BY <2>1, <2>2, StillStream DEF StreamInv
<1>6. QED
  BY <1>1, <1>2, <1>3, <1>4, <1>5 DEF Next, Client

\* The window sees whole packets, their bytes in order, however read() cuts
\* the stream and wherever a connection breaks off (tcpservice.cpp:61-85).
THEOREM ClientWholePackets == Spec => []WholePackets
<1>1. StreamInv => WholePackets
  BY DEF StreamInv
<1>2. QED
  BY <1>1, InitStream, NextStream, SpecIInv, PTL DEF Spec

=============================================================================
