--------------------------- MODULE TCPServerProofs ---------------------------
(***************************************************************************)
(* TCPServer proved for any number of connections, any backlog and any     *)
(* packets: types, and that the service holds no socket but the one it     *)
(* serves, none at all once its destructor has returned.                   *)
(*                                                                         *)
(* The hard half is the second one.  close() on the listening socket does  *)
(* not stop a worker that is blocked in accept(): the socket, and whoever  *)
(* is queued on it, stays until accept() returns.  ListenerInv says when   *)
(* that can be: only if the worker began to listen after the destructor    *)
(* had cleared m_is_running and shut the socket down, hence with           *)
(* m_is_running set again after it, and then the worker never ends, so     *)
(* that the destructor does not return.                                    *)
(*                                                                         *)
(* The first part is about the sockets alone: every call keeps their types *)
(* and the order of the queue, and a call of the server program leaves the *)
(* client ends alone.  TCPClientProofs takes it from here.                 *)
(***************************************************************************)
EXTENDS TCPServer, TLAPS

-----------------------------------------------------------------------------
(* The calls on the sockets. *)

LEMMA SocketsInitType == SocketsInit => SocketsTypeOK
  BY DEF SocketsInit, SocketsTypeOK

\* The client's calls, but for connect(), leave the queue and the server
\* ends' states alone.
LEMMA ClientCallType ==
  ASSUME SocketsTypeOK, NEW c \in Conn,
         \/ OpenClient(c)
         \/ ShutClient(c)
         \/ CloseClient(c)
         \/ ClientDies
         \/ \E k \in Nat : Take(c, k)
  PROVE  SocketsTypeOK'
<1>1. CASE OpenClient(c)
  BY <1>1 DEF OpenClient, SocketsTypeOK
<1>2. CASE ShutClient(c)
  BY <1>2 DEF ShutClient, SocketsTypeOK
<1>3. CASE CloseClient(c)
  BY <1>3 DEF CloseClient, SocketsTypeOK
<1>4. CASE ClientDies
  BY <1>4 DEF ClientDies, SocketsTypeOK
<1>5. ASSUME NEW k \in Nat, Take(c, k) PROVE SocketsTypeOK'
  BY <1>5 DEF Take, SocketsTypeOK
<1>6. QED
  BY <1>1, <1>2, <1>3, <1>4, <1>5

LEMMA ConnectType ==
  ASSUME SocketsTypeOK, NEW c \in Conn, Connect(c)
  PROVE  SocketsTypeOK'
<1>1. Append(queue, c) \in Seq(Conn)
  BY DEF SocketsTypeOK
<1>2. QED
  BY <1>1 DEF Connect, SocketsTypeOK

LEMMA StopListeningType ==
  ASSUME SocketsTypeOK, NEW state \in {"shut", "none"}, StopListening(state)
  PROVE  SocketsTypeOK' /\ cli' = cli
  BY DEF StopListening, SocketsTypeOK

LEMMA AcceptType ==
  ASSUME SocketsTypeOK, Accept
  PROVE  SocketsTypeOK' /\ cli' = cli
<1>1. Tail(queue) \in Seq(Conn)
  BY DEF SocketsTypeOK, Accept
<1>2. QED
  BY <1>1 DEF Accept, SocketsTypeOK

\* What the server programs do, whatever they send.
LEMMA ServerCallType ==
  ASSUME SocketsTypeOK, NEW messages, ServerCall(messages)
  PROVE  SocketsTypeOK' /\ cli' = cli
<1>1. CASE Bind \/ Listen
  BY <1>1 DEF Bind, Listen, SocketsTypeOK
<1>2. ASSUME NEW state \in {"shut", "none"}, StopListening(state)
      PROVE  SocketsTypeOK' /\ cli' = cli
  BY <1>2, StopListeningType
<1>3. CASE Accept
  BY <1>3, AcceptType
<1>4. ASSUME NEW c \in Conn, NEW bytes \in messages, Send(c, bytes)
      PROVE  SocketsTypeOK' /\ cli' = cli
  BY <1>4 DEF Send, SocketsTypeOK
<1>5. ASSUME NEW c \in Conn, SendLost(c) \/ CloseServer(c)
      PROVE  SocketsTypeOK' /\ cli' = cli
  BY <1>5 DEF SendLost, CloseServer, SocketsTypeOK
<1>6. CASE ServerDies({c \in Conn : srv[c] = "open"}, messages)
  BY <1>6 DEF ServerDies, SentPart, SocketsTypeOK
<1>7. QED
  BY <1>1, <1>2, <1>3, <1>4, <1>5, <1>6 DEF ServerCall

LEMMA SocketsInitQueue == SocketsInit => QueueInv
  BY DEF SocketsInit, QueueInv

\* accept() hands out a connection that was in no other place, and keeps the
\* rest of the queue.
LEMMA AcceptQueue ==
  ASSUME SocketsTypeOK, QueueInv, Accept
  PROVE  /\ QueueInv'
         /\ Head(queue) \in Conn /\ srv[Head(queue)] = "queued"
         /\ srv' = [srv EXCEPT ![Head(queue)] = "open"]
<1>1. /\ queue \in Seq(Conn) /\ Len(queue) \in Nat /\ Len(queue) > 0
      /\ Head(queue) = queue[1] /\ queue[1] \in Conn
  BY DEF SocketsTypeOK, Accept
<1>2. /\ queue' = Tail(queue) /\ Len(queue') = Len(queue) - 1
      /\ \A i \in 1 .. Len(queue') : queue'[i] = queue[i + 1]
  BY <1>1 DEF Accept
<1>3. /\ srv' = [srv EXCEPT ![queue[1]] = "open"]
      /\ UNCHANGED << listener, cli >>
  BY <1>1 DEF Accept
<1>4. srv[queue[1]] = "queued"
  BY <1>1 DEF QueueInv
<1>5. \A i \in 1 .. Len(queue') : i + 1 \in 1 .. Len(queue) /\ queue[i + 1] \in Conn
                                   /\ queue[i + 1] # queue[1]
  BY <1>1, <1>2 DEF QueueInv
<1>6. \A i \in 1 .. Len(queue') : srv'[queue'[i]] = "queued"
  BY <1>2, <1>3, <1>5 DEF QueueInv, SocketsTypeOK
<1>7. \A i, j \in 1 .. Len(queue') : queue'[i] = queue'[j] => i = j
  <2>. SUFFICES ASSUME NEW i \in 1 .. Len(queue'), NEW j \in 1 .. Len(queue'),
                       queue'[i] = queue'[j]
                PROVE  i = j
    OBVIOUS
  <2>1. i \in Nat /\ j \in Nat
    BY <1>1, <1>2
  <2>2. i + 1 = j + 1
    BY <1>2, <1>5 DEF QueueInv
  <2>3. QED
    BY <2>1, <2>2
<1>8. /\ \A c \in Conn : cli'[c] = "fresh" => srv'[c] = "none"
      /\ \A c \in Conn : srv'[c] = "queued" => listener' = "listening"
  BY <1>1, <1>3, <1>4 DEF QueueInv, SocketsTypeOK
<1>9. QED
  BY <1>1, <1>3, <1>4, <1>6, <1>7, <1>8 DEF QueueInv

\* connect() puts a connection at the end of the queue.
LEMMA ConnectQueue ==
  ASSUME SocketsTypeOK, QueueInv, NEW c \in Conn, cli[c] = "fresh", Connect(c)
  PROVE  QueueInv'
<1>1. /\ queue \in Seq(Conn) /\ Len(queue) \in Nat
      /\ \A i \in 1 .. Len(queue) : queue[i] \in Conn /\ queue[i] # c
  BY DEF SocketsTypeOK, QueueInv
<1>2. /\ queue' = Append(queue, c) /\ Len(queue') = Len(queue) + 1
      /\ \A i \in 1 .. Len(queue) : queue'[i] = queue[i]
      /\ queue'[Len(queue) + 1] = c
  BY <1>1 DEF Connect
<1>3. /\ srv' = [srv EXCEPT ![c] = "queued"] /\ cli' = [cli EXCEPT ![c] = "open"]
      /\ listener = "listening" /\ UNCHANGED listener
  BY DEF Connect
<1>4. \A i \in 1 .. Len(queue') : i \in 1 .. Len(queue) \/ i = Len(queue) + 1
  BY <1>1, <1>2
<1>5. \A i \in 1 .. Len(queue') : srv'[queue'[i]] = "queued"
  BY <1>1, <1>2, <1>3, <1>4 DEF QueueInv, SocketsTypeOK
<1>6. \A i, j \in 1 .. Len(queue') : queue'[i] = queue'[j] => i = j
  BY <1>1, <1>2, <1>4 DEF QueueInv
<1>7. /\ \A d \in Conn : cli'[d] = "fresh" => srv'[d] = "none"
      /\ \A d \in Conn : srv'[d] = "queued" => listener' = "listening"
  BY <1>3 DEF QueueInv, SocketsTypeOK
<1>8. QED
  BY <1>5, <1>6, <1>7 DEF QueueInv

\* Stopping to listen empties the queue and leaves nobody queued.
LEMMA StopListeningQueue ==
  ASSUME SocketsTypeOK, QueueInv, NEW state, StopListening(state)
  PROVE  QueueInv'
<1>1. queue' = << >> /\ Len(queue') = 0
  BY DEF StopListening
<1>2. /\ \A c \in Conn : srv'[c] = IF srv[c] = "queued" THEN "none" ELSE srv[c]
      /\ UNCHANGED cli
  BY DEF StopListening
<1>3. QED
  BY <1>1, <1>2 DEF QueueInv

\* The calls of the server on a connection it has accepted, and the ones that
\* set the listening socket up.
LEMMA ServerCallQueue ==
  ASSUME SocketsTypeOK, QueueInv,
         \/ listener = "none" /\ Bind
         \/ Listen
         \/ \E c \in Conn : /\ srv[c] = "open"
                            /\ (\E bytes : Send(c, bytes)) \/ SendLost(c) \/ CloseServer(c)
         \/ \E sending, messages : ServerDies(sending, messages)
  PROVE  QueueInv'
<1>0. /\ queue \in Seq(Conn) /\ \A i \in 1 .. Len(queue) : queue[i] \in Conn
  BY DEF SocketsTypeOK
<1>1. CASE listener = "none" /\ Bind
  BY <1>1 DEF Bind, QueueInv
<1>2. CASE Listen
  BY <1>2 DEF Listen, QueueInv
<1>3. ASSUME NEW c \in Conn, (\E bytes : Send(c, bytes)) \/ SendLost(c)
      PROVE  QueueInv'
  BY <1>3 DEF Send, SendLost, QueueInv
<1>4. ASSUME NEW c \in Conn, srv[c] = "open", CloseServer(c)
      PROVE  QueueInv'
  BY <1>0, <1>4 DEF CloseServer, QueueInv, SocketsTypeOK
<1>5. ASSUME NEW sending, NEW messages, ServerDies(sending, messages)
      PROVE  QueueInv'
  <2>1. queue' = << >> /\ Len(queue') = 0 /\ \A c \in Conn : srv'[c] = "none"
    BY <1>5 DEF ServerDies
  <2>2. QED
    BY <2>1 DEF QueueInv
<1>6. QED
  BY <1>1, <1>2, <1>3, <1>4, <1>5

\* The calls of a client on its connection.
LEMMA ClientCallQueue ==
  ASSUME SocketsTypeOK, QueueInv, NEW c \in Conn, ClientCall(c)
  PROVE  SocketsTypeOK' /\ QueueInv'
<1>1. CASE OpenClient(c)
  BY <1>1, ClientCallType DEF OpenClient, Unused, QueueInv, SocketsTypeOK
<1>2. CASE cli[c] = "fresh" /\ Connect(c)
  BY <1>2, ConnectType, ConnectQueue
<1>3. CASE ShutClient(c)
  BY <1>3, ClientCallType DEF ShutClient, QueueInv, SocketsTypeOK
<1>4. CASE CloseClient(c)
  BY <1>4, ClientCallType DEF CloseClient, QueueInv, SocketsTypeOK
<1>5. ASSUME NEW k \in 1 .. Len(down[c]), Take(c, k)
      PROVE  SocketsTypeOK' /\ QueueInv'
  BY <1>5 DEF Take, QueueInv, SocketsTypeOK
<1>6. QED
  BY <1>1, <1>2, <1>3, <1>4, <1>5 DEF ClientCall

-----------------------------------------------------------------------------
(* The service. *)

\* The worker holds the connection it serves, and it is a connection.
WorkerInv ==
  /\ worker \in Serving => connfd \in Conn
  /\ \A c \in Conn : srv[c] = "open" <=> worker \in Serving /\ c = connfd

\* Where the destructor is, and what is left of the listening socket there.
ListenerInv ==
  /\ main = "ctor" => m_sockfd = "unset"
  /\ m_sockfd = "unset" => worker = "none" /\ listener = "none"
  /\ m_sockfd = "closed" => main \in {"wait", "gone"}
  /\ main \in {"shutdown", "close"} => m_sockfd = "open"
  /\ main \in {"wait", "gone"} => m_sockfd # "open"
  /\ main = "close" /\ listener = "listening" => worker = "setRunning" \/ m_is_running
  /\ main \in {"wait", "gone"} /\ listener # "none" =>
       m_is_running /\ worker \in {"accept", "blocked", "failed"} \cup Serving
  /\ main = "gone" => worker \in {"none", "done"}

IInv == TypeOK /\ QueueInv /\ WorkerInv /\ ListenerInv

\* The states are expanded everywhere.
USE DEF MainState, WorkerState, Serving

LEMMA InitIInv == Init => IInv
<1>. SUFFICES ASSUME Init PROVE IInv
  OBVIOUS
<1>1. TypeOK
  BY SocketsInitType, ServerAssumption DEF Init, ServerInit, Started, TypeOK
<1>2. QueueInv
  BY SocketsInitQueue DEF Init
<1>3. WorkerInv /\ ListenerInv
  BY DEF Init, ServerInit, Started, SocketsInit, WorkerInv, ListenerInv
<1>4. QED
  BY <1>1, <1>2, <1>3 DEF IInv

-----------------------------------------------------------------------------
(* The steps of the main thread. *)

\* The steps that leave the sockets alone.
LEMMA QuietMainStep ==
  ASSUME IInv,
         ConstructFails \/ (\E p \in Packet : SetBuffer(p)) \/ Quit \/ StopRunning \/ Wait
  PROVE  IInv'
<1>. USE DEF ConstructFails, SetBuffer, Quit, StopRunning, Wait, MainGoto, MainPass, net
<1>1. TypeOK'
  <2>1. SocketsTypeOK'
    BY DEF IInv, TypeOK, SocketsTypeOK
  <2>2. main' \in MainState /\ m_buf' \in Packet /\ UNCHANGED << worker, m_sockfd, temp_buf, connfd >>
    BY DEF IInv, TypeOK
  <2>3. m_is_running' \in BOOLEAN /\ fatal' \in BOOLEAN
    BY DEF IInv, TypeOK
  <2>4. QED
    BY <2>1, <2>2, <2>3 DEF IInv, TypeOK
<1>2. QueueInv'
  BY DEF IInv, QueueInv
<1>3. WorkerInv'
  BY DEF IInv, WorkerInv
<1>4. ListenerInv'
  <2>1. CASE ConstructFails \/ (\E p \in Packet : SetBuffer(p)) \/ Quit
    BY <2>1 DEF IInv, ListenerInv
  <2>2. CASE StopRunning
    BY <2>2 DEF IInv, TypeOK, ListenerInv
  <2>3. CASE Wait
    BY <2>3 DEF IInv, ListenerInv
  <2>4. QED
    BY <2>1, <2>2, <2>3
<1>5. QED
  BY <1>1, <1>2, <1>3, <1>4 DEF IInv

\* socket(), bind() in the constructor.
LEMMA ConstructStep == ASSUME IInv, Construct PROVE IInv'
<1>1. listener = "none" /\ worker = "none"
  BY DEF IInv, ListenerInv, Construct, MainGoto
<1>2. TypeOK'
  BY DEF IInv, TypeOK, SocketsTypeOK, Construct, MainGoto, Bind
<1>3. QueueInv'
  BY <1>1, ServerCallQueue DEF IInv, TypeOK, Construct
<1>4. WorkerInv' /\ ListenerInv'
  BY <1>1 DEF IInv, WorkerInv, ListenerInv, Construct, MainGoto, Bind
<1>5. QED
  BY <1>2, <1>3, <1>4 DEF IInv

\* shutdown() and close() of the listening socket: either leaves it, or stops
\* listening, and close() leaves it only to a worker that runs.
LEMMA StopListenerStep == ASSUME IInv, ShutdownListener \/ CloseSocket PROVE IInv'
<1>1. /\ \/ UNCHANGED net
         \/ \E state \in {"shut", "none"} : StopListening(state)
      /\ ShutdownListener => listener' # "listening"
      /\ CloseSocket => listener' = "none" \/ (worker = "blocked" /\ listener = "listening")
      /\ m_sockfd = "open"
  BY DEF IInv, ListenerInv, ShutdownListener, ShutListener, CloseSocket, CloseListener,
         StopListening, MainGoto, net
<1>2. SocketsTypeOK' /\ QueueInv'
  <2>1. CASE UNCHANGED net
    BY <2>1 DEF IInv, TypeOK, SocketsTypeOK, QueueInv, net
  <2>2. ASSUME NEW state \in {"shut", "none"}, StopListening(state)
        PROVE  SocketsTypeOK' /\ QueueInv'
    BY <2>2, StopListeningType, StopListeningQueue DEF IInv, TypeOK
  <2>3. QED
    BY <1>1, <2>1, <2>2
<1>3. TypeOK'
  BY <1>2 DEF IInv, TypeOK, ShutdownListener, CloseSocket, MainGoto
<1>4. \A c \in Conn : srv'[c] = "open" <=> srv[c] = "open"
  BY <1>1 DEF StopListening, net
<1>5. WorkerInv'
  BY <1>4 DEF IInv, WorkerInv, ShutdownListener, CloseSocket, MainGoto
<1>6. ListenerInv'
  BY <1>1 DEF IInv, TypeOK, ListenerInv, ShutdownListener, CloseSocket, MainGoto
<1>7. QED
  BY <1>2, <1>3, <1>5, <1>6 DEF IInv

-----------------------------------------------------------------------------
(* The steps of the worker. *)

\* The steps that leave the sockets alone.
LEMMA QuietWorkerStep ==
  ASSUME IInv,
         \/ ListenFails \/ SetRunning \/ CallAccept \/ AcceptFails \/ RetryAccept
         \/ CheckRunning \/ Snapshot \/ ConnectionLost
  PROVE  IInv'
<1>. USE DEF ListenFails, SetRunning, CallAccept, AcceptFails, RetryAccept, CheckRunning,
             Snapshot, ConnectionLost, Goto, Pass, net
<1>1. TypeOK'
  <2>1. SocketsTypeOK'
    BY DEF IInv, TypeOK, SocketsTypeOK
  <2>2. worker' \in WorkerState /\ temp_buf' \in Packet /\ UNCHANGED << main, m_sockfd, m_buf, connfd >>
    BY DEF IInv, TypeOK
  <2>3. m_is_running' \in BOOLEAN /\ fatal' \in BOOLEAN
    BY DEF IInv, TypeOK
  <2>4. QED
    BY <2>1, <2>2, <2>3 DEF IInv, TypeOK
<1>2. QueueInv'
  BY DEF IInv, QueueInv
<1>3. WorkerInv'
  BY DEF IInv, WorkerInv
<1>4. ListenerInv'
  BY DEF IInv, TypeOK, ListenerInv
<1>5. QED
  BY <1>1, <1>2, <1>3, <1>4 DEF IInv

\* listen().
LEMMA ListenStep == ASSUME IInv, ListenSucceeds PROVE IInv'
<1>. USE DEF ListenSucceeds, Goto
<1>1. TypeOK'
  BY DEF IInv, TypeOK, SocketsTypeOK, Listen
<1>2. QueueInv'
  BY ServerCallQueue DEF IInv, TypeOK
<1>3. WorkerInv' /\ ListenerInv'
  BY DEF IInv, WorkerInv, ListenerInv, Listen
<1>4. QED
  BY <1>1, <1>2, <1>3 DEF IInv

\* accept() on a descriptor that is closed or does not listen.
LEMMA CallAcceptFailsStep == ASSUME IInv, CallAcceptFails PROVE IInv'
<1>. USE DEF CallAcceptFails, Goto
<1>1. UNCHANGED net \/ StopListening("none")
  OBVIOUS
<1>2. SocketsTypeOK' /\ QueueInv'
  <2>1. CASE UNCHANGED net
    BY <2>1 DEF IInv, TypeOK, SocketsTypeOK, QueueInv, net
  <2>2. CASE StopListening("none")
    BY <2>2, StopListeningType, StopListeningQueue DEF IInv, TypeOK
  <2>3. QED
    BY <1>1, <2>1, <2>2
<1>3. TypeOK'
  BY <1>2 DEF IInv, TypeOK
<1>4. \A c \in Conn : srv'[c] = "open" <=> srv[c] = "open"
  BY <1>1 DEF StopListening, net
<1>5. WorkerInv'
  BY <1>4 DEF IInv, WorkerInv
<1>6. ListenerInv'
  BY <1>1 DEF IInv, TypeOK, ListenerInv, StopListening, net
<1>7. QED
  BY <1>2, <1>3, <1>5, <1>6 DEF IInv

\* accept() returns the oldest connection.
LEMMA AcceptedStep == ASSUME IInv, Accepted PROVE IInv'
<1>. USE DEF Accepted, Goto
<1>1. /\ SocketsTypeOK' /\ QueueInv'
      /\ Head(queue) \in Conn
      /\ srv' = [srv EXCEPT ![Head(queue)] = "open"]
      /\ listener' = listener
  BY AcceptType, AcceptQueue DEF IInv, TypeOK, Accept
<1>2. TypeOK'
  BY <1>1 DEF IInv, TypeOK
<1>3. WorkerInv'
  BY <1>1 DEF IInv, TypeOK, SocketsTypeOK, WorkerInv
<1>4. ListenerInv'
  BY <1>1 DEF IInv, ListenerInv
<1>5. QED
  BY <1>1, <1>2, <1>3, <1>4 DEF IInv

\* send() and close() on the connection that is served.
LEMMA ServeStep == ASSUME IInv, SendSucceeds \/ CloseConnection PROVE IInv'
<1>. USE DEF SendSucceeds, CloseConnection, Goto
<1>1. connfd \in Conn /\ srv[connfd] = "open"
  BY DEF IInv, WorkerInv
<1>2. SocketsTypeOK'
  BY <1>1 DEF IInv, TypeOK, SocketsTypeOK, Send, SendLost, CloseServer
<1>3. QueueInv'
  BY <1>1, ServerCallQueue DEF IInv, TypeOK
<1>4. TypeOK'
  BY <1>2 DEF IInv, TypeOK
<1>5. WorkerInv'
  BY <1>1 DEF IInv, TypeOK, SocketsTypeOK, WorkerInv, Send, SendLost, CloseServer
<1>6. ListenerInv'
  BY DEF IInv, ListenerInv, Send, SendLost, CloseServer
<1>7. QED
  BY <1>3, <1>4, <1>5, <1>6 DEF IInv

-----------------------------------------------------------------------------
(* The process and its peers. *)

LEMMA RestartStep == ASSUME IInv, Restart PROVE IInv'
<1>1. PICK sending, messages : ServerDies(sending, messages)
  BY DEF Restart
<1>2. SocketsTypeOK'
  BY <1>1 DEF IInv, TypeOK, SocketsTypeOK, ServerDies, SentPart
<1>3. QueueInv'
  BY <1>1, ServerCallQueue DEF IInv, TypeOK
<1>4. TypeOK'
  BY <1>2, ServerAssumption DEF Restart, TypeOK
<1>5. WorkerInv' /\ ListenerInv'
  BY <1>1 DEF Restart, ServerDies, WorkerInv, ListenerInv
<1>6. QED
  BY <1>3, <1>4, <1>5 DEF IInv

LEMMA PeerStep == ASSUME IInv, Peer PROVE IInv'
<1>1. PICK c \in Conn : ClientCall(c)
  BY DEF Peer
<1>2. UNCHANGED serverVars
  BY DEF Peer
<1>3. SocketsTypeOK' /\ QueueInv'
  BY <1>1, ClientCallQueue DEF IInv, TypeOK
<1>4. TypeOK'
  BY <1>2, <1>3 DEF IInv, TypeOK, serverVars
<1>5. /\ \A d \in Conn : srv'[d] = "open" <=> srv[d] = "open"
      /\ listener' = listener
  BY <1>1 DEF IInv, TypeOK, SocketsTypeOK, QueueInv, ClientCall, OpenClient, Connect,
              ShutClient, CloseClient, Take
<1>6. WorkerInv'
  BY <1>2, <1>5 DEF IInv, WorkerInv, serverVars
<1>7. ListenerInv'
  BY <1>2, <1>5 DEF IInv, ListenerInv, serverVars
<1>8. QED
  BY <1>3, <1>4, <1>6, <1>7 DEF IInv

LEMMA NextIInv == IInv /\ [Next]_vars => IInv'
<1>. SUFFICES ASSUME IInv, [Next]_vars PROVE IInv'
  OBVIOUS
<1>1. CASE Main
  BY <1>1, QuietMainStep, ConstructStep, StopListenerStep DEF Main, Destructor
<1>2. CASE Worker
  BY <1>2, QuietWorkerStep, ListenStep, CallAcceptFailsStep, AcceptedStep, ServeStep
     DEF Worker, WorkerProgress, AcceptWoken
<1>3. CASE Restart
  BY <1>3, RestartStep
<1>4. CASE Peer
  BY <1>4, PeerStep
<1>5. CASE UNCHANGED vars
  BY <1>5 DEF vars, serverVars, net, IInv, TypeOK, SocketsTypeOK, QueueInv, WorkerInv,
              ListenerInv
<1>6. QED
  BY <1>1, <1>2, <1>3, <1>4, <1>5 DEF Next, Server

LEMMA SpecIInv == Spec => []IInv
  BY InitIInv, NextIInv, PTL DEF Spec

-----------------------------------------------------------------------------

\* Every variable keeps its type, for every number of clients
\* (desktop/server/src/tcpservice.cpp).
THEOREM ServerTypeCorrect == Spec => []TypeOK
<1>1. IInv => TypeOK
  BY DEF IInv
<1>2. QED
  BY <1>1, SpecIInv, PTL

\* The service holds the connection it serves and no other, whichever call
\* failed, and once its destructor has returned it holds no socket at all.
THEOREM ServerLeaksNoSocket == Spec => []NoLeakedSocket
<1>1. IInv => NoLeakedSocket
  <2>. SUFFICES ASSUME IInv PROVE NoLeakedSocket
    OBVIOUS
  <2>1. {c \in Conn : srv[c] = "open"} = IF worker \in Serving THEN {connfd} ELSE {}
    BY DEF IInv, WorkerInv
  <2>2. ASSUME main = "gone"
        PROVE  listener = "none" /\ \A c \in Conn : srv[c] = "none"
    <3>1. worker \in {"none", "done"} /\ listener = "none"
      BY <2>2 DEF IInv, ListenerInv
    <3>2. \A c \in Conn : srv[c] \in {"none", "queued", "open"}
      BY DEF IInv, TypeOK, SocketsTypeOK
    <3>3. QED
      BY <3>1, <3>2 DEF IInv, WorkerInv, QueueInv
  <2>3. QED
    BY <2>1, <2>2 DEF NoLeakedSocket
<1>2. QED
  BY <1>1, SpecIInv, PTL

=============================================================================
