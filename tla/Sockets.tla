------------------------------- MODULE Sockets -------------------------------
(***************************************************************************)
(* The stream sockets both desktop programs talk through: one listening    *)
(* socket, its queue of connections not yet accepted, and a connection per *)
(* member of Conn with a client end and a server end.  This is the         *)
(* kernel's part, modelled from how desktop/server/src/tcpservice.cpp and  *)
(* desktop/client/src/tcpservice.cpp use it (Linux loopback TCP); an       *)
(* operator here is the effect of one system call that returns at once.    *)
(* A call that blocks is a program counter of its caller and an operator   *)
(* that is not enabled.                                                    *)
(*                                                                         *)
(* Only the server sends, so a connection carries bytes one way.  An end   *)
(* that was closed is "none"; a connection with no end left is unused and  *)
(* its identity, like a file descriptor, is handed out again.              *)
(***************************************************************************)
EXTENDS Naturals, Sequences

CONSTANTS
  Conn,      (* the identities of connections                            *)
  N_CONNS,   (* the backlog given to listen()                            *)
  Cap        (* bytes a connection holds before send() blocks            *)

ASSUME SocketsAssumption == N_CONNS \in Nat /\ Cap \in Nat

VARIABLES
  listener,  (* the listening socket                                     *)
  queue,     (* connections established but not accepted, oldest first   *)
  cli,       (* the client end of each connection                        *)
  srv,       (* the server end of each connection                        *)
  down,      (* bytes the client has yet to read                         *)
  rst        (* the server end has been told its peer is gone            *)

net == << listener, queue, cli, srv, down, rst >>

SocketsInit ==
  /\ listener = "none"
  /\ queue = << >>
  /\ cli  = [c \in Conn |-> "none"]
  /\ srv  = [c \in Conn |-> "none"]
  /\ down = [c \in Conn |-> << >>]
  /\ rst  = [c \in Conn |-> FALSE]

SocketsTypeOK ==
  /\ listener \in {"none", "bound", "listening", "shut"}
  /\ queue \in Seq(Conn)
  /\ cli \in [Conn -> {"none", "fresh", "open", "shut"}]
  /\ srv \in [Conn -> {"none", "queued", "open"}]
  /\ DOMAIN down = Conn
  /\ rst \in [Conn -> BOOLEAN]

\* What waits in the queue waits there once and only while the socket listens,
\* and a descriptor that is not yet connected has no server end.
QueueInv ==
  /\ \A i \in 1 .. Len(queue) : srv[queue[i]] = "queued"
  /\ \A i, j \in 1 .. Len(queue) : queue[i] = queue[j] => i = j
  /\ \A c \in Conn : cli[c] = "fresh" => srv[c] = "none"
  /\ \A c \in Conn : srv[c] = "queued" => listener = "listening"

Unused(c) == cli[c] = "none" /\ srv[c] = "none"

-----------------------------------------------------------------------------
(* The client's calls. *)

\* socket() on the client, once c is the descriptor it returned.
OpenClient(c) ==
  /\ Unused(c)
  /\ cli' = [cli EXCEPT ![c] = "fresh"]
  /\ UNCHANGED << listener, queue, srv, down, rst >>

\* Linux queues one connection more than the backlog.
QueueFull == Len(queue) > N_CONNS

\* connect() succeeds as soon as the kernel has queued the connection,
\* whether or not the server ever accepts it.
Connect(c) ==
  /\ listener = "listening"
  /\ ~QueueFull
  /\ cli'   = [cli EXCEPT ![c] = "open"]
  /\ srv'   = [srv EXCEPT ![c] = "queued"]
  /\ queue' = Append(queue, c)
  /\ UNCHANGED << listener, down, rst >>

\* connect() is refused by a socket that does not listen, and times out on
\* one whose queue stays full.
ConnectFails == listener # "listening" \/ QueueFull

\* shutdown(SHUT_RDWR) on a client end: no effect unless it is connected.
ShutClient(c) ==
  /\ cli' = [cli EXCEPT ![c] = IF @ = "open" THEN "shut" ELSE @]
  /\ UNCHANGED << listener, queue, srv, down, rst >>

\* close() on a client end discards what was not read; discarding tells the
\* server end at once.
CloseClient(c) ==
  /\ cli'  = [cli EXCEPT ![c] = "none"]
  /\ down' = [down EXCEPT ![c] = << >>]
  /\ rst'  = [rst EXCEPT ![c] = srv[c] # "none" /\ (@ \/ down[c] # << >>)]
  /\ UNCHANGED << listener, queue, srv >>

\* The end of the client process closes every descriptor it holds.
ClientDies ==
  /\ cli'  = [c \in Conn |-> "none"]
  /\ down' = [c \in Conn |-> << >>]
  /\ rst'  = [c \in Conn |-> srv[c] # "none" /\ (rst[c] \/ down[c] # << >>)]
  /\ UNCHANGED << listener, queue, srv >>

\* read() returns what has arrived, also after a shutdown or the peer's close.
Readable(c) == down[c] # << >>

Take(c, k) ==
  /\ down' = [down EXCEPT ![c] = SubSeq(@, k + 1, Len(@))]
  /\ UNCHANGED << listener, queue, cli, srv, rst >>

\* read() returns 0 or fails: nothing is left and an end was shut or closed.
AtEnd(c) == down[c] = << >> /\ (cli[c] # "open" \/ srv[c] = "none")

-----------------------------------------------------------------------------
(* The server's calls. *)

Bind ==
  /\ listener' = "bound"
  /\ UNCHANGED << queue, cli, srv, down, rst >>

Listen ==
  /\ listener' = "listening"
  /\ UNCHANGED << queue, cli, srv, down, rst >>

\* Stopping to listen resets the connections nobody accepted.
StopListening(state) ==
  /\ listener' = state
  /\ queue' = << >>
  /\ srv'   = [c \in Conn |-> IF srv[c] = "queued" THEN "none" ELSE srv[c]]
  /\ UNCHANGED << cli, down, rst >>

\* shutdown() wakes a blocked accept(); it does nothing to a socket that does
\* not listen.
ShutListener ==
  IF listener = "listening" THEN StopListening("shut") ELSE UNCHANGED net

\* close() gives the descriptor up, yet a thread still blocked in accept()
\* keeps the socket listening until it returns (keptByAccept).
CloseListener(keptByAccept) ==
  IF keptByAccept /\ listener = "listening"
  THEN UNCHANGED net
  ELSE StopListening("none")

\* accept() takes the oldest connection, its client still there or not.
Accept ==
  /\ queue # << >>
  /\ queue' = Tail(queue)
  /\ srv' = [srv EXCEPT ![Head(queue)] = "open"]
  /\ UNCHANGED << listener, cli, down, rst >>

\* send() into a live connection blocks until the bytes fit.
Send(c, bytes) ==
  /\ cli[c] = "open"
  /\ Len(down[c]) + Len(bytes) <= Cap
  /\ down' = [down EXCEPT ![c] = @ \o bytes]
  /\ UNCHANGED << listener, queue, cli, srv, rst >>

\* The first send() to a peer that has gone succeeds; its bytes are answered
\* by a reset.
SendLost(c) ==
  /\ cli[c] # "open" /\ ~rst[c]
  /\ rst' = [rst EXCEPT ![c] = TRUE]
  /\ UNCHANGED << listener, queue, cli, srv, down >>

SendFails(c) == rst[c]

CloseServer(c) ==
  /\ srv' = [srv EXCEPT ![c] = "none"]
  /\ rst' = [rst EXCEPT ![c] = FALSE]
  /\ UNCHANGED << listener, queue, cli, down >>

\* The first k of bytes fit, though not all of them: a blocked send() has put
\* them into the connection.
SentPart(c, bytes, k) ==
  /\ cli[c] = "open"
  /\ Len(down[c]) + k <= Cap /\ Len(down[c]) + Len(bytes) > Cap
  /\ down' = [down EXCEPT ![c] = @ \o SubSeq(bytes, 1, k)]

\* The end of the server process closes every descriptor it holds.  If it was
\* killed in a blocked send() of one of the messages, part of that is left.
ServerDies(sending, messages) ==
  /\ listener' = "none"
  /\ queue' = << >>
  /\ srv' = [c \in Conn |-> "none"]
  /\ rst' = [c \in Conn |-> FALSE]
  /\ \/ UNCHANGED down
     \/ \E c \in sending, bytes \in messages : \E k \in 1 .. Len(bytes) : SentPart(c, bytes, k)
  /\ UNCHANGED cli

-----------------------------------------------------------------------------
(* The most general peer, for checking one program without the other. *)

ClientCall(c) ==
  \/ OpenClient(c)
  \/ cli[c] = "fresh" /\ Connect(c)
  \/ cli[c] = "open" /\ ShutClient(c)
  \/ cli[c] # "none" /\ CloseClient(c)
  \/ \E k \in 1 .. Len(down[c]) : Take(c, k)

ServerCall(messages) ==
  \/ listener = "none" /\ Bind
  \/ listener = "bound" /\ Listen
  \/ listener # "none" /\ \E state \in {"shut", "none"} : StopListening(state)
  \/ listener = "listening" /\ Accept
  \/ \E c \in Conn : /\ srv[c] = "open"
                     /\ \/ \E bytes \in messages : Send(c, bytes)
                        \/ SendLost(c)
                        \/ CloseServer(c)
  \/ ServerDies({c \in Conn : srv[c] = "open"}, messages)

=============================================================================
