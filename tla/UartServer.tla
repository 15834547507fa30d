------------------------------ MODULE UartServer ------------------------------
(***************************************************************************)
(* desktop/server/src/uartservice.cpp: the UARTService object of the       *)
(* server program.  The worker thread opens the serial port, writes a copy *)
(* of m_buf to it every INTERVAL and, when a write fails, closes and       *)
(* reopens it.  The main thread runs the panel, which changes m_buf, and   *)
(* then the destructor.  A step is one call of the port, one access of an  *)
(* atomic shared by the threads or one critical section of m_mtx.          *)
(***************************************************************************)
EXTENDS Naturals, Sequences

CONSTANTS
  Packet,      (* the contents m_buf can have                            *)
  ZeroPacket,  (* m_buf as the constructor leaves it                     *)
  SBUFLEN,     (* the bytes of a packet                                  *)
  Cap          (* a bound on the bytes under way on a serial line        *)

VARIABLES
  main,        (* where the main thread is; "gui" before the destructor  *)
  worker,      (* where the worker thread is                             *)
  m_isRunning,
  m_status,    (* COMService::m_status                                   *)
  open,        (* serial.isOpen()                                        *)
  m_buf,
  temp_buf,    (* zeroed at the start of every turn of the inner loop    *)
  up           (* the bytes on their way from this port to the board     *)

uartServerVars == << main, worker, m_isRunning, m_status, open, m_buf, temp_buf >>

\* The bytes of a packet, in the order they are sent; those of the zeroed buffer
\* are all the same.
Bytes(p) == [i \in 1 .. SBUFLEN |-> IF p = ZeroPacket THEN << p, 0 >> ELSE << p, i >>]

\* A process that has just started: the first open() is the worker's next call.
Started ==
  /\ main = "gui" /\ worker = "open"
  /\ m_isRunning = TRUE /\ m_status = FALSE /\ open = FALSE
  /\ m_buf = ZeroPacket /\ temp_buf = ZeroPacket

Room(bytes) == Len(up) + bytes <= Cap

-----------------------------------------------------------------------------
(* The worker thread: run(). *)

Goto(from, to) == worker = from /\ worker' = to /\ UNCHANGED << main, m_isRunning, m_buf >>

OpenSucceeds ==
  /\ Goto("open", "outer")
  /\ open' = TRUE
  /\ UNCHANGED << m_status, temp_buf, up >>

OpenFails == Goto("open", "outer") /\ UNCHANGED << m_status, open, temp_buf, up >>

\* while (m_isRunning); the port's destructor closes it.
OuterEnds ==
  /\ ~m_isRunning
  /\ Goto("outer", "done")
  /\ open' = FALSE
  /\ UNCHANGED << m_status, temp_buf, up >>

\* OuterGoesOn broken on purpose: the status is not set when the port is open.
OuterGoesOnUnset ==
  /\ m_isRunning
  /\ Goto("outer", IF open THEN "inner" ELSE "open")
  /\ UNCHANGED << m_status, open, temp_buf, up >>

OuterGoesOn ==
  /\ m_isRunning
  /\ Goto("outer", IF open THEN "inner" ELSE "open")
  /\ m_status' = (open \/ m_status)
  /\ UNCHANGED << open, temp_buf, up >>

\* Inner broken on purpose: a window that has been closed is not noticed.
InnerDeaf ==
  /\ Goto("inner", IF m_status THEN "copy" ELSE "close")
  /\ UNCHANGED << m_status, open, temp_buf, up >>

\* while (m_isRunning && m_status)
Inner ==
  /\ Goto("inner", IF m_isRunning /\ m_status THEN "copy" ELSE "close")
  /\ UNCHANGED << m_status, open, temp_buf, up >>

Copy ==
  /\ Goto("copy", "write")
  /\ temp_buf' = m_buf
  /\ UNCHANGED << m_status, open, up >>

WriteSucceeds ==
  /\ Room(SBUFLEN)
  /\ Goto("write", "inner")
  /\ up' = up \o Bytes(temp_buf)
  /\ temp_buf' = ZeroPacket
  /\ UNCHANGED << m_status, open >>

\* An error, or not done within 100 ms: the first k bytes may be on their way.
WriteFails(k) ==
  /\ Room(k)
  /\ Goto("write", "close")
  /\ up' = up \o SubSeq(Bytes(temp_buf), 1, k)
  /\ m_status' = FALSE
  /\ temp_buf' = ZeroPacket
  /\ UNCHANGED open

Close ==
  /\ Goto("close", "outer")
  /\ open' = FALSE
  /\ UNCHANGED << m_status, temp_buf, up >>

WorkerProgress ==
  \/ OpenSucceeds \/ OuterEnds \/ OuterGoesOn \/ Inner \/ Copy \/ WriteSucceeds
  \/ (~Room(SBUFLEN) /\ WriteFails(0))
  \/ Close

WorkerFails == OpenFails \/ \E k \in 0 .. SBUFLEN : WriteFails(k)

-----------------------------------------------------------------------------
(* The main thread. *)

MainGoto(from, to) ==
  main = from /\ main' = to /\ UNCHANGED << worker, m_status, open, temp_buf, up >>

\* A setter, called by the panel.
SetBuffer(p) ==
  /\ MainGoto("gui", "gui")
  /\ m_buf' = p
  /\ UNCHANGED m_isRunning

Quit == MainGoto("gui", "stop") /\ UNCHANGED << m_buf, m_isRunning >>

StopRunning ==
  /\ MainGoto("stop", "wait")
  /\ m_isRunning' = FALSE
  /\ UNCHANGED m_buf

Wait == worker = "done" /\ MainGoto("wait", "gone") /\ UNCHANGED << m_buf, m_isRunning >>

Destructor == StopRunning \/ Wait

\* The process is started, after its end or a crash, which may come when k bytes
\* of a packet are on their way.
Restart(k) ==
  /\ k = 0 \/ (worker = "write" /\ Room(k))
  /\ up' = up \o SubSeq(Bytes(temp_buf), 1, k)
  /\ main' = "gui" /\ worker' = "open"
  /\ m_isRunning' = TRUE /\ m_status' = FALSE /\ open' = FALSE
  /\ m_buf' = ZeroPacket /\ temp_buf' = ZeroPacket

=============================================================================
