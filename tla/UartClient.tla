------------------------------ MODULE UartClient ------------------------------
(***************************************************************************)
(* desktop/client/src/uartservice.cpp: the UARTService object of the       *)
(* client program.  The worker thread opens the serial port, waits for     *)
(* bytes, reads SBUFLEN of them at once and stores them in m_buffer; when  *)
(* none come in time, or fewer, it closes the port and starts over.        *)
(* Nothing marks where a packet begins.  The main thread runs the window,  *)
(* which may clear m_buffer, and then the destructor.  A step is one call  *)
(* of the port, one access of an atomic shared by the threads or one       *)
(* critical section of m_mtx.                                              *)
(***************************************************************************)
EXTENDS Naturals, Sequences

CONSTANTS
  SBUFLEN,     (* the bytes of a packet                                  *)
  Cap          (* a bound on the bytes under way on a serial line        *)

VARIABLES
  dtor,        (* where the main thread is; "run" before the destructor  *)
  reader,      (* where the worker thread is                             *)
  m_stop,
  m_status,    (* COMService::m_status                                   *)
  open,        (* serial.isOpen()                                        *)
  m_buffer,    (* the bytes of m_buffer; empty when it is zeroed         *)
  down         (* the bytes on their way from the board to this port     *)

uartClientVars == << dtor, reader, m_stop, m_status, open, m_buffer >>

Zeroed == << >>

\* A process that has just started.
Started ==
  /\ dtor = "run" /\ reader = "top"
  /\ m_stop = FALSE /\ m_status = FALSE /\ open = FALSE
  /\ m_buffer = Zeroed

\* What is left of a line when its first k bytes are taken.
Drop(line, k) == SubSeq(line, k + 1, Len(line))

-----------------------------------------------------------------------------
(* The worker thread: run(). *)

Goto(from, to) == reader = from /\ reader' = to /\ UNCHANGED << dtor, m_stop >>

\* A step that decides where to go next and changes nothing else.
Pass(from, to) == Goto(from, to) /\ UNCHANGED << m_status, open, m_buffer, down >>

\* while (!m_stop), and if (!m_status): only this thread writes m_status.
Top == Pass("top", IF m_stop THEN "closeLast" ELSE IF m_status THEN "wait" ELSE "open")

\* The port opens and is cleared: what has arrived is dropped.  open() refuses
\* a port that is open already.
OpenSucceeds ==
  /\ Goto("open", "wait")
  /\ ~open /\ open' = TRUE
  /\ \E k \in 0 .. Len(down) : down' = Drop(down, k)
  /\ UNCHANGED << m_status, m_buffer >>

\* After a pause the loop starts over.
OpenFails == Pass("open", "top")

\* SBUFLEN bytes are read into tmpbuf and, under m_mtx, copied to m_buffer.
ReadPacket ==
  /\ Len(down) >= SBUFLEN
  /\ Goto("wait", "setStatus")
  /\ m_buffer' = SubSeq(down, 1, SBUFLEN)
  /\ down' = Drop(down, SBUFLEN)
  /\ UNCHANGED << m_status, open >>

\* ReadPart broken on purpose: what came of the packet is stored.
ReadPartStored(k) ==
  /\ k <= Len(down)
  /\ Goto("wait", "setStatus")
  /\ m_buffer' = SubSeq(down, 1, k)
  /\ down' = Drop(down, k)
  /\ UNCHANGED << m_status, open >>

\* Bytes have arrived, but not SBUFLEN of them: they are lost.
ReadPart(k) ==
  /\ k <= Len(down)
  /\ Goto("wait", "fail")
  /\ down' = Drop(down, k)
  /\ UNCHANGED << m_status, open, m_buffer >>

\* Nothing for 3 * INTERVAL.
WaitTimesOut == down = << >> /\ Pass("wait", "fail")

\* SetStatus broken on purpose: the window never learns of the packet.
SetStatusOmitted == Pass("setStatus", "top")

SetStatus ==
  /\ Goto("setStatus", "top")
  /\ m_status' = TRUE
  /\ UNCHANGED << open, m_buffer, down >>

\* Fail broken on purpose: the window is not told.
FailSilently == Pass("fail", "close")

Fail ==
  /\ Goto("fail", "close")
  /\ m_status' = FALSE
  /\ UNCHANGED << open, m_buffer, down >>

\* After a pause the loop starts over.
Close ==
  /\ Goto("close", "top")
  /\ open' = FALSE
  /\ UNCHANGED << m_status, m_buffer, down >>

CloseLast ==
  /\ Goto("closeLast", "done")
  /\ open' = FALSE
  /\ UNCHANGED << m_status, m_buffer, down >>

ReaderProgress ==
  \/ Top \/ OpenSucceeds \/ ReadPacket \/ WaitTimesOut
  \/ \E k \in 1 .. SBUFLEN - 1 : ReadPart(k)
  \/ SetStatus \/ Fail \/ Close \/ CloseLast

Reader == ReaderProgress \/ OpenFails

-----------------------------------------------------------------------------
(* The main thread. *)

MainUnchanged == UNCHANGED << reader, m_status, open, down >>

\* COMService::clearBuffer(), called by the window's timer.
ClearBuffer ==
  /\ dtor = "run"
  /\ m_buffer' = Zeroed
  /\ MainUnchanged /\ UNCHANGED << dtor, m_stop >>

DtorGoto(from, to) == dtor = from /\ dtor' = to /\ MainUnchanged /\ UNCHANGED m_buffer

Quit == DtorGoto("run", "stop") /\ UNCHANGED m_stop

SetStop == DtorGoto("stop", "wait") /\ m_stop' = TRUE

Wait == reader = "done" /\ DtorGoto("wait", "gone") /\ UNCHANGED m_stop

Destructor == SetStop \/ Wait

\* The process is started, after its end or a crash.
Restart ==
  /\ dtor' = "run" /\ reader' = "top"
  /\ m_stop' = FALSE /\ m_status' = FALSE /\ open' = FALSE
  /\ m_buffer' = Zeroed
  /\ UNCHANGED down

-----------------------------------------------------------------------------

\* Every variable has its type.
TypeOK ==
  /\ dtor \in {"run", "stop", "wait", "gone"}
  /\ reader \in {"top", "open", "wait", "setStatus", "fail", "close",
                 "closeLast", "done"}
  /\ m_stop \in BOOLEAN
  /\ m_status \in BOOLEAN
  /\ open \in BOOLEAN
  /\ Len(m_buffer) \in {0, SBUFLEN}
  /\ Len(down) <= Cap

=============================================================================
