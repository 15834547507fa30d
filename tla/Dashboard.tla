------------------------------ MODULE Dashboard ------------------------------
(***************************************************************************)
(* The client program's window: desktop/client/src/window.cpp (the timer   *)
(* that polls the service) and canvas.cpp (what is shown, and the external *)
(* player that sounds the light signals), over the part of COMService they *)
(* use.  The main thread runs the timer's handler in several steps, one    *)
(* per critical section of m_mtx, and the service's thread may store a     *)
(* packet or lose the connection between any two of them.  The player is   *)
(* another process: it is killed, waited for, gives up on its own, and the *)
(* window learns of its end by a callback.                                 *)
(***************************************************************************)
EXTENDS Naturals

CONSTANTS
  Reading,   (* the values a gauge can show                              *)
  Zero       (* the reading of a zeroed field                            *)

ASSUME ReadingAssumption == Zero \in Reading

Gauge == {"speed", "temperature", "battery"}

(* What a packet says: a reading per gauge and the two lights. *)
Frame == [gauges : [Gauge -> Reading], left : BOOLEAN, right : BOOLEAN]

Blank == [gauges |-> [g \in Gauge |-> Zero], left |-> FALSE, right |-> FALSE]

SignalSound == {"None", "Left", "Right", "Warning"}

VARIABLES
  m_status,              (* COMService::m_status                         *)
  m_buffer,              (* COMService::m_buffer, decoded                *)
  tick,                  (* the next step of the timer's handler         *)
  left_light,            (* its local copy of the left light             *)
  m_connected,
  shown,                 (* m_speed, m_temperature, m_batteryLevel,      *)
                         (* m_leftLight and m_rightLight                 *)
  m_activeSignalSound,
  m_signalSoundCommand,  (* whether a player was found                   *)
  m_signalSoundProcess   (* QProcess: its state and the file it was given*)

vars == << m_status, m_buffer, tick, left_light, m_connected, shown,
           m_activeSignalSound, m_signalSoundCommand, m_signalSoundProcess >>

(* "killed": it was sent the signal and its end has not been noticed yet. *)
Process == [state : {"NotRunning", "Running", "Killed"}, sound : SignalSound]

Ended == [state |-> "NotRunning", sound |-> "None"]

-----------------------------------------------------------------------------
(* Canvas. *)

selectedSignalSound(left, right) ==
  IF left /\ right THEN "Warning" ELSE IF left THEN "Left" ELSE IF right THEN "Right" ELSE "None"

hasActiveLightSignal(frame) == frame.left \/ frame.right

\* startSignalSound(): the process after it.
startSignalSound(process, sound) ==
  IF m_signalSoundCommand /\ process.state = "NotRunning" /\ sound # "None"
  THEN [state |-> "Running", sound |-> sound]
  ELSE process

\* finished broken on purpose: it does not look at m_stoppingSignalSound.
finishedAlways(stopping, frame, sound) ==
  IF hasActiveLightSignal(frame) THEN startSignalSound(Ended, sound) ELSE Ended

\* The callback of QProcess::finished: the process after it.
finished(stopping, frame, sound) ==
  IF ~stopping /\ hasActiveLightSignal(frame) THEN startSignalSound(Ended, sound) ELSE Ended

\* stopSignalSound broken on purpose: the player is not killed.
stopSignalSoundOmitted(process, frame, sound) == {process}

\* stopSignalSound(): the processes there can be after it.  Either the wait
\* sees the end, with m_stoppingSignalSound set, or it times out.
stopSignalSound(process, frame, sound) ==
  IF process.state = "NotRunning" THEN {process}
  ELSE {finished(TRUE, frame, sound), [process EXCEPT !.state = "Killed"]}

-----------------------------------------------------------------------------
(* The timer's handler. *)

Goto(from, to) == tick = from /\ tick' = to

ServiceUnchanged == UNCHANGED << m_status, m_buffer >>

SoundUnchanged == UNCHANGED << m_activeSignalSound, m_signalSoundProcess >>

\* getStatus() is true.
PollConnected ==
  /\ Goto("idle", "speed")
  /\ m_status
  /\ m_connected' = TRUE
  /\ ServiceUnchanged /\ SoundUnchanged
  /\ UNCHANGED << left_light, shown, m_signalSoundCommand >>

\* PollDisconnected broken on purpose: the lights stay on.
PollDisconnectedKeepsLights ==
  /\ Goto("idle", "clear")
  /\ ~m_status
  /\ m_connected' = FALSE
  /\ shown' = [shown EXCEPT !.gauges = Blank.gauges]
  /\ m_activeSignalSound' = "None"
  /\ m_signalSoundProcess' \in stopSignalSound(m_signalSoundProcess, Blank, "None")
  /\ ServiceUnchanged /\ UNCHANGED << left_light, m_signalSoundCommand >>

\* getStatus() is false: setCommunicationStatus(false).
PollDisconnected ==
  /\ Goto("idle", "clear")
  /\ ~m_status
  /\ m_connected' = FALSE
  /\ shown' = Blank
  /\ m_activeSignalSound' = "None"
  /\ m_signalSoundProcess' \in stopSignalSound(m_signalSoundProcess, Blank, "None")
  /\ ServiceUnchanged /\ UNCHANGED << left_light, m_signalSoundCommand >>

clearBuffer ==
  /\ Goto("clear", "idle")
  /\ m_buffer' = Blank
  /\ SoundUnchanged
  /\ UNCHANGED << m_status, left_light, m_connected, shown, m_signalSoundCommand >>

\* ReadGauge broken on purpose: the battery's reading goes to another setter.
ReadGaugeSwapped(g, next) ==
  /\ Goto(g, next)
  /\ shown' = [shown EXCEPT !.gauges[IF g = "battery" THEN "speed" ELSE g] = m_buffer.gauges[g]]
  /\ ServiceUnchanged /\ SoundUnchanged
  /\ UNCHANGED << left_light, m_connected, m_signalSoundCommand >>

\* One getter, and the setter of the canvas that takes its result.
ReadGauge(g, next) ==
  /\ Goto(g, next)
  /\ shown' = [shown EXCEPT !.gauges[g] = m_buffer.gauges[g]]
  /\ ServiceUnchanged /\ SoundUnchanged
  /\ UNCHANGED << left_light, m_connected, m_signalSoundCommand >>

ReadGauges ==
  \/ ReadGauge("speed", "temperature")
  \/ ReadGauge("temperature", "battery")
  \/ ReadGauge("battery", "left")

\* getLightSignals() takes the mutex once for each light.
ReadLeft ==
  /\ Goto("left", "right")
  /\ left_light' = m_buffer.left
  /\ ServiceUnchanged /\ SoundUnchanged
  /\ UNCHANGED << m_connected, shown, m_signalSoundCommand >>

\* The second light, and setLightSignals().
ReadRight ==
  /\ Goto("right", "idle")
  /\ shown' = [shown EXCEPT !.left = left_light, !.right = m_buffer.right]
  /\ LET newSound == selectedSignalSound(left_light, m_buffer.right)
         stopped  == stopSignalSound(m_signalSoundProcess, shown', m_activeSignalSound)
     IN  /\ m_activeSignalSound' = newSound
         /\ \/ /\ newSound = "None"
               /\ m_signalSoundProcess' \in stopped
            \/ /\ newSound \notin {"None", m_activeSignalSound}
               /\ \E process \in stopped :
                    m_signalSoundProcess' = startSignalSound(process, newSound)
            \/ /\ newSound # "None" /\ newSound = m_activeSignalSound
               /\ m_signalSoundProcess' = startSignalSound(m_signalSoundProcess, newSound)
  /\ ServiceUnchanged /\ UNCHANGED << left_light, m_connected, m_signalSoundCommand >>

Handler == PollConnected \/ PollDisconnected \/ clearBuffer \/ ReadGauges \/ ReadLeft \/ ReadRight

-----------------------------------------------------------------------------
(* The player and the service's thread. *)

\* The player comes to the end of the file, or of its life, and the event loop
\* calls back.
ProcessEnds ==
  /\ tick = "idle"
  /\ m_signalSoundProcess.state # "NotRunning"
  /\ m_signalSoundProcess' = finished(FALSE, shown, m_activeSignalSound)
  /\ ServiceUnchanged
  /\ UNCHANGED << tick, left_light, m_connected, shown, m_activeSignalSound,
                  m_signalSoundCommand >>

\* The player cannot be started after all; finished is not emitted.
FailsToStart ==
  /\ tick = "idle"
  /\ m_signalSoundProcess.state = "Running"
  /\ m_signalSoundProcess' = Ended
  /\ ServiceUnchanged
  /\ UNCHANGED << tick, left_light, m_connected, shown, m_activeSignalSound,
                  m_signalSoundCommand >>

\* The service connects or disconnects, or stores a packet while connected.
Service ==
  /\ \/ m_status' = ~m_status /\ UNCHANGED m_buffer
     \/ m_status /\ m_buffer' \in Frame /\ UNCHANGED m_status
  /\ SoundUnchanged
  /\ UNCHANGED << tick, left_light, m_connected, shown, m_signalSoundCommand >>

\* Init broken on purpose: m_activeSignalSound is not initialized.
InitUnset ==
  /\ m_status = FALSE
  /\ m_buffer = Blank
  /\ tick = "idle"
  /\ left_light = FALSE
  /\ m_connected = TRUE
  /\ shown = Blank
  /\ m_activeSignalSound = "garbage"
  /\ m_signalSoundCommand \in BOOLEAN
  /\ m_signalSoundProcess = Ended

Init ==
  /\ m_status = FALSE
  /\ m_buffer = Blank
  /\ tick = "idle"
  /\ left_light = FALSE
  /\ m_connected = TRUE
  /\ shown = Blank
  /\ m_activeSignalSound = "None"
  /\ m_signalSoundCommand \in BOOLEAN
  /\ m_signalSoundProcess = Ended

Next == Handler \/ ProcessEnds \/ FailsToStart \/ Service

Spec == Init /\ [][Next]_vars

\* The timer keeps firing and its handler finishes; a player that was killed
\* ends, and the event loop calls back between two timeouts.
FairSpec ==
  /\ Spec
  /\ WF_vars(Handler)
  /\ SF_vars(m_signalSoundProcess.state = "Killed" /\ ProcessEnds)

-----------------------------------------------------------------------------
(* Properties. *)

\* Every variable has its type.
TypeOK ==
  /\ m_status \in BOOLEAN
  /\ m_buffer \in Frame
  /\ tick \in {"idle", "clear", "left", "right"} \cup Gauge
  /\ left_light \in BOOLEAN
  /\ m_connected \in BOOLEAN
  /\ shown \in Frame
  /\ m_activeSignalSound \in SignalSound
  /\ m_signalSoundCommand \in BOOLEAN
  /\ m_signalSoundProcess \in Process

\* A player that has not been killed plays the sound of the lights on display,
\* whatever the order of switches, ends, kills and waits that timed out.
SoundMatchesLights ==
  m_signalSoundProcess.state = "Running"
    => m_signalSoundProcess.sound = selectedSignalSound(shown.left, shown.right)

\* Without a connection the window shows nothing and nothing is played; the
\* end of a player that outlived the disconnection starts no other.
DisconnectedIsBlank ==
  ~m_connected => shown = Blank /\ m_signalSoundProcess.state # "Running"

\* A field the service keeps reporting is shown in the end, whatever happens
\* to the others, even if readings of older packets are shown first.
ShowsWhatIsReported ==
  \A g \in Gauge, r \in Reading :
    <>[](m_status /\ m_buffer.gauges[g] = r) => <>[](m_connected /\ shown.gauges[g] = r)

ReportsLights(l, r) == m_status /\ m_buffer.left = l /\ m_buffer.right = r

\* Lights that stay as they are are shown; if one is on and there is a player,
\* its sound is heard again and again, and no other sound is.
LightsAreHeard ==
  \A l, r \in BOOLEAN :
    <>[]ReportsLights(l, r)
      => /\ <>[](shown.left = l /\ shown.right = r)
         /\ <>[](m_signalSoundProcess.sound \in {"None", selectedSignalSound(l, r)})
         /\ (l \/ r) /\ m_signalSoundCommand => []<>(m_signalSoundProcess.state = "Running")

=============================================================================
