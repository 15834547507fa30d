--------------------------- MODULE DashboardProofs ---------------------------
(***************************************************************************)
(* Dashboard proved for any set of readings: types, that the sound played  *)
(* is the one of the lights on display, and that nothing is shown or       *)
(* played without a connection.                                            *)
(*                                                                         *)
(* The invariant adds two facts: m_activeSignalSound always belongs to the *)
(* lights on display (the callback restarts the player from it), and the   *)
(* handler reads fields only while m_connected is set.                     *)
(***************************************************************************)
EXTENDS Dashboard, TLAPS

ActiveInv == m_activeSignalSound = selectedSignalSound(shown.left, shown.right)

TickInv == ~m_connected => tick \in {"idle", "clear"}

IInv == TypeOK /\ ActiveInv /\ TickInv /\ SoundMatchesLights /\ DisconnectedIsBlank

-----------------------------------------------------------------------------
(* Canvas. *)

LEMMA SelectedType ==
  ASSUME NEW l \in BOOLEAN, NEW r \in BOOLEAN
  PROVE  selectedSignalSound(l, r) \in SignalSound
  BY DEF selectedSignalSound, SignalSound

\* What runs after a start either ran before or plays the sound given.
LEMMA StartEffect ==
  ASSUME NEW process \in Process, NEW sound \in SignalSound
  PROVE  /\ startSignalSound(process, sound) \in Process
         /\ startSignalSound(process, sound) \in {process, [state |-> "Running", sound |-> sound]}
         /\ sound = "None" => startSignalSound(process, sound) = process
  BY DEF startSignalSound, Process

LEMMA EndedType == Ended \in Process
  BY DEF Ended, Process, SignalSound

\* After a stop nothing runs.
LEMMA StopEffect ==
  ASSUME NEW process \in Process, NEW frame, NEW sound,
         NEW after \in stopSignalSound(process, frame, sound)
  PROVE  after \in Process /\ after.state # "Running"
<1>1. CASE process.state = "NotRunning"
  BY <1>1 DEF stopSignalSound
<1>2. CASE process.state # "NotRunning"
  <2>1. after \in {Ended, [process EXCEPT !.state = "Killed"]}
    BY <1>2 DEF stopSignalSound, finished
  <2>2. QED
    BY <2>1, EndedType DEF Ended, Process
<1>3. QED
  BY <1>1, <1>2

LEMMA BlankType == Blank \in Frame
  BY ReadingAssumption DEF Blank, Frame

LEMMA BlankSound == selectedSignalSound(Blank.left, Blank.right) = "None"
  BY DEF Blank, selectedSignalSound

-----------------------------------------------------------------------------
(* The steps. *)

LEMMA InitIInv == Init => IInv
<1>. SUFFICES ASSUME Init PROVE IInv
  OBVIOUS
<1>1. TypeOK
  BY BlankType, EndedType DEF Init, TypeOK, SignalSound
<1>2. ActiveInv
  BY BlankSound DEF Init, ActiveInv
<1>3. TickInv /\ SoundMatchesLights /\ DisconnectedIsBlank
  BY DEF Init, TickInv, SoundMatchesLights, DisconnectedIsBlank, Ended
<1>4. QED
  BY <1>1, <1>2, <1>3 DEF IInv

\* A step that changes neither what is shown nor what is played.
LEMMA QuietStep ==
  ASSUME IInv, PollConnected \/ clearBuffer \/ ReadLeft \/ Service
  PROVE  IInv'
<1>. USE DEF Goto, ServiceUnchanged, SoundUnchanged
<1>1. TypeOK'
  BY BlankType DEF IInv, TypeOK, Frame, Gauge, PollConnected, clearBuffer, ReadLeft, Service
<1>2. ActiveInv' /\ TickInv' /\ SoundMatchesLights' /\ DisconnectedIsBlank'
  BY DEF IInv, ActiveInv, TickInv, SoundMatchesLights, DisconnectedIsBlank,
         PollConnected, clearBuffer, ReadLeft, Service
<1>3. QED
  BY <1>1, <1>2 DEF IInv

LEMMA PollDisconnectedStep == ASSUME IInv, PollDisconnected PROVE IInv'
<1>. USE DEF PollDisconnected, Goto, ServiceUnchanged
<1>1. m_signalSoundProcess' \in Process /\ m_signalSoundProcess'.state # "Running"
  BY StopEffect DEF IInv, TypeOK
<1>2. TypeOK'
  BY <1>1, BlankType DEF IInv, TypeOK, SignalSound
<1>3. ActiveInv'
  BY BlankSound DEF ActiveInv
<1>4. TickInv' /\ SoundMatchesLights' /\ DisconnectedIsBlank'
  BY <1>1 DEF TickInv, SoundMatchesLights, DisconnectedIsBlank
<1>5. QED
  BY <1>2, <1>3, <1>4 DEF IInv

LEMMA ReadGaugeStep ==
  ASSUME IInv, NEW g \in Gauge, NEW next \in Gauge \cup {"left"}, ReadGauge(g, next)
  PROVE  IInv'
<1>. USE DEF ReadGauge, Goto, ServiceUnchanged, SoundUnchanged
<1>1. m_buffer.gauges[g] \in Reading
  BY DEF IInv, TypeOK, Frame
<1>2. shown' \in Frame /\ shown'.left = shown.left /\ shown'.right = shown.right
  BY <1>1 DEF IInv, TypeOK, Frame
<1>3. m_connected
  BY DEF IInv, TickInv, Gauge
<1>4. TypeOK'
  BY <1>2 DEF IInv, TypeOK
<1>5. ActiveInv' /\ SoundMatchesLights'
  BY <1>2 DEF IInv, ActiveInv, SoundMatchesLights
<1>6. TickInv' /\ DisconnectedIsBlank'
  BY <1>3 DEF TickInv, DisconnectedIsBlank
<1>7. QED
  BY <1>4, <1>5, <1>6 DEF IInv

LEMMA ReadRightStep == ASSUME IInv, ReadRight PROVE IInv'
<1>. DEFINE new == selectedSignalSound(left_light, m_buffer.right)
<1>1. /\ shown' \in Frame
      /\ shown'.left = left_light
      /\ shown'.right = m_buffer.right
  BY DEF IInv, TypeOK, Frame, ReadRight
<1>2. m_connected /\ m_connected' = m_connected
  BY DEF IInv, TickInv, ReadRight, Goto
<1>3. new \in SignalSound
  BY SelectedType DEF IInv, TypeOK, Frame
<1>4. m_activeSignalSound' = new
  BY DEF ReadRight
<1>5. /\ m_signalSoundProcess' \in Process
      /\ m_signalSoundProcess'.state = "Running" => m_signalSoundProcess'.sound = new
  <2>. USE DEF Process
  <2>0. m_signalSoundProcess \in Process
    BY DEF IInv, TypeOK
  <2>1. CASE new = "None"
    BY <2>0, <2>1, StopEffect DEF ReadRight
  <2>2. CASE new \notin {"None", m_activeSignalSound}
    <3>1. PICK process \in stopSignalSound(m_signalSoundProcess, shown', m_activeSignalSound) :
            m_signalSoundProcess' = startSignalSound(process, new)
      BY <2>2 DEF ReadRight
    <3>2. process \in Process /\ process.state # "Running"
      BY <2>0, <3>1, StopEffect
    <3>3. QED
      BY <1>3, <3>1, <3>2, StartEffect
  <2>3. CASE new # "None" /\ new = m_activeSignalSound
    <3>1. m_signalSoundProcess' = startSignalSound(m_signalSoundProcess, new)
      BY <2>3 DEF ReadRight
    <3>2. m_signalSoundProcess.state = "Running" => m_signalSoundProcess.sound = new
      BY <2>3 DEF IInv, ActiveInv, SoundMatchesLights
    <3>3. QED
      BY <1>3, <2>0, <3>1, <3>2, StartEffect
  <2>4. QED
    BY <2>1, <2>2, <2>3
<1>6. TypeOK'
  BY <1>1, <1>2, <1>3, <1>4, <1>5
     DEF IInv, TypeOK, ReadRight, Goto, ServiceUnchanged
<1>7. ActiveInv' /\ SoundMatchesLights'
  BY <1>1, <1>4, <1>5 DEF ActiveInv, SoundMatchesLights
<1>8. TickInv' /\ DisconnectedIsBlank'
  BY <1>2 DEF TickInv, DisconnectedIsBlank
<1>9. QED
  BY <1>6, <1>7, <1>8 DEF IInv

\* The callback, and the player that cannot be started.
LEMMA ProcessStep == ASSUME IInv, ProcessEnds \/ FailsToStart PROVE IInv'
<1>. USE DEF ServiceUnchanged
<1>1. /\ m_signalSoundProcess' \in Process
      /\ m_signalSoundProcess'.state = "Running"
           => m_connected /\ m_signalSoundProcess'.sound = m_activeSignalSound
  <2>1. CASE FailsToStart
    BY <2>1, EndedType DEF FailsToStart, Ended
  <2>2. CASE ProcessEnds
    <3>1. CASE ~hasActiveLightSignal(shown)
      BY <2>2, <3>1, EndedType DEF ProcessEnds, finished, Ended
    <3>2. CASE hasActiveLightSignal(shown)
      <4>1. m_connected
        BY <3>2 DEF IInv, DisconnectedIsBlank, Blank, hasActiveLightSignal
      <4>2. m_signalSoundProcess' = startSignalSound(Ended, m_activeSignalSound)
        BY <2>2, <3>2 DEF ProcessEnds, finished
      <4>3. m_activeSignalSound \in SignalSound
        BY DEF IInv, TypeOK
      <4>4. QED
        BY <4>1, <4>2, <4>3, EndedType, StartEffect DEF Ended, Process
    <3>3. QED
      BY <3>1, <3>2
  <2>3. QED
    BY <2>1, <2>2
<1>2. UNCHANGED << m_status, m_buffer, tick, left_light, m_connected, shown,
                   m_activeSignalSound, m_signalSoundCommand >>
  BY DEF ProcessEnds, FailsToStart
<1>3. TypeOK'
  BY <1>1, <1>2 DEF IInv, TypeOK
<1>4. ActiveInv' /\ TickInv' /\ SoundMatchesLights' /\ DisconnectedIsBlank'
  BY <1>1, <1>2 DEF IInv, ActiveInv, TickInv, SoundMatchesLights, DisconnectedIsBlank
<1>5. QED
  BY <1>3, <1>4 DEF IInv

-----------------------------------------------------------------------------
(* The theorems. *)

LEMMA NextIInv == IInv /\ [Next]_vars => IInv'
<1>. SUFFICES ASSUME IInv, [Next]_vars PROVE IInv'
  OBVIOUS
<1>1. CASE Handler
  <2>1. CASE ReadGauges
    BY <2>1, ReadGaugeStep DEF ReadGauges, Gauge
  <2>2. QED
    BY <1>1, <2>1, QuietStep, PollDisconnectedStep, ReadRightStep DEF Handler
<1>2. CASE ProcessEnds \/ FailsToStart
  BY <1>2, ProcessStep
<1>3. CASE Service
  BY <1>3, QuietStep
<1>4. CASE UNCHANGED vars
  BY <1>4 DEF vars, IInv, TypeOK, ActiveInv, TickInv, SoundMatchesLights, DisconnectedIsBlank
<1>5. QED
  BY <1>1, <1>2, <1>3, <1>4 DEF Next

LEMMA SpecIInv == Spec => []IInv
  BY InitIInv, NextIInv, PTL DEF Spec

\* Every variable keeps its type.
THEOREM DashboardTypeOK == Spec => []TypeOK
<1>1. IInv => TypeOK
  BY DEF IInv
<1>2. QED
  BY <1>1, SpecIInv, PTL

\* Whatever switches, ends and kills of the player interleave (canvas.cpp:55-62,
\* 129-213), the file being played belongs to the lights on display.
THEOREM DashboardSoundMatchesLights == Spec => []SoundMatchesLights
<1>1. IInv => SoundMatchesLights
  BY DEF IInv
<1>2. QED
  BY <1>1, SpecIInv, PTL

\* After setCommunicationStatus(false) (canvas.cpp:155-171) nothing is shown
\* and nothing is started until the service reports a connection.
THEOREM DashboardDisconnectedIsBlank == Spec => []DisconnectedIsBlank
<1>1. IInv => DisconnectedIsBlank
  BY DEF IInv
<1>2. QED
  BY <1>1, SpecIInv, PTL

=============================================================================
