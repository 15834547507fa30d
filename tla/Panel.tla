-------------------------------- MODULE Panel --------------------------------
(***************************************************************************)
(* The desktop server's window and the COMService buffer it fills.  The    *)
(* GUI thread runs the Window constructor and then the slider and checkbox *)
(* handlers.  The transport's worker copies the buffer under the same      *)
(* mutex whenever it likes, also while the constructor runs, because       *)
(* main() builds the service, and so starts its worker, before the window: *)
(* every value m_buf takes is a packet some client may receive, and what   *)
(* the properties say of every state they say of every packet.             *)
(*                                                                         *)
(* A critical section of m_mtx is one step.  setLightSignals is two: it    *)
(* takes the mutex once per light.                                         *)
(***************************************************************************)
EXTENDS Signals

CONSTANTS
  SliderValues    (* [Slider -> sets of values a slider is moved to] *)

ASSUME SliderAssumption ==
  /\ DOMAIN SliderValues = Slider
  /\ \A s \in Slider : SliderValues[s] \subseteq ValueRange(s)

Box == {"left", "right", "warning"}

VARIABLES
  gui,       (* where the GUI thread is                               *)
  slider,    (* the value each slider shows                           *)
  checked,   (* the state of each checkbox                            *)
  enabled,   (* whether the user can click a checkbox                 *)
  lights,    (* <<left, right>> arguments of setLightSignals          *)
  m_buf      (* COMService::m_buf                                     *)

vars == << gui, slider, checked, enabled, lights, m_buf >>

GuiState == {"initBattery", "initTemperature", "initSpeed", "initLights",
             "insertLeft", "insertRight", "idle"}

Init ==
  /\ gui     = "initBattery"
  /\ slider  = [s \in Slider |-> Info(s).min]
  /\ checked = [b \in Box |-> FALSE]
  /\ enabled = [b \in Box |-> TRUE]
  /\ lights  = << 0, 0 >>
  /\ m_buf   = ZeroBuffer

Bit(b) == IF b THEN 1 ELSE 0

\* insert_helper, the only way a byte of the buffer changes.
InsertHelper(s, val) == m_buf' = Insert(m_buf, s, val)

-----------------------------------------------------------------------------
(* The Window constructor. *)

\* setupSlider: push the minimum of the slider's signal.
SetupSlider(s, from, to) ==
  /\ gui = from
  /\ gui' = to
  /\ InsertHelper(s, Info(s).min)
  /\ UNCHANGED << slider, checked, enabled, lights >>

\* LightsOf broken on purpose: a direction asks for the other arrow too when
\* its own box is locked.
LightsOfLocked(c) == << Bit(c["left"] \/ c["warning"] \/ ~enabled["left"]),
                        Bit(c["right"] \/ c["warning"]) >>

\* The two light states a set of checked boxes asks for.
LightsOf(c) == << Bit(c["left"] \/ c["warning"]), Bit(c["right"] \/ c["warning"]) >>

\* The constructor's own call of updateLights, then the event loop.
InitLights ==
  /\ gui = "initLights"
  /\ gui' = "insertLeft"
  /\ lights' = LightsOf(checked)
  /\ UNCHANGED << slider, checked, enabled, m_buf >>

Constructor ==
  \/ SetupSlider("battery_level", "initBattery", "initTemperature")
  \/ SetupSlider("temperature", "initTemperature", "initSpeed")
  \/ SetupSlider("speed", "initSpeed", "initLights")
  \/ InitLights

-----------------------------------------------------------------------------
(* The event handlers. *)

MoveSlider(s, val) ==
  /\ gui = "idle"
  /\ val # slider[s]
  /\ slider' = [slider EXCEPT ![s] = val]
  /\ InsertHelper(s, val)
  /\ UNCHANGED << gui, checked, enabled, lights >>

\* EnabledAfter broken on purpose: only left locks right.
EnabledAfterOneWay(b, on) ==
  IF b = "left" THEN [enabled EXCEPT !["right"] = ~on] ELSE enabled

\* The enabled flags after box b was toggled: left and right lock each other.
EnabledAfter(b, on) ==
  CASE b = "left"    -> [enabled EXCEPT !["right"] = ~on]
    [] b = "right"   -> [enabled EXCEPT !["left"] = ~on]
    [] b = "warning" -> enabled

\* A click: the connected lambdas run in order, the enabling one first, and
\* updateLights reads the boxes and calls setLightSignals.
ToggleBox(b) ==
  /\ gui = "idle"
  /\ enabled[b]
  /\ checked' = [checked EXCEPT ![b] = ~checked[b]]
  /\ enabled' = EnabledAfter(b, ~checked[b])
  /\ lights'  = LightsOf(checked')
  /\ gui' = "insertLeft"
  /\ UNCHANGED << slider, m_buf >>

SetLeftLight ==
  /\ gui = "insertLeft"
  /\ gui' = "insertRight"
  /\ InsertHelper("left_light", lights[1])
  /\ UNCHANGED << slider, checked, enabled, lights >>

SetRightLight ==
  /\ gui = "insertRight"
  /\ gui' = "idle"
  /\ InsertHelper("right_light", lights[2])
  /\ UNCHANGED << slider, checked, enabled, lights >>

Next ==
  \/ Constructor
  \/ \E s \in Slider : \E val \in SliderValues[s] : MoveSlider(s, val)
  \/ \E b \in Box : ToggleBox(b)
  \/ SetLeftLight
  \/ SetRightLight

Spec == Init /\ [][Next]_vars

-----------------------------------------------------------------------------
(* Properties. *)

\* Every variable has its type.
TypeOK ==
  /\ gui \in GuiState
  /\ slider \in [Slider -> Int]
  /\ \A s \in Slider : slider[s] \in ValueRange(s)
  /\ checked \in [Box -> BOOLEAN]
  /\ enabled \in [Box -> BOOLEAN]
  /\ lights \in {0, 1} \X {0, 1}
  /\ m_buf \in Buffer

Constructing == gui \in {"initBattery", "initTemperature", "initSpeed", "initLights"}

\* Once the window is built, what a client decodes from the buffer is what
\* the sliders show, and, unless setLightSignals is under way, what the boxes
\* ask for: no sequence of inserts makes one signal spill into another, and
\* no value in range is truncated.
BufferShowsPanel ==
  /\ ~Constructing => \A s \in Slider : Read(m_buf, s) = slider[s]
  /\ gui = "idle" => << Read(m_buf, "left_light"), Read(m_buf, "right_light") >>
                       = LightsOf(checked)

\* No sequence of clicks checks left and right together, and with neither
\* checked the user can click both.
LightsExclusive ==
  /\ ~(checked["left"] /\ checked["right"])
  /\ ~checked["left"] /\ ~checked["right"] => enabled["left"] /\ enabled["right"]

BothLights(buf) == Read(buf, "left_light") = 1 /\ Read(buf, "right_light") = 1

\* setLightSignals is not atomic, yet the buffer comes to light both arrows
\* only while the warning box is checked: no order of clicks and no moment at
\* which the worker looks makes a change of direction look like a warning.
NoSpuriousWarning ==
  [][~BothLights(m_buf) /\ BothLights(m_buf') => checked["warning"]]_vars

\* The packed buffer, seen through the client's read, is a SignalStore: every
\* step of the panel sets at most one signal, to a value of its range.
Store == INSTANCE SignalStore WITH store <- [s \in Signal |-> Read(m_buf, s)]

StoreSpec == Store!Spec

=============================================================================
