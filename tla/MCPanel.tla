------------------------------- MODULE MCPanel -------------------------------
(***************************************************************************)
(* Panel with the boundary values of each slider: both ends of its range,  *)
(* their neighbours, and the values around each change of the top bit.     *)
(***************************************************************************)
EXTENDS Panel

MCSliderValues ==
  [s \in Slider |->
     CASE s = "speed"         -> {0, 1, 127, 128, 240}
       [] s = "temperature"   -> {-60, -59, -1, 0, 1, 60}
       [] s = "battery_level" -> {0, 1, 63, 64, 100}]
=============================================================================
