----------------------------- MODULE Speedometer -----------------------------
(***************************************************************************)
(* What the two programs promise together, whatever carries the packets:   *)
(* each field on display is blank or a value the server's panel has had,   *)
(* and never one older than the field has shown before, though programs    *)
(* restart and connections are lost in between.                            *)
(*                                                                         *)
(* A value is identified with the number of the edit that made it current. *)
(***************************************************************************)
EXTENDS Naturals

CONSTANT Field

Blank == 0

VARIABLES
  panel,     (* the number of edits so far                               *)
  display,   (* the edit each field on display belongs to, or Blank      *)
  newest     (* the newest edit each field has shown                     *)

vars == << panel, display, newest >>

Init ==
  /\ panel = 0
  /\ display = [f \in Field |-> Blank]
  /\ newest = [f \in Field |-> Blank]

Edit ==
  /\ panel' = panel + 1
  /\ UNCHANGED << display, newest >>

Show(f) ==
  /\ \E v \in newest[f] .. panel :
       /\ display' = [display EXCEPT ![f] = v]
       /\ newest'  = [newest EXCEPT ![f] = v]
  /\ UNCHANGED panel

Clear(fields) ==
  /\ display' = [f \in Field |-> IF f \in fields THEN Blank ELSE display[f]]
  /\ UNCHANGED << panel, newest >>

Next ==
  \/ Edit
  \/ \E f \in Field : Show(f)
  \/ \E fields \in SUBSET Field : Clear(fields)

Spec == Init /\ [][Next]_vars

=============================================================================
