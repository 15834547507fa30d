----------------------------- MODULE SignalStore -----------------------------
(***************************************************************************)
(* What the packed buffer promises: a record of independent signals.  Each *)
(* step stores one value, within the range of its signal, and leaves every *)
(* other signal as it was.                                                 *)
(***************************************************************************)
EXTENDS Signals

VARIABLE store

Init == store = [s \in Signal |-> 0]

\* Whatever value s has next, it is in range and no other signal moved.
Put(s) ==
  /\ store'[s] \in ValueRange(s)
  /\ store' = [store EXCEPT ![s] = store'[s]]

Next == \E s \in Signal : Put(s)

Spec == Init /\ [][Next]_store

=============================================================================
