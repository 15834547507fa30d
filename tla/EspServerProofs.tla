--------------------------- MODULE EspServerProofs ---------------------------
(***************************************************************************)
(* EspServer proved for any set of connection handles: types, that packets *)
(* are only addressed to the connection the host holds, and that the board *)
(* can be connected to again whatever ended the last connection.           *)
(*                                                                         *)
(* HostInv says where the host task can be while there is a connection:    *)
(* it advertises only without one, so that a new connection never meets    *)
(* the handle of the last one, and a link that broke while its peer was    *)
(* subscribed is deleted only after the SUBSCRIBE event has written its    *)
(* handle once more, just before DISCONNECT clears it.                     *)
(***************************************************************************)
EXTENDS EspServer, TLAPS

HostInv ==
  /\ task \in {"setup", "error"} => host = "none"
  /\ host = "none" =>
       /\ ~synced /\ active_conn_handle = NO_CONN_HANDLE
       /\ peer = NO_CONN_HANDLE /\ adv = "off"
  /\ adv = "on" => synced /\ peer = NO_CONN_HANDLE
  /\ host \in {"disconnect", "pixelOff", "refreshOff", "advertise"} => peer = NO_CONN_HANDLE
  /\ host \in {"pixel", "refresh"} => peer # NO_CONN_HANDLE
  /\ broken => host \in {"pixel", "refresh"}
  /\ ~synced /\ peer # NO_CONN_HANDLE => broken

IInv == TypeOK /\ HostInv /\ HandleNamesPeer /\ NeverDeaf

LEMMA InitIInv == Init => IInv
  BY DEF Init, IInv, TypeOK, HostInv, HandleNamesPeer, NeverDeaf, Colour, TaskState, HostState

\* The main task, the server program and the led leave the connection alone,
\* but for the end of the setup.
LEMMA TaskStep ==
  ASSUME IInv, Task \/ StreamChanges
  PROVE  IInv'
<1>. USE DEF TaskGoto, TaskPass, HostUnchanged, LedUnchanged
<1>1. CASE SetupSucceeds
  BY <1>1 DEF SetupSucceeds, IInv, TypeOK, HostInv, HandleNamesPeer, NeverDeaf, Colour,
              TaskState, HostState
<1>2. ASSUME ~SetupSucceeds
      PROVE  /\ HostUnchanged
             /\ task' \in TaskState \ {"setup"} \/ task' = task
             /\ task' = "error" => task \in {"setup", "error"}
             /\ hsv' \in Colour /\ pixel' \in Colour /\ led' \in Colour
             /\ uart' \in {"silent", "sending"}
  <2>. USE <1>2 DEF IInv, TypeOK, Colour, TaskState
  <2>1. CASE StreamChanges
    BY <2>1 DEF StreamChanges
  <2>2. CASE SetupFails \/ Blink
    BY <2>2 DEF SetupFails, Blink
  <2>3. CASE CheckHandle \/ Delay \/ ReadPacket \/ ReadNothing \/ ReadPart
    BY <2>3 DEF CheckHandle, Delay, ReadPacket, ReadNothing, ReadPart
  <2>4. CASE NotifySucceeds \/ NotifyRefused \/ NotifyFails
    BY <2>4 DEF NotifySucceeds, NotifyRefused, NotifyFails
  <2>5. CASE Recheck \/ SetPixel \/ Refresh
    BY <2>5 DEF Recheck, SetPixel, Refresh
  <2>6. QED
    BY <2>1, <2>2, <2>3, <2>4, <2>5 DEF Task, TaskProgress
<1>3. CASE ~SetupSucceeds
  <2>1. TypeOK'
    BY <1>2, <1>3 DEF IInv, TypeOK
  <2>2. HostInv'
    BY <1>2, <1>3 DEF IInv, HostInv
  <2>3. HandleNamesPeer' /\ NeverDeaf'
    BY <1>2, <1>3 DEF IInv, HandleNamesPeer, NeverDeaf
  <2>4. QED
    BY <2>1, <2>2, <2>3 DEF IInv
<1>4. QED
  BY <1>1, <1>3

\* on_sync(), on_reset(), advertise() and gap_event().
LEMMA HostStep ==
  ASSUME IInv, Host
  PROVE  IInv'
<1>. USE HandleAssumption
     DEF IInv, TypeOK, HostInv, HandleNamesPeer, NeverDeaf, Colour, TaskState, HostState,
         HostGoto, TaskUnchanged, LinkUnchanged, LedUnchanged
<1>1. CASE Sync
  BY <1>1 DEF Sync
<1>2. CASE AdvertiseSucceeds \/ AdvertiseFails
  BY <1>2 DEF AdvertiseSucceeds, AdvertiseFails, Advertise
<1>3. CASE AdvertisingEnds
  BY <1>3 DEF AdvertisingEnds
<1>4. ASSUME NEW h \in Handle, Connected(h)
      PROVE  IInv'
  <2>1. TypeOK'
    <3>1. peer' \in Handle \cup {NO_CONN_HANDLE} /\ host' = "idle" /\ adv' = "off"
      BY <1>4 DEF Connected
    <3>2. UNCHANGED << task, hsv, active_conn_handle, cccd, broken, synced, pixel, led, uart >>
      BY <1>4 DEF Connected
    <3>3. QED
      BY <3>1, <3>2
  <2>2. HostInv'
    BY <1>4 DEF Connected
  <2>3. HandleNamesPeer' /\ NeverDeaf'
    BY <1>4 DEF Connected
  <2>4. QED
    BY <2>1, <2>2, <2>3
<1>5. ASSUME NEW on \in BOOLEAN, Subscribe(on)
      PROVE  IInv'
  <2>1. TypeOK'
    BY <1>5 DEF Subscribe
  <2>2. HostInv'
    BY <1>5 DEF Subscribe
  <2>3. HandleNamesPeer' /\ NeverDeaf'
    BY <1>5 DEF Subscribe
  <2>4. QED
    BY <2>1, <2>2, <2>3
<1>6. CASE LinkBreaks
  <2>1. CASE cccd
    <3>. USE <2>1, <1>6 DEF LinkBreaks
    <3>1. TypeOK'
      BY ZenonT(30)
    <3>2. HostInv'
      OBVIOUS
    <3>3. HandleNamesPeer' /\ NeverDeaf'
      OBVIOUS
    <3>4. QED
      BY <3>1, <3>2, <3>3
  <2>2. CASE ~cccd
    <3>. USE <2>2, <1>6 DEF LinkBreaks
    <3>1. TypeOK'
      BY ZenonT(30)
    <3>2. HostInv'
      OBVIOUS
    <3>3. HandleNamesPeer' /\ NeverDeaf'
      OBVIOUS
    <3>4. QED
      BY <3>1, <3>2, <3>3
  <2>3. QED
    BY <2>1, <2>2
<1>7. CASE SubscribePixel
  BY <1>7 DEF SubscribePixel
<1>8. CASE SubscribeRefresh
  <2>1. TypeOK'
    <3>1. peer' \in Handle \cup {NO_CONN_HANDLE} /\ host' \in HostState
          /\ led' \in Colour /\ broken' \in BOOLEAN
      BY <1>8, ZenonT(30) DEF SubscribeRefresh
    <3>2. UNCHANGED << task, hsv, active_conn_handle, cccd, synced, adv, pixel, uart >>
      BY <1>8 DEF SubscribeRefresh
    <3>3. QED
      BY <3>1, <3>2
  <2>2. HostInv'
    BY <1>8 DEF SubscribeRefresh
  <2>3. HandleNamesPeer' /\ NeverDeaf'
    BY <1>8 DEF SubscribeRefresh
  <2>4. QED
    BY <2>1, <2>2, <2>3
<1>9. CASE ClearHandle \/ DisconnectPixel \/ DisconnectRefresh
  BY <1>9 DEF ClearHandle, DisconnectPixel, DisconnectRefresh
<1>10. CASE HostReset
  <2>1. TypeOK'
    BY <1>10, ZenonT(30) DEF HostReset
  <2>2. HostInv'
    BY <1>10 DEF HostReset
  <2>3. HandleNamesPeer' /\ NeverDeaf'
    BY <1>10 DEF HostReset
  <2>4. QED
    BY <2>1, <2>2, <2>3
<1>11. QED
  BY <1>1, <1>2, <1>3, <1>4, <1>5, <1>6, <1>7, <1>8, <1>9, <1>10 DEF Host, HostProgress

LEMMA NextIInv == IInv /\ [Next]_vars => IInv'
<1>. SUFFICES ASSUME IInv, [Next]_vars PROVE IInv'
  OBVIOUS
<1>1. CASE Reboot
  BY <1>1 DEF Reboot, IInv, TypeOK, HostInv, HandleNamesPeer, NeverDeaf, Colour, TaskState,
              HostState
<1>2. CASE UNCHANGED vars
  BY <1>2 DEF vars, IInv, TypeOK, HostInv, HandleNamesPeer, NeverDeaf
<1>3. QED
  BY <1>1, <1>2, TaskStep, HostStep DEF Next

LEMMA SpecIInv == Spec => []IInv
  BY InitIInv, NextIInv, PTL DEF Spec

-----------------------------------------------------------------------------

\* Every variable keeps its type, in every interleaving of the two tasks
\* (esp32/server/src/main.c).
THEOREM BoardTypeCorrect == Spec => []TypeOK
<1>1. IInv => TypeOK
  BY DEF IInv
<1>2. QED
  BY <1>1, SpecIInv, PTL

\* active_conn_handle is no handle or the one of the connection the host holds,
\* but while a DISCONNECT event is about to clear it.
THEOREM PacketsAddressThePeer == Spec => []HandleNamesPeer
<1>1. IInv => HandleNamesPeer
  BY DEF IInv
<1>2. QED
  BY <1>1, SpecIInv, PTL

\* After any event the board holds a connection or advertises, unless advertise()
\* itself has failed.
THEOREM BoardNeverDeaf == Spec => []NeverDeaf
<1>1. IInv => NeverDeaf
  BY DEF IInv
<1>2. QED
  BY <1>1, SpecIInv, PTL

=============================================================================
