------------------------------ MODULE EspServer ------------------------------
(***************************************************************************)
(* esp32/server/src/main.c: the board that takes packets from the server   *)
(* program over UART and notifies them over BLE.  Two tasks share          *)
(* active_conn_handle and the RGB led: the main task forwards packets, the *)
(* NimBLE host task runs gap_event.  A step is one call that reaches the   *)
(* hardware or the host, or one access of active_conn_handle.  set_rgb is  *)
(* two such calls, with nothing to keep the other task out between them.   *)
(*                                                                         *)
(* The host itself (which events it delivers, in which order) is modelled  *)
(* from how gap_event is called: one connection at a time, since nothing   *)
(* advertises while there is one; a lost connection reports the end of its *)
(* subscription as a SUBSCRIBE event, then DISCONNECT.                     *)
(***************************************************************************)
EXTENDS Naturals

CONSTANT Handle   (* connection handles                                    *)

NO_CONN_HANDLE == "none"

ASSUME HandleAssumption == NO_CONN_HANDLE \notin Handle

VARIABLES
  task,                (* where the main task is                         *)
  hsv,                 (* the colour the main task is setting            *)
  host,                (* where the host task is                         *)
  active_conn_handle,
  peer,                (* the connection the host holds                  *)
  cccd,                (* the peer has subscribed                        *)
  broken,              (* the link is lost, its events being delivered   *)
  synced,              (* the host and its controller are in sync        *)
  adv,                 (* advertising: "off", "on", or "failed" to start *)
  pixel,               (* the led driver's buffer                        *)
  led,                 (* the colour the led shows                       *)
  uart                 (* whether the server program sends packets       *)

vars == << task, hsv, host, active_conn_handle, peer, cccd, broken, synced, adv,
           pixel, led, uart >>

Colour == {"OFF", "INIT", "CONNECTED", "PKT"}

TaskState == {"setup", "error", "check", "read", "notify", "recheck", "pixel",
              "refresh", "delay"}

HostState == {"none", "idle", "advertise", "pixel", "refresh", "disconnect",
              "pixelOff", "refreshOff"}

Init ==
  /\ task = "setup"
  /\ hsv = "OFF"
  /\ host = "none"
  /\ active_conn_handle = NO_CONN_HANDLE
  /\ peer = NO_CONN_HANDLE
  /\ cccd = FALSE
  /\ broken = FALSE
  /\ synced = FALSE
  /\ adv = "off"
  /\ pixel = "INIT"
  /\ led = "INIT"
  /\ uart \in {"silent", "sending"}

-----------------------------------------------------------------------------
(* The main task: app_main(). *)

HostUnchanged == UNCHANGED << host, active_conn_handle, peer, cccd, broken, synced, adv >>

LedUnchanged == UNCHANGED << pixel, led >>

TaskGoto(from, to) == task = from /\ task' = to /\ HostUnchanged

\* A step that decides where to go next, or waits, and changes nothing else.
TaskPass(from, to) == TaskGoto(from, to) /\ LedUnchanged /\ UNCHANGED << hsv, uart >>

\* ble_setup() succeeds, check_ble_status() shows it, the host task starts.
SetupSucceeds ==
  /\ task = "setup" /\ task' = "check"
  /\ host' = "idle"
  /\ pixel' = "OFF" /\ led' = "OFF"
  /\ UNCHANGED << hsv, active_conn_handle, peer, cccd, broken, synced, adv, uart >>

SetupFails == TaskPass("setup", "error")

\* check_ble_status() blinks an error for ever.
Blink ==
  /\ TaskGoto("error", "error")
  /\ pixel' = IF led = "INIT" THEN "OFF" ELSE "INIT"
  /\ led' = pixel'
  /\ UNCHANGED << hsv, uart >>

CheckHandle == TaskPass("check", IF active_conn_handle # NO_CONN_HANDLE THEN "read" ELSE "delay")

Delay == TaskPass("delay", "check")

ReadPacket == uart = "sending" /\ TaskPass("read", "notify")

\* ReadNothing broken on purpose: the led is left as it is.
ReadNothingIgnored == uart = "silent" /\ TaskPass("read", "check")

\* The read times out with nothing.
ReadNothing == uart = "silent" /\ TaskPass("read", "recheck")

\* The read times out in the middle of a packet, because the server program
\* started or stopped sending meanwhile.
ReadPart ==
  /\ TaskGoto("read", "check")
  /\ uart' \in {"silent", "sending"} \ {uart}
  /\ LedUnchanged /\ UNCHANGED hsv

\* The handle is read again; only a connection the host holds can be notified.
NotifySucceeds ==
  /\ TaskGoto("notify", "pixel")
  /\ active_conn_handle # NO_CONN_HANDLE /\ active_conn_handle = peer
  /\ hsv' = "PKT"
  /\ LedUnchanged /\ UNCHANGED uart

\* Also for want of a buffer.
NotifyFails == TaskPass("notify", "check")

Recheck ==
  /\ TaskGoto("recheck", IF active_conn_handle # NO_CONN_HANDLE THEN "pixel" ELSE "check")
  /\ hsv' = "CONNECTED"
  /\ LedUnchanged /\ UNCHANGED uart

SetPixel ==
  /\ TaskGoto("pixel", "refresh")
  /\ pixel' = hsv
  /\ UNCHANGED << hsv, led, uart >>

Refresh ==
  /\ TaskGoto("refresh", "check")
  /\ led' = pixel
  /\ UNCHANGED << hsv, pixel, uart >>

NotifyRefused == active_conn_handle # peer /\ NotifyFails

\* The steps the main task does not need a failing call for.
TaskProgress ==
  \/ SetupSucceeds \/ CheckHandle \/ Delay \/ ReadPacket \/ ReadNothing
  \/ NotifySucceeds \/ NotifyRefused \/ Recheck \/ SetPixel \/ Refresh

Task == TaskProgress \/ SetupFails \/ Blink \/ ReadPart \/ NotifyFails

-----------------------------------------------------------------------------
(* The host task: on_sync(), on_reset(), gap_event(). *)

TaskUnchanged == UNCHANGED << task, hsv, uart >>

HostGoto(from, to) == host = from /\ host' = to /\ TaskUnchanged

LinkUnchanged == UNCHANGED << active_conn_handle, peer, cccd, broken >>

\* on_sync(), up to its call of advertise().
Sync ==
  /\ HostGoto("idle", "advertise")
  /\ ~synced /\ synced' = TRUE
  /\ LinkUnchanged /\ LedUnchanged /\ UNCHANGED adv

\* advertise() starts advertising, or fails.
Advertise(result) ==
  /\ HostGoto("advertise", "idle")
  /\ adv' = result
  /\ LinkUnchanged /\ LedUnchanged /\ UNCHANGED synced

AdvertiseSucceeds == synced /\ Advertise("on")

AdvertiseFails == Advertise("failed")

\* BLE_GAP_EVENT_CONNECT with status 0.
Connected(h) ==
  /\ HostGoto("idle", "idle")
  /\ adv = "on" /\ adv' = "off"
  /\ peer' = h
  /\ LedUnchanged /\ UNCHANGED << active_conn_handle, cccd, broken, synced >>

\* AdvertisingEnds broken on purpose: advertise() is not called again.
AdvertisingEndsForGood ==
  /\ HostGoto("idle", "idle")
  /\ adv = "on" /\ adv' = "off"
  /\ LinkUnchanged /\ LedUnchanged /\ UNCHANGED synced

\* BLE_GAP_EVENT_CONNECT with another status, or BLE_GAP_EVENT_ADV_COMPLETE.
AdvertisingEnds ==
  /\ HostGoto("idle", "advertise")
  /\ adv = "on" /\ adv' = "off"
  /\ LinkUnchanged /\ LedUnchanged /\ UNCHANGED synced

\* Subscribe broken on purpose: the attribute's handle is saved.
SubscribeAttribute(on) ==
  /\ HostGoto("idle", "pixel")
  /\ peer # NO_CONN_HANDLE
  /\ cccd' = on
  /\ active_conn_handle' = "attribute"
  /\ LedUnchanged /\ UNCHANGED << peer, broken, synced, adv >>

\* BLE_GAP_EVENT_SUBSCRIBE: the peer subscribes (on) or unsubscribes, the
\* handler does not ask which.
Subscribe(on) ==
  /\ HostGoto("idle", "pixel")
  /\ peer # NO_CONN_HANDLE
  /\ cccd' = on
  /\ active_conn_handle' = peer
  /\ LedUnchanged /\ UNCHANGED << peer, broken, synced, adv >>

\* The link is lost, or a reset of the host drops it: the end of the peer's
\* subscription is another BLE_GAP_EVENT_SUBSCRIBE.
LinkBreaks ==
  /\ host = "idle" /\ peer # NO_CONN_HANDLE
  /\ cccd' = FALSE
  /\ IF cccd
     THEN /\ host' = "pixel"
          /\ active_conn_handle' = peer
          /\ broken' = TRUE
          /\ peer' = peer
     ELSE /\ host' = "disconnect"
          /\ peer' = NO_CONN_HANDLE
          /\ UNCHANGED << active_conn_handle, broken >>
  /\ synced' \in BOOLEAN
  /\ TaskUnchanged /\ LedUnchanged /\ UNCHANGED adv

SubscribePixel ==
  /\ HostGoto("pixel", "refresh")
  /\ pixel' = "CONNECTED"
  /\ LinkUnchanged /\ UNCHANGED << synced, adv, led >>

\* The handler of SUBSCRIBE returns; a broken connection is deleted and
\* DISCONNECT delivered.
SubscribeRefresh ==
  /\ HostGoto("refresh", IF broken THEN "disconnect" ELSE "idle")
  /\ led' = pixel
  /\ peer' = IF broken THEN NO_CONN_HANDLE ELSE peer
  /\ broken' = FALSE
  /\ UNCHANGED << active_conn_handle, cccd, synced, adv, pixel >>

\* ClearHandle broken on purpose: the handle is kept.
ClearHandleOmitted ==
  /\ HostGoto("disconnect", "pixelOff")
  /\ LinkUnchanged /\ LedUnchanged /\ UNCHANGED << synced, adv >>

\* BLE_GAP_EVENT_DISCONNECT: clear the handle, turn the led off, advertise.
ClearHandle ==
  /\ HostGoto("disconnect", "pixelOff")
  /\ active_conn_handle' = NO_CONN_HANDLE
  /\ LedUnchanged /\ UNCHANGED << peer, cccd, broken, synced, adv >>

DisconnectPixel ==
  /\ HostGoto("pixelOff", "refreshOff")
  /\ pixel' = "OFF"
  /\ LinkUnchanged /\ UNCHANGED << synced, adv, led >>

DisconnectRefresh ==
  /\ HostGoto("refreshOff", "advertise")
  /\ led' = pixel
  /\ LinkUnchanged /\ UNCHANGED << synced, adv, pixel >>

\* on_reset() with no connection to drop.
HostReset ==
  /\ HostGoto("idle", "idle")
  /\ peer = NO_CONN_HANDLE
  /\ synced /\ synced' = FALSE
  /\ adv' = "off"
  /\ LinkUnchanged /\ LedUnchanged

HostProgress ==
  \/ Sync \/ AdvertiseSucceeds \/ (~synced /\ AdvertiseFails)
  \/ SubscribePixel \/ SubscribeRefresh
  \/ ClearHandle \/ DisconnectPixel \/ DisconnectRefresh

Host ==
  \/ HostProgress \/ AdvertiseFails \/ AdvertisingEnds \/ LinkBreaks \/ HostReset
  \/ \E h \in Handle : Connected(h)
  \/ \E on \in BOOLEAN : Subscribe(on)

-----------------------------------------------------------------------------

\* The server program starts or stops sending.
StreamChanges ==
  /\ uart' \in {"silent", "sending"} \ {uart}
  /\ HostUnchanged /\ LedUnchanged /\ UNCHANGED << task, hsv >>

\* A failed ESP_ERROR_CHECK or assert(), or the reset button.
Reboot ==
  /\ task # "setup"
  /\ task' = "setup"
  /\ hsv' = "OFF"
  /\ host' = "none"
  /\ active_conn_handle' = NO_CONN_HANDLE
  /\ peer' = NO_CONN_HANDLE
  /\ cccd' = FALSE
  /\ broken' = FALSE
  /\ synced' = FALSE
  /\ adv' = "off"
  /\ pixel' = "INIT"
  /\ led' = "INIT"
  /\ uart' = uart

Next == Task \/ Host \/ StreamChanges \/ Reboot

Spec == Init /\ [][Next]_vars

\* Both tasks run when they can.  No peer has to connect, subscribe or stay.
FairSpec == Spec /\ WF_vars(TaskProgress) /\ WF_vars(HostProgress)

-----------------------------------------------------------------------------
(* Properties. *)

\* Every variable has its type.
TypeOK ==
  /\ task \in TaskState
  /\ hsv \in Colour
  /\ host \in HostState
  /\ active_conn_handle \in Handle \cup {NO_CONN_HANDLE}
  /\ peer \in Handle \cup {NO_CONN_HANDLE}
  /\ cccd \in BOOLEAN
  /\ broken \in BOOLEAN
  /\ synced \in BOOLEAN
  /\ adv \in {"off", "on", "failed"}
  /\ pixel \in Colour
  /\ led \in Colour
  /\ uart \in {"silent", "sending"}

\* Packets are only ever addressed to the connection the host holds: the SUBSCRIBE
\* event that ends a subscription writes the dying handle again, and DISCONNECT
\* clears it before the host does anything else.
HandleNamesPeer ==
  host # "disconnect" /\ active_conn_handle # NO_CONN_HANDLE => active_conn_handle = peer

\* Whatever ended the last connection or the advertising, the board can be
\* connected to again, unless advertise() itself failed.
NeverDeaf ==
  host = "idle" /\ synced => peer # NO_CONN_HANDLE \/ adv \in {"on", "failed"}

\* A subscriber is there and leaves its subscription as it is.
Serving ==
  host = "idle" /\ active_conn_handle # NO_CONN_HANDLE /\ active_conn_handle = peer

\* While packets are being sent the led shows it, and when they stop it shows
\* the connection again, however the two tasks' uses of the led interleaved
\* before.
LedShowsTraffic ==
  <>[]Serving =>
    /\ <>[](uart = "sending") /\ <>[][~NotifyFails]_vars => <>[](led = "PKT")
    /\ <>[](uart = "silent") => <>[](led = "CONNECTED")

\* README.md:46: "If you disconnect the BLE client, the RGB led on the BLE
\* server should turn off completely."
LedOffWhenDisconnected ==
  <>[](task # "error" /\ synced /\ peer = NO_CONN_HANDLE) => <>[](led = "OFF")

=============================================================================
