------------------------------ MODULE BleClient ------------------------------
(***************************************************************************)
(* esp32/client/src/main.c: the board that finds the server's board,       *)
(* connects, pairs and subscribes to it.  Two tasks share the led and its  *)
(* timer: the main task runs the NimBLE host, which calls gap_event and    *)
(* the on_... callbacks one at a time, and the esp_timer task runs         *)
(* timer_cb.  A step of the main task is the part of a handler up to its   *)
(* next use of the led or of the timer; the timer task, of a higher        *)
(* priority on the one core, only lets it run while the led is refreshed.  *)
(*                                                                         *)
(* The host itself is modelled from how the handlers are called: when a    *)
(* link is lost each procedure still running reports a failure, then comes *)
(* DISCONNECT.  The peer is the repository's server board, so that a       *)
(* discovery that ends without a failure has found what it looks for.      *)
(* What becomes of a notified packet is modelled by UartLink.              *)
(***************************************************************************)

VARIABLES
  host,              (* where the main task is                           *)
  hsv,               (* the colour UPDATE_LED sets                       *)
  after,             (* where the main task goes after UPDATE_LED        *)
  timer,             (* where the timer task is                          *)
  active,            (* s_timer_state.timer is running                   *)
  hue,               (* s_timer_state.hue                                *)
  state,             (* s_timer_state.state                              *)
  pixel,             (* the led driver's buffer                          *)
  led,               (* what the led shows                               *)
  synced,            (* the host and its controller are in sync          *)
  gap,               (* the host's scan or connection                    *)
  closing,           (* ble_gap_terminate() was accepted                 *)
  enc,               (* the pairing of the connection                    *)
  procs,             (* the GATT procedures that are running             *)
  subscribed,        (* on_subscription() was called with status 0       *)
  s_peer_addr,
  s_enc_done,
  s_chr_found,
  s_chr_val_handle   (* and s_svc_end_handle, always set before it       *)

hostVars == << host, hsv, after >>
timerVars == << active, hue, state >>
ledVars == << pixel, led >>
linkVars == << gap, closing, enc, procs, subscribed >>
peerVars == << s_peer_addr, s_enc_done, s_chr_found, s_chr_val_handle >>

vars == << hostVars, timer, timerVars, ledVars, synced, linkVars, peerVars >>

Colour == {"off", "blue", "green", "red"}

Init ==
  /\ host = "setup" /\ hsv = "off" /\ after = "idle"
  /\ timer = "wait" /\ active = FALSE /\ hue = "off" /\ state = FALSE
  /\ pixel = "off" /\ led = "off"
  /\ synced = FALSE
  /\ gap = "off" /\ closing = FALSE /\ enc = "none" /\ procs = {} /\ subscribed = FALSE
  /\ s_peer_addr = "none" /\ s_enc_done = FALSE /\ s_chr_found = FALSE
  /\ s_chr_val_handle = "none"

-----------------------------------------------------------------------------
(* The timer task: timer_cb(). *)

MainUnchanged == UNCHANGED << hostVars, synced, linkVars, peerVars >>

\* The callback sets or clears the pixel.
Fire ==
  /\ timer = "wait" /\ timer' = "refresh"
  /\ active
  /\ pixel' = IF state THEN "off" ELSE hue
  /\ MainUnchanged /\ UNCHANGED << timerVars, led >>

\* The led has been refreshed and the callback returns.
TimerRefresh ==
  /\ timer = "refresh" /\ timer' = "wait"
  /\ led' = pixel
  /\ state' = ~state
  /\ MainUnchanged /\ UNCHANGED << active, hue, pixel >>

\* error_led_print(), which never returns; whether the timer starts is ignored.
BlinkError ==
  /\ hue' = "red"
  /\ state' = FALSE
  /\ active' \in BOOLEAN

\* The refresh fails, and error_led_print() keeps the timer task for ever.
TimerFails ==
  /\ timer = "refresh" /\ timer' = "halted"
  /\ BlinkError
  /\ MainUnchanged /\ UNCHANGED ledVars

TimerProgress == Fire \/ TimerRefresh

-----------------------------------------------------------------------------
(* The main task: setup, the led, scan(). *)

Goto(from, to) == host = from /\ host' = to /\ UNCHANGED << hsv, after, timer >>

LinkUnchanged == UNCHANGED << synced, linkVars, peerVars >>

SetupSucceeds ==
  /\ Goto("setup", "idle")
  /\ LinkUnchanged /\ UNCHANGED << timerVars, ledVars >>

\* UPDATE_LED is entered: its three calls are the steps below.
UpdateLed(colour, then) ==
  /\ host' = "ledStop"
  /\ hsv' = colour
  /\ after' = then

\* LedStop broken on purpose: the timer is left running.
LedStopOmitted ==
  /\ Goto("ledStop", "ledPixel")
  /\ LinkUnchanged /\ UNCHANGED << timerVars, ledVars >>

LedStop ==
  /\ Goto("ledStop", "ledPixel")
  /\ active' = FALSE
  /\ LinkUnchanged /\ UNCHANGED << hue, state, ledVars >>

LedPixel ==
  /\ Goto("ledPixel", "ledRefresh")
  /\ pixel' = hsv
  /\ LinkUnchanged /\ UNCHANGED << timerVars, led >>

\* While the timer task's own refresh is under way it waits, or fails.
LedRefresh ==
  /\ Goto("ledRefresh", after)
  /\ timer # "refresh"
  /\ led' = pixel
  /\ LinkUnchanged /\ UNCHANGED << timerVars, pixel >>

ScanStop ==
  /\ Goto("scanStop", "scanStart")
  /\ active' = FALSE
  /\ LinkUnchanged /\ UNCHANGED << hue, state, ledVars >>

ScanStart ==
  /\ Goto("scanStart", "disc")
  /\ hue' = "blue"
  /\ state' = FALSE
  /\ active' = TRUE
  /\ LinkUnchanged /\ UNCHANGED ledVars

PeerUnchanged == UNCHANGED << timer, timerVars, ledVars, peerVars >>

Disc ==
  /\ Goto("disc", "idle")
  /\ synced
  /\ gap' = "scan"
  /\ PeerUnchanged /\ UNCHANGED << synced, closing, enc, procs, subscribed >>

DiscFails ==
  /\ host = "disc"
  /\ UpdateLed("red", "idle")
  /\ PeerUnchanged /\ UNCHANGED << synced, linkVars >>

\* A call under ESP_ERROR_ASSERT or ASSERT_EQ fails: error_led_print().
AssertFails ==
  /\ \/ host \in {"setup", "ledStop", "ledPixel", "ledRefresh", "scanStop", "scanStart"}
     \/ host = "idle" /\ ~synced /\ gap = "off"     \* on_sync()
     \/ host = "idle" /\ gap = "connected"          \* a packet, or pairing again
  /\ host' = "halted"
  /\ BlinkError
  /\ LinkUnchanged /\ UNCHANGED << hsv, after, timer, ledVars >>

\* The driver refuses to refresh while it is refreshing for the other task.
LedBusy == host = "ledRefresh" /\ timer = "refresh" /\ AssertFails

-----------------------------------------------------------------------------
(* The main task: the host's events, each handled when it is idle. *)

Event == host = "idle" /\ UNCHANGED << timer, timerVars, ledVars >>

\* on_sync(), up to its call of scan().
Sync ==
  /\ Event
  /\ ~synced /\ synced' = TRUE
  /\ gap = "off"
  /\ host' = "scanStop"
  /\ UNCHANGED << hsv, after, linkVars, peerVars >>

\* connect_if_interesting() of a report of the server's board: a scan that cannot
\* be cancelled goes on, but reports each advertiser once.
ServerHeard(then) ==
  /\ Event
  /\ gap = "scan" /\ gap' = then
  /\ s_peer_addr # "server"
  /\ IF then = "connecting" THEN UNCHANGED hostVars ELSE UpdateLed("red", "idle")
  /\ UNCHANGED << synced, closing, enc, procs, subscribed, peerVars >>

\* BLE_GAP_EVENT_CONNECT with another status than 0.
NotConnected ==
  /\ Event
  /\ gap \in {"connecting", "refused"} /\ gap' = "off"
  /\ UpdateLed("red", "scanStop")
  /\ UNCHANGED << synced, closing, enc, procs, subscribed, peerVars >>

\* A handler of the connection goes on, or its next call fails: then it gives
\* up, and nothing checks what ble_gap_terminate() returns.
GoesOn(ok) ==
  IF ok THEN UNCHANGED << hostVars, closing >>
  ELSE UpdateLed("red", "idle") /\ closing' \in {closing, closing \/ gap' = "connected"}

\* BLE_GAP_EVENT_CONNECT with status 0; ok: service discovery starts.
Connected(ok) ==
  /\ Event
  /\ gap = "connecting" /\ gap' = "connected"
  /\ procs' = IF ok THEN {"svc"} ELSE {}
  /\ enc' = "pending"
  /\ s_peer_addr' = "server"
  /\ GoesOn(ok)
  /\ UNCHANGED << synced, subscribed, s_enc_done, s_chr_found, s_chr_val_handle >>

\* No descriptor of the connection, or no pairing.
SecurityFails ==
  /\ Event
  /\ gap = "connecting" /\ gap' = "connected"
  /\ GoesOn(FALSE)
  /\ UNCHANGED << synced, procs, enc, subscribed, peerVars >>

\* An event of the connection.
OfLink(link) == Event /\ gap = link /\ UNCHANGED << synced, gap, s_peer_addr >>

FlagsUnchanged == UNCHANGED << s_enc_done, s_chr_found, s_chr_val_handle >>

\* Procedure p reports what it looked for, and next starts if ok.
Reports(p, over, next, ok) ==
  /\ OfLink("connected")
  /\ p \in procs
  /\ procs' = (procs \ {p}) \cup over \cup IF ok THEN next ELSE {}
  /\ GoesOn(ok)
  /\ UNCHANGED << enc, subscribed >> /\ FlagsUnchanged

\* on_service_discovery() of the service.
ServiceFound(ok) == Reports("svc", {"svcEnd"}, {"chr"}, ok)

\* on_descriptor_discovery() of the configuration descriptor: write it, and
\* discover no more.
DescriptorFound(ok) == Reports("dsc", IF ok THEN {} ELSE {"dscEnd"}, {"write"}, ok)

\* BLE_HS_EDONE: a discovery that reported what it found is over.
DiscoveryEnds == \E p \in {"svcEnd", "chrEnd", "dscEnd"} : Reports(p, {}, {}, TRUE)

\* try_start_dsc_discovery(), the procedures still running given.
TryStart(running, ok) ==
  /\ ok \/ (s_enc_done' /\ s_chr_found')
  /\ procs' = IF s_enc_done' /\ s_chr_found' /\ ok THEN running \cup {"dsc"} ELSE running
  /\ GoesOn(ok)

\* CharacteristicFound broken on purpose: the handle of the definition is saved.
CharacteristicFoundDefinition(ok) ==
  /\ OfLink("connected")
  /\ "chr" \in procs
  /\ s_chr_val_handle' = "definition"
  /\ s_chr_found' = TRUE
  /\ UNCHANGED << enc, subscribed, s_enc_done >>
  /\ TryStart((procs \ {"chr"}) \cup {"chrEnd"}, ok)

\* on_characteristic_discovery() of the characteristic.
CharacteristicFound(ok) ==
  /\ OfLink("connected")
  /\ "chr" \in procs
  /\ s_chr_val_handle' = "current"
  /\ s_chr_found' = TRUE
  /\ UNCHANGED << enc, subscribed, s_enc_done >>
  /\ TryStart((procs \ {"chr"}) \cup {"chrEnd"}, ok)

\* BLE_GAP_EVENT_ENC_CHANGE with status 0.
Encrypted(ok) ==
  /\ OfLink("connected")
  /\ enc = "pending" /\ enc' = "on"
  /\ s_enc_done' = TRUE
  /\ UNCHANGED << subscribed, s_chr_found, s_chr_val_handle >>
  /\ TryStart(procs, ok)

\* With another status: the connection is left as it is.
EncryptionFails(link) ==
  /\ OfLink(link)
  /\ enc = "pending" /\ enc' = "failed"
  /\ UpdateLed("red", "idle")
  /\ UNCHANGED << closing, procs, subscribed >> /\ FlagsUnchanged

\* on_subscription() with status 0.
Subscribed ==
  /\ OfLink("connected")
  /\ "write" \in procs /\ procs' = procs \ {"write"}
  /\ subscribed' = TRUE
  /\ UpdateLed("green", "idle")
  /\ UNCHANGED << closing, enc >> /\ FlagsUnchanged

\* ProcedureFails broken on purpose: neither closed nor shown.
ProcedureFailsSilently(link) ==
  /\ OfLink(link)
  /\ \E p \in procs : procs' = procs \ {p}
  /\ UNCHANGED << hostVars, closing, enc, subscribed >> /\ FlagsUnchanged

\* Any on_... callback with another status.
ProcedureFails(link) ==
  /\ OfLink(link)
  /\ \E p \in procs : procs' = procs \ {p}
  /\ GoesOn(FALSE)
  /\ UNCHANGED << enc, subscribed >> /\ FlagsUnchanged

\* BLE_GAP_EVENT_NOTIFY_RX of a packet that is not SBUFLEN long.
NotifyMalformed ==
  /\ OfLink("connected")
  /\ enc = "on"
  /\ UpdateLed("red", "idle")
  /\ UNCHANGED << closing, enc, procs, subscribed >> /\ FlagsUnchanged

\* The link is closed or lost; its events follow.
LinkBreaks ==
  /\ Event
  /\ gap = "connected" /\ gap' = "broken"
  /\ UNCHANGED << hostVars, synced, closing, enc, procs, subscribed, peerVars >>

\* Disconnected broken on purpose: the address of the peer is kept.
DisconnectedKeepsPeer ==
  /\ Event
  /\ gap = "broken" /\ gap' = "off"
  /\ procs = {} /\ enc # "pending" /\ enc' = "none"
  /\ closing' = FALSE /\ subscribed' = FALSE
  /\ s_enc_done' = FALSE /\ s_chr_found' = FALSE
  /\ s_chr_val_handle' = IF s_chr_val_handle = "none" THEN "none" ELSE "old"
  /\ host' = "scanStop" /\ UNCHANGED << hsv, after, synced, procs, s_peer_addr >>

\* Disconnected broken on purpose: the characteristic counts as found.
DisconnectedKeepsCharacteristic ==
  /\ Event
  /\ gap = "broken" /\ gap' = "off"
  /\ procs = {} /\ enc # "pending" /\ enc' = "none"
  /\ closing' = FALSE /\ subscribed' = FALSE
  /\ s_peer_addr' = "none" /\ s_enc_done' = FALSE
  /\ s_chr_val_handle' = IF s_chr_val_handle = "none" THEN "none" ELSE "old"
  /\ host' = "scanStop" /\ UNCHANGED << hsv, after, synced, procs, s_chr_found >>

\* BLE_GAP_EVENT_DISCONNECT.
Disconnected ==
  /\ Event
  /\ gap = "broken" /\ gap' = "off"
  /\ procs = {} /\ enc # "pending" /\ enc' = "none"
  /\ closing' = FALSE /\ subscribed' = FALSE
  /\ s_peer_addr' = "none" /\ s_enc_done' = FALSE /\ s_chr_found' = FALSE
  /\ s_chr_val_handle' = IF s_chr_val_handle = "none" THEN "none" ELSE "old"
  /\ host' = "scanStop" /\ UNCHANGED << hsv, after, synced, procs >>

\* The host resets: what it was doing ends, its events follow, then Sync.
HostReset ==
  /\ Event
  /\ synced /\ synced' = FALSE
  /\ gap' = CASE gap = "connecting" -> "refused"
              [] gap = "connected" -> "broken"
              [] OTHER -> "off"
  /\ gap \notin {"broken", "refused"}
  /\ UNCHANGED << hostVars, closing, enc, procs, subscribed, peerVars >>

Reboot ==
  /\ host # "setup"
  /\ host' = "setup" /\ hsv' = "off" /\ after' = "idle"
  /\ timer' = "wait" /\ active' = FALSE /\ hue' = "off" /\ state' = FALSE
  /\ pixel' = "off" /\ led' = "off"
  /\ synced' = FALSE
  /\ gap' = "off" /\ closing' = FALSE /\ enc' = "none" /\ procs' = {} /\ subscribed' = FALSE
  /\ s_peer_addr' = "none" /\ s_enc_done' = FALSE /\ s_chr_found' = FALSE
  /\ s_chr_val_handle' = "none"

-----------------------------------------------------------------------------

\* The main task's steps that need no failure.
MainProgress ==
  \/ SetupSucceeds \/ LedStop \/ LedPixel \/ LedRefresh \/ ScanStop \/ ScanStart
  \/ Disc \/ (~synced /\ DiscFails)
  \/ Sync \/ ServerHeard("connecting") \/ (gap = "refused" /\ NotConnected)
  \/ Connected(TRUE) \/ ServiceFound(TRUE) \/ CharacteristicFound(TRUE)
  \/ Encrypted(TRUE) \/ DescriptorFound(TRUE) \/ Subscribed \/ DiscoveryEnds
  \/ (closing /\ LinkBreaks) \/ ProcedureFails("broken") \/ EncryptionFails("broken")
  \/ Disconnected

\* What can go wrong.
Fault ==
  \/ TimerFails \/ (AssertFails /\ ~LedBusy) \/ (synced /\ DiscFails)
  \/ \E then \in {"off", "heard"} : ServerHeard(then)
  \/ (gap = "connecting" /\ NotConnected) \/ SecurityFails
  \/ Connected(FALSE) \/ ServiceFound(FALSE) \/ CharacteristicFound(FALSE)
  \/ Encrypted(FALSE) \/ DescriptorFound(FALSE)
  \/ EncryptionFails("connected") \/ ProcedureFails("connected") \/ NotifyMalformed
  \/ (~closing /\ LinkBreaks) \/ HostReset \/ Reboot

Next == TimerProgress \/ MainProgress \/ LedBusy \/ Fault

Spec == Init /\ [][Next]_vars

\* Both tasks run when they can, and the server's board answers.
FairSpec == Spec /\ WF_vars(TimerProgress) /\ WF_vars(MainProgress)

-----------------------------------------------------------------------------
(* Properties. *)

\* Every variable has its type.
TypeOK ==
  /\ host \in {"setup", "idle", "ledStop", "ledPixel", "ledRefresh", "scanStop",
               "scanStart", "disc", "halted"}
  /\ hsv \in Colour
  /\ after \in {"idle", "scanStop"}
  /\ timer \in {"wait", "refresh", "halted"}
  /\ active \in BOOLEAN
  /\ hue \in Colour
  /\ state \in BOOLEAN
  /\ pixel \in Colour
  /\ led \in Colour
  /\ synced \in BOOLEAN
  /\ gap \in {"off", "scan", "heard", "connecting", "refused", "connected", "broken"}
  /\ closing \in BOOLEAN
  /\ enc \in {"none", "pending", "on", "failed"}
  /\ procs \subseteq {"svc", "svcEnd", "chr", "chrEnd", "dsc", "dscEnd", "write"}
  /\ subscribed \in BOOLEAN
  /\ s_peer_addr \in {"none", "server"}
  /\ s_enc_done \in BOOLEAN
  /\ s_chr_found \in BOOLEAN
  /\ s_chr_val_handle \in {"none", "old", "current"}

\* Whichever of pairing and discovery ends first, descriptors are discovered
\* and written only on a link that is encrypted and with the handles found on
\* this connection, never with those of an earlier one.
DescriptorsOfThisLink ==
  procs \cap {"dsc", "dscEnd", "write"} # {} \/ subscribed
    => enc = "on" /\ s_chr_val_handle = "current"

\* The board has stopped trying: it neither scans nor connects, or its
\* connection has no step left that could lead to a subscription.
Stuck ==
  /\ host = "idle" /\ synced
  /\ \/ gap \in {"off", "heard"}
     \/ gap = "connected" /\ procs = {} /\ enc # "pending" /\ ~subscribed /\ ~closing

\* Whatever step failed, a board that has stopped trying shows it: steady red,
\* which a callback of the timer that was under way does not paint over.
StuckIsRed == Stuck => led = "red" /\ (active => timer = "halted")

\* The led blinks in this colour for ever.
Blinks(colour) ==
  []<>(led = colour) /\ []<>(led = "off") /\ <>[](led \in {colour, "off"})

\* What the led comes to show when the board stays as it is: blue blinking
\* while it scans, a steady colour once subscribed, red blinking once the main
\* task has stopped in error_led_print(), whatever the two tasks were doing to
\* the led before.
LedTellsState ==
  /\ <>[](host = "idle" /\ gap = "scan" /\ timer # "halted") => Blinks("blue")
  /\ <>[](host = "idle" /\ gap = "connected" /\ subscribed)
       => <>[](led = "green") \/ <>[](led = "red")
  /\ <>[](host = "halted" /\ active /\ timer # "halted") => Blinks("red")

\* Once nothing fails any more the board gets subscribed, from wherever the
\* failures before have left it, unless it has stopped trying and shows so, or
\* the two tasks refreshed the led at the same time and the board has halted.
SubscribesOrShowsWhy ==
  <>[][~Fault]_vars =>
    \/ <>[](gap = "connected" /\ subscribed)
    \/ <>[](Stuck /\ led = "red")
    \/ <>[](host = "halted")

=============================================================================
