# A verification project for the AD25 speedometer

The speedometer is two desktop programs. The **server** shows a panel of
sliders and checkboxes; the **client** shows a dashboard. Three bytes carry the
panel's state from one to the other, 25 times a second, over TCP or, in a build
with `UARTCOM`, over a serial port, a pair of ESP32 boards that speak BLE to each
other, and a serial port again.

This directory holds TLA+ modules of that system, the TLC configurations that
check them on small instances, and proofs about them that TLAPS checks for every
value of the constants. `PROJECT.json` is the index: components, runs, mutants,
the lines of code each definition models, findings, hazards and theorems.

## The system

| Component | Code | State | Operations | Talks to |
|---|---|---|---|---|
| signal table, bit codec | `shared/setting.h`, the `comservice.cpp` of both programs | `SIGNALS`; a buffer of 3 bytes per program | `insert_helper`; `extract64`, `read` | everything below |
| server panel | `desktop/server/src/window.cpp`, `comservice.cpp` | sliders, checkboxes and their enabled flags, `m_buf` | constructor, slider moved, box toggled | writes `m_buf` under `m_mtx` |
| server TCP service | `desktop/server/src/tcpservice.cpp` | `m_sockfd`, `m_is_running`, the connection served | constructor, `run()` (worker thread), destructor | copies `m_buf` under `m_mtx`; sockets; queued signal to the event loop |
| client TCP service | `desktop/client/src/tcpservice.cpp` | `m_sockfd`, `m_status`, `m_stop`, the packet being collected | constructor, `run()` (worker thread), destructor | sockets; writes `m_buffer` under `m_mtx` |
| client dashboard | `desktop/client/src/window.cpp`, `canvas.cpp` | what is shown, the sound in play, an external player process | timer every 40 ms, `QProcess::finished` callback, painting | polls `m_status` and `m_buffer` |
| BLE server board | `esp32/server/src/main.c` | `active_conn_handle`, the led, the host's connection and advertising, the packet read | main task; NimBLE host task (`gap_event`) | UART in, BLE notifications out |
| BLE client board | `esp32/client/src/main.c` | `s_peer_addr`, `s_enc_done`, `s_chr_found`, the handles, the led and its timer | `gap_event` and the procedures' callbacks (main task), `timer_cb` (esp_timer task) | BLE in, UART out, with its log on the same UART |
| server UART service | `desktop/server/src/uartservice.cpp` | serial port open or not, `m_status`, `m_isRunning` | `run()` (worker thread), destructor | copies `m_buf` under `m_mtx`; serial port out |
| client UART service | `desktop/client/src/uartservice.cpp` | serial port open or not, `m_status`, `m_stop` | `run()` (worker thread), destructor | serial port in; writes `m_buffer` under `m_mtx` |

What is hard about it: two threads per desktop program and two tasks per board
that share flags without a lock around the whole of what they do; blocking calls
that only another thread can end; reads of part of a packet; lost connections
and restarts on either side; a child process that is killed, waited for with a
timeout, and reports its end by a callback; events of a BLE connection that
arrive while the main task is in the middle of using it, or procedures of it that
end in any order; a serial line on which nothing marks where a packet begins. The hazards are listed
at their lines in `PROJECT.json`.

What makes each component correct:

* codec and panel: what the client decodes is what the panel shows; one signal
  never disturbs another; no interleaving makes a turn signal look like a
  warning.
* server TCP service: one connection at a time, none leaked; it ends when told
  to, on errors too; a dead client does not occupy it.
* client TCP service: whole packets only; no descriptor leaked; its destructor
  returns.
* dashboard: the sound is that of the lights shown; nothing is shown or heard
  without a connection; what is reported is shown in the end.
* TCP link: a display never goes back to an older value, and comes to show the
  last one.
* BLE server board: packets are addressed to the connection there is; it can
  always be reached again; the led tells the truth.
* BLE client board: nothing found on one connection is used on the next; it comes
  to be subscribed or shows that it has given up; its led's timer does not outlive
  the state it blinks for.
* UART services: destructors return; the port is never left in a state it cannot be
  opened from; a link that lost its alignment gets it back.
* UART link: what is shown is what TCP would show, as long as packets travel whole.

## Modules

| Module | What it is |
|---|---|
| `Signals` | the signal table and both halves of the bit codec, as operators on integers |
| `SignalStore` | abstract: a record of independent signals |
| `Panel` | the server's window over `m_buf`; implements `SignalStore` |
| `Sockets` | external: one listening socket, its queue and its connections, as the two programs use them |
| `TCPServer` | the server's TCP service and its process |
| `TCPClient` | the client's TCP service and its process |
| `Dashboard` | the client's window and canvas, and the sound player |
| `Speedometer` | abstract: what the two programs promise together |
| `TCPLink` | `TCPServer` and `TCPClient` over the same `Sockets`, with the client's timer; implements `Speedometer` |
| `EspServer` | the BLE server board: connection, handle, advertising and led |
| `BleClient` | the BLE client board: scan to subscription, its flags, led and timer |
| `UartServer`, `UartClient` | the UART services of the two programs |
| `UartFeed` | abstract: what the server's half of the UART link promises the client's half |
| `UartUplink` | `UartServer`, the serial line and the server board's loop; implements `UartFeed` |
| `UartLink` | `UartFeed`, the client board's forwarding and log, the serial line, `UartClient` and the client's timer; implements `Speedometer` while packets travel whole |
| `MC*` | instances for TLC |
| `PanelProofs`, `TCPServerProofs`, `TCPClientProofs`, `TCPLinkProofs`, `DashboardProofs`, `EspServerProofs`, `BleClientProofs` | the inductive invariants of the modules they are named after, and the theorems; `PanelProofs` begins with the codec of `Signals`, `TCPServerProofs` with the lemmas about the calls of `Sockets`, which `TCPClientProofs` takes from there |
| `UartProofs` | the same for `UartUplink` (instantiated as `U`) and `UartLink` |

`TCPServer` and `TCPClient` extend `Sockets` and close the system with the most
general peer (`ClientCall`, `ServerCall`). `TCPLink` instantiates both over the
same sockets and checks, as `EachAsSpecified`, that each is a
behaviour of its own module: the other program is one of the peers it was
checked against, so the results about the parts hold in the whole.

The UART link is checked in two halves. `UartUplink` shows that the server program
and its board implement `UartFeed`; `UartLink` puts `UartFeed` itself in their place
and adds the client's half. The connection between the boards is in `EspServer` and
`BleClient`, where it comes and goes for the reasons the code gives; in the two
halves it comes and goes at any time, and a notification may be lost.

Operators named "... broken on purpose" are mutants: a plausible bug put into
the definition that follows. With one in place of that definition the property
named in `PROJECT.json` fails; no specification uses them.

### How state and actions correspond to the code

Variables have the names of the members they model. Each thread has a program
counter (`gui`, `main`, `worker`, `dtor`, `reader`, `tick`, `task`, `host`, `timer`,
`board`). The
grain of a step is

* `Panel`, `Dashboard`: one critical section of `m_mtx` or one handler without
  one. `setLightSignals` and `getLightSignals` are two steps each, because they
  lock once per light;
* `TCPServer`, `TCPClient`: one system call, one access of an atomic that
  another thread also uses, or one critical section. The destructor's
  `if (m_status) shutdown(m_sockfd)` is three steps (read the flag, read the
  descriptor, call);
* `EspServer`: one access of `active_conn_handle` or one call that reaches the
  led or the host. `set_rgb` is two (`SetPixel`/`Refresh` and their
  counterparts in the host task);
* `BleClient`: a handler up to its next use of the led or its timer. The host calls
  handlers one at a time, on the main task; `UPDATE_LED` is three steps and `scan()`
  three. The timer's task has the higher priority and the chip one core, so the
  main task gets in between its steps only while the led is being refreshed;
* `UartServer`, `UartClient`: one call of the port, one access of a shared atomic or
  one critical section; a read and the copy to `m_buffer` are one step, since nobody
  sees what lies between;
* the board's loop in `UartUplink`: one call of the UART or the host.

Things abstracted:

* bytes of a packet over TCP are pairs of the packet and a position, so that a
  shifted or mixed packet is visible; `Signals` treats the bits. Field *i* of
  `TCPLink` is byte *i*; a value is the number of the edit that made it;
* bytes on the serial lines are the same pairs, except that those of the zeroed
  buffer are all alike, as they are on the wire. `UartLink` follows one field of the
  window: the timer treats each in a critical section of its own. A byte from
  another place of a packet, or of the log, is shown as `Garbage`, a value the panel
  never had;
* time: `msleep`, timer intervals and timeouts are steps that may come at any
  moment. That a wait for the player times out, or a UART read does, is a
  choice;
* the gauge values of `Dashboard` are drawn from `Reading`; a frame is already
  decoded;
* the `m_status` of the server's TCP service is written and never read, and is left out.

`Sockets` models Linux on the loopback interface: `connect()` succeeds once the
kernel has queued the connection; the queue holds one more than the backlog; the
first `send()` to a peer that has gone succeeds, later ones fail; a reader gets
what arrived before the end of the stream; closing a listening socket another
thread is blocked on in `accept()` does not wake it, shutting it down does; a
server killed in a blocked `send()` leaves part of a packet behind.
The player of `Dashboard`, the NimBLE host of `EspServer` and `BleClient` and the
serial ports are modelled the same way, from how the code uses them: the host
reports the failure of each procedure of a lost link before DISCONNECT; the led's
driver refuses to refresh, or waits, while it refreshes for the other task;
`open()` refuses a port that is open; bytes that come while a port is closed may be
lost, and `clear()` and `uart_flush_input()` drop any number of those that have
arrived.

## Runs

All runs check for deadlock: none of these systems stops.

| Run | Shows | Instance | Distinct states |
|---|---|---|---|
| `panel` | `BufferShowsPanel`, `LightsExclusive`, `NoSpuriousWarning`, `StoreSpec` | boundary values of each slider, all clicks | 4 505 |
| `tcp_server` | `NoLeakedSocket`, `Terminates`, `DropsDeadClient`, `WaitsBehindOneServed` against any clients | 2 connections, backlog 0, 2 packets of 2 bytes, room for 2 | 166 915 |
| `tcp_server_race` | finding: `DestructorReturns` fails | 1 connection | |
| `tcp_client` | `WholePackets`, `NoStrandedRead`, `NoLeakedFd`, `DestructorReturns` against any server | 2 connections, 2 packets of 3 bytes, room for 4 | 107 868 |
| `dashboard` | `SoundMatchesLights`, `DisconnectedIsBlank`, `ShowsWhatIsReported`, `LightsAreHeard` | 2 readings per gauge | 88 512 |
| `esp_server` | `HandleNamesPeer`, `NeverDeaf`, `LedShowsTraffic` | 2 handles | 2 844 |
| `esp_server_led` | finding: `LedOffWhenDisconnected` fails | 1 handle | |
| `tcp_link` | `EachAsSpecified`, `ImplementsSpeedometer`, `ShowsLastEdit`, `BlankWithoutServer` | 2 connections, backlog 1, 2 edits, 1 exit, packets of 2 bytes, room for 2 | 425 328 |
| `ble_client` | `DescriptorsOfThisLink`, `StuckIsRed`, `LedTellsState`, `SubscribesOrShowsWhy` | no parameters | 40 595 |
| `uart_uplink` | `ImplementsFeed`, `DestructorReturns`, `RealignsItself` | packets of 3 bytes, room for 4, 2 edits, 1 exit | 295 646 |
| `uart_link` | `SameWhileInStep`, `BlankWithoutPackets`, `RealignsItself` | packets of 2 bytes, room for 3, the 2nd followed, 1 edit, 1 exit | 384 955 |
| `uart_same` | finding: `SameAsTCP` fails | the same, no exit; nothing but the log breaks a packet up (`LogSpec`) | |

Every passing run also checks its module's type invariant `TypeOK`, but for
`tcp_link` and `uart_uplink`, whose refinements give the types.

Why the bounds are enough:

* `Panel`: the ends, their neighbours and the two sides of the sign bit of each
  range. The proofs remove the bound: they are about every value in range.
* two connections and a backlog of 0 for the server: one served and a full queue,
  the backlog of 1 in `setting.h` scaled down with the connections. `tcp_link` has a
  backlog of 1. A second connection is what a client needs to reconnect while the
  server still holds the first.
* packets of 2 or 3 bytes with room for one or two: a packet may be read in
  parts, may fill the connection so that `send()` blocks, and may be cut short.
* `MaxEdits` of `TCPLink` is 2: an older and a newer value besides blank.
  `MaxExits` is 1: either program is closed or crashes once, at any point;
  restarts after a regular end and ends on a fatal error are free. Both bound
  guards of `TCPLink` only.
* two handles for the board: that of the connection lost and that of the next.
* packets of 3 bytes with room for 4 in `UartUplink`: a packet and a third of the
  next, or two parts of one; a line may be cut at every offset of a packet. Of the
  client's half packets of 2 bytes with room for 3 are enough for a reader to be in
  step or out of it. `MaxEdits` of 1 there leaves an older and a newer packet, that
  of the zeroed buffer and the panel's; `UartUplink` has three.
* no run uses symmetry or a constraint.

## Fairness

* `TCPServer`: the destructor and the worker run when they can, a blocked call
  returns once it can, the event loop delivers a queued fatal error. Nothing
  makes a user quit, a program restart, or a call fail: `WorkerProgress` leaves
  the failures out, so no property rests on a failure rescuing the program.
  `Terminates` also needs `PeerReads`: clients read what they are sent or
  close. The code justifies it by its own client, which reads in a loop; without
  it a destructor waits in `wait()` for a worker blocked in `send()`.
* `TCPClient`: the same for its two threads. `PeerFairness` says servers accept
  and close the connections of clients that have gone, without which the finite
  `Conn` would run out; it stands for the kernel's supply of descriptors.
* `TCPLink`: the fairness of both programs and the timer. It is strong for
  `accept()` and `read()`: they may not be interrupted, or fail for want of a
  descriptor, for ever while there is something for them.
* `Dashboard`: the timer's handler is weakly fair; a player that was killed ends
  and the callback comes between two timeouts (strong: the handler keeps
  disabling it for a while each time).
* `EspServer`: both tasks run when they can, as the scheduler guarantees them
  (neither has priority for ever: both block). No peer has to connect,
  subscribe or stay.
* `BleClient`: both tasks run when they can. `MainProgress` also holds the answers of
  a server's board that is there: it is heard, connects, pairs and answers.
  `SubscribesOrShowsWhy` is about that case, and assumes besides that from some time
  on nothing fails (`<>[][~Fault]_vars`); a failure is never needed for progress.
* `UartUplink`, `UartLink`: the threads of the program, the timer and the board's task
  run; a port that can be opened is opened sooner or later. Nothing says that
  packets come. `RealignsItself` assumes a link that keeps up from some time on, as
  `KeepsUp` spells out: at 1 048 576 baud the 3 bytes of a packet take 30 microseconds
  of the 40 milliseconds between two.

## What is proved

Every safety property of a passing run, and every refinement, is a theorem. The
argument is the same each time: an
invariant (`IInv`, in the UART modules `UplinkInv` and `LinkInv`) that holds initially and
is kept by every step (one lemma per
action or group of actions that touch the same variables), found with TLC's help
and checked by TLC before it was proved, and the property as a consequence of it.

The assumptions are the named ones of the modules: `SliderAssumption` (sliders
stay in their ranges, which `setRange` ensures), `ClientAssumption`,
`ServerAssumption` and `LinkAssumption` (packets are not empty, the zeroed buffer
is a packet, bounds are numbers), `SocketsAssumption`, `NoFdAssumption` and
`DescriptorAssumption` (-1 is no descriptor), `HandleAssumption` (`NO_CONN_HANDLE` is
no handle) and `ReadingAssumption`. The connections, handles and readings may be any
sets, the packet length, backlog and capacity any numbers.

**Codec and panel** (`PanelProofs`). `InsertRead`: reading any
signal after inserting a value in its range gives that value for the signal
inserted and the old one for every other signal. Its proof splits the 24-bit
word at the borders of the fields and goes by lemmas on quotients and remainders.
With it the panel keeps `PanelTypeOK`, `PanelLightsExclusive`,
`PanelBufferShowsPanel` and `PanelNoSpuriousWarning`, and implements `SignalStore`
(`PanelImplementsStore`), for any values of the sliders. The inductive invariant
relates the buffer to the sliders and, through `gui`, to the arguments of a
`setLightSignals` under way: between the two inserts the left light is new and
the right one still that of the last call, which is why one enabled box at most
is the fact `NoSpuriousWarning` needs.

**Server TCP service** (`TCPServerProofs`).
`ServerTypeCorrect` and `ServerLeaksNoSocket`, for any clients. That the worker holds
the connection it serves and no other (`WorkerInv`) needs that a queued connection
is queued once and is in no other place (`QueueInv`). That nothing is left after
the destructor is harder, because closing a listening socket does not stop a worker
blocked in `accept()`: `ListenerInv` says that a socket which survives its `close()`
belongs to a worker that has set `m_is_running` after the destructor had cleared
it. Such a worker never ends, so the destructor is still in its `wait()`: the
finding `tcp_server_race` is the price of there being no leak.

**Client TCP service** (`TCPClientProofs`).
`ClientTypeOK`, `ClientNoStrandedRead` and `ClientNoLeakedFd`, for any connections,
capacity, packet length and any server. The strengthening says for each place of
the worker which descriptor is open and what `m_status` is, and for each place of
the destructor from "load" on that `m_stop` is set, and that a worker which
passed its last test of `m_stop` before is in a read on the descriptor the
destructor is going to shut down.

`ClientWholePackets` needs to know what is on its way as well. `StreamInv` says of each
connection that every byte is followed by its successor in the packet or, after
the last one, by the first of the next (`Chain`); that the first one to come is the
one after the last the worker has taken, or the first of a packet if it has taken
none; and that the last one ends a packet as long as both ends are there. The last
part is what makes a cut packet (of a server killed in a blocked `send()`) the last
thing on its connection; `read()` then returns 0 with the packet incomplete, and
`Top` drops it, since it clears `tmpbuf` for the next connection.

**TCP link** (`TCPLinkProofs`). `LinkEachAsSpecified`: a step of the pair is a step of
the server's module or none, and one of the client's module or none. The effect of
a system call is the same in both, by construction; what has to be shown is that
the other program makes only calls that its peer's `ClientCall` or `ServerCall`
allows, which follows from the inductive invariants of both modules, instantiated
here, and from `JoinInv`. So what is proved, or checked, of either program with the
most general peer holds of the pair.

`LinkImplementsSpeedometer`: what the window shows never goes back to an older edit.
`OrderInv` puts the places an edit passes through in a row: the worker's copy, the
bytes on each connection, `tmpbuf`, `m_buffer`, the newest edit each field has
shown. No place holds an edit older than one further on, and none overtakes
another on a connection. Every step moves edits one place on, forgets some or
copies the newest into the first place. A connection that was left behind is
no exception, because closing its client end discards what was not read
(`ConnStream`).

**Dashboard** (`DashboardProofs`). `DashboardTypeOK`,
`DashboardSoundMatchesLights`, `DashboardDisconnectedIsBlank`, for any readings. The
strengthening adds that `m_activeSignalSound` is the sound selected by the lights
shown, which every handler keeps, though it is assigned in another order with
respect to the player in each branch; and that lights are out while
disconnected.

**BLE server board** (`EspServerProofs`). `BoardTypeCorrect`, `PacketsAddressThePeer` and
`BoardNeverDeaf`, for any set of handles. `HostInv` says at which places of the host
task there is a connection. The board advertises only without one, so that no new
connection meets the handle of the last; and a link that breaks while its peer is
subscribed is deleted only after the SUBSCRIBE event has written the dying handle
once more, right before DISCONNECT clears it.

**BLE client board** (`BleClientProofs`). `BleTypeCorrect`, `HandlesOfThisLink` and
`GivingUpShows`. `LinkInv` says what DISCONNECT clears and ties the two flags of
`try_start_dsc_discovery()` to this connection: `s_enc_done` is set exactly while the
link is encrypted, `s_chr_found` only with a handle found on it. `LedInv` follows a
colour through the three steps of `UPDATE_LED`: from the stop of the timer to the
refresh the timer's task cannot begin to paint, so that the colour of the
refresh is the one that stays. Its last part needs to know which procedures under way
can still end in a subscription (`Hopeful`), for the main task is idle, and the
led not red, while one of them is.

**UART link** (`UartProofs`). `UplinkImplementsFeed`, which is `ImplementsFeed` of
`UartUplink`, and `UartTypeCorrect` and `UartSameWhileInStep` of `UartLink`, for any
length of a packet, any capacity of the lines, any number of edits, restarts and
crashes. Since `UartLink` puts `UartFeed` in the place of what `UartUplink` models, the
two refinements together cover the way from the panel to the display.

Two facts carry both halves. The first is an order: the places an edit passes through
(`m_buf`, `temp_buf`, `up`, the board's `last`; then `down`, `m_buffer`, the field's
`newest`) never hold an edit older than one further on, and the bytes on a line are in
the order of their edits. It survives everything that happens to the bytes: a line
loses some at its front, or all, and a part of a packet is put at its end, but nothing
is put between. A program that starts again sends a zeroed buffer first, whose bytes
are of no edit, and bytes of the log are of none either; the invariants speak of the
others only (`NoEdit`). That is why a link that is out of step shows garbage, but never
an old edit.

The second is the alignment. `Whole` says that a line can be cut into packets from its
front to its end. It holds until a step breaks a packet up (`BreaksUp`): any other step
puts a whole packet at the end or takes a number of bytes off the front that `SBUFLEN`
divides, and then what is left is whole as well (`WholeAppend`, `WholeFirst`,
`WholeDrop`). So the buffer holds a packet that was sent, and the getter finds its byte
where it looks for it (`ShownIs`). The lemmas keep the product of a number of packets
and `SBUFLEN` folded (`Off`) and use only that it is additive and monotonic. The newest
edit of a packet exists because a set of numbers below a bound has a greatest one,
which follows from `<` being well-founded (`Greatest`).

TLC found both invariants to hold on the instances of `uart_uplink` and `uart_link`
before they were proved.

**Only model-checked**: everything temporal under fairness, which the prover
does not treat (`Terminates`, `DropsDeadClient`, `WaitsBehindOneServed`,
`DestructorReturns`, `ShowsLastEdit`, `BlankWithoutServer`, `ShowsWhatIsReported`,
`LightsAreHeard`, `LedShowsTraffic`, `LedTellsState`, `SubscribesOrShowsWhy`,
`BlankWithoutPackets` and `RealignsItself`).

## Findings

* **`esp_server_led`**: `README.md:46` says "If you disconnect the BLE client, the
  RGB led on the BLE server should turn off completely." The main task lights the
  led after a notification (`main.c:155`) or after a second look at the handle
  (`main.c:169`); `gap_event` may clear the handle and turn the led off
  (`main.c:361-364`) between the test and the light, and then nothing turns the
  led off before another client comes and goes.
* **`tcp_server_race`**: the destructor's `m_is_running.store(false)`
  (`desktop/server/src/tcpservice.cpp:69`) is undone by the worker's
  `store(true)` at line 87 when the program ends between the worker's `listen()`
  and that line; the accept loop then spins on a closed descriptor and `wait()`
  (line 79), there to "Join the worker thread", does not return.
  `Terminates` is the same property for a destructor that starts later, and
  holds.

* **`uart_same`**: `README.md:42` says of the UART target "the behavior on your computer
  should be the same". The client's board writes packets to `UART_NUM_0`
  (`esp32/client/src/main.c:19`, `:362`), where its `sdkconfig` also has the console
  (`CONFIG_ESP_CONSOLE_UART_NUM=0`): every `ESP_LOGE`, such as that of a refused
  connection at line 330, comes out of the same port. The client program takes any
  `SBUFLEN` bytes for a packet and shows them. The run keeps to the behaviours of
  `UartLink` in which every packet is forwarded and read whole (`LogSpec`, in
  `MCUartLink`), so that only the log is left to blame. The trace: the board logs
  `SBUFLEN` bytes, the program opens its port, reads them as a packet, and the next
  tick of the timer shows a value the panel never had. `SameWhileInStep` is the same
  property for a link on which no packet has been broken up yet, and holds;
  `RealignsItself` says that the garbage does not last.

Behaviour worth knowing that no document contradicts: a client that connects
while another is served is queued, believes it is connected and shows a zeroed
dashboard until the other leaves; a client whose `socket()` call fails once never
tries again; a board whose `ble_gap_adv_start()` fails advertises no more until
its host resets. The client's board stops for good, blinking red, when `UPDATE_LED`
refreshes the led in the instant the timer's task does and the driver refuses
(`LedBusy`); it stays idle, steadily red, after a scan that could not be cancelled, a
connection that could not be started, or a failed encryption (`Stuck`): nothing but a
reset of the host, a disconnection by the other side or a reboot gets it on.

## Not modelled

* painting, layout, fonts and colours: no state of their own;
* the blink timer: a flag that only painting reads;
* the end of the client's window, with a player that outlives the 100 ms it is
  waited for: the `QProcess` then calls back from its own destructor, into a lambda
  that may start it again, which Qt does not define. `Dashboard` ends before it;
* pairing, passkeys and GATT registration of the server board: calls into the
  NimBLE host, whose decisions are not in this repository; `BleClient` has their
  outcome;
* what a board's bootloader prints on its UART before the program starts, which
  the UART modules treat as the log;
* build files, `sdkconfig`, sounds and fonts.

The destructor of the client's UART service is modelled in `UartClient`, but no
property says that it returns; those of the other three services have one.

## Plan

Done, in this order: `Signals`, `Panel`, `SignalStore` and their proofs; `Sockets`,
`TCPServer`, `TCPClient` and the client's proofs; `Dashboard` and its proofs;
`EspServer`; `Speedometer` and `TCPLink`; `BleClient`; `UartServer`, `UartClient`,
`UartFeed`, `UartUplink` and `UartLink`; the proofs of `BleClient`, `TCPServer` and
`EspServer`, of whole packets in `TCPClient`, and of both refinements of `TCPLink`; the
proofs of both halves of the UART link.

Left: the end of the client's window in `Dashboard`.
