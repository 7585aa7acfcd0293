# GilgaMesh in TLA+

A verification project for the firmware of the GilgaMesh bluetooth mesh (the C
sources in `src/src` and `src/inc`, for Nordic's nRF51 with the S130 softdevice
and SDK 12).  It models how a board starts, how the mesh forms, breaks and heals,
how messages are laid out, queued and passed on, what the terminal does with keys,
and what keeps a quiet board going.  TLC checks the models on small instances;
TLAPS proves the main invariants for every value of the constants.

Paths like `gap.c:244` are relative to `src/src`.

## The system

A *board* runs one main loop (`main.c: run`): read a key from the terminal,
execute every entry of the scheduler queue, sleep.  Interrupts only append to that
queue, so handlers run to completion, one after the other.  Concurrency comes from
what lies between the radio and a handler:

1. the softdevice changes a link and holds an event; the interrupt asks the
   scheduler for a fetch;
2. the fetch entry runs `ble_evt_dispatch` (`softdevice.c:18`) on every event:
   first `ble_conn_state` is told, then `handle_gap_event` appends the event with
   its handler to the scheduler queue;
3. the handler runs when its turn comes and changes the connection table.

Between 1 and 3 three views of the same links differ, and the handlers read all
three.  Most of what is hard in this code follows from that.

A *mesh board* (built with `IS_PROD_BOARD`) advertises until a parent connects,
then scans for children while it has free slots; when it loses the parent it
disconnects everybody and advertises again.  The *gateway* (built without) is the
root: it scans from the start and never expects a parent.  No build file in the
repository defines `IS_PROD_BOARD` (the build script passes `IS_PERIPHERAL`, which
nothing reads), so both kinds are modelled and a constant selects one.

| Component | Source | State | Operations | Correct when | Modules |
|---|---|---|---|---|---|
| packet queue | `queue.c` | ring of packets, two `uint8_t` indices | push, peek, pop, cleared with its connection | it is a bounded FIFO | `PacketQueue`, `TransmissionQueue`, `BoundedFifo` |
| message transmission | `gatt.c`, `gap.c: handle_buffers_freed_event` | `unsentMessages` of each connection, transmit buffers of the softdevice | send, resume on TX_COMPLETE, disconnect when full | messages arrive in order, once, on the connection they were accepted for; nothing stalls | `Outbox`, `Channel` |
| connection life cycle | `gap.c`, `connection.c`, `softdevice.c`, `main.c: run` | connection table, `ble_conn_state`, scheduler queue, advertising and scanning | the GAP handlers, `adv`, `scan`, `bro`, `cons` | the table follows the links; orphans release children and advertise; boards with room scan | `Device` |
| several boards | the same, on each board | the links between boards | connect, lose, shed, heal | the links are a forest, and one tree in the end | `Mesh`, `Forest`, `Traffic` |
| message dispatch | `gatt.c` | registry of message types | register, dispatch, propagate | each type reaches its handler and goes where its handler says | `Boot`, `Device`, `Traffic` |
| message types | `message_types/*.c` | ids and versions in the table | handshake, heartbeat, broadcast | what is sent is what is read; the gateway learns the topology; a broadcast reaches every board once | `Messages`, `Packets`, `Traffic` |
| discovery, advertising | `gap.c`, `inc/gap.h` | advertising data, timing | advertise, recognise, connect in time | boards hear and recognise each other, and nobody else | `Messages`, `Packets` |
| terminal, commands | `terminal.c`, `command.c` | line buffer, input mode, command table | keys, `help bro cons adv scan` | a line never overruns its buffer; the right command runs | `Terminal` |
| initialisation | `main.c`, `*_initialize` | `init_failed` | eleven modules in order | nothing runs on a module that is not initialised | `Boot` |
| timer, blinky | `system/timer.c`, `app/blinky_app.c` | SDK timers, the LED | create, start, expire | the callbacks run in the main loop, for ever | `Timers` |
| device id, conversion | `device.c`, `conversion.c` | none | formatting | the four digits are the low 16 bits | `Messages`, `Packets` |
| errors, logging | `error.c`, `system/log.c` | input mode, colour of the terminal | log, log an error | a log line neither breaks a prompt nor colours what follows; a fault is logged and execution goes on | `Terminal`, `Timers` |
| hardware access | `system/gpio.c` and others | pins | thin wrappers | | `Timers` (`gpio.c`) |

The components interact by plain calls inside handlers and by entries of the
scheduler queue.  `gap.c` calls `handshake_message.c` for a new connection, the
message types call `gatt.c` to send, `gatt.c` asks `connection.c` for the table
entry and calls back into `gap.c` to disconnect a peer whose queue is full.

Hard behaviours, each with its line in `PROJECT.json` under `hazards`: the lag
between the three views, handle reuse, lost scheduler entries, dropped or merged
TX_COMPLETE events, the order of parent and child events, cycles of boards,
broadcasts without sequence numbers, heartbeats that overtake handshakes, periodic
advertising against periodic scanning, an interrupt just before the sleep,
arithmetic in `uint8_t`, and buffers of fixed size.

## The modules

| Module | Stands for |
|---|---|
| `PacketQueue` | `queue.c` as operators on a record; indices are taken modulo 256 as the `uint8_t` fields are |
| `TransmissionQueue` | one such queue under any sequence of calls |
| `BoundedFifo` | abstract specification of the queue: a sequence with a capacity |
| `Messages` | the bytes of messages, advertisements and names; the lengths of printed texts |
| `Packets` | one board advertises and talks, a peer hears it and listens: `Messages` over `TransmissionQueue` |
| `Outbox` | the way of one handle's messages through `gatt.c` and the softdevice to the peer, over lost links and reused handles |
| `Channel` | abstract specification of that way: one connection of a peer, from message to message |
| `Device` | the connection life cycle of one board against arbitrary peers |
| `Mesh` | several boards whose peers are each other |
| `Forest` | abstract specification of the links of a mesh |
| `Traffic` | handshakes, heartbeats and broadcasts over links that change |
| `Terminal` | the line editor, the command table, the log on the screen |
| `Boot` | several boards: `initialize`, the registry of message types, the first messages |
| `Timers` | the main loop between interrupts: timers, scheduler queue, sleep, LED, keys |
| `MCPackets`, `MCTerminal` | values of the constants of `Packets` and `Terminal`; the other modules get plain values from their `.cfg` files |
| `PacketsProofs`, `OutboxProofs`, `DeviceProofs`, `TerminalProofs`, `BootProofs`, `MeshProofs`, `TrafficProofs`, `TimersProofs` | the theorems about the modules they are named after; `PacketsProofs` also has those about `TransmissionQueue` |

How they fit together.  `Packets` extends `TransmissionQueue` and `Messages`.
`Outbox` uses the sequence that `BoundedFifo` promises.  `Device` has every
interleaving on one board; `Mesh` keeps of a board what its neighbours can notice
and implements `Forest`, as long as handlers run before the next link of their
board comes up (`Prompt`).  `Traffic` has the connection tables and the messages
instead of the search for neighbours and implements `Forest` as well; it takes from
`Device` that tables and `ble_conn_state` agree, and from `Channel`, which `Outbox`
implements, that messages arrive in order.  What a full queue costs is left out of
`Traffic`.

Definitions preceded by a comment `Slip:` are wrong variants of the definition
that follows.  They are not used by any specification; each shows that a property
fails when the code is changed that way (`mutants` in `PROJECT.json`).

### PacketQueue, TransmissionQueue, BoundedFifo

`push_onto_queue`, `peek_from_queue`, `pop_from_queue` are the functions of that
name, `reset` the `memset` of `unset_connection`.  `ok` is the returned bool and
`out` the packet copied out.  `ImplementsFifo` maps the slots from `front` on,
modulo the size, to the contents of `BoundedFifo`: the refinement says at once
that order is kept, that nothing is overwritten when the ring is full, and that a
packet is refused exactly when the queue is full or the packet too long.

### Messages, Packets

`Messages` gives the packed structs of `inc/message_types/` and `inc/gap.h` as
sequences of bytes: the three requests as `send_*_message` fills them
(`BleMessageReq`), the same bytes as the receiver's cast reads them (`received`),
the advertising data with its length bytes and the bytes the code leaves unset,
the name of `device.c` digit by digit, and the lengths of what `sprintf` prints.

`Packets` follows one link.  While the peer scans, the board's next advertising
event falls at some `phase` of the peer's sweep over the three channels (3 x 160
units of 0.625 ms, a window of 64 in each; the board advertises on channel 37
only, every 512 units plus a random delay).  A report is taken for a mesh board or
not (`should_connect_to_advertiser`; with the one link there is here, the second
question of `gap.c:192`, for a free child slot, is always answered yes), an
attempt to connect lasts at most 4800 units, and on the link messages pass through
the ring buffer until it ends.

### Outbox, Channel

`link`, `onAir` belong to the softdevice, `events` is what waits for the main loop
about this handle, `active` and `unsent` are the table entry.  `Send` is any of
the application's sends, `handle_*` are the handlers of `gap.c`, `Acknowledge`,
`LinkLost`, `LinkEstablished` the radio.  `Acknowledge` may drop its event up to
`MaxDrops` times, which is what a full scheduler queue does.  `accepted`,
`delivered` and `fresh` are history variables.

`fresh` says that the current link came up when the application had finished with
the handle's previous link.  The code keeps messages in order only then: while the
DISCONNECTED event of the old link waits, the entry of the old link is still the
one found by handle, and its unsent messages can go out on the new link.  That
hazard is listed; the properties are stated for fresh links.

`Channel` is what the two ends of such a connection see of all this: a `line` of
messages handed over, numbered from the first one of the connection, of which the
peer has `received` a front.  A message that finds the queue full ends the
connection, and the line may then be cut short anywhere but never has a gap
(`GiveUp`); when the link ends, some of the messages under way may still have come
through.  `ImplementsChannel` maps `line` to what is on air followed by what waits
in the queue, while the link is fresh; once the peer is being disconnected, to what
is on air alone, since what waits then goes nowhere.

### Device

`links`, `closing`, `advertising`, `gap` and `sdEvents` belong to the softdevice,
`connState` is `ble_conn_state`, `sched` the scheduler queue, whose head is the
entry that executes, `activeConnections` the table.  `loop` says whether `run` is
at the terminal or in `app_sched_execute`.  One action stands for each handler, or
for each of its early returns: `reject_connection_event` is the `return` in
`gap.c:228`, `lose_parent`, `lose_child` and `lose_unknown` are the branches of
`handle_disconnection_event`.  `ble_evt_dispatch` handles one event, so interrupts
may come between two events of a fetch.

`send_to_multiple_connections` may find any subset of the queues full (`SendTo`):
`Outbox` has the exact queues, `Device` keeps the consequence, a disconnection.
Using a NULL connection (`UseNull`) is undefined behaviour: reading or writing
through address 0 either raises a fault, whose handler `HardFault_Handler` is empty
and whose return repeats the fault (`hung`), or has no effect that matters here.
`NullAccess` says which of the two a run allows.  `print_connections` is the
listing that `cons` and the handlers of CONNECTED and DISCONNECTED end with
(`gap.c:234`, `gap.c:256`): it looks up every connection `ble_conn_state` lists and
uses NULL when the CONNECTED handler of one of them still waits.  The code does
nothing against that, so no property forbids it.  A board that hangs does nothing
any more; the properties of what an idle board does are about the others.

The softdevice is modelled by what the code relies on: one link as a peripheral,
`MAX_PERIPHERAL_CONNECTIONS` as a central, one connection attempt at a time,
scanning starts only from idle, advertising and scanning stop when a connection
comes up, events are delivered in order.  `lost` records that the scheduler queue
was full when an entry should have been appended; the code only logs it.

### Mesh, Forest

A link is a pair of parent and child.  Each board has its own `sdEvents`, `sched`,
`connState` and `gap`; the handlers are `Device`'s without the connection table,
and both ends of a link get their events independently, at their own pace.
`closing` are the links an end has asked to disconnect.  `Forest` promises that a
board finds a parent only while it has neither a parent nor children;
`ImplementsForest` maps its `tree` to the links that are not on their way out.
The queued report of an advertiser and its handler are one step (`hears_advertiser`),
and a softdevice without a free link refuses the attempt (`HasRoom`).

`Prompt` says that a board has run its handlers before its next link comes up.
Between a report and a connection lies at least one more advertising event of the
peer, some 320 ms (`Packets`), while handlers take milliseconds; nothing in the
code enforces it.  `Mesh` and the theorems assume it, `MeshCycle` shows what
happens without it.

### Traffic

A board is its device id and a connection is known by its peer.  `links` are the
links that are up, `closing` those an end has asked to disconnect
(`disconnect_from_peers`): they carry messages until they end (`LinkClosed`), while
the board may already advertise and find another parent.  `tree` is the others.
`onAir` holds the messages of each direction of a link, lost with it; `sched` the
connection events whose handlers wait.  The table has an entry per slot, with the
device id that a handshake brought; `unset_connection` clears it and
`set_connection` takes it over as it is.  A child is turned away by a board for
which `central_connection_active` is false: `ble_conn_state` lists the parent that
is in the table until the loss is dispatched, which is before its handler runs.  A
message is handled as it comes in, once the receiver has handled the connection
itself; the two ends of a link may do that at different times.  `view` is what the
gateway logged.  `got` and `origin` follow the one broadcast (`sent`) for as long as
no link comes up, ends or is asked to (`calm`).

Nothing in the radio's part asks for a tree.  A link comes up (`LinkEstablished`)
with any board that has no parent link, whatever its children; that no circle
closes is up to the handlers.  As in `Mesh` with `Prompt`, a board has run its
handlers before its next link comes up.

### Terminal

One action per outcome of `terminal_process_input`: the prompt, a character
appended, a line executed; `OtherHandler` is any other handler that logs between
two keys.  `readBuffer` is what lies before `readBufferIndex`, `parsedCommand` the
array of words, `typed` a history of the keys since the prompt. A word is a
sequence of characters, `find_arguments` is `strtok` by its specification: the
maximal runs without a space, the first `MAX_ARGUMENTS + 1` of them.  Reading a
pointer nobody set (an empty line, `bro` without an argument) may do whatever
`Garbage` says.  `screen` has the lines printed since the prompt, with the colour
that the control sequences of `log.c` left switched on; each macro of
`system/log.h` is an operator of its name.

### Boot

`step` is the place of each board in `initialize` and then in the main loop,
`done` the modules that succeeded.  One action stands for each `*_initialize` and
`skip_module` for the early return of `init_module`.  What a failure leaves behind
is kept where others notice it: the advertising data set before the failing
`sd_ble_gap_adv_start`, the heartbeat type registered before its failing timer.
`writeEvents` and `messageType` are the registry of `gatt.c` and the static
variables that keep the types.  Links form as soon as one board scans and another
advertises, also while the latter boots; its events wait until its main loop runs.
A board whose child slots are taken connects to nobody, and a mesh board does not
scan on (`gap.c:192`, `gap.c:237`).
A message carries its type, and the kind the sender meant as a history field;
`unknown` collects the messages that found no handler.

### Timers

`loop` is the place in `main`: the two modules that have timers, then terminal,
scheduler and wait in turn.  An expiration puts an entry for
`generic_timer_handler` into the scheduler queue from an interrupt, and that
handler puts the callback behind what waits, so a timer takes two passes through a
queue of limited size. `sd_app_evt_wait` returns if an interrupt came since it
returned last (`woken`); keys raise none.  An entry that finds the queue full goes
to `app_error_fault_handler`, which logs and returns.

## The runs

| Run | Question | States |
|---|---|---|
| `MCPackets` | is what one board packs what another one reads, recognises, can store and print, heard in time, through a ring that is a FIFO? | 19 379 |
| `Outbox` | a channel: in order, no gap; no idle buffer; does every message leave? | 142 097 |
| `DeviceProd` | mesh board, three handles, two child slots, every command: table, listing, orphan, advertising, scanning | 3 309 314 |
| `DeviceGateway` | gateway: does it always return to scanning? | 9 368 |
| `DeviceSmall` | scheduler queue of three that overflows: `ble_conn_state`; are the children of an orphan released? | 610 448 |
| `MCTerminal` | does the buffer hold, does the right command run, does the screen stay readable? | 10 981 |
| `Boot` | a gateway and two boards, any failure, every command | 520 172 |
| `Mesh` | a gateway and two boards whose handlers keep up: a forest, under the gateway, open, healing | 274 846 |
| `Traffic` | three boards: handshakes, heartbeats, one broadcast, over links that come up, close and are lost | 361 604 |
| `Timers` | two timers, softdevice events and keys on a small queue | 49 132 |
| `MeshCycle` | violated: four boards whose handlers run late connect in a ring | |
| `DeviceHeartbeat` | violated: a heartbeat is sent through a NULL connection | |

What the properties say, and why they could fail:

* `InOrder`: the messages received, on air and queued are together the accepted
  ones in order.  Violating it takes a refused write, a lost link or a cleared
  entry in the wrong order.
* `ImplementsChannel`: a message is either behind all that were accepted before it,
  or refused with everything that comes after it.  A message that is dropped, or
  stored over another one, when the queue is full would leave a gap that no peer
  could notice: there are no sequence numbers.
* `BuffersBusy`: only a TX_COMPLETE handler resumes a queue, so a miscounted or
  unhandled event leaves messages behind for ever.  (`NoStall`, which follows from
  it where there is a buffer at all, is proved and not checked by a run.)
* `ConnStateFollows`, `TableFollows`: the two lagging views are right about a link
  as soon as the waiting events are taken into account, for every handle, whatever
  was reused meanwhile; the table has each connection once and room for the next.
  `ListsEveryConnection` is what commands rely on: whenever one runs, `cons` and
  `bro` find an entry for every connection that `ble_conn_state` lists.  It is not
  said of the handlers that list the table, for which it does not hold.
  `ConnStateFollows` is checked with a scheduler queue that overflows, but says
  nothing of the table, which nothing repairs then.
* `OrphanShedsChildren`, `KeepsAdvertising`, `KeepsSearching`,
  `GatewayKeepsScanning`: what a board does once it has caught up (`Idle`).  The
  handlers decide each on a view that may be out of date; these say the decisions
  add up.  `ChildrenReleased`: the subtree under a lost parent dissolves.
* `ImplementsForest`, `HangsUnderGateway`, `Heals`: the same decisions, taken by
  several boards on views that differ, never close a cycle, leave no tree without
  the gateway, and bring everybody back after the last loss.
* `StaysOpen`: what `Heals` needs of every settled state.  A gateway with all the
  children it may have hears nobody, so a board outside can only be found by a
  board of the mesh that has room and has not stopped looking, and it must
  advertise itself.  In the run this is at stake when both boards are children of
  the gateway; the theorem is for any number.
* `KnowsPeers`: entries are reused and handshakes cross with losses; a table that
  named the wrong neighbour would give the gateway a wrong topology.
* `BroadcastComplete`, `BroadcastDiesOut`, `TopologyLearned`: messages carry no
  sequence number and are passed on by hand; a broadcast reaches everybody once
  while the links stay, and is gone some time after the last link came up, whatever
  the links did before and whichever end later; the last heartbeat to reach the
  gateway from a board that stays put is a true one.
* `HearsWhatWasSaid`, `PacketsAreWritable`, `RecognisesMesh`,
  `AdvertisementParses`, `PrintedTextFits`: offsets, length bytes and buffer sizes
  are spread over several files and tied by nothing but arithmetic.  The ring
  holds packets that the softdevice would refuse for ever.
* `HeardInTime`: advertising and scanning are both periodic; with an interval of
  480 instead of 512 units a board could stay unheard.
* `LineIsTyped`, `RunsWhatWasTyped`: buffer and array are shared by all lines and
  written without a check other than the two loop conditions.
* `PromptUndisturbed`, `AnswerFollowsPrompt`, `OnlyErrorsAreRed`: one flag
  silences the log while somebody types and must be off before the command
  answers; the colour is switched by two prints that are suppressed or printed
  together.
* `TypesAgree`, `KnowsMessages`: a type is the order of registration and boards of
  the mesh meet while one of them still boots.  They hold because nothing is
  initialised after a failure and because events wait in the scheduler queue; each
  exception (a board whose GAP failed and that was put on the air by hand) is
  stated in the property.
* `PeersFindService`: a board that can be found has the characteristic peers write
  to.
* `NeverSleepsOnWork`, `BlinksForever`, `HeartbeatsGoOn`, `KeysAreRead`: an
  interrupt may come between the last look at the queue and the sleep, expirations
  may be dropped, and keys wake nobody.

The bounds.  `MCPackets` has a ring of three slots of 23 bytes, which wraps at
every mix of pushes and pops; two ids with digits above and below ten; versions of
255, the longest to print; texts of 0, 12 and 13 characters, the last one a byte
too long; a packet one byte too long; and reports that differ from a mesh board's
in one respect each.  In `Outbox` two slots and two buffers give every relation
between a full queue, full buffers and free ones; six messages fill both twice;
three waiting events let a handle be lost and reused while the old link's events
still wait; one dropped event is enough, since `BuffersBusy` and
`EveryMessageLeaves` promise nothing after it, and `InOrder` and
`ImplementsChannel` do not depend on how many there are.  In `Device` two handles
give a parent and a child, or one handle used twice in both roles; with three
handles and two child slots a slot serves several handles and a handle several
slots.  `MaxPending` bounds the events and entries that wait before the
environment adds another one (events that a disconnection or a connection attempt
owes may exceed it): three let a parent and a child come and go together, four
with a report or a message in between.  `SCHED_QUEUE_SIZE` is eight where nothing
is to be lost and three where it is; the code's value is 50.  A terminal buffer of
six characters holds more words than an array of two, and is filled with and
without them; three lines on the screen are the prompt, an answer and what comes
after it.  Three boards in `Boot` make a chain in which a message is passed on,
and with one child slot each some board runs out of them (the theorems are for any
number); with `MaxEvents` of one, a timer or a user adds an event only when the
queues are empty, while handlers and new links fill them further.  In `Mesh` three
boards with two child slots can form a chain and a star; two losses break a chain
at both links at once, or a link again that has just been mended.  `MeshCycle`
needs a gateway and three boards for a ring, one slot each and one loss.
`Traffic` has one loss, which moves a board to another parent while messages of
the old place are still on their way; one broadcast, sent when no handler waits
and before the gateway has heard of anybody; and one heartbeat of each board at a
time, none sent while the broadcast is under way.  The last bound hides nothing
with three boards, where the broadcast always dies out; with more, copies that
chase each other through closing links could put heartbeats off.  A queue of five
in `Timers` is full with three events and the two timers, and `MaxLate` lets a
timer expire once in each turn of the main loop: the periods are 200 ms and 3 s.

Deadlock is checked in `MCPackets` and `Outbox`, which must never stop, and the
violated `DeviceHeartbeat`.  Elsewhere the modelled system may really stop: a NULL
access hangs the board (`Device` and `Terminal`, where a line without a word may
do the same); boards that failed early in `Boot` and `Timers` have nothing left to
do; in `Mesh` and `Traffic` everything has settled once the losses of the bound
are used up.

Fairness.  `Outbox`: the main loop runs what waits, as `run` does; a peer
acknowledges, or the supervision timeout ends the link (500 ms,
`ATTR_MESH_CONNECTION_TIMEOUT`); a link that was asked to disconnect ends.
`Device`: the same, and a connection attempt succeeds or times out after
`ATTR_MESH_CONNECTION_SCAN_TIMEOUT`.  Nothing obliges a peer to appear, a parent
to stay, or a user to type.  `Mesh`: the same on every board; moreover a gateway
that scans again and again hears a board that keeps advertising (`HeardInTime`
bounds how long that takes), and an attempt made again and again to connect to it
succeeds at last.  Nothing is owed to mesh boards that look for each other.
`Traffic`: handlers run, heartbeats are repeated, what is on air arrives unless
its link ends, and a link that was asked to disconnect ends; otherwise links owe
nothing.  `Timers`: the processor goes on, and a timer
that was started expires.

## Disagreements between the code and its documentation

1. `MeshCycle`.  The README of the program says boards do not connect to each
   other unless the gateway is present.  `handle_advertising_report_event` does
   not ask for a parent, and `handle_connection_event` keeps a child when
   `ble_conn_state` lists a parent.  Boards that connect to each other before
   their handlers have run each find a parent in the next: a ring that nothing
   dissolves.  It takes handlers that wait as long as a connection takes, so it is
   unlikely; when handlers keep up (`Prompt`) the promise holds for every settled
   mesh, as `TreesHangUnderGateway` proves.
2. `DeviceHeartbeat`.  A heartbeat (or a broadcast) that runs between the dispatch
   of CONNECTED and its handler is sent to a connection that `ble_conn_state`
   lists and the table does not: `find_active_connection_by_handle` returns NULL
   and `send_to_single_connection` writes through it.

Noticed on the way and not shown by a run:

* An orphan that scans after a lost child or a timeout does connect to others
  (`gap.c:192`); it turns them away afterwards, so `OrphanShedsChildren` and
  `ChildrenReleased` hold all the same.
* After `adv` on a gateway, a central that connects and leaves is taken for a lost
  parent, and scanning stops with nothing to restart it.  `GatewayKeepsScanning`
  is checked, and proved, without that command.
* ESC and ENTER give a line without a word; `terminal_execute_command` hands an
  uninitialised array to `command_execute`, which compares its first pointer
  (`terminal.c:88`, `command.c:49`).  `bro` without an argument does the same.
* `send_heartbeat_message` sends the constant version 0.1
  (`heartbeat_message.c:47`), not the one in `config/version.h`, so the gateway's
  list of versions is stale after an update.
* A gateway whose GATT initialisation failed can still be made to scan and then
  connects, as a central that no peer can write to.
* The packet queue stores 23 bytes while a write takes 20; only the limit on the
  text of a broadcast keeps longer packets out.
* An attempt to connect ends after 3 s, and a board may go unheard for about 4.5 s
  (`HeardInTime`): attempts do time out between boards in reach of each other.
* `pca10028.h:40` says the LEDs are lit when the pin is low, so the LED is lit
  while `LED_IS_ON` is FALSE.

## The proofs

Every safety property that a passing run checks is also a theorem, and so are the
three refinements and the type invariants (`Packets` has none of its own beyond
the queue's; the invariants of its theorems contain the types they need).  All
theorems hold for every value of the constants that satisfies the named `ASSUME`
of the module (`QueueAssumption`, `OfferedAssumption`, `PacketsAssumption`,
`OffersAssumption`, `OutboxAssumption`, `DeviceAssumption`, `TerminalAssumption`,
`BootAssumption`, `MeshAssumption`, `TrafficAssumption`, `TimersAssumption`),
which TLC evaluates in the runs.  Three clauses of `PacketsAssumption` say
something about the world: what a user types has no zero byte before its end; no
board has the id 0, which `get_central_connection_device_id` returns for none; and
no device outside the mesh advertises 22 bytes under the manufacturer 0xC0DE,
which is all that `should_connect_to_advertiser` looks at.  Three more hypotheses
are stated in the theorems that need them: `Prompt` in `MeshProofs`; that there is
a gateway, in `MeshStaysOpen`; and that `adv` is not among the commands, in
`GatewayNeverRests`.  What `Prompt` says is part of `LinkEstablished` in
`Traffic`, so its theorems rest on it too.

* `PacketsProofs!TypeCorrect`, `RingIsFifo`: `TypeOK` is inductive and
  is all the refinement needs.  The argument is modular arithmetic: the slot
  written by a push is none of the slots in use because offsets below the size are
  distinct modulo the size.  `QueueWithin` shows that every step of `Packets` is a
  step of the queue or none of its business, so both hold of a board's queue
  (`BoardsRingIsFifo`).
* `PacketsProofs!HeardAsSaid`, `AlwaysWritable`, `TextsFit` rest on `HeldAsSaid`:
  the packets in the ring, from `front` on, are the bytes of the unsent messages
  in their order.  That is preserved because of what the ring does to its
  contents, the lemmas behind `RingIsFifo`.  What remains is about one message: its
  bytes, read as the receiver's struct, are its fields; the text of a broadcast
  ends at the first zero byte, which is the one the `memset` left behind the text.
* `PacketsProofs!AlwaysHeardInTime` rests on `PhaseRises`.  That the count of
  missed events is at most thirteen is not inductive: the invariant ties it to the
  phase, which each missed event moves up by 32 to 48 units modulo the sweep of
  480.  From the end of the window on, the phase is at least 64 + 32 `missed`, and
  when it passes the end of the sweep it lands within the window of 64.
* `PacketsProofs!AlwaysRecognised`, `AlwaysParses` rest on `ReportKnown`: the report
  handled last is advertising data as some board lays it out, or another device's,
  or nobody's.  Lemmas give its bytes one by one for every id and every value of
  the bytes left unset.
* `OutboxProofs!TypeCorrect`, `DeliveredInOrder`, `NeverStalls`.  `InOrder` is not
  inductive: which messages belong to a connection depends on the events that
  wait.  The invariant adds `EventsAlternate` (DISCONNECTED follows the CONNECTED
  of its link, a fresh link has no other event of its kind before it) and `Quiet`
  (what is empty when no connection is served).  `NoStall` uses the same
  invariant.  So does `BuffersNeverIdle`: the buffers freed and not yet refilled
  are the pairs of a TX_COMPLETE event in the queue and a number up to its count
  (`Freed`).  An acknowledgement takes packets off the air and appends an event
  that counts as many; the handler of that event sends as many again or empties
  the queue; every other event leaves the number of pairs as it is.
* `OutboxProofs!ChannelKept`.  The initial state maps to that of `Channel`, and each
  step to one of its steps or none: a send to `Accept` or, with a full queue, to
  `GiveUp`; the acknowledgement of packets to `Deliver`; the loss of the link to
  `Break`; moving packets from the queue into free buffers to nothing, because it
  leaves what is on air followed by what waits as it was.  That an accepted
  message gets the next number of its connection is `InOrder`: what is accepted is as
  long as what was received, is on air and waits.  That a handle that comes up
  again while old events wait does not show is `EventsAlternate` and `Quiet`: a
  fresh link starts with nothing on air and, once it is served, an empty queue.
* `DeviceProofs!TypeCorrect`, `ConnStateNeverMisses`.  The second is inductive on
  top of the types: `Leads` is preserved by appending an event at the softdevice's
  end (`LeadsAppend`) and by taking one off the front (`LeadsTail`), and every
  other step leaves all three sides alone.
* `DeviceProofs!TableNeverAstray`, `ConnectionsListed`.  That the table never
  fills up is a matter of the past: how many entries are taken when a handler runs
  depends on the order in which links came and went.  The invariant `Follows`
  therefore sees the waiting events as a path of views, from what the table says
  over `ble_conn_state` to what the softdevice says, each step one CONNECTED or
  DISCONNECTED event; every view on the path `Fits` (one parent, at most
  `MAX_PERIPHERAL_CONNECTIONS` children), because each was once what the
  softdevice allowed.  When a CONNECTED event is handled, the next view fits, so
  the present one leaves an entry free (a pigeonhole over handles and entries).
* `DeviceProofs!OrphanKeepsNobody`, `OrphanAdvertises`, `RoomIsSearchedFor`,
  `GatewayNeverRests`. What an idle board does depends on what was under way
  before.  On top of `Follows`, the invariant names for each promise the ways it
  may still be kept: `Offers` (the board advertises, or has a parent in its table,
  or an event of a parent is coming), `Sheds` (a child is closing, or stays next
  to a parent, or an event is coming whose handler will see to it), `Searches`
  and, on the gateway, `Listens` (scanning is on, or an event that restarts it is
  coming, or there is no reason to scan).  When nothing waits, only the promised
  case is left.
* `TerminalProofs!TypeCorrect`, `LinesApart`: the buffer bound is inductive as it
  stands because the length grows only below the limit that `ends_line` tests.
  `PromptStaysAlone`, `CommandsAreAnswered`, `ErrorsAloneAreRed` rest on
  `ScreenInv`: the ink is the default one between any two prints, and the lines
  printed so far fit the input mode and the command that ran.
* `TerminalProofs!FirstWordRuns` is about what `find_arguments` returns for a line
  of any length.  The words of a line are counted, not cut off one after the
  other: word `k` starts at the position with `k` - 1 starts of words before it
  (`StartOf`).  So the first word starts at the least such position, which exists
  because the positions below a bound are well founded, and everything before it
  is a space; it ends before the next space or with the line.
* `BootProofs!TypeCorrect`, `NumbersAgree`.  `TypesAgree` is strengthened to
  `Agreement`: every handler sits at `NumberOf` its message, every type kept or on
  its way is that number or 0, and a board that has not failed has registered
  exactly what its place in `initialize` says (`RegisteredBy`).  `ServiceFound`:
  with `ServiceFirst`, a board past GATT that has not failed has it, and so has
  every board with advertising data.
* `BootProofs!MessagesKnown` adds `RegistersAll` (a board whose GAP succeeded goes
  on to register every type: nothing between can fail but the last timer) and
  `EventsSpoken` (a message without a number was sent by a board of `Mute`, those
  that reached the main loop without GAP).
* `MeshProofs!BoardsFormForest`, `TreesHangUnderGateway`.  The invariant accounts
  for the lag of each `ble_conn_state`: it lists every link or will (`Listed`),
  and what it lists is a link or its loss is coming (`Honest`).  Under `Prompt` a
  CONNECTED event has nothing in front of it.  `Orphans`: a mesh board advertises,
  or has one parent, or is about to learn of a loss, exactly one of the three.
  `Shedding`: a board that advertises has no child but those it will turn away.  A
  board that is attached has therefore neither a parent nor a child that stays,
  which is the step of `Forest`, and a new leaf closes no cycle.  In a settled
  tree every board with children but the gateway has a parent, so a tree without
  the gateway would be a cycle.
* `MeshProofs!MeshStaysOpen` (its second hypothesis is that there is a gateway).
  Scanning stops whenever a link comes up or an attempt ends, and each handler
  decides anew on a view that lags behind.  `Seeks` says of the gateway and of
  every board with a parent: it scans or connects, or an event waits whose handler
  makes it scan, or it is a mesh board without room.  The hard case is a board
  whose `ble_conn_state` is full while it has room: then the loss of a child is
  still on its way (`FullOrLosing`).  That somebody has room is a count: each child
  has one parent and the gateway is nobody's child, so if every board of the mesh
  had a child, there would be more boards than there are (`SomeoneHasRoom`).
* `TrafficProofs!PeersKnown`: `KnowsPeers` with `HandshakesTrue` (a handshake on
  its way over a link names the board at its beginning).  A free entry names
  nobody, which is what makes `set_connection` safe.
* `TrafficProofs!ForestStays`: the links that are not closing implement `Forest`.
  A link may come up with any board without a parent link, so what has to be shown
  is that such a board has no child left that stays, and only the handlers see to
  that: `handle_disconnection_event` asks all children to leave when the parent is
  lost, `reject_connection_event` those whose coming is handled after it.  If the
  first disconnects nobody, or the second keeps the child, TLC finds a board with
  children that gets a parent.  `Shedding` is the invariant: a mesh board without
  a parent in its table, and none to come, has no child that stays but those whose
  CONNECTED event waits.  That `central_connection_active` answers for the table
  takes `RolesRight`, and that a board without a parent link has none in the table
  either takes `BoardsRight`, as no handler of it waits when the link comes up.
  The links that are closing may well complete a circle, so the argument is about
  `tree` and not about `links`.
* `TrafficProofs!BroadcastReachesAll`.  Of a broadcast without sequence numbers,
  passed on hop by hop, neither "once" nor "everybody" is inductive.  The proof
  has two layers.  `BoardsRight` relates every board's table to its links: a link
  is in the table or its CONNECTED event waits, an entry is a link or its
  DISCONNECTED event waits, and there are entries enough for both.  Where no event
  waits, `PassOn` therefore sends over just the links of the board
  (`NeighboursServed`).  `Spreads`, for as long as no link changes and none is
  closing, so that the links are the tree of `Forest`, then follows the set of
  boards `Reached`: it is a subtree with a root of its own, hangs together with
  the origin, and exactly one copy is on air over each link that leads out of it
  and none over any other.  A copy that arrives makes its receiver a leaf of the
  subtree; because the links have no cycle, the receiver has no other neighbour in
  it, so what it passes on leads out again (`OneWayIn`).  When nothing is on air
  no link leads out, and a closed part of a forest is a whole tree
  (`ApartWhenClosed`).
* `TrafficProofs!BroadcastNeverReturns` is the step that `BroadcastDiesOut` repeats:
  by `Spreads` a copy that arrives comes from a board reached to one not reached, so
  each arrival makes one board more.
* `TrafficProofs!HeartbeatsGoUp`, `HeartbeatsNameParent`.  `PropagateToCentral`
  sends to every active entry of type CENTRAL, and the id a heartbeat names is
  that of the first entry of that type, active or not.  `RolesRight` makes both
  the parent: an entry that is free has no type; the boards above a board, in its
  table or in a CONNECTED event that waits, are one at most; and none of them is
  its child.  It is inductive because a parent comes only to a board without a
  parent link on which no handler waits, whose table therefore lists children at
  most (`BoardsRight`).  With `KnowsPeers` the id is the parent's or 0.  So what
  `TopologyLearned` needs of every state is proved: what is sent is true when it
  is sent, and goes towards the gateway.  The two action properties and
  `HeartbeatsClimb` are stated with their proofs, not in a run.
* `TimersProofs!WorkWakes`: `NeverSleepsOnWork` is inductive with the types; the
  wait is entered on an empty queue, and whatever fills it sets `woken`.

Only model-checked: the liveness properties (`EveryMessageLeaves`,
`ChildrenReleased`, `Heals`, `BroadcastDiesOut`, `TopologyLearned`,
`BlinksForever`, `HeartbeatsGoOn`, `KeysAreRead`), which are out of the prover's
reach, as are `ENABLED` and induction over data.  Nothing above is proved by
induction over data: where a loop of the code would ask for it (the words of a
line, the end of a text, the count over a queue of events), the model says what
the loop finds, as a least position or as the size of a set, and the proofs use
the theorems about well-founded orders and finite sets.

## Not modelled

* `system/i2c.c` has empty bodies; nothing calls `pwm.c`, `delay.c`, `platform.c`,
  `create_single_shot_timer` and `stop_timer`.
* `error.c` and `log.c` also hold tables that turn codes of the SDK into names;
  they only format.  What is printed and in which colour is in `Terminal`.
* `config/sdk_config.h`, `config/device_manager_cnfg.h` and `inc/simple_uart.h`
  configure or declare vendor code.  The values the program's own behaviour
  depends on are used where they matter (the size of the log buffer, the pins, the
  advertising constants). The log must not be deferred: `NRF_LOG_PROCESS` is never
  called.
* The SDK and the softdevice are external: they appear as the environment, by what
  the code relies on.

## The plan

Done: the packet queue, the bytes and the timing, transmission, the connection
life cycle, initialisation, the terminal, several boards, their messages, the
timers; the refinements to `BoundedFifo`, `Channel` and `Forest`; theorems for all the
safety properties of the passing runs, and for what their liveness needs of every
state (`NeverStalls`, `MeshStaysOpen`, `BroadcastNeverReturns`, `HeartbeatsGoUp`,
`HeartbeatsNameParent`).

Left, in order of importance: the order of messages through a reused handle whose
old link's events still wait, and what becomes of a board whose scheduler queue
dropped a handler, where the code makes no promise to check; `Mesh`
without `Prompt` but with a bound on how late handlers run, which would say how
much delay a ring needs.  Of the proofs: that a broadcast also dies out when links
change under it, for which a copy on air would have to be followed through forests
of different times.
