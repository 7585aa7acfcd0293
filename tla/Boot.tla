---------------------------------- MODULE Boot ----------------------------------
(***************************************************************************)
(* Boards that boot (src/main.c and the initialize function of every       *)
(* module) and what depends on the order in which they do: the numbers of  *)
(* the message types (src/gatt.c) and the first messages on a link.        *)
(*                                                                         *)
(* initialize() runs the modules one after the other, and after the first  *)
(* failure none.  A board is on the air from GAP on and is heard by others *)
(* before it has finished; its own events wait in the scheduler queue for  *)
(* the main loop, which runs whether or not initialize() succeeded.        *)
(*                                                                         *)
(* A link, once accepted, stays and loses no message: Device and Outbox    *)
(* model what happens to links and to the queues of unsent messages.       *)
(***************************************************************************)
EXTENDS Integers, Sequences, FiniteSets

CONSTANTS Boards,
          ProdBoards,    \* those compiled with IS_PROD_BOARD; gateways, else
          MAX_PERIPHERAL_CONNECTIONS,  \* 3 in inc/connection.h
          Commands,      \* terminal commands used: adv, scan, bro
          MaxEvents      \* bound: no timer or user adds events beyond it

ASSUME BootAssumption ==
    /\ ProdBoards \subseteq Boards
    /\ MAX_PERIPHERAL_CONNECTIONS \in Nat \ {0}
    /\ Commands \subseteq {"adv", "scan", "bro"}
    /\ MaxEvents \in Nat

Modules == <<"softdevice", "timer", "terminal", "commands", "connections", "GATT", "GAP",
             "broadcast", "handshake", "heartbeat", "blinky">>
ModuleNames == {Modules[i] : i \in DOMAIN Modules}
Messages == {"broadcast", "handshake", "heartbeat"}

VARIABLES step,          \* board -> place in initialize(), then in the main loop
          init_failed,   \* boards where a module failed
          done,          \* board -> modules that initialised
          advertising,   \* boards that advertise
          scanning,      \* boards that scan
          advData,       \* boards that set their advertising data
          writeEvents,   \* board -> the messages registered; a place is a type
          messageType,   \* board -> message -> the type it is sent with
          ticking,       \* boards whose heartbeat timer was started
          links,         \* pairs of a central and a peripheral
          events,        \* board -> the events that wait in its queue
          unknown        \* history: board, sender and type of what was not known

radio == <<advertising, scanning, advData, links>>
registry == <<writeEvents, messageType>>
vars == <<step, init_failed, done, radio, registry, ticking, events, unknown>>

MainLoop == Len(Modules) + 1

\* What the handlers of the messages return.
MessagePropagationType ==
    [broadcast |-> "PropagateToAll", handshake |-> "DoNotPropagate",
     heartbeat |-> "PropagateToCentral"]

Event ==
    [type : {"CONNECTED"}, peer : Boards, role : {"central", "periph"}] \union
    [type : {"WRITE"}, peer : Boards, from : Boards, messageType : Nat, message : Messages]

TypeOK ==
    /\ step \in [Boards -> 1 .. MainLoop]
    /\ init_failed \in SUBSET Boards
    /\ done \in [Boards -> SUBSET ModuleNames]
    /\ advertising \in SUBSET Boards
    /\ scanning \in SUBSET Boards
    /\ advData \in SUBSET ProdBoards
    /\ writeEvents \in [Boards -> Seq(Messages)]
    /\ messageType \in [Boards -> [Messages -> Nat]]
    /\ ticking \in SUBSET Boards
    /\ links \in SUBSET (Boards \X Boards)
    /\ events \in [Boards -> Seq(Event)]
    /\ unknown \in SUBSET (Boards \X Boards \X Nat)

Init ==
    /\ step = [b \in Boards |-> 1]
    /\ init_failed = {}
    /\ done = [b \in Boards |-> {}]
    /\ advertising = {}
    /\ scanning = {}
    /\ advData = {}
    /\ writeEvents = [b \in Boards |-> <<>>]
    /\ messageType = [b \in Boards |-> [m \in Messages |-> 0]]
    /\ ticking = {}
    /\ links = {}
    /\ events = [b \in Boards |-> <<>>]
    /\ unknown = {}

--------------------------------------------------------------------------------
(* main.c: initialize. *)

\* Slip: the modules after a failure are initialised all the same.
Initializing_anyway(b, name) == step[b] < MainLoop /\ Modules[step[b]] = name

Initializing(b, name) ==
    /\ step[b] < MainLoop /\ Modules[step[b]] = name
    /\ b \notin init_failed

Advance(b) == step' = [step EXCEPT ![b] = @ + 1]

Succeed(b, name) ==
    /\ Advance(b)
    /\ done' = [done EXCEPT ![b] = @ \union {name}]
    /\ UNCHANGED init_failed

Fail(b) ==
    /\ Advance(b)
    /\ init_failed' = init_failed \union {b}
    /\ UNCHANGED done

skip_module(b) ==
    /\ step[b] < MainLoop
    /\ b \in init_failed
    /\ Advance(b)
    /\ UNCHANGED <<init_failed, done, radio, registry, ticking, events, unknown>>

\* A failure leaves nothing behind that the mesh notices.
softdevice_initialize(b) ==
    Initializing(b, "softdevice") /\ (Succeed(b, "softdevice") \/ Fail(b))
gatt_initialize(b) ==
    Initializing(b, "GATT") /\ (Succeed(b, "GATT") \/ Fail(b))
blinky_initialize(b) ==
    Initializing(b, "blinky") /\ (Succeed(b, "blinky") \/ Fail(b))

timer_initialize(b) == Initializing(b, "timer") /\ Succeed(b, "timer")
terminal_initialize(b) == Initializing(b, "terminal") /\ Succeed(b, "terminal")
command_initialize(b) == Initializing(b, "commands") /\ Succeed(b, "commands")
connections_initialize(b) == Initializing(b, "connections") /\ Succeed(b, "connections")

silent_initialize(b) ==
    /\ \/ softdevice_initialize(b)
       \/ timer_initialize(b)
       \/ terminal_initialize(b)
       \/ command_initialize(b)
       \/ connections_initialize(b)
       \/ gatt_initialize(b)
       \/ blinky_initialize(b)
    /\ UNCHANGED <<radio, registry, ticking, events, unknown>>

\* The last call of a mesh board starts advertising, and the data it advertises
\* may be set although that call fails.
gap_initialize(b) ==
    /\ Initializing(b, "GAP")
    /\ \/ /\ Succeed(b, "GAP")
          /\ IF b \in ProdBoards
             THEN /\ advertising' = advertising \union {b}
                  /\ advData' = advData \union {b}
                  /\ UNCHANGED scanning
             ELSE /\ scanning' = scanning \union {b}
                  /\ UNCHANGED <<advertising, advData>>
       \/ /\ Fail(b)
          /\ advData' = advData \/ (b \in ProdBoards /\ advData' = advData \union {b})
          /\ UNCHANGED <<advertising, scanning>>
    /\ UNCHANGED <<registry, ticking, links, events, unknown>>

\* Slip: the type returned is the number of handlers before this one.
register_message_type_before(b, message) ==
    /\ writeEvents' = [writeEvents EXCEPT ![b] = Append(@, message)]
    /\ messageType' = [messageType EXCEPT ![b][message] = Len(writeEvents[b])]

register_message_type(b, message) ==
    /\ writeEvents' = [writeEvents EXCEPT ![b] = Append(@, message)]
    /\ messageType' = [messageType EXCEPT ![b][message] = Len(writeEvents[b]) + 1]

broadcast_message_initialize(b) ==
    /\ Initializing(b, "broadcast")
    /\ register_message_type(b, "broadcast")
    /\ Succeed(b, "broadcast")
    /\ UNCHANGED <<radio, ticking, events, unknown>>

handshake_message_initialize(b) ==
    /\ Initializing(b, "handshake")
    /\ register_message_type(b, "handshake")
    /\ Succeed(b, "handshake")
    /\ UNCHANGED <<radio, ticking, events, unknown>>

\* The timer may fail when the type is already registered.
heartbeat_message_initialize(b) ==
    /\ Initializing(b, "heartbeat")
    /\ register_message_type(b, "heartbeat")
    /\ \/ Succeed(b, "heartbeat") /\ ticking' = ticking \union {b}
       \/ Fail(b) /\ UNCHANGED ticking
    /\ UNCHANGED <<radio, events, unknown>>

--------------------------------------------------------------------------------
(* Sending.  A message travels if both ends have the characteristic. *)

HasParent(b) == \E c \in Boards : <<c, b>> \in links
Neighbours(b) == {p \in Boards : <<b, p>> \in links \/ <<p, b>> \in links}
Parents(b) == {c \in Boards : <<c, b>> \in links}
all_peripheral_connections_active(b) ==
    Cardinality({p \in Boards : <<b, p>> \in links}) >= MAX_PERIPHERAL_CONNECTIONS

\* What handling an event of b queues at its peers, and the event taken off.
Queues(b, targets, message, type, sender, rest) ==
    [p \in Boards |->
        IF p = b THEN rest
        ELSE IF p \in targets \intersect Neighbours(b) /\ "GATT" \in done[b] \intersect done[p]
             THEN Append(events[p], [type |-> "WRITE", peer |-> b, from |-> sender,
                                     messageType |-> type, message |-> message])
             ELSE events[p]]

Send(b, targets, message) ==
    events' = Queues(b, targets, message, messageType[b][message], b, events[b])

--------------------------------------------------------------------------------
(* The main loop. *)

\* Slip: events are dispatched from the interrupt, past the scheduler queue.
Looping_at_once(b) == step[b] > 7

Looping(b) == step[b] = MainLoop

Handling(b, type) == Looping(b) /\ events[b] # <<>> /\ Head(events[b]).type = type

Room == \A b \in Boards : Len(events[b]) < MaxEvents

\* A scanning board reports an advertiser of the mesh and connects to it.
connect_to_peer(c, p) ==
    /\ Looping(c) /\ c \in scanning
    /\ ~all_peripheral_connections_active(c)
    /\ p \in advertising \intersect advData
    /\ Room
    /\ links' = links \union {<<c, p>>}
    /\ scanning' = scanning \ {c}
    /\ advertising' = advertising \ {p}
    /\ events' = [events EXCEPT
           ![c] = Append(@, [type |-> "CONNECTED", peer |-> p, role |-> "central"]),
           ![p] = Append(@, [type |-> "CONNECTED", peer |-> c, role |-> "periph"])]
    /\ UNCHANGED <<step, init_failed, done, advData, registry, ticking, unknown>>

handle_connection_event(b) ==
    /\ Handling(b, "CONNECTED")
    /\ LET e == Head(events[b])
       IN  /\ b \notin ProdBoards \/ e.role = "periph" \/ HasParent(b)
           /\ events' = Queues(b, {e.peer}, "handshake", messageType[b]["handshake"], b,
                               Tail(events[b]))
    /\ scanning' = IF b \in ProdBoards /\ all_peripheral_connections_active(b) THEN scanning
                   ELSE scanning \union {b}
    /\ UNCHANGED <<step, init_failed, done, advertising, advData, links, registry, ticking,
                   unknown>>

\* A mesh board without a parent turns its child away without a word.
reject_connection_event(b) ==
    /\ Handling(b, "CONNECTED")
    /\ LET e == Head(events[b])
       IN  /\ b \in ProdBoards /\ e.role = "central" /\ ~HasParent(b)
           /\ links' = links \ {<<b, e.peer>>}
    /\ events' = [events EXCEPT ![b] = Tail(@)]
    /\ UNCHANGED <<step, init_failed, done, advertising, scanning, advData, registry, ticking,
                   unknown>>

\* The handler found by the type decides where the message goes from here.
handle_write_event(b) ==
    /\ Handling(b, "WRITE")
    /\ LET e == Head(events[b])
       IN  IF e.messageType \in DOMAIN writeEvents[b]
           THEN LET message == writeEvents[b][e.messageType]
                    propagation == MessagePropagationType[message]
                    onward == CASE propagation = "PropagateToAll" -> Neighbours(b)
                                [] propagation = "PropagateToCentral" -> Parents(b)
                                [] propagation = "DoNotPropagate" -> {}
                IN  /\ events' = Queues(b, onward \ {e.peer}, e.message, e.messageType, e.from,
                                        Tail(events[b]))
                    /\ UNCHANGED unknown
           ELSE /\ events' = [events EXCEPT ![b] = Tail(@)]
                /\ unknown' = unknown \union {<<b, e.from, e.messageType>>}
    /\ UNCHANGED <<step, init_failed, done, radio, registry, ticking>>

send_heartbeat_message(b) ==
    /\ Looping(b) /\ b \in ticking /\ Room
    /\ Send(b, Parents(b), "heartbeat")
    /\ UNCHANGED <<step, init_failed, done, radio, registry, ticking, unknown>>

\* The terminal works from its own initialisation on, whatever failed later.
check_advertising_status(b) ==
    /\ Looping(b) /\ {"terminal", "commands"} \subseteq done[b] /\ "adv" \in Commands
    /\ ~HasParent(b)
    /\ advertising' = advertising \union {b}
    /\ UNCHANGED <<step, init_failed, done, scanning, advData, links, registry, ticking, events,
                   unknown>>

check_scanning_status(b) ==
    /\ Looping(b) /\ {"terminal", "commands"} \subseteq done[b] /\ "scan" \in Commands
    /\ ~all_peripheral_connections_active(b)
    /\ scanning' = scanning \union {b}
    /\ UNCHANGED <<step, init_failed, done, advertising, advData, links, registry, ticking,
                   events, unknown>>

send_broadcast_message(b) ==
    /\ Looping(b) /\ {"terminal", "commands"} \subseteq done[b] /\ "bro" \in Commands
    /\ Room
    /\ Send(b, Neighbours(b), "broadcast")
    /\ UNCHANGED <<step, init_failed, done, radio, registry, ticking, unknown>>

--------------------------------------------------------------------------------
init_module(b) ==
    \/ skip_module(b)
    \/ silent_initialize(b)
    \/ gap_initialize(b)
    \/ broadcast_message_initialize(b)
    \/ handshake_message_initialize(b)
    \/ heartbeat_message_initialize(b)

run(b) ==
    \/ handle_connection_event(b)
    \/ reject_connection_event(b)
    \/ handle_write_event(b)
    \/ send_heartbeat_message(b)
    \/ check_advertising_status(b)
    \/ check_scanning_status(b)
    \/ send_broadcast_message(b)

Next ==
    \/ \E b \in Boards : init_module(b) \/ run(b)
    \/ \E c, p \in Boards : connect_to_peer(c, p)

Spec == Init /\ [][Next]_vars

--------------------------------------------------------------------------------
\* No board takes a message for another one: where the type of a message is known
\* at all it is the sender's number for it, however far either board booted.
TypesAgree ==
    \A b \in Boards : \A i \in DOMAIN events[b] :
        LET e == events[b][i]
        IN  e.type = "WRITE" /\ e.messageType \in DOMAIN writeEvents[b]
                => writeEvents[b][e.messageType] = e.message

\* A board on the air misses no message for want of a handler, even when the
\* message arrived while it was still booting, unless its own GAP failed or the
\* sender's did.
KnowsMessages ==
    \A u \in unknown : "GAP" \in done[u[1]] => "GAP" \notin done[u[2]]

\* Whoever connects to a board finds the service to write to.
PeersFindService == \A l \in links : "GATT" \in done[l[2]]

================================================================================
