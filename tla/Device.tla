--------------------------------- MODULE Device ---------------------------------
(***************************************************************************)
(* The connection life cycle of one board (src/gap.c, src/connection.c,    *)
(* src/softdevice.c, the main loop of src/main.c).                         *)
(*                                                                         *)
(* Three views of the board's links exist at once and lag behind each      *)
(* other:                                                                  *)
(*   links              what the softdevice knows, changed by the radio;   *)
(*   connState          ble_conn_state, changed when the FETCH entry of    *)
(*                      the scheduler queue dispatches an event;           *)
(*   activeConnections  the application's table, changed when the entry    *)
(*                      that the dispatch appended is executed in turn.    *)
(* The handlers of gap.c and gatt.c run to completion from the scheduler   *)
(* queue and read all three.                                               *)
(*                                                                         *)
(* Abstractions: a peer is known by its handle only.  A queue of unsent    *)
(* messages is full or not as it pleases (Outbox models it exactly).       *)
(* Entries that would fetch from an empty softdevice queue are left out:   *)
(* at most one FETCH waits.  Reports of foreign advertisers, logging and   *)
(* the fields of the packets play no part.                                 *)
(***************************************************************************)
EXTENDS Integers, Sequences, FiniteSets, FiniteSetsExt

CONSTANTS Handles,                     \* connection handles of the softdevice
          MAX_CENTRAL_CONNECTIONS,     \* 1 in inc/connection.h
          MAX_PERIPHERAL_CONNECTIONS,  \* 3 in inc/connection.h
          SCHED_QUEUE_SIZE,            \* 50 in inc/main.h
          IS_PROD_BOARD,               \* a mesh board, or else the gateway
          Commands,                    \* terminal commands used: adv, scan, bro, cons
          Writes,                      \* message types peers send
          NullAccess,                  \* what using a NULL connection may do
          MaxPending                   \* bound: see Quota

ASSUME DeviceAssumption ==
    /\ Handles \subseteq Nat /\ IsFiniteSet(Handles)
    /\ MAX_CENTRAL_CONNECTIONS \in Nat \ {0}
    /\ MAX_PERIPHERAL_CONNECTIONS \in Nat \ {0}
    /\ SCHED_QUEUE_SIZE \in Nat \ {0}
    /\ IS_PROD_BOARD \in BOOLEAN
    /\ Commands \subseteq {"adv", "scan", "bro", "cons"}
    /\ Writes \subseteq {"handshake", "heartbeat", "broadcast"}
    /\ NullAccess \subseteq {"hang", "nothing"}
    /\ MaxPending \in Nat

VARIABLES links,              \* handle -> our role on the link, or "none"
          closing,            \* links we asked the softdevice to disconnect
          advertising,        \* the softdevice advertises
          gap,                \* "idle", "scanning" or "initiating" a connection
          sdEvents,           \* events the softdevice holds for us
          connState,          \* handle -> role of a CONNECTED link, or "none"
          sched,              \* the scheduler queue; its head is executing
          activeConnections,  \* the connection table
          loop,               \* run() is at the terminal "input" or the "scheduler"
          hung,               \* stuck in HardFault_Handler
          lost                \* a full scheduler queue has cost us an event

softdevice == <<links, closing, advertising, gap>>
vars == <<softdevice, sdEvents, connState, sched, activeConnections, loop, hung, lost>>

MAX_TOTAL_CONNECTIONS == MAX_CENTRAL_CONNECTIONS + MAX_PERIPHERAL_CONNECTIONS
TableSlots == 1 .. MAX_TOTAL_CONNECTIONS
Roles == {"central", "periph"}

connection == [active : BOOLEAN, handle : Nat, type : {"INVALID", "CENTRAL", "PERIPHERAL"}]
NoConnection == [active |-> FALSE, handle |-> 0, type |-> "INVALID"]

BleEvent ==
    [type : {"CONNECTED"}, handle : Handles, role : Roles] \union
    [type : {"DISCONNECTED"}, handle : Handles] \union
    [type : {"WRITE"}, handle : Handles, message : Writes] \union
    [type : {"ADV_REPORT", "TIMEOUT"}]
Entry == BleEvent \union [type : {"FETCH", "TIMER", "HEARTBEAT"}]

TypeOK ==
    /\ links \in [Handles -> Roles \union {"none"}]
    /\ closing \in SUBSET Handles
    /\ advertising \in BOOLEAN
    /\ gap \in {"idle", "scanning", "initiating"}
    /\ sdEvents \in Seq(BleEvent)
    /\ connState \in [Handles -> Roles \union {"none"}]
    /\ sched \in Seq(Entry) /\ Len(sched) <= SCHED_QUEUE_SIZE
    /\ activeConnections \in [TableSlots -> connection]
    /\ loop \in {"input", "scheduler"}
    /\ hung \in BOOLEAN
    /\ lost \in BOOLEAN

Init ==
    /\ links = [h \in Handles |-> "none"]
    /\ closing = {}
    /\ advertising = IS_PROD_BOARD
    /\ gap = IF IS_PROD_BOARD THEN "idle" ELSE "scanning"
    /\ sdEvents = <<>>
    /\ connState = [h \in Handles |-> "none"]
    /\ sched = <<>>
    /\ activeConnections = [i \in TableSlots |-> NoConnection]
    /\ loop = "input"
    /\ hung = FALSE
    /\ lost = FALSE

--------------------------------------------------------------------------------
(* connection.c: the table, and the questions asked of ble_conn_state. *)

SlotsOf(h) == {i \in TableSlots : activeConnections[i].active /\ activeConnections[i].handle = h}
FreeSlots == {i \in TableSlots : ~activeConnections[i].active}

\* The first entry that is not in use is taken, if there is one.
set_connection(h, type) ==
    \/ FreeSlots = {} /\ UNCHANGED activeConnections
    \/ \E i \in FreeSlots :
           /\ \A j \in FreeSlots : i <= j
           /\ activeConnections' = [activeConnections EXCEPT
                  ![i] = [active |-> TRUE, handle |-> h, type |-> type]]

unset_connection(h) ==
    activeConnections' =
        IF SlotsOf(h) = {} THEN activeConnections
        ELSE [activeConnections EXCEPT ![Min(SlotsOf(h))] = NoConnection]

\* What unset_connection returns.
TypeOf(h) == IF SlotsOf(h) = {} THEN "INVALID" ELSE activeConnections[Min(SlotsOf(h))].type

Connected(roles) == {h \in Handles : connState[h] \in roles}
is_connection_active(h) == connState[h] # "none"
central_connection_active == Connected({"periph"}) # {}
all_peripheral_connections_active ==
    Cardinality(Connected({"central"})) >= MAX_PERIPHERAL_CONNECTIONS

--------------------------------------------------------------------------------
(* Calls into the softdevice, which answers at once. *)

Established(role) == {h \in Handles : links[h] = role}

scan_started(g) == IF g = "idle" THEN "scanning" ELSE g
scan_stopped(g) == IF g = "scanning" THEN "idle" ELSE g

\* Advertising starts unless the one link to a central is up.
adv_started == advertising \/ Established("periph") = {}

disconnect_from_peers(hs) == closing' = closing \union {h \in hs : links[h] # "none"}

\* The handler running from the head of the queue is done.
Return == sched' = Tail(sched)

Running(type) ==
    /\ loop = "scheduler" /\ ~hung
    /\ sched # <<>>
    /\ Head(sched).type = type

\* Reading or writing through a NULL connection is undefined: a fault whose handler
\* never ends, or no effect that matters.
UseNull ==
    \/ "hang" \in NullAccess /\ hung' = TRUE
    \/ "nothing" \in NullAccess /\ UNCHANGED hung

\* What print_all_connections does, called last: of each connection that
\* ble_conn_state lists it prints the entry in the table, and reads through NULL
\* if the connection has none yet.
print_connections ==
    IF \A h \in Connected(Roles) : SlotsOf(h)' # {} THEN UNCHANGED hung ELSE UseNull

\* send_to_multiple_connections: a connection whose queue is full is cut off;
\* a handle without an entry in the table yields NULL.
SendTo(hs) ==
    /\ \E full \in SUBSET {h \in hs : SlotsOf(h) # {}} : disconnect_from_peers(full)
    /\ IF \A h \in hs : SlotsOf(h) # {} THEN UNCHANGED hung ELSE UseNull

--------------------------------------------------------------------------------
(* gap.c: the handlers. *)

\* connect_to_peer: scanning stops, and starts again if no connection can be
\* initiated.
connect_to_peer ==
    \/ /\ scan_stopped(gap) = "idle"
       /\ Cardinality(Established("central")) < MAX_PERIPHERAL_CONNECTIONS
       /\ gap' = "initiating"
    \/ gap' = scan_started(scan_stopped(gap))

handle_advertising_report_event ==
    /\ Running("ADV_REPORT")
    /\ ~all_peripheral_connections_active
    /\ connect_to_peer
    /\ Return
    /\ UNCHANGED <<links, closing, advertising, sdEvents, connState, activeConnections,
                   loop, hung, lost>>

ignore_advertising_report_event ==
    /\ Running("ADV_REPORT")
    /\ all_peripheral_connections_active
    /\ Return
    /\ UNCHANGED <<softdevice, sdEvents, connState, activeConnections, loop, hung, lost>>

\* Slip: the orphan returns without disconnecting.
reject_connection_event_keeps ==
    /\ Running("CONNECTED")
    /\ IS_PROD_BOARD /\ Head(sched).role = "central" /\ ~central_connection_active
    /\ set_connection(Head(sched).handle, "PERIPHERAL")
    /\ Return
    /\ UNCHANGED <<softdevice, sdEvents, connState, loop, hung, lost>>

\* Slip: the orphan returns before the connection is entered in the table.
reject_connection_event_early ==
    /\ Running("CONNECTED")
    /\ IS_PROD_BOARD /\ Head(sched).role = "central" /\ ~central_connection_active
    /\ disconnect_from_peers({Head(sched).handle})
    /\ Return
    /\ UNCHANGED <<links, advertising, gap, sdEvents, connState, activeConnections, loop,
                   hung, lost>>

\* A mesh board without a parent turns a new child away.
reject_connection_event ==
    /\ Running("CONNECTED")
    /\ IS_PROD_BOARD /\ Head(sched).role = "central" /\ ~central_connection_active
    /\ set_connection(Head(sched).handle, "PERIPHERAL")
    /\ disconnect_from_peers({Head(sched).handle})
    /\ Return
    /\ UNCHANGED <<links, advertising, gap, sdEvents, connState, loop, hung, lost>>

\* Slip: the gateway, too, stops looking once its child slots are taken.
handle_connection_event_content ==
    /\ Running("CONNECTED")
    /\ ~IS_PROD_BOARD \/ Head(sched).role = "periph" \/ central_connection_active
    /\ set_connection(Head(sched).handle,
                      IF Head(sched).role = "periph" THEN "CENTRAL" ELSE "PERIPHERAL")
    /\ print_connections
    /\ gap' = IF hung' \/ all_peripheral_connections_active THEN gap ELSE scan_started(gap)
    /\ Return
    /\ UNCHANGED <<links, closing, advertising, sdEvents, connState, loop, lost>>

\* With a full table the handshake is written through NULL, and what the listing
\* does then makes no difference.
handle_connection_event ==
    /\ Running("CONNECTED")
    /\ ~IS_PROD_BOARD \/ Head(sched).role = "periph" \/ central_connection_active
    /\ set_connection(Head(sched).handle,
                      IF Head(sched).role = "periph" THEN "CENTRAL" ELSE "PERIPHERAL")
    /\ IF FreeSlots = {} THEN UseNull ELSE print_connections
    /\ gap' = IF hung' \/ (IS_PROD_BOARD /\ all_peripheral_connections_active)
              THEN gap ELSE scan_started(gap)
    /\ Return
    /\ UNCHANGED <<links, closing, advertising, sdEvents, connState, loop, lost>>

\* Slip: the children are kept.
lose_parent_keeps ==
    /\ Running("DISCONNECTED")
    /\ TypeOf(Head(sched).handle) = "CENTRAL"
    /\ unset_connection(Head(sched).handle)
    /\ advertising' = IF IS_PROD_BOARD THEN adv_started ELSE advertising
    /\ gap' = scan_stopped(gap)
    /\ print_connections
    /\ Return
    /\ UNCHANGED <<links, closing, sdEvents, connState, loop, lost>>

\* Slip: advertising is not taken up again.
lose_parent_silent ==
    /\ Running("DISCONNECTED")
    /\ TypeOf(Head(sched).handle) = "CENTRAL"
    /\ unset_connection(Head(sched).handle)
    /\ disconnect_from_peers(Connected(Roles))
    /\ gap' = scan_stopped(gap)
    /\ print_connections
    /\ Return
    /\ UNCHANGED <<links, advertising, sdEvents, connState, loop, lost>>

\* We lost our parent, so the mesh is no more.
lose_parent ==
    /\ Running("DISCONNECTED")
    /\ TypeOf(Head(sched).handle) = "CENTRAL"
    /\ unset_connection(Head(sched).handle)
    /\ disconnect_from_peers(Connected(Roles))
    /\ advertising' = IF IS_PROD_BOARD THEN adv_started ELSE advertising
    /\ gap' = scan_stopped(gap)
    /\ print_connections
    /\ Return
    /\ UNCHANGED <<links, sdEvents, connState, loop, lost>>

\* Slip: no scan for another child.
lose_child_content ==
    /\ Running("DISCONNECTED")
    /\ TypeOf(Head(sched).handle) = "PERIPHERAL"
    /\ unset_connection(Head(sched).handle)
    /\ print_connections
    /\ Return
    /\ UNCHANGED <<softdevice, sdEvents, connState, loop, lost>>

\* We lost a child: scan for more.
lose_child ==
    /\ Running("DISCONNECTED")
    /\ TypeOf(Head(sched).handle) = "PERIPHERAL"
    /\ unset_connection(Head(sched).handle)
    /\ gap' = scan_started(gap)
    /\ print_connections
    /\ Return
    /\ UNCHANGED <<links, closing, advertising, sdEvents, connState, loop, lost>>

lose_unknown ==
    /\ Running("DISCONNECTED")
    /\ TypeOf(Head(sched).handle) = "INVALID"
    /\ UNCHANGED <<softdevice, sdEvents, connState, activeConnections, loop, lost>>
    /\ print_connections
    /\ Return

handle_connection_timeout_event ==
    /\ Running("TIMEOUT")
    /\ gap' = scan_started(gap)
    /\ Return
    /\ UNCHANGED <<links, closing, advertising, sdEvents, connState, activeConnections,
                   loop, hung, lost>>

--------------------------------------------------------------------------------
(* gatt.c and the message types: what they send, and to whom. *)

\* send_to_all_connections and send_to_central_connection, but never to origin.
Recipients(message, origin) ==
    Connected(CASE message = "broadcast" -> Roles
                [] message = "heartbeat" -> {"periph"}
                [] message = "handshake" -> {}) \ origin

handle_write_event ==
    /\ Running("WRITE")
    /\ SendTo(Recipients(Head(sched).message, {Head(sched).handle}))
    /\ Return
    /\ UNCHANGED <<links, advertising, gap, sdEvents, connState, activeConnections, loop, lost>>

send_heartbeat_message ==
    /\ Running("HEARTBEAT")
    /\ SendTo(Recipients("heartbeat", {}))
    /\ Return
    /\ UNCHANGED <<links, advertising, gap, sdEvents, connState, activeConnections, loop, lost>>

\* generic_timer_handler puts the heartbeat behind whatever is queued; it still
\* occupies its own place in the queue while it does.
generic_timer_handler ==
    /\ Running("TIMER")
    /\ sched' = Tail(sched) \o (IF Len(sched) < SCHED_QUEUE_SIZE
                                THEN <<[type |-> "HEARTBEAT"]>> ELSE <<>>)
    /\ UNCHANGED <<softdevice, sdEvents, connState, activeConnections, loop, hung, lost>>

--------------------------------------------------------------------------------
(* softdevice.c: FETCH hands every event to ble_conn_state at once and, through *)
(* handle_gap_event, to the end of the scheduler queue.                         *)

\* Slip: an event the scheduler has no room for does not reach ble_conn_state.
ble_evt_dispatch_swapped ==
    /\ Running("FETCH")
    /\ sdEvents # <<>>
    /\ sdEvents' = Tail(sdEvents)
    /\ IF Len(sched) < SCHED_QUEUE_SIZE
       THEN /\ sched' = Append(sched, Head(sdEvents))
            /\ connState' = CASE Head(sdEvents).type = "CONNECTED" ->
                                     [connState EXCEPT ![Head(sdEvents).handle] = Head(sdEvents).role]
                              [] Head(sdEvents).type = "DISCONNECTED" ->
                                     [connState EXCEPT ![Head(sdEvents).handle] = "none"]
                              [] OTHER -> connState
            /\ UNCHANGED lost
       ELSE lost' = TRUE /\ UNCHANGED <<sched, connState>>
    /\ UNCHANGED <<softdevice, activeConnections, loop, hung>>

ble_evt_dispatch ==
    /\ Running("FETCH")
    /\ sdEvents # <<>>
    /\ sdEvents' = Tail(sdEvents)
    /\ LET e == Head(sdEvents)
       IN  connState' = CASE e.type = "CONNECTED" -> [connState EXCEPT ![e.handle] = e.role]
                          [] e.type = "DISCONNECTED" -> [connState EXCEPT ![e.handle] = "none"]
                          [] OTHER -> connState
    /\ IF Len(sched) < SCHED_QUEUE_SIZE
       THEN sched' = Append(sched, Head(sdEvents)) /\ UNCHANGED lost
       ELSE lost' = TRUE /\ UNCHANGED sched
    /\ UNCHANGED <<softdevice, activeConnections, loop, hung>>

fetch_done ==
    /\ Running("FETCH")
    /\ sdEvents = <<>>
    /\ Return
    /\ UNCHANGED <<softdevice, sdEvents, connState, activeConnections, loop, hung, lost>>

--------------------------------------------------------------------------------
(* main.c: run() reads the terminal, then executes entries until none is left. *)

Input(command) ==
    /\ loop = "input" /\ ~hung
    /\ command \in Commands
    /\ loop' = "scheduler"

check_advertising_status ==
    /\ Input("adv")
    /\ advertising' = IF central_connection_active THEN advertising ELSE adv_started
    /\ UNCHANGED <<links, closing, gap, sdEvents, connState, sched, activeConnections, hung, lost>>

check_scanning_status ==
    /\ Input("scan")
    /\ gap' = IF all_peripheral_connections_active THEN gap ELSE scan_started(gap)
    /\ UNCHANGED <<links, closing, advertising, sdEvents, connState, sched, activeConnections,
                   hung, lost>>

send_broadcast_message ==
    /\ Input("bro")
    /\ SendTo(Recipients("broadcast", {}))
    /\ UNCHANGED <<links, advertising, gap, sdEvents, connState, sched, activeConnections, lost>>

print_all_connections ==
    /\ Input("cons")
    /\ UNCHANGED <<softdevice, sdEvents, connState, sched, activeConnections, lost>>
    /\ print_connections

\* Nothing to read, and something to execute.
no_input ==
    /\ loop = "input" /\ ~hung
    /\ sched # <<>>
    /\ loop' = "scheduler"
    /\ UNCHANGED <<softdevice, sdEvents, connState, sched, activeConnections, hung, lost>>

app_sched_execute_returns ==
    /\ loop = "scheduler" /\ ~hung
    /\ sched = <<>>
    /\ loop' = "input"
    /\ UNCHANGED <<softdevice, sdEvents, connState, sched, activeConnections, hung, lost>>

MainLoop ==
    \/ handle_advertising_report_event \/ ignore_advertising_report_event
    \/ reject_connection_event \/ handle_connection_event
    \/ lose_parent \/ lose_child \/ lose_unknown
    \/ handle_connection_timeout_event
    \/ handle_write_event
    \/ send_heartbeat_message \/ generic_timer_handler
    \/ ble_evt_dispatch \/ fetch_done
    \/ no_input \/ app_sched_execute_returns

Terminal ==
    \/ check_advertising_status \/ check_scanning_status
    \/ send_broadcast_message \/ print_all_connections

--------------------------------------------------------------------------------
(* The radio and the timer, which interrupt the main loop at any point. *)

\* The environment starts nothing new while MaxPending entries wait.
Quota == Len(sdEvents) + Len(sched) < MaxPending

\* An event arrives; the interrupt asks the scheduler to fetch it.
Raise(e) ==
    /\ ~hung
    /\ sdEvents' = Append(sdEvents, e)
    /\ IF \E i \in 1 .. Len(sched) : sched[i].type = "FETCH"
       THEN UNCHANGED <<sched, lost>>
       ELSE IF Len(sched) < SCHED_QUEUE_SIZE
            THEN sched' = Append(sched, [type |-> "FETCH"]) /\ UNCHANGED lost
            ELSE lost' = TRUE /\ UNCHANGED sched
    /\ UNCHANGED <<connState, activeConnections, loop, hung>>

ParentConnects(h) ==
    /\ advertising /\ links[h] = "none" /\ Quota
    /\ links' = [links EXCEPT ![h] = "periph"]
    /\ advertising' = FALSE
    /\ Raise([type |-> "CONNECTED", handle |-> h, role |-> "periph"])
    /\ UNCHANGED <<closing, gap>>

ChildAdvertises ==
    /\ gap = "scanning" /\ Quota
    /\ Raise([type |-> "ADV_REPORT"])
    /\ UNCHANGED softdevice

ChildConnects(h) ==
    /\ gap = "initiating" /\ links[h] = "none"
    /\ links' = [links EXCEPT ![h] = "central"]
    /\ gap' = "idle"
    /\ Raise([type |-> "CONNECTED", handle |-> h, role |-> "central"])
    /\ UNCHANGED <<closing, advertising>>

ConnectingTimesOut ==
    /\ gap = "initiating"
    /\ gap' = "idle"
    /\ Raise([type |-> "TIMEOUT"])
    /\ UNCHANGED <<links, closing, advertising>>

LinkEnds(h) ==
    /\ links[h] # "none"
    /\ h \in closing \/ Quota
    /\ links' = [links EXCEPT ![h] = "none"]
    /\ closing' = closing \ {h}
    /\ Raise([type |-> "DISCONNECTED", handle |-> h])
    /\ UNCHANGED <<advertising, gap>>

PeerWrites(h) ==
    /\ links[h] # "none" /\ Quota
    /\ \E m \in Writes : Raise([type |-> "WRITE", handle |-> h, message |-> m])
    /\ UNCHANGED softdevice

\* The heartbeat timer; its period is long enough to send one at a time.
TimerExpires ==
    /\ ~hung /\ Quota
    /\ \A i \in 1 .. Len(sched) : sched[i].type \notin {"TIMER", "HEARTBEAT"}
    /\ Len(sched) < SCHED_QUEUE_SIZE
    /\ sched' = Append(sched, [type |-> "TIMER"])
    /\ UNCHANGED <<softdevice, sdEvents, connState, activeConnections, loop, hung, lost>>

Radio ==
    \/ \E h \in Handles :
           ParentConnects(h) \/ ChildConnects(h) \/ LinkEnds(h) \/ PeerWrites(h)
    \/ ChildAdvertises
    \/ ConnectingTimesOut

Next == MainLoop \/ Terminal \/ Radio \/ TimerExpires

Spec == Init /\ [][Next]_vars

\* The main loop runs whatever waits; the supervision timeout, if nothing else,
\* ends a link that was asked to disconnect; initiating a connection succeeds
\* or times out.  Nobody owes us a peer, a message or a command.
Fairness ==
    /\ WF_vars(MainLoop)
    /\ \A h \in Handles : WF_vars(h \in closing /\ LinkEnds(h))
    /\ WF_vars(ConnectingTimesOut \/ \E h \in Handles : ChildConnects(h))

FairSpec == Spec /\ Fairness

--------------------------------------------------------------------------------
(* What the waiting events say about a handle. *)

ChangesOf(h, q) ==
    {i \in 1 .. Len(q) : q[i].type \in {"CONNECTED", "DISCONNECTED"} /\ q[i].handle = h}

RoleAfter(e) == IF e.type = "CONNECTED" THEN e.role ELSE "none"

\* Once the events of q are handled, a handle whose role was before has role after.
Leads(h, q, before, after) ==
    \/ ChangesOf(h, q) = {} /\ after = before
    \/ \E i \in ChangesOf(h, q) :
           (\A j \in ChangesOf(h, q) : j <= i) /\ after = RoleAfter(q[i])

TableRole(h) ==
    CASE TypeOf(h) = "CENTRAL" -> "periph"
      [] TypeOf(h) = "PERIPHERAL" -> "central"
      [] TypeOf(h) = "INVALID" -> "none"

\* ble_conn_state never misses an event: it says what the softdevice says as
\* soon as the events the softdevice still holds are fetched, even when the
\* scheduler queue overflows, since softdevice.c tells it before gap.c queues
\* the event.
ConnStateFollows == \A h \in Handles : Leads(h, sdEvents, connState[h], links[h])

\* The connection table never goes astray: it lists every connection exactly
\* once and on the right side as soon as the waiting handlers have run, although
\* handles are reused while the handlers of the previous link still wait, and
\* set_connection never finds it full.
TableFollows ==
    ~lost =>
        /\ \A h \in Handles : /\ Leads(h, sched, TableRole(h), connState[h])
                              /\ Cardinality(SlotsOf(h)) <= 1
        /\ Running("CONNECTED") => FreeSlots # {}

\* Commands run between two rounds of the scheduler queue, when every handler has
\* caught up: "cons" finds the entry of each connection it prints, and "bro" of
\* each it sends to, and no entry stands for a link that is gone, whatever the
\* radio has done meanwhile.
ListsEveryConnection ==
    ~lost /\ loop = "input" => \A h \in Handles : is_connection_active(h) <=> SlotsOf(h) # {}

\* Nothing is left to do before the next event or command.
Idle == loop = "input" /\ sched = <<>> /\ sdEvents = <<>> /\ ~hung /\ ~lost

\* A mesh board that is idle without a parent keeps no child: every child link
\* is on its way out, the ones included that came up while the parent went down.
OrphanShedsChildren ==
    IS_PROD_BOARD /\ Idle /\ Established("periph") = {} =>
        Established("central") \subseteq closing

\* A mesh board that is idle without a parent can be found by one.
KeepsAdvertising ==
    IS_PROD_BOARD /\ Idle /\ Established("periph") = {} => advertising

\* A mesh board that is idle under its parent looks for more children while it
\* has room for them, however its connections came and went.
KeepsSearching ==
    IS_PROD_BOARD /\ Idle /\ Established("periph") # {}
        /\ Cardinality(Established("central")) < MAX_PERIPHERAL_CONNECTIONS =>
            gap # "idle"

\* "We wanted our mesh to rebuild itself continuously" (README.md): a gateway
\* that is idle looks for children.
GatewayKeepsScanning == ~IS_PROD_BOARD /\ Idle => gap # "idle"

\* A subtree cut off from the gateway dissolves: no child stays with a board
\* that stays without a parent.
ChildrenReleased ==
    \A h \in Handles :
        IS_PROD_BOARD /\ Established("periph") = {} /\ links[h] = "central" ~>
            Established("periph") # {} \/ links[h] # "central" \/ hung \/ lost

\* "heartbeat messages (continuously sent to the root of the mesh ...)"
\* (README.md): when a heartbeat is sent, each connection it is sent to has an
\* entry, and with it a queue, in the connection table.
HeartbeatHasConnection ==
    ~lost /\ Running("HEARTBEAT") =>
        \A h \in Recipients("heartbeat", {}) : SlotsOf(h) # {}
================================================================================
