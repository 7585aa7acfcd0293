-------------------------------- MODULE Traffic --------------------------------
(***************************************************************************)
(* The messages of the boards (src/message_types/, src/gatt.c), sent over  *)
(* links that change under them: handshakes tell two neighbours each       *)
(* other's id, heartbeats tell the gateway who hangs where, broadcasts go  *)
(* everywhere.                                                             *)
(*                                                                         *)
(* A board is its device id; a connection is known by the peer.  A link    *)
(* that an end has asked to disconnect carries messages until it ends.  A  *)
(* message is handled as it comes in, after the handler of its connection, *)
(* whose event may wait.  ble_conn_state agrees with the table, except     *)
(* where a parent is looked for (Device has the gap between them), and no  *)
(* queue overflows (Outbox has the queues).  Versions are left out.        *)
(***************************************************************************)
EXTENDS Integers, Sequences, FiniteSets

CONSTANTS Boards,
          Gateway,
          MAX_PERIPHERAL_CONNECTIONS,  \* 3 in inc/connection.h
          MaxLosses                    \* bound: links the radio breaks

ASSUME TrafficAssumption ==
    /\ IsFiniteSet(Boards) /\ Gateway \in Boards
    /\ MAX_PERIPHERAL_CONNECTIONS \in Nat \ {0}
    /\ MaxLosses \in Nat
    /\ "none" \notin Boards

VARIABLES links,              \* the links that are up, as pairs <<parent, child>>
          closing,            \* those that an end has asked to disconnect
          onAir,              \* <<from, to>> -> messages under way
          sched,              \* board -> connection events whose handlers wait
          activeConnections,  \* board -> its connection table
          view,               \* what the gateway has logged: id -> id of the parent
          got,                \* board -> how often it received the broadcast, while calm
          origin,             \* the board that sent it, or "none" once a link has changed
          sent,               \* the broadcast has been sent
          losses

vars == <<links, closing, onAir, sched, activeConnections, view, got, origin, sent, losses>>

tree == links \ closing
F == INSTANCE Forest

calm == origin # "none"

Ids == Boards \union {"none"}      \* "none" is the id 0
Slots == 1 .. MAX_PERIPHERAL_CONNECTIONS + 1

connection == [active : BOOLEAN, peer : Ids, type : {"INVALID", "CENTRAL", "PERIPHERAL"},
               deviceId : Ids]
NoConnection == [active |-> FALSE, peer |-> "none", type |-> "INVALID", deviceId |-> "none"]

Message == [type : {"handshake"}, deviceId : Boards] \union
           [type : {"heartbeat"}, deviceId : Boards, centralConnectionDeviceId : Ids] \union
           [type : {"broadcast"}]
Event == [type : {"CONNECTED"}, peer : Boards, role : {"CENTRAL", "PERIPHERAL"}] \union
         [type : {"DISCONNECTED"}, peer : Boards]

TypeOK ==
    /\ links \subseteq F!Links
    /\ closing \subseteq links
    /\ onAir \in [F!Links -> Seq(Message)]
    /\ sched \in [Boards -> Seq(Event)]
    /\ activeConnections \in [Boards -> [Slots -> connection]]
    /\ view \in [Boards -> Ids \union {"unseen"}]
    /\ got \in [Boards -> 0 .. 2]
    /\ origin \in Ids
    /\ sent \in BOOLEAN
    /\ losses \in 0 .. MaxLosses

Nothing == [b \in Boards |-> 0]

Init ==
    /\ links = {}
    /\ closing = {}
    /\ onAir = [l \in F!Links |-> <<>>]
    /\ sched = [b \in Boards |-> <<>>]
    /\ activeConnections = [b \in Boards |-> [i \in Slots |-> NoConnection]]
    /\ view = [b \in Boards |-> "unseen"]
    /\ got = Nothing
    /\ origin = "none"
    /\ sent = FALSE
    /\ losses = 0

--------------------------------------------------------------------------------
(* connection.c: the table of one board. *)

Active(b) == {i \in Slots : activeConnections[b][i].active}
SlotsOf(b, peer) == {i \in Active(b) : activeConnections[b][i].peer = peer}
Peers(b, types) == {activeConnections[b][i].peer :
                       i \in {j \in Active(b) : activeConnections[b][j].type \in types}}

First(i, slots) == i \in slots /\ \A j \in slots : i <= j

\* What the slot says besides is left as it is.
set_connection(b, peer, type) ==
    \/ Active(b) = Slots /\ UNCHANGED activeConnections
    \/ \E i \in Slots :
           /\ First(i, Slots \ Active(b))
           /\ activeConnections' = [activeConnections EXCEPT ![b][i] =
                  [@ EXCEPT !.active = TRUE, !.peer = peer, !.type = type]]

\* Slip: the entry is only marked as free.
unset_connection_marks(b, peer) ==
    activeConnections' =
        [activeConnections EXCEPT ![b] = [i \in Slots |->
            IF i \in SlotsOf(b, peer) THEN [@[i] EXCEPT !.active = FALSE] ELSE @[i]]]

unset_connection(b, peer) ==
    activeConnections' =
        [activeConnections EXCEPT ![b] = [i \in Slots |->
            IF i \in SlotsOf(b, peer) THEN NoConnection ELSE @[i]]]

\* Entries for a parent, whether they are active or not.
ParentSlots(b) == {i \in Slots : activeConnections[b][i].type = "CENTRAL"}

\* The id is what the function returns.
get_central_connection_device_id(b, id) ==
    \/ ParentSlots(b) = {} /\ id = "none"
    \/ \E i \in Slots : First(i, ParentSlots(b)) /\ id = activeConnections[b][i].deviceId

--------------------------------------------------------------------------------
(* Links and messages on them. *)

LinksOf(b) == {l \in links : b \in {l[1], l[2]}}
Up(a, b) == <<a, b>> \in links \/ <<b, a>> \in links

\* What is on air when b sends to the peers, as far as the links are up.
SentTo(b, peers, message) ==
    [l \in F!Links |-> IF l[1] = b /\ l[2] \in peers /\ Up(b, l[2])
                       THEN Append(onAir[l], message) ELSE onAir[l]]

\* The message arriving over l has a handler of this type.
Arriving(l, type) ==
    onAir[l] # <<>> /\ Head(onAir[l]).type = type /\ SlotsOf(l[2], l[1]) # {}

\* Slip: also to where it came from.
PassOn_back(l, peers) ==
    onAir' = [SentTo(l[2], peers, Head(onAir[l])) EXCEPT ![l] = Tail(@)]

\* Its receiver passes it on to the peers, but never to where it came from.
PassOn(l, peers) ==
    onAir' = [SentTo(l[2], peers \ {l[1]}, Head(onAir[l])) EXCEPT ![l] = Tail(@)]

\* History: a broadcast is followed as long as the links stay what they are.
Stays(yes) ==
    /\ origin' = IF yes THEN origin ELSE "none"
    /\ got' = IF yes THEN got ELSE Nothing

\* The softdevice is asked to end these links, and will.
disconnect_from_peers(gone) ==
    /\ closing' = closing \union gone
    /\ Stays(gone = {})

Handling(b, type) == sched[b] # <<>> /\ Head(sched[b]).type = type
Return(b) == sched' = [sched EXCEPT ![b] = Tail(@)]

--------------------------------------------------------------------------------
(* gap.c: connections come and go. *)

Told(peer) == [type |-> "DISCONNECTED", peer |-> peer]

\* ble_conn_state lists the parent in the table until it hears that it is lost, which
\* is before the handler does.
central_connection_active(b) ==
    \E p \in Peers(b, {"CENTRAL"}) : \A i \in 1 .. Len(sched[b]) : sched[b][i] # Told(p)

Unwanted(b) ==
    b # Gateway /\ Head(sched[b]).role = "PERIPHERAL" /\ ~central_connection_active(b)

\* Without a parent, a mesh board turns a child away and says nothing.
reject_connection_event(b) ==
    LET peer == Head(sched[b]).peer
    IN  /\ Handling(b, "CONNECTED") /\ Unwanted(b)
        /\ set_connection(b, peer, "PERIPHERAL")
        /\ disconnect_from_peers({<<b, peer>>} \cap links)
        /\ Return(b)
        /\ UNCHANGED <<links, onAir, view, sent, losses>>

\* Slip: only a child is sent a handshake.
handle_connection_event_down(b) ==
    LET e == Head(sched[b])
    IN  /\ Handling(b, "CONNECTED") /\ ~Unwanted(b)
        /\ set_connection(b, e.peer, e.role)
        /\ onAir' = SentTo(b, IF e.role = "CENTRAL" THEN {e.peer} ELSE {}, [type |-> "handshake", deviceId |-> b])
        /\ Return(b)
        /\ UNCHANGED <<links, closing, view, got, origin, sent, losses>>

handle_connection_event(b) ==
    LET e == Head(sched[b])
    IN  /\ Handling(b, "CONNECTED") /\ ~Unwanted(b)
        /\ set_connection(b, e.peer, e.role)
        /\ onAir' = SentTo(b, {e.peer}, [type |-> "handshake", deviceId |-> b])
        /\ Return(b)
        /\ UNCHANGED <<links, closing, view, got, origin, sent, losses>>

\* A board that has lost its parent lets go of all others.
handle_disconnection_event(b) ==
    LET peer == Head(sched[b]).peer
    IN  /\ Handling(b, "DISCONNECTED")
        /\ unset_connection(b, peer)
        /\ disconnect_from_peers(IF peer \in Peers(b, {"CENTRAL"}) THEN LinksOf(b) ELSE {})
        /\ Return(b)
        /\ UNCHANGED <<links, onAir, view, sent, losses>>

--------------------------------------------------------------------------------
(* The messages. *)

Learn(l, id) ==
    activeConnections' =
        [activeConnections EXCEPT ![l[2]] = [i \in Slots |->
            IF i \in SlotsOf(l[2], l[1]) THEN [@[i] EXCEPT !.deviceId = id] ELSE @[i]]]

receive_handshake_message(l) ==
    /\ Arriving(l, "handshake")
    /\ Learn(l, Head(onAir[l]).deviceId)
    /\ PassOn(l, {})
    /\ UNCHANGED <<links, closing, sched, view, got, origin, sent, losses>>

\* log_heartbeat_info, and PropagateToCentral.
receive_heartbeat_message(l) ==
    LET m == Head(onAir[l])
    IN  /\ Arriving(l, "heartbeat")
        /\ view' = IF l[2] = Gateway THEN [view EXCEPT ![m.deviceId] = m.centralConnectionDeviceId]
                   ELSE view
        /\ PassOn(l, Peers(l[2], {"CENTRAL"}))
        /\ UNCHANGED <<links, closing, sched, activeConnections, got, origin, sent, losses>>

\* History: the board has received the broadcast, once or more often.
Received(b) ==
    got' = IF calm THEN [got EXCEPT ![b] = IF @ = 0 THEN 1 ELSE 2] ELSE got

\* Slip: it goes up, but not down again.
receive_broadcast_message_up(l) ==
    /\ Arriving(l, "broadcast")
    /\ Received(l[2])
    /\ PassOn(l, Peers(l[2], {"CENTRAL"}))
    /\ UNCHANGED <<links, closing, sched, activeConnections, view, origin, sent, losses>>

\* PropagateToAll.
receive_broadcast_message(l) ==
    /\ Arriving(l, "broadcast")
    /\ Received(l[2])
    /\ PassOn(l, Peers(l[2], {"CENTRAL", "PERIPHERAL"}))
    /\ UNCHANGED <<links, closing, sched, activeConnections, view, origin, sent, losses>>

Broadcast == [type |-> "broadcast"]
HeartbeatsOf(b) == [type : {"heartbeat"}, deviceId : {b}, centralConnectionDeviceId : Ids]
InFlight(M) == \E l \in F!Links : \E i \in DOMAIN onAir[l] : onAir[l][i] \in M

\* Bounds: a board sends its next heartbeat when the last one has arrived or is lost,
\* and not while the broadcast is under way.
send_heartbeat_message(b) ==
    /\ b # Gateway /\ ~InFlight(HeartbeatsOf(b)) /\ ~InFlight({Broadcast})
    /\ \E id \in Ids :
           /\ get_central_connection_device_id(b, id)
           /\ onAir' = SentTo(b, Peers(b, {"CENTRAL"}),
                  [type |-> "heartbeat", deviceId |-> b, centralConnectionDeviceId |-> id])
    /\ onAir' # onAir
    /\ UNCHANGED <<links, closing, sched, activeConnections, view, got, origin, sent, losses>>

\* Bounds: one broadcast, sent when no connection event waits and the gateway has heard
\* of nobody.  It is followed when no link is on its way out either.
send_broadcast_message(b) ==
    /\ ~sent /\ \A c \in Boards : sched[c] = <<>> /\ view[c] = "unseen"
    /\ sent' = TRUE
    /\ origin' = IF closing = {} THEN b ELSE "none"
    /\ onAir' = SentTo(b, Peers(b, {"CENTRAL", "PERIPHERAL"}), Broadcast)
    /\ UNCHANGED <<links, closing, sched, activeConnections, view, got, losses>>

ConnectionHandler(b) ==
    reject_connection_event(b) \/ handle_connection_event(b) \/ handle_disconnection_event(b)

handle_write_event(l) ==
    receive_handshake_message(l) \/ receive_heartbeat_message(l) \/ receive_broadcast_message(l)

--------------------------------------------------------------------------------
(* The radio. *)

\* A board without a parent advertises once it has handled the loss of the last one.
\* As in Mesh with Prompt, handlers are done before the next link of a board comes up.
LinkEstablished(p, c) ==
    /\ c # Gateway /\ p # c /\ ~Up(p, c)
    /\ \A l \in links : l[2] # c
    /\ Cardinality({l \in links : l[1] = p}) < MAX_PERIPHERAL_CONNECTIONS
    /\ sched[p] = <<>> /\ sched[c] = <<>>
    /\ links' = links \union {<<p, c>>}
    /\ sched' = [sched EXCEPT
           ![p] = <<[type |-> "CONNECTED", peer |-> c, role |-> "PERIPHERAL"]>>,
           ![c] = <<[type |-> "CONNECTED", peer |-> p, role |-> "CENTRAL"]>>]
    /\ Stays(FALSE)
    /\ UNCHANGED <<closing, onAir, activeConnections, view, sent, losses>>

\* With a link ends what is on air over it, and both ends are told.
LinkEnds(l) ==
    /\ links' = links \ {l}
    /\ closing' = closing \ {l}
    /\ onAir' = [k \in F!Links |-> IF k \in {l, <<l[2], l[1]>>} THEN <<>> ELSE onAir[k]]
    /\ sched' = [sched EXCEPT ![l[1]] = Append(@, Told(l[2])), ![l[2]] = Append(@, Told(l[1]))]
    /\ Stays(FALSE)
    /\ UNCHANGED <<activeConnections, view, sent>>

LinkClosed(l) == l \in closing /\ LinkEnds(l) /\ UNCHANGED losses
LinkLost(l) == l \in tree /\ losses < MaxLosses /\ LinkEnds(l) /\ losses' = losses + 1

Next ==
    \/ \E b \in Boards :
           ConnectionHandler(b) \/ send_heartbeat_message(b) \/ send_broadcast_message(b)
    \/ \E l \in F!Links : handle_write_event(l) \/ LinkClosed(l) \/ LinkLost(l)
    \/ \E p, c \in Boards : LinkEstablished(p, c)

Spec == Init /\ [][Next]_vars

\* The main loops run, what is on air arrives unless the link ends, links end that
\* were asked to, the heartbeat timer repeats.  Links owe us nothing else.
Fairness ==
    /\ \A b \in Boards : WF_vars(ConnectionHandler(b))
    /\ \A b \in Boards \ {Gateway} : WF_vars(send_heartbeat_message(b))
    /\ \A l \in F!Links : WF_vars(handle_write_event(l))
    /\ WF_vars(\E l \in F!Links : LinkClosed(l))

FairSpec == Spec /\ Fairness

--------------------------------------------------------------------------------
\* b hangs under the gateway, over any number of links.
UnderGateway(b) ==
    b # Gateway /\ \A some \in SUBSET (Boards \ {Gateway}) :
        b \in some => \E l \in links : l[2] \in some /\ l[1] \notin some

Together(a, b) ==
    \A some \in SUBSET Boards :
        a \in some /\ b \notin some => \E l \in links : Cardinality({l[1], l[2]} \cap some) = 1

\* An entry of the table never says that the peer is somebody else, although
\* set_connection takes over whatever its slot last said: a heartbeat would name
\* a wrong parent to the gateway.
KnowsPeers ==
    \A b \in Boards : \A i \in Slots :
        LET entry == activeConnections[b][i]
        IN  entry.deviceId # "none" => entry.active /\ entry.deviceId = entry.peer

\* "short text messages sent throughout the mesh" (README.md): as long as no link
\* changes, a broadcast reaches every board that hangs together with its origin,
\* once, and never returns.
BroadcastComplete ==
    calm /\ ~InFlight({Broadcast}) =>
        \A b \in Boards : got[b] = IF b # origin /\ Together(b, origin) THEN 1 ELSE 0

\* A message without a sequence number (gatt.c: propagate_message) does not
\* circulate for ever: it is gone some time after the last link came up, whatever
\* the links did before and whichever of them end after it.
BroadcastDiesOut == <>[][links' \subseteq links]_links => <>[]~InFlight({Broadcast})

\* "continuously sent to the root of the mesh to track active peripheral devices"
\* (README.md): a board that stays in its place is known to the gateway by it,
\* and nothing late from another place takes that back.
TopologyLearned ==
    \A b \in Boards \ {Gateway} : \A p \in Boards \ {b} :
        <>[](<<p, b>> \in links /\ UnderGateway(b)) => <>[](view[b] = p)
================================================================================
