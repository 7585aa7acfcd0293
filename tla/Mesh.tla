--------------------------------- MODULE Mesh ---------------------------------
(***************************************************************************)
(* Several boards and the links between them: each board is a Device       *)
(* (src/gap.c, src/softdevice.c), and the peers of one are the others.     *)
(*                                                                         *)
(* Device checks one board against arbitrary peers, with all that can      *)
(* happen between its three views of the links.  Here a board keeps what   *)
(* the others can notice: ble_conn_state lags behind the radio (sdEvents), *)
(* the handlers lag behind ble_conn_state (sched).  The connection table   *)
(* is left out, since Device shows that it follows the handlers; a handle  *)
(* is the link itself.  Reports of advertisers are handled as they come    *)
(* in, scheduler queues are never full, and nobody types commands: Device  *)
(* has those.  Two boards have at most one link with each other.           *)
(***************************************************************************)
EXTENDS Integers, Sequences, FiniteSets

CONSTANTS Boards,
          Gateway,                     \* the one built without IS_PROD_BOARD
          MAX_PERIPHERAL_CONNECTIONS,  \* 3 in inc/connection.h
          Prompt,                      \* handlers run before the next link: see Ready
          MaxLosses                    \* bound: links the radio breaks

ASSUME MeshAssumption ==
    /\ IsFiniteSet(Boards)
    /\ MAX_PERIPHERAL_CONNECTIONS \in Nat \ {0}
    /\ Prompt \in BOOLEAN
    /\ MaxLosses \in Nat
    /\ Boards \cap {"idle", "scanning"} = {}

VARIABLES links,        \* the links that are up, as pairs <<parent, child>>
          closing,      \* those that an end has asked to disconnect
          advertising,  \* the boards that advertise
          gap,          \* board -> "idle", "scanning" or the peer it connects to
          sdEvents,     \* board -> events its softdevice holds
          sched,        \* board -> events whose handlers wait
          connState,    \* board -> links that its ble_conn_state lists
          losses        \* how many links the radio has broken

softdevice == <<links, closing, advertising, gap>>
vars == <<softdevice, sdEvents, sched, connState, losses>>

Links == {l \in Boards \X Boards : l[1] # l[2]}
LinkEvent == [type : {"CONNECTED", "DISCONNECTED"}, link : Links]
Event == LinkEvent \union [type : {"TIMEOUT"}]

TypeOK ==
    /\ links \subseteq Links
    /\ closing \subseteq links
    /\ advertising \subseteq Boards
    /\ gap \in [Boards -> {"idle", "scanning"} \union Boards]
    /\ sdEvents \in [Boards -> Seq(Event)]
    /\ sched \in [Boards -> Seq(Event)]
    /\ connState \in [Boards -> SUBSET Links]
    /\ losses \in 0 .. MaxLosses

Init ==
    /\ links = {}
    /\ closing = {}
    /\ advertising = Boards \ {Gateway}
    /\ gap = [b \in Boards |-> IF b = Gateway THEN "scanning" ELSE "idle"]
    /\ sdEvents = [b \in Boards |-> <<>>]
    /\ sched = [b \in Boards |-> <<>>]
    /\ connState = [b \in Boards |-> {}]
    /\ losses = 0

--------------------------------------------------------------------------------
(* What a board asks ble_conn_state, and what the softdevice answers at once. *)

central_connection_active(b) == \E l \in connState[b] : l[2] = b
all_peripheral_connections_active(b) ==
    Cardinality({l \in connState[b] : l[1] = b}) >= MAX_PERIPHERAL_CONNECTIONS

HasParent(b) == \E l \in links : l[2] = b
Unlinked(p, c) == {<<p, c>>, <<c, p>>} \cap links = {}
HasRoom(b) == Cardinality({l \in links : l[1] = b}) < MAX_PERIPHERAL_CONNECTIONS

scan_started(b) == IF gap[b] = "idle" THEN "scanning" ELSE gap[b]
scan_stopped(b) == IF gap[b] = "scanning" THEN "idle" ELSE gap[b]

SetGap(b, g) == gap' = [gap EXCEPT ![b] = g]
start_advertising(b) ==
    advertising' = IF b = Gateway \/ HasParent(b) THEN advertising ELSE advertising \union {b}

Handling(b, type) == sched[b] # <<>> /\ Head(sched[b]).type = type
Return(b) == sched' = [sched EXCEPT ![b] = Tail(@)]

--------------------------------------------------------------------------------
(* The handlers of a board. *)

ble_evt_dispatch(b) ==
    /\ sdEvents[b] # <<>>
    /\ LET e == Head(sdEvents[b])
       IN  /\ connState' = [connState EXCEPT ![b] =
                  IF e.type = "CONNECTED" THEN @ \union {e.link}
                  ELSE IF e.type = "DISCONNECTED" THEN @ \ {e.link} ELSE @]
           /\ sched' = [sched EXCEPT ![b] = Append(@, e)]
    /\ sdEvents' = [sdEvents EXCEPT ![b] = Tail(@)]
    /\ UNCHANGED <<softdevice, losses>>

\* handle_advertising_report_event, run as soon as the report comes in: the scan
\* gives way to a connection attempt, if one can be made.
hears_advertiser(b, c) ==
    /\ gap[b] = "scanning" /\ c \in advertising /\ b # c /\ Unlinked(b, c)
    /\ ~all_peripheral_connections_active(b) /\ HasRoom(b)
    /\ SetGap(b, c)
    /\ UNCHANGED <<links, closing, advertising, sdEvents, sched, connState, losses>>

\* Slip: a new child is kept by a board without a parent.
child_connected_keep(b) ==
    /\ Handling(b, "CONNECTED") /\ Head(sched[b]).link[1] = b
    /\ SetGap(b, IF b # Gateway /\ all_peripheral_connections_active(b) THEN gap[b]
                 ELSE scan_started(b))
    /\ Return(b)
    /\ UNCHANGED <<links, closing, advertising, sdEvents, connState, losses>>

\* handle_connection_event for a link on which the board is the central: without
\* a parent of its own, a mesh board turns the child away.
child_connected(b) ==
    /\ Handling(b, "CONNECTED") /\ Head(sched[b]).link[1] = b
    /\ IF b # Gateway /\ ~central_connection_active(b)
       THEN closing' = closing \union ({Head(sched[b]).link} \cap links) /\ UNCHANGED gap
       ELSE /\ SetGap(b, IF b # Gateway /\ all_peripheral_connections_active(b)
                         THEN gap[b] ELSE scan_started(b))
            /\ UNCHANGED closing
    /\ Return(b)
    /\ UNCHANGED <<links, advertising, sdEvents, connState, losses>>

\* Slip: a board that found a parent looks for no child of its own.
parent_connected_quiet(b) ==
    /\ Handling(b, "CONNECTED") /\ Head(sched[b]).link[2] = b
    /\ Return(b)
    /\ UNCHANGED <<softdevice, sdEvents, connState, losses>>

\* handle_connection_event for a link on which the board is the peripheral.
parent_connected(b) ==
    /\ Handling(b, "CONNECTED") /\ Head(sched[b]).link[2] = b
    /\ SetGap(b, IF all_peripheral_connections_active(b) THEN gap[b] ELSE scan_started(b))
    /\ Return(b)
    /\ UNCHANGED <<links, closing, advertising, sdEvents, connState, losses>>

\* Slip: the children stay when the parent is lost.
parent_lost_keep(b) ==
    /\ Handling(b, "DISCONNECTED") /\ Head(sched[b]).link[2] = b
    /\ start_advertising(b)
    /\ SetGap(b, scan_stopped(b))
    /\ Return(b)
    /\ UNCHANGED <<links, closing, sdEvents, connState, losses>>

\* Slip: the board does not advertise again.
parent_lost_silent(b) ==
    /\ Handling(b, "DISCONNECTED") /\ Head(sched[b]).link[2] = b
    /\ closing' = closing \union (connState[b] \cap links)
    /\ SetGap(b, scan_stopped(b))
    /\ Return(b)
    /\ UNCHANGED <<links, advertising, sdEvents, connState, losses>>

\* handle_disconnection_event: we lost our parent, so the mesh is no more.
parent_lost(b) ==
    /\ Handling(b, "DISCONNECTED") /\ Head(sched[b]).link[2] = b
    /\ closing' = closing \union (connState[b] \cap links)
    /\ start_advertising(b)
    /\ SetGap(b, scan_stopped(b))
    /\ Return(b)
    /\ UNCHANGED <<links, sdEvents, connState, losses>>

\* handle_disconnection_event: we lost a child, scan for more.
child_lost(b) ==
    /\ Handling(b, "DISCONNECTED") /\ Head(sched[b]).link[1] = b
    /\ SetGap(b, scan_started(b))
    /\ Return(b)
    /\ UNCHANGED <<links, closing, advertising, sdEvents, connState, losses>>

handle_connection_timeout_event(b) ==
    /\ Handling(b, "TIMEOUT")
    /\ SetGap(b, scan_started(b))
    /\ Return(b)
    /\ UNCHANGED <<links, closing, advertising, sdEvents, connState, losses>>

MainLoop(b) ==
    \/ ble_evt_dispatch(b)
    \/ handle_connection_timeout_event(b)
    \/ child_connected(b) \/ parent_connected(b)
    \/ parent_lost(b) \/ child_lost(b)

--------------------------------------------------------------------------------
(* The radio.  A link that an end has asked to disconnect ends, any other one   *)
(* may be lost.                                                                *)

Raise(bs, e) ==
    sdEvents' = [b \in Boards |-> IF b \in bs THEN Append(sdEvents[b], e) ELSE sdEvents[b]]

\* With Prompt, a board has run its handlers before another link of its comes
\* up.  Establishing a link takes as long as the peer needs to be heard again,
\* hundreds of milliseconds (Packets), the handlers take a few; nothing in the
\* code enforces it.
Ready(b) == sdEvents[b] = <<>> /\ sched[b] = <<>>

Connects(p, c) ==
    /\ gap[p] = c /\ c \in advertising /\ p # c /\ Unlinked(p, c)
    /\ Prompt => Ready(p) /\ Ready(c)
    /\ links' = links \union {<<p, c>>}
    /\ advertising' = advertising \ {c}
    /\ SetGap(p, "idle")
    /\ Raise({p, c}, [type |-> "CONNECTED", link |-> <<p, c>>])
    /\ UNCHANGED <<closing, sched, connState, losses>>

ConnectingTimesOut(p) ==
    /\ gap[p] \in Boards
    /\ SetGap(p, "idle")
    /\ Raise({p}, [type |-> "TIMEOUT"])
    /\ UNCHANGED <<links, closing, advertising, sched, connState, losses>>

LinkEnds(l) ==
    /\ links' = links \ {l}
    /\ closing' = closing \ {l}
    /\ Raise({l[1], l[2]}, [type |-> "DISCONNECTED", link |-> l])
    /\ UNCHANGED <<advertising, gap, sched, connState>>

LinkClosed(l) == l \in closing /\ LinkEnds(l) /\ UNCHANGED losses
LinkLost(l) == l \in links \ closing /\ losses < MaxLosses /\ LinkEnds(l) /\ losses' = losses + 1

Next ==
    \/ \E b \in Boards : \/ MainLoop(b)
                         \/ ConnectingTimesOut(b)
    \/ \E p, c \in Boards : hears_advertiser(p, c) \/ Connects(p, c)
    \/ \E l \in links : LinkClosed(l) \/ LinkLost(l)

Spec == Init /\ [][Next]_vars

\* Main loops run, links that were asked to disconnect end, attempts succeed or
\* time out.  A gateway that keeps scanning hears a board that keeps advertising,
\* and an attempt that is made again and again to connect to it succeeds at last.
\* Nothing is owed to mesh boards that look for each other.
Fairness ==
    /\ \A b \in Boards : WF_vars(MainLoop(b))
    /\ \A l \in Links : WF_vars(LinkClosed(l))
    /\ \A p \in Boards : WF_vars(ConnectingTimesOut(p) \/ \E c \in Boards : Connects(p, c))
    /\ \A c \in Boards \ {Gateway} :
           /\ SF_vars(hears_advertiser(Gateway, c))
           /\ []<>(gap[Gateway] = c /\ c \in advertising) =>
                  []<><<Connects(Gateway, c)>>_vars

FairSpec == Spec /\ Fairness

--------------------------------------------------------------------------------
tree == links \ closing
F == INSTANCE Forest

\* The links that are not on their way out form a forest, although the two ends of
\* a link learn of it independently: a board takes a parent only when it has let go
\* of its children.  Under Prompt; MeshCycle shows that handlers that run later
\* may close a circle.
ImplementsForest == F!Spec

\* Nothing is under way: every event is handled, no link is being ended.
Settled == closing = {} /\ \A b \in Boards : Ready(b)

\* "Devices in the mesh will not connect to each other via BLE unless the gateway
\* device is present" (README.md): once everything is settled, no board has
\* children unless it hangs, over any number of links, under the gateway.
HangsUnderGateway ==
    Settled => \A some \in SUBSET (Boards \ {Gateway}) :
        (\E l \in links : l[1] \in some) => \E l \in links : l[2] \in some /\ l[1] \notin some

\* The mesh stays open: once everything is settled, whoever has no parent advertises,
\* and whatever links came, went, and were attempted in vain, the gateway or a board
\* with a parent has room for a child and scans or connects.  Scanning ends in many
\* handlers; if all boards of the mesh that have room had ended it, nobody outside
\* would ever be found.
StaysOpen ==
    Settled =>
        /\ \A c \in Boards \ {Gateway} : HasParent(c) \/ c \in advertising
        /\ \E b \in Boards : (b = Gateway \/ HasParent(b)) /\ HasRoom(b) /\ gap[b] # "idle"

\* "We wanted our mesh to rebuild itself continuously" (README.md): after the last
\* loss every board finds a place in the mesh again.
Heals == <>[](\A b \in Boards \ {Gateway} : HasParent(b))
================================================================================
