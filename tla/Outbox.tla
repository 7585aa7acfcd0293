--------------------------------- MODULE Outbox ---------------------------------
(***************************************************************************)
(* How one connection's messages leave the device (src/gatt.c and the      *)
(* TX_COMPLETE, CONNECTED and DISCONNECTED handlers of src/gap.c).  A      *)
(* message enters the connection's queue unsentMessages and the head of    *)
(* the queue is offered to the softdevice; a queue that cannot take the    *)
(* message costs the peer its connection; every transmission the           *)
(* softdevice reports complete lets one more message out of the queue.     *)
(*                                                                         *)
(* All handlers run to completion in the main loop, in the order of        *)
(* events; the radio works concurrently.  unsentMessages is the bounded    *)
(* FIFO that TransmissionQueue is shown to implement.  The softdevice is   *)
(* external: it holds at most TX_BUFFERS packets, acknowledges them in     *)
(* order, and may lose the link at any time.  The k-th message accepted    *)
(* for a connection carries the number k; its handshake is message 1.      *)
(***************************************************************************)
EXTENDS Integers, Sequences, FiniteSets, SequencesExt

CONSTANTS MAX_QUEUE_SIZE,   \* messages a connection's queue can hold
          TX_BUFFERS,       \* packets the softdevice buffers for a link
          MaxAccepted,      \* bound: messages accepted for one connection
          MaxEvents,        \* bound: no new link while so many events wait
          MaxDrops          \* bound: TX_COMPLETE events the scheduler drops

ASSUME OutboxAssumption ==
    /\ MAX_QUEUE_SIZE \in Nat \ {0}
    /\ TX_BUFFERS \in Nat \ {0}
    /\ {MaxAccepted, MaxEvents, MaxDrops} \subseteq Nat

VARIABLES link,       \* the softdevice's view: "down", "up" or "closing"
          onAir,      \* packets the softdevice took and nobody acknowledged yet
          events,     \* events of this handle waiting for the main loop
          active,     \* the connection has an entry in activeConnections
          unsent,     \* that entry's unsentMessages
          drops,      \* TX_COMPLETE events dropped by a full scheduler queue
          accepted,   \* history: messages accepted for the entry's connection
          delivered,  \* history: messages the peer of this link received
          fresh       \* history: see LinkEstablished

vars == <<link, onAir, events, active, unsent, drops, accepted, delivered, fresh>>

Message == Nat \ {0}
Event == [type : {"CONNECTED", "DISCONNECTED"}] \union
         [type : {"TX_COMPLETE"}, count : Nat \ {0}]

Pending(type) == \E i \in 1 .. Len(events) : events[i].type = type

TypeOK ==
    /\ link \in {"down", "up", "closing"}
    /\ onAir \in Seq(Message) /\ Len(onAir) <= TX_BUFFERS
    /\ events \in Seq(Event)
    /\ active \in BOOLEAN
    /\ unsent \in Seq(Message) /\ Len(unsent) <= MAX_QUEUE_SIZE
    /\ drops \in Nat
    /\ accepted \in Nat
    /\ delivered \in Seq(Message)
    /\ fresh \in BOOLEAN

Init ==
    /\ link = "down"
    /\ onAir = <<>>
    /\ events = <<>>
    /\ active = FALSE
    /\ unsent = <<>>
    /\ drops = 0
    /\ accepted = 0
    /\ delivered = <<>>
    /\ fresh = TRUE

--------------------------------------------------------------------------------
(* The calls of gatt.c. *)

\* sd_ble_gattc_write takes packets while the link is up and buffers are free.
Room == IF link = "up" THEN TX_BUFFERS - Len(onAir) ELSE 0

\* send_message_from_connection_queue, called n times on a queue holding q: a
\* packet the softdevice does not take stays at the head.
send_messages_from_connection_queue(n, q) ==
    LET taken == Min({n, Len(q), Room})
    IN  /\ onAir' = onAir \o SubSeq(q, 1, taken)
        /\ unsent' = SubSeq(q, taken + 1, Len(q))

disconnect_from_peer == link' = IF link = "up" THEN "closing" ELSE link

\* Slip: a full queue overwrites its oldest message.
send_to_single_connection_overwrites ==
    /\ accepted' = accepted + 1
    /\ send_messages_from_connection_queue(1,
           Append(IF Len(unsent) < MAX_QUEUE_SIZE THEN unsent ELSE Tail(unsent), accepted'))
    /\ UNCHANGED link

send_to_single_connection ==
    \/ /\ Len(unsent) < MAX_QUEUE_SIZE
       /\ accepted' = accepted + 1
       /\ send_messages_from_connection_queue(1, Append(unsent, accepted'))
       /\ UNCHANGED link
    \/ /\ Len(unsent) >= MAX_QUEUE_SIZE
       /\ disconnect_from_peer
       /\ UNCHANGED <<onAir, unsent, accepted>>

--------------------------------------------------------------------------------
(* The main loop: the application sends, or the scheduler runs a handler. *)

\* A heartbeat, a broadcast or a message passed on for another device.
Send ==
    /\ active
    /\ accepted < MaxAccepted
    /\ send_to_single_connection
    /\ UNCHANGED <<events, active, drops, delivered, fresh>>

Handle(type) ==
    /\ events # <<>>
    /\ Head(events).type = type
    /\ events' = Tail(events)

\* set_connection takes an entry that was cleared, and send_handshake_message
\* greets the peer.
handle_connection_event ==
    /\ Handle("CONNECTED")
    /\ active' = TRUE
    /\ send_to_single_connection
    /\ UNCHANGED <<drops, delivered, fresh>>

\* A board without a parent keeps no child: the entry is taken, nothing is sent.
handle_connection_event_orphan ==
    /\ Handle("CONNECTED")
    /\ active' = TRUE
    /\ disconnect_from_peer
    /\ UNCHANGED <<onAir, unsent, accepted, drops, delivered, fresh>>

\* Slip: the entry is marked unused and keeps its queue.
handle_disconnection_event_keeps ==
    /\ Handle("DISCONNECTED")
    /\ active' = FALSE
    /\ accepted' = 0
    /\ UNCHANGED <<link, onAir, unsent, drops, delivered, fresh>>

\* unset_connection clears the entry, its queue included.
handle_disconnection_event ==
    /\ Handle("DISCONNECTED")
    /\ active' = FALSE
    /\ unsent' = <<>>
    /\ accepted' = 0
    /\ UNCHANGED <<link, onAir, drops, delivered, fresh>>

\* Slip: one message per event, however many buffers were freed.
handle_buffers_freed_event_once ==
    /\ Handle("TX_COMPLETE")
    /\ IF active
       THEN send_messages_from_connection_queue(1, unsent)
       ELSE UNCHANGED <<onAir, unsent>>
    /\ UNCHANGED <<link, active, drops, accepted, delivered, fresh>>

\* Slip: the event is only logged.
handle_buffers_freed_event_ignored ==
    /\ Handle("TX_COMPLETE")
    /\ UNCHANGED <<link, onAir, active, unsent, drops, accepted, delivered, fresh>>

handle_buffers_freed_event ==
    /\ Handle("TX_COMPLETE")
    /\ IF active
       THEN send_messages_from_connection_queue(Head(events).count, unsent)
       ELSE UNCHANGED <<onAir, unsent>>
    /\ UNCHANGED <<link, active, drops, accepted, delivered, fresh>>

MainLoop ==
    \/ handle_connection_event
    \/ handle_connection_event_orphan
    \/ handle_disconnection_event
    \/ handle_buffers_freed_event

--------------------------------------------------------------------------------
(* The softdevice and the radio. *)

Receive(k) == delivered' = delivered \o SubSeq(onAir, 1, k)

\* The peer acknowledges k packets; app_sched_event_put queues the event or, if
\* its queue is full, the event is lost and only logged.
Acknowledge(k) ==
    /\ link # "down"
    /\ Receive(k)
    /\ onAir' = SubSeq(onAir, k + 1, Len(onAir))
    /\ \/ /\ events' = Append(events, [type |-> "TX_COMPLETE", count |-> k])
          /\ UNCHANGED drops
       \/ /\ drops < MaxDrops
          /\ drops' = drops + 1
          /\ UNCHANGED events
    /\ UNCHANGED <<link, active, unsent, accepted, fresh>>

\* The link ends.  The peer may have received packets nobody acknowledged.
LinkLost ==
    /\ link # "down"
    /\ link' = "down"
    /\ \E k \in 0 .. Len(onAir) : Receive(k)
    /\ onAir' = <<>>
    /\ events' = Append(events, [type |-> "DISCONNECTED"])
    /\ UNCHANGED <<active, unsent, drops, accepted, fresh>>

\* A new link takes over the handle.  It is fresh unless the application has
\* yet to hear that the last link of this handle ended.
LinkEstablished ==
    /\ link = "down"
    /\ Len(events) < MaxEvents
    /\ link' = "up"
    /\ delivered' = <<>>
    /\ fresh' = (~active /\ ~Pending("CONNECTED"))
    /\ events' = Append(events, [type |-> "CONNECTED"])
    /\ UNCHANGED <<onAir, active, unsent, drops, accepted>>

Next ==
    \/ Send
    \/ MainLoop
    \/ \E k \in 1 .. Len(onAir) : Acknowledge(k)
    \/ LinkLost
    \/ LinkEstablished

\* The main loop runs whatever waits in its queue; the peer of a live link
\* acknowledges, or else the supervision timeout ends the link; a link the
\* application closes ends.
Fairness ==
    /\ WF_vars(MainLoop)
    /\ WF_vars((\E k \in 1 .. Len(onAir) : Acknowledge(k)) \/ (onAir # <<>> /\ LinkLost))
    /\ WF_vars(link = "closing" /\ LinkLost)

Spec == Init /\ [][Next]_vars

FairSpec == Spec /\ Fairness

--------------------------------------------------------------------------------
\* Nothing is lost, duplicated, reordered or taken over from an earlier
\* connection between push_onto_queue and the peer: what the peer of a live
\* link received, what is on air and what waits in the queue are together the
\* messages accepted for the connection, in order; a peer that is gone received
\* a prefix of them.
InOrder ==
    fresh =>
        /\ link # "down" => delivered \o onAir \o unsent = [k \in 1 .. accepted |-> k]
        /\ active => \A k \in 1 .. Len(delivered) : delivered[k] = k /\ k <= accepted

\* The channel between the two ends of a fresh connection.  Once the application
\* has given it up, what waits in its queue no longer counts.
C == INSTANCE Channel
        WITH state <- IF fresh THEN link ELSE "down",
             line <- IF fresh THEN IF link = "up" THEN onAir \o unsent ELSE onAir ELSE <<>>,
             received <- IF fresh THEN delivered ELSE <<>>

\* The application and the peer see a channel that loses nothing but its end:
\* whatever the softdevice takes and when, however transmissions are reported
\* complete, and although queue and handle outlive the link, no message arrives
\* that was handed over after one that did not.
ImplementsChannel == C!Spec

\* The queue never stalls: while messages wait on a live link, a packet is on
\* air or a TX_COMPLETE event is on its way to handle_buffers_freed_event,
\* the only thing that sends from the queue when the application is quiet.
NoStall ==
    fresh /\ link = "up" /\ unsent # <<>> /\ drops = 0 =>
        onAir # <<>> \/ Pending("TX_COMPLETE")

\* What the waiting events say about a connection.  A DISCONNECTED event
\* follows the CONNECTED event of the same link; a fresh link is the only one
\* the application has still to hear of.
EventsAlternate ==
    /\ Pending("DISCONNECTED") => active \/ Pending("CONNECTED")
    /\ \A i, j \in 1 .. Len(events) :
           i < j /\ events[i].type = "DISCONNECTED" /\ events[j].type = "DISCONNECTED"
               => \E k \in i + 1 .. j - 1 : events[k].type = "CONNECTED"
    /\ link # "down" =>
           /\ active \/ Pending("CONNECTED")
           /\ \A i \in 1 .. Len(events) :
                  events[i].type = "DISCONNECTED"
                      => \E k \in i + 1 .. Len(events) : events[k].type = "CONNECTED"
    /\ fresh /\ link # "down" => ~Pending("DISCONNECTED")
    /\ \A i, j \in 1 .. Len(events) :
           fresh /\ events[i].type = "CONNECTED" /\ events[j].type = "CONNECTED" => i = j

\* What is left behind when no connection is served.
Quiet ==
    /\ ~active => unsent = <<>> /\ accepted = 0
    /\ link = "down" => onAir = <<>>
    /\ fresh /\ Pending("CONNECTED") => ~active /\ delivered = <<>> /\ onAir = <<>>

\* The buffers the events es report free: the k-th one of the i-th event.
Freed(es) ==
    {ik \in (1 .. Len(es)) \X (1 .. TX_BUFFERS) :
        es[ik[1]].type = "TX_COMPLETE" /\ ik[2] <= es[ik[1]].count}

\* Transmissions reported complete and not yet made good by the main loop.
Owed == Cardinality(Freed(events))

\* No transmit buffer idles while messages wait: each one is in use or is made
\* good by an event that is already queued.
BuffersBusy ==
    fresh /\ link = "up" /\ unsent # <<>> /\ drops = 0 =>
        Len(onAir) + Owed >= TX_BUFFERS

\* No message waits in the queue for ever: it is sent, or the connection ends
\* and takes its queue with it, unless a TX_COMPLETE event was dropped.
EveryMessageLeaves ==
    \A m \in 1 .. MaxAccepted :
        m \in Range(unsent) ~> m \notin Range(unsent) \/ drops > 0
================================================================================
