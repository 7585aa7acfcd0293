---------------------------- MODULE TrafficProofs ----------------------------
(***************************************************************************)
(* What the boards know of each other, and what becomes of a broadcast,    *)
(* for any number of boards, connections and losses.                       *)
(*                                                                         *)
(* A board never takes a neighbour for another board: handshakes carry the *)
(* id of their sender only, and an entry of the table is emptied before it *)
(* is used again (IInv).                                                   *)
(*                                                                         *)
(* A board has one parent at most and as many children as slots            *)
(* (LinksRight).  Its table agrees with its links up to the events that    *)
(* still wait for its handlers, so when none waits a message is passed on  *)
(* over just the links the board has (BoardsRight).  There is one parent   *)
(* at most in the table and among the events that wait, and that one is    *)
(* not its child (RolesRight).  So a heartbeat, sent to the parent and     *)
(* handed on to the next, goes up only and names the right one             *)
(* (HeartbeatsClimb).                                                      *)
(*                                                                         *)
(* A board without a parent in sight has asked its children to leave       *)
(* (Shedding), so it has none to close a circle with when the next parent  *)
(* comes: the links that nobody has asked to end are a forest (Trees), and *)
(* a broadcast spreads over a tree from its root.  The boards it has       *)
(* reached hang together with the origin, and one copy is on air over each *)
(* link that leads out of them and none elsewhere (Waiting, Spreads).      *)
(***************************************************************************)
EXTENDS Traffic, FiniteSetTheorems, SequenceTheorems, TLAPS

\* What is on air over l says truly who sent it.
Truthful(l, messages) ==
    \A i \in 1 .. Len(messages) :
        messages[i].type = "handshake" => messages[i].deviceId = l[1]

HandshakesTrue == \A l \in F!Links : Truthful(l, onAir[l])

IInv == TypeOK /\ KnowsPeers /\ HandshakesTrue

LEMMA LinkHasTwoEnds == \A l \in F!Links : l[1] \in Boards /\ l[2] \in Boards
  BY DEF F!Links

LEMMA TruthfulAppended ==
    ASSUME NEW l, NEW s \in Seq(Message), NEW m \in Message, Truthful(l, s),
           m.type = "handshake" => m.deviceId = l[1]
    PROVE  Append(s, m) \in Seq(Message) /\ Truthful(l, Append(s, m))
<1>1. /\ Append(s, m) \in Seq(Message) /\ Len(Append(s, m)) = Len(s) + 1 /\ Len(s) \in Nat
      /\ \A i \in 1 .. Len(s) : Append(s, m)[i] = s[i]
      /\ Append(s, m)[Len(s) + 1] = m
  OBVIOUS
<1> QED BY <1>1 DEF Truthful

LEMMA TruthfulTail ==
    ASSUME NEW l, NEW s \in Seq(Message), s # <<>>, Truthful(l, s)
    PROVE  /\ Tail(s) \in Seq(Message) /\ Truthful(l, Tail(s))
           /\ Head(s) \in Message
           /\ Head(s).type = "handshake" => Head(s).deviceId = l[1]
<1>1. /\ Tail(s) \in Seq(Message) /\ Len(Tail(s)) = Len(s) - 1 /\ Len(s) \in Nat \ {0}
      /\ \A i \in 1 .. Len(s) - 1 : Tail(s)[i] = s[i + 1]
      /\ Head(s) = s[1] /\ Head(s) \in Message
  OBVIOUS
<1>2. Truthful(l, Tail(s))
  BY <1>1 DEF Truthful
<1> QED BY <1>1, <1>2 DEF Truthful

LEMMA TruthfulNothing == \A l : <<>> \in Seq(Message) /\ Truthful(l, <<>>)
  BY DEF Truthful

--------------------------------------------------------------------------------
(* What the steps do to the messages on air. *)

OnAirRight(air) ==
    /\ air \in [F!Links -> Seq(Message)]
    /\ \A l \in F!Links : Truthful(l, air[l])

LEMMA SentToRight ==
    ASSUME IInv, NEW b \in Boards, NEW peers, NEW m \in Message,
           peers = {} \/ (m.type = "handshake" => m.deviceId = b)
    PROVE  /\ OnAirRight(SentTo(b, peers, m))
           /\ \A l \in F!Links : onAir[l] # <<>> => SentTo(b, peers, m)[l] # <<>>
<1>1. \A l \in F!Links : onAir[l] \in Seq(Message) /\ Truthful(l, onAir[l])
  BY DEF IInv, TypeOK, HandshakesTrue
<1>2. ASSUME NEW l \in F!Links, l[1] = b, peers # {}
      PROVE  /\ Append(onAir[l], m) \in Seq(Message) /\ Truthful(l, Append(onAir[l], m))
             /\ Append(onAir[l], m) # <<>>
  BY <1>1, <1>2, TruthfulAppended
<1> QED BY <1>1, <1>2 DEF OnAirRight, SentTo

LEMMA PassOnRight ==
    ASSUME IInv, NEW l \in F!Links, NEW peers, onAir[l] # <<>>, PassOn(l, peers),
           peers = {} \/ Head(onAir[l]).type # "handshake"
    PROVE  onAir' \in [F!Links -> Seq(Message)] /\ HandshakesTrue'
<1> DEFINE out == SentTo(l[2], peers \ {l[1]}, Head(onAir[l]))
<1>1. onAir[l] \in Seq(Message) /\ Head(onAir[l]) \in Message
  BY DEF IInv, TypeOK
<1>2. l[2] \in Boards
  BY LinkHasTwoEnds
<1>3. OnAirRight(out) /\ out[l] # <<>>
  BY <1>1, <1>2, SentToRight
<1>4. onAir' = [out EXCEPT ![l] = Tail(@)]
  BY DEF PassOn
<1> HIDE DEF out
<1>5. Tail(out[l]) \in Seq(Message) /\ Truthful(l, Tail(out[l]))
  BY <1>3, TruthfulTail DEF OnAirRight
<1> QED BY <1>3, <1>4, <1>5 DEF OnAirRight, HandshakesTrue

\* What the history says of the broadcast, whether the links stay or not.
LEMMA StaysRight ==
    ASSUME IInv, NEW yes \in BOOLEAN, Stays(yes)
    PROVE  origin' \in Ids /\ got' \in [Boards -> 0 .. 2]
<1>1. Nothing \in [Boards -> 0 .. 2] /\ "none" \in Ids
  BY DEF Nothing, Ids
<1>2. origin \in Ids /\ got \in [Boards -> 0 .. 2]
  BY DEF IInv, TypeOK
<1>3. CASE yes
  BY <1>2, <1>3 DEF Stays
<1>4. CASE ~yes
  BY <1>1, <1>4 DEF Stays
<1> QED BY <1>3, <1>4

LEMMA DisconnectRight ==
    ASSUME IInv, NEW gone \in SUBSET links, disconnect_from_peers(gone), links' = links
    PROVE  /\ links' \subseteq F!Links /\ closing' \subseteq links'
           /\ origin' \in Ids /\ got' \in [Boards -> 0 .. 2]
<1>1. Stays(gone = {}) /\ closing' = closing \union gone
  BY DEF disconnect_from_peers
<1>2. (gone = {}) \in BOOLEAN
  OBVIOUS
<1>3. origin' \in Ids /\ got' \in [Boards -> 0 .. 2]
  BY <1>1, <1>2, StaysRight
<1> QED BY <1>1, <1>3 DEF IInv, TypeOK

--------------------------------------------------------------------------------
(* What they do to the connection tables. *)

KnowsPeer(entry) == entry.deviceId # "none" => entry.active /\ entry.deviceId = entry.peer

TablesRight(tables) ==
    /\ tables \in [Boards -> [Slots -> connection]]
    /\ \A b \in Boards : \A i \in Slots : KnowsPeer(tables[b][i])

LEMMA TablesAreRight == IInv <=> TypeOK /\ HandshakesTrue /\ TablesRight(activeConnections)
  BY DEF IInv, TypeOK, KnowsPeers, TablesRight, KnowsPeer

\* A slot that is taken names nobody, since it was free.
LEMMA SetRight ==
    ASSUME IInv, NEW b \in Boards, NEW peer \in Boards, NEW type \in {"CENTRAL", "PERIPHERAL"},
           set_connection(b, peer, type)
    PROVE  TablesRight(activeConnections')
<1>1. TablesRight(activeConnections)
  BY TablesAreRight
<1>2. CASE UNCHANGED activeConnections
  BY <1>1, <1>2
<1>3. ASSUME NEW i \in Slots, First(i, Slots \ Active(b)),
             activeConnections' = [activeConnections EXCEPT ![b][i] =
                 [@ EXCEPT !.active = TRUE, !.peer = peer, !.type = type]]
      PROVE  TablesRight(activeConnections')
  <2> DEFINE old == activeConnections[b][i]
             new == [old EXCEPT !.active = TRUE, !.peer = peer, !.type = type]
  <2>1. old \in connection /\ ~old.active /\ KnowsPeer(old)
    BY <1>1, <1>3 DEF TablesRight, First, Active
  <2>2. new \in connection /\ new.deviceId = old.deviceId
    BY <2>1 DEF connection, Ids
  <2>3. KnowsPeer(new)
    BY <2>1, <2>2 DEF KnowsPeer
  <2>4. activeConnections' = [activeConnections EXCEPT ![b] = [@ EXCEPT ![i] = new]]
    BY <1>3
  <2> HIDE DEF new
  <2> QED BY <1>1, <2>2, <2>3, <2>4 DEF TablesRight
<1> QED BY <1>2, <1>3 DEF set_connection

LEMMA UnsetRight ==
    ASSUME IInv, NEW b \in Boards, NEW peer \in Boards, unset_connection(b, peer)
    PROVE  TablesRight(activeConnections')
<1>1. TablesRight(activeConnections)
  BY TablesAreRight
<1>2. NoConnection \in connection /\ KnowsPeer(NoConnection)
  BY DEF NoConnection, connection, KnowsPeer, Ids
<1> QED BY <1>1, <1>2 DEF TablesRight, unset_connection

LEMMA LearnRight ==
    ASSUME IInv, NEW l \in F!Links, Learn(l, l[1])
    PROVE  TablesRight(activeConnections')
<1>1. TablesRight(activeConnections)
  BY TablesAreRight
<1>2. l[1] \in Boards /\ l[2] \in Boards
  BY LinkHasTwoEnds
<1> DEFINE new(i) == [activeConnections[l[2]][i] EXCEPT !.deviceId = l[1]]
<1>3. ASSUME NEW i \in SlotsOf(l[2], l[1])
      PROVE  new(i) \in connection /\ KnowsPeer(new(i))
  <2>1. /\ activeConnections[l[2]][i] \in connection /\ activeConnections[l[2]][i].active
        /\ activeConnections[l[2]][i].peer = l[1]
    BY <1>1, <1>2 DEF SlotsOf, Active, TablesRight
  <2> QED BY <1>2, <2>1 DEF connection, KnowsPeer, Ids
<1>4. activeConnections' =
        [activeConnections EXCEPT ![l[2]] = [i \in Slots |->
            IF i \in SlotsOf(l[2], l[1]) THEN new(i) ELSE activeConnections[l[2]][i]]]
  BY <1>1, <1>2 DEF Learn, TablesRight
<1> HIDE DEF new
<1> QED BY <1>1, <1>2, <1>3, <1>4 DEF TablesRight

--------------------------------------------------------------------------------
(* The steps. *)

LEMMA HeadOfSched ==
    ASSUME IInv, NEW b \in Boards, sched[b] # <<>>
    PROVE  /\ Head(sched[b]) \in Event /\ Tail(sched[b]) \in Seq(Event)
           /\ Head(sched[b]).peer \in Boards
           /\ Handling(b, "CONNECTED") => Head(sched[b]).role \in {"CENTRAL", "PERIPHERAL"}
<1>1. sched[b] \in Seq(Event)
  BY DEF IInv, TypeOK
<1>2. Head(sched[b]) \in Event /\ Tail(sched[b]) \in Seq(Event)
  BY <1>1
<1> QED BY <1>2 DEF Event, Handling

LEMMA ConnectionHandlerStep ==
    ASSUME IInv, NEW b \in Boards, ConnectionHandler(b)
    PROVE  IInv'
<1> DEFINE peer == Head(sched[b]).peer
<1>1. /\ sched[b] # <<>>
      /\ peer \in Boards /\ Tail(sched[b]) \in Seq(Event)
      /\ Handling(b, "CONNECTED") => Head(sched[b]).role \in {"CENTRAL", "PERIPHERAL"}
  BY HeadOfSched DEF ConnectionHandler, reject_connection_event, handle_connection_event,
                     handle_disconnection_event, Handling
<1> HIDE DEF peer
<1>2. CASE reject_connection_event(b)
  <2>1. TablesRight(activeConnections')
    BY <1>1, <1>2, SetRight DEF reject_connection_event, peer
  <2>2. /\ disconnect_from_peers({<<b, peer>>} \cap links)
        /\ sched' = [sched EXCEPT ![b] = Tail(@)]
        /\ UNCHANGED <<links, onAir, view, sent, losses>>
    BY <1>2 DEF reject_connection_event, peer, Return
  <2>3. /\ links' \subseteq F!Links /\ closing' \subseteq links'
        /\ origin' \in Ids /\ got' \in [Boards -> 0 .. 2]
    BY <2>2, DisconnectRight
  <2>4. sched' \in [Boards -> Seq(Event)]
    BY <1>1, <2>2 DEF IInv, TypeOK
  <2> QED BY <2>1, <2>2, <2>3, <2>4
          DEF IInv, TypeOK, TablesRight, KnowsPeers, KnowsPeer, HandshakesTrue
<1>3. CASE handle_connection_event(b)
  <2> DEFINE m == [type |-> "handshake", deviceId |-> b]
  <2>1. m \in Message /\ m.deviceId = b
    BY DEF Message
  <2>2. /\ set_connection(b, peer, Head(sched[b]).role)
        /\ Head(sched[b]).role \in {"CENTRAL", "PERIPHERAL"}
        /\ onAir' = SentTo(b, {peer}, m)
        /\ sched' = [sched EXCEPT ![b] = Tail(@)]
        /\ UNCHANGED <<links, closing, view, got, origin, sent, losses>>
    BY <1>1, <1>3 DEF handle_connection_event, peer, Return
  <2> HIDE DEF m
  <2>3. TablesRight(activeConnections')
    BY <1>1, <2>2, SetRight
  <2>4. OnAirRight(onAir')
    BY <2>1, <2>2, SentToRight
  <2>5. sched' \in [Boards -> Seq(Event)]
    BY <1>1, <2>2 DEF IInv, TypeOK
  <2> QED BY <2>2, <2>3, <2>4, <2>5 DEF IInv, TypeOK, TablesRight, KnowsPeers,
                                         KnowsPeer, OnAirRight, HandshakesTrue
<1>4. CASE handle_disconnection_event(b)
  <2>1. TablesRight(activeConnections')
    BY <1>1, <1>4, UnsetRight DEF handle_disconnection_event, peer
  <2>2. PICK gone \in {LinksOf(b), {}} :
            /\ disconnect_from_peers(gone)
            /\ sched' = [sched EXCEPT ![b] = Tail(@)]
            /\ UNCHANGED <<links, onAir, view, sent, losses>>
    BY <1>4 DEF handle_disconnection_event, Return
  <2>5. gone \in SUBSET links
    BY DEF LinksOf
  <2>3. /\ links' \subseteq F!Links /\ closing' \subseteq links'
        /\ origin' \in Ids /\ got' \in [Boards -> 0 .. 2]
    BY <2>2, <2>5, DisconnectRight
  <2>4. sched' \in [Boards -> Seq(Event)]
    BY <1>1, <2>2 DEF IInv, TypeOK
  <2> QED BY <2>1, <2>2, <2>3, <2>4
          DEF IInv, TypeOK, TablesRight, KnowsPeers, KnowsPeer, HandshakesTrue
<1> QED BY <1>2, <1>3, <1>4 DEF ConnectionHandler

LEMMA WriteStep ==
    ASSUME IInv, NEW l \in F!Links, handle_write_event(l)
    PROVE  IInv'
<1> DEFINE m == Head(onAir[l])
<1>1. /\ onAir[l] # <<>> /\ m \in Message /\ l[2] \in Boards
      /\ m.type = "handshake" => m.deviceId = l[1]
  <2>1. onAir[l] # <<>>
    BY DEF handle_write_event, receive_handshake_message, receive_heartbeat_message,
           receive_broadcast_message, Arriving
  <2>2. onAir[l] \in Seq(Message) /\ Truthful(l, onAir[l])
    BY DEF IInv, TypeOK, HandshakesTrue
  <2> QED BY <2>1, <2>2, LinkHasTwoEnds, TruthfulTail
<1> HIDE DEF m
<1>2. CASE receive_handshake_message(l)
  <2>1. m.type = "handshake" /\ Learn(l, m.deviceId) /\ PassOn(l, {})
        /\ UNCHANGED <<links, closing, sched, view, got, origin, sent, losses>>
    BY <1>2 DEF receive_handshake_message, Arriving, m
  <2>2. TablesRight(activeConnections')
    BY <1>1, <2>1, LearnRight
  <2>3. onAir' \in [F!Links -> Seq(Message)] /\ HandshakesTrue'
    BY <1>1, <2>1, PassOnRight
  <2> QED BY <2>1, <2>2, <2>3 DEF IInv, TypeOK, TablesRight, KnowsPeers, KnowsPeer
<1>3. CASE receive_heartbeat_message(l)
  <2>1. /\ m.type = "heartbeat" /\ PassOn(l, Peers(l[2], {"CENTRAL"}))
        /\ view' = IF l[2] = Gateway THEN [view EXCEPT ![m.deviceId] = m.centralConnectionDeviceId]
                   ELSE view
        /\ UNCHANGED <<links, closing, sched, activeConnections, got, origin, sent, losses>>
    BY <1>3 DEF receive_heartbeat_message, Arriving, m
  <2>2. onAir' \in [F!Links -> Seq(Message)] /\ HandshakesTrue'
    BY <1>1, <2>1, PassOnRight DEF m
  <2>3. m.centralConnectionDeviceId \in Ids
    BY <1>1, <2>1 DEF Message
  <2>4. view' \in [Boards -> Ids \union {"unseen"}]
    BY <2>1, <2>3 DEF IInv, TypeOK
  <2> QED BY <2>1, <2>2, <2>4 DEF IInv, TypeOK, KnowsPeers
<1>4. CASE receive_broadcast_message(l)
  <2>1. /\ m.type = "broadcast" /\ PassOn(l, Peers(l[2], {"CENTRAL", "PERIPHERAL"}))
        /\ got' = IF calm THEN [got EXCEPT ![l[2]] = IF @ = 0 THEN 1 ELSE 2] ELSE got
        /\ UNCHANGED <<links, closing, sched, activeConnections, view, origin, sent, losses>>
    BY <1>4 DEF receive_broadcast_message, Arriving, Received, m
  <2>2. onAir' \in [F!Links -> Seq(Message)] /\ HandshakesTrue'
    BY <1>1, <2>1, PassOnRight DEF m
  <2>3. got \in [Boards -> 0 .. 2] /\ 1 \in 0 .. 2 /\ 2 \in 0 .. 2
    BY DEF IInv, TypeOK
  <2>4. [got EXCEPT ![l[2]] = IF @ = 0 THEN 1 ELSE 2] \in [Boards -> 0 .. 2]
    BY <2>3
  <2>5. got' \in [Boards -> 0 .. 2]
    BY <2>1, <2>3, <2>4
  <2> QED BY <2>1, <2>2, <2>5 DEF IInv, TypeOK, KnowsPeers
<1> QED BY <1>2, <1>3, <1>4 DEF handle_write_event

LEMMA SendStep ==
    ASSUME IInv, NEW b \in Boards, send_heartbeat_message(b) \/ send_broadcast_message(b)
    PROVE  IInv'
<1>1. CASE send_heartbeat_message(b)
  <2>1. PICK id \in Ids :
            onAir' = SentTo(b, Peers(b, {"CENTRAL"}),
                [type |-> "heartbeat", deviceId |-> b, centralConnectionDeviceId |-> id])
    BY <1>1 DEF send_heartbeat_message
  <2> DEFINE m == [type |-> "heartbeat", deviceId |-> b, centralConnectionDeviceId |-> id]
  <2>2. m \in Message /\ m.type # "handshake"
    BY DEF Message
  <2> HIDE DEF m
  <2>3. OnAirRight(onAir')
    BY <2>1, <2>2, SentToRight DEF m
  <2>4. UNCHANGED <<links, closing, sched, activeConnections, view, got, origin, sent, losses>>
    BY <1>1 DEF send_heartbeat_message
  <2> QED BY <2>3, <2>4 DEF IInv, TypeOK, KnowsPeers, OnAirRight, HandshakesTrue
<1>2. CASE send_broadcast_message(b)
  <2>1. Broadcast \in Message /\ Broadcast.type # "handshake"
    BY DEF Message, Broadcast
  <2>2. /\ onAir' = SentTo(b, Peers(b, {"CENTRAL", "PERIPHERAL"}), Broadcast)
        /\ origin' \in {b, "none"} /\ sent' = TRUE
        /\ UNCHANGED <<links, closing, sched, activeConnections, view, got, losses>>
    BY <1>2 DEF send_broadcast_message
  <2>3. OnAirRight(onAir')
    BY <2>1, <2>2, SentToRight
  <2> QED BY <2>2, <2>3 DEF IInv, TypeOK, Ids, KnowsPeers, OnAirRight, HandshakesTrue
<1> QED BY <1>1, <1>2

LEMMA SingleEvent == \A e \in Event : <<e>> \in Seq(Event)
  OBVIOUS

\* When a link ends, both its ends are told, behind what they still have to handle.
LEMMA LinkEndsTells ==
    ASSUME IInv, NEW l \in F!Links, LinkEnds(l)
    PROVE  /\ sched' \in [Boards -> Seq(Event)]
           /\ l = <<l[1], l[2]>> /\ l[1] \in Boards /\ l[2] \in Boards /\ l[1] # l[2]
           /\ sched'[l[1]] = Append(sched[l[1]], Told(l[2]))
           /\ sched'[l[2]] = Append(sched[l[2]], Told(l[1]))
           /\ \A c \in Boards \ {l[1], l[2]} : sched'[c] = sched[c]
           /\ \A c \in Boards : /\ Told(c) \in Event /\ Told(c).type = "DISCONNECTED"
                                /\ Told(c).peer = c
<1>1. /\ l = <<l[1], l[2]>> /\ l[1] \in Boards /\ l[2] \in Boards /\ l[1] # l[2]
      /\ sched \in [Boards -> Seq(Event)]
  BY DEF F!Links, IInv, TypeOK
<1>2. \A c \in Boards : /\ Told(c) \in Event /\ Told(c).type = "DISCONNECTED"
                        /\ Told(c).peer = c
  BY DEF Told, Event
<1>3. sched' = [sched EXCEPT ![l[1]] = Append(@, Told(l[2])), ![l[2]] = Append(@, Told(l[1]))]
  BY DEF LinkEnds
<1>4. \A c \in Boards : sched'[c] = IF c = l[2] THEN Append(sched[c], Told(l[1]))
                                    ELSE IF c = l[1] THEN Append(sched[c], Told(l[2]))
                                    ELSE sched[c]
  BY <1>1, <1>3
<1>5. \A c \in Boards, d \in Boards : Append(sched[c], Told(d)) \in Seq(Event)
  BY <1>1, <1>2
<1>6. sched' \in [Boards -> Seq(Event)]
  BY <1>1, <1>3, <1>4, <1>5
<1> QED BY <1>1, <1>2, <1>4, <1>6

LEMMA RadioStep ==
    ASSUME IInv,
           \/ \E p, c \in Boards : LinkEstablished(p, c)
           \/ \E l \in F!Links : LinkClosed(l) \/ LinkLost(l)
    PROVE  IInv'
<1>1. ASSUME NEW p \in Boards, NEW c \in Boards, LinkEstablished(p, c) PROVE IInv'
  <2>1. links' = links \union {<<p, c>>} /\ <<p, c>> \in F!Links
    BY <1>1 DEF LinkEstablished, F!Links
  <2>2. /\ [type |-> "CONNECTED", peer |-> c, role |-> "PERIPHERAL"] \in Event
        /\ [type |-> "CONNECTED", peer |-> p, role |-> "CENTRAL"] \in Event
    BY DEF Event
  <2>3. sched' \in [Boards -> Seq(Event)]
    BY <1>1, <2>2, SingleEvent DEF LinkEstablished, IInv, TypeOK
  <2>4. origin' \in Ids /\ got' \in [Boards -> 0 .. 2]
    BY <1>1, StaysRight DEF LinkEstablished
  <2>5. UNCHANGED <<closing, onAir, activeConnections, view, sent, losses>>
    BY <1>1 DEF LinkEstablished
  <2> QED BY <2>1, <2>3, <2>4, <2>5 DEF IInv, TypeOK, KnowsPeers, HandshakesTrue
<1>2. ASSUME NEW l \in F!Links, LinkEnds(l), losses' \in 0 .. MaxLosses PROVE IInv'
  <2>1. /\ links' = links \ {l} /\ closing' = closing \ {l}
        /\ onAir' = [k \in F!Links |-> IF k \in {l, <<l[2], l[1]>>} THEN <<>> ELSE onAir[k]]
        /\ UNCHANGED <<activeConnections, view, sent>>
    BY <1>2 DEF LinkEnds
  <2>2. onAir' \in [F!Links -> Seq(Message)] /\ HandshakesTrue'
    BY <2>1, TruthfulNothing DEF IInv, TypeOK, HandshakesTrue
  <2>3. sched' \in [Boards -> Seq(Event)]
    BY <1>2, LinkEndsTells
  <2>4. origin' \in Ids /\ got' \in [Boards -> 0 .. 2]
    BY <1>2, StaysRight DEF LinkEnds
  <2> QED BY <1>2, <2>1, <2>2, <2>3, <2>4 DEF IInv, TypeOK, KnowsPeers
<1>3. ASSUME NEW l \in F!Links, LinkClosed(l) \/ LinkLost(l)
      PROVE  LinkEnds(l) /\ losses' \in 0 .. MaxLosses
  <2>1. CASE LinkClosed(l)
    BY <2>1 DEF LinkClosed, IInv, TypeOK
  <2>2. CASE LinkLost(l)
    BY <2>2, TrafficAssumption DEF LinkLost, IInv, TypeOK
  <2> QED BY <1>3, <2>1, <2>2
<1> QED BY <1>1, <1>2, <1>3

LEMMA IInvInit == Init => IInv
<1> SUFFICES ASSUME Init PROVE IInv
  OBVIOUS
<1>1. NoConnection \in connection /\ NoConnection.deviceId = "none"
  BY DEF NoConnection, connection, Ids
<1>2. Nothing \in [Boards -> 0 .. 2]
  BY DEF Nothing
<1>3. TypeOK
  <2>1. links \subseteq F!Links /\ closing \subseteq links /\ onAir \in [F!Links -> Seq(Message)]
    BY TruthfulNothing DEF Init
  <2>2. sched \in [Boards -> Seq(Event)]
    BY DEF Init
  <2>3. activeConnections \in [Boards -> [Slots -> connection]]
    BY <1>1 DEF Init
  <2>4. view \in [Boards -> Ids \union {"unseen"}] /\ origin \in Ids
    BY DEF Init, Ids
  <2>5. got \in [Boards -> 0 .. 2] /\ sent \in BOOLEAN /\ losses \in 0 .. MaxLosses
    <3>1. got = Nothing /\ sent = FALSE /\ losses = 0
      BY DEF Init
    <3>2. 0 \in 0 .. MaxLosses
      BY TrafficAssumption
    <3>3. got \in [Boards -> 0 .. 2]
      BY <1>2, <3>1, Zenon
    <3> QED BY <3>1, <3>2, <3>3
  <2> QED BY <2>1, <2>2, <2>3, <2>4, <2>5 DEF TypeOK
<1>4. KnowsPeers
  BY <1>1 DEF Init, KnowsPeers
<1>5. HandshakesTrue
  BY TruthfulNothing DEF Init, HandshakesTrue
<1> QED BY <1>3, <1>4, <1>5 DEF IInv

LEMMA Invariant == Spec => []IInv
<1>1. IInv /\ [Next]_vars => IInv'
  <2> SUFFICES ASSUME IInv, [Next]_vars PROVE IInv'
    OBVIOUS
  <2>1. CASE UNCHANGED vars
    BY <2>1 DEF vars, IInv, TypeOK, KnowsPeers, HandshakesTrue
  <2>2. CASE Next
    BY <2>2, ConnectionHandlerStep, WriteStep, SendStep, RadioStep DEF Next
  <2> QED BY <2>1, <2>2
<1> QED BY <1>1, IInvInit, PTL DEF Spec

--------------------------------------------------------------------------------
(* The links, those on their way out included: a board has one parent at most, *)
(* no two boards are each other's, and there is a slot for each.  They may well *)
(* close a circle, if a link of it is on its way out.                           *)

Children(b, tr) == {c \in Boards : <<b, c>> \in tr}

LinksRight ==
    /\ \A c, p, q \in Boards : <<p, c>> \in links /\ <<q, c>> \in links => p = q
    /\ \A a, b \in Boards : <<a, b>> \in links => <<b, a>> \notin links
    /\ \A b \in Boards : Cardinality(Children(b, links)) <= MAX_PERIPHERAL_CONNECTIONS

LEMMA ChildrenFinite ==
    ASSUME NEW b \in Boards, NEW tr
    PROVE  IsFiniteSet(Children(b, tr)) /\ Cardinality(Children(b, tr)) \in Nat
<1>1. Children(b, tr) \in SUBSET Boards
  BY DEF Children
<1> QED BY <1>1, FS_Subset, FS_CardinalityType, TrafficAssumption

\* The guard counts links where the invariant counts children.
LEMMA ChildrenCounted ==
    ASSUME IInv, NEW p \in Boards
    PROVE  Cardinality({l \in links : l[1] = p}) = Cardinality(Children(p, links))
<1> DEFINE L == {l \in links : l[1] = p}
           C == Children(p, links)
           f == [c \in C |-> <<p, c>>]
<1>0. \A l \in links : l = <<l[1], l[2]>> /\ l[2] \in Boards
  BY DEF IInv, TypeOK, F!Links
<1>1. \A l \in L : l = <<p, l[2]>> /\ l[2] \in C
  BY <1>0 DEF Children
<1>2. \A c \in C : <<p, c>> \in L
  BY DEF Children
<1>3. f \in [C -> L] /\ \A c, d \in C : f[c] = f[d] => c = d
  BY <1>2
<1>4. \A l \in L : \E c \in C : f[c] = l
  BY <1>1
<1>5. IsFiniteSet(C)
  BY ChildrenFinite
<1> HIDE DEF L, C, f
<1>6. f \in Surjection(C, L) /\ f \in Injection(C, L)
  BY <1>3, <1>4 DEF Surjection, Injection, IsInjective
<1> QED BY <1>5, <1>6, FS_Surjection DEF L, C

LEMMA FewerLinks ==
    ASSUME LinksRight, links' \subseteq links
    PROVE  LinksRight'
<1>1. ASSUME NEW b \in Boards
      PROVE  Cardinality(Children(b, links')) <= MAX_PERIPHERAL_CONNECTIONS
  <2>1. Children(b, links') \subseteq Children(b, links)
    BY DEF Children
  <2>2. Cardinality(Children(b, links')) <= Cardinality(Children(b, links))
    BY <2>1, ChildrenFinite, FS_Subset
  <2>3. Cardinality(Children(b, links)) <= MAX_PERIPHERAL_CONNECTIONS
    BY DEF LinksRight
  <2> QED BY <2>2, <2>3, ChildrenFinite, TrafficAssumption
<1>2. \A b \in Boards : Children(b, links)' = Children(b, links')
  BY DEF Children
<1> QED BY <1>1, <1>2 DEF LinksRight

LEMMA OneMoreLink ==
    ASSUME IInv, LinksRight, NEW p \in Boards, NEW c \in Boards, LinkEstablished(p, c)
    PROVE  LinksRight'
<1>1. /\ links' = links \union {<<p, c>>} /\ p # c
      /\ <<c, p>> \notin links /\ <<p, c>> \notin links
      /\ \A q \in Boards : <<q, c>> \notin links
      /\ Cardinality(Children(p, links)) < MAX_PERIPHERAL_CONNECTIONS
  BY ChildrenCounted DEF LinkEstablished, Up
<1>2. ASSUME NEW b \in Boards
      PROVE  Cardinality(Children(b, links')) <= MAX_PERIPHERAL_CONNECTIONS
  <2>1. CASE b = p
    <3>1. Children(p, links') = Children(p, links) \union {c} /\ c \notin Children(p, links)
      BY <1>1 DEF Children
    <3>2. Cardinality(Children(p, links')) = Cardinality(Children(p, links)) + 1
      BY <3>1, ChildrenFinite, FS_AddElement
    <3> QED BY <1>1, <2>1, <3>2, ChildrenFinite, TrafficAssumption
  <2>2. CASE b # p
    <3>1. Children(b, links') = Children(b, links)
      BY <1>1, <2>2 DEF Children
    <3> QED BY <3>1 DEF LinksRight
  <2> QED BY <2>1, <2>2
<1>3. \A b \in Boards : Children(b, links)' = Children(b, links')
  BY DEF Children
<1> QED BY <1>1, <1>2, <1>3 DEF LinksRight

\* Only the radio makes and ends links.
LEMMA LinksStay ==
    ASSUME [Next]_vars,
           \A p, c \in Boards : ~LinkEstablished(p, c),
           \A l \in F!Links : ~LinkEnds(l)
    PROVE  links' = links
<1>1. ASSUME NEW b \in Boards, ConnectionHandler(b) PROVE links' = links
  BY <1>1 DEF ConnectionHandler, reject_connection_event, handle_connection_event,
              handle_disconnection_event
<1>2. ASSUME NEW b \in Boards, send_heartbeat_message(b) \/ send_broadcast_message(b)
      PROVE  links' = links
  BY <1>2 DEF send_heartbeat_message, send_broadcast_message
<1>3. ASSUME NEW l \in F!Links, handle_write_event(l) PROVE links' = links
  BY <1>3 DEF handle_write_event, receive_handshake_message, receive_heartbeat_message,
              receive_broadcast_message
<1>4. CASE UNCHANGED vars
  BY <1>4 DEF vars
<1> QED BY <1>1, <1>2, <1>3, <1>4 DEF Next, LinkClosed, LinkLost

LEMMA LinksStep == IInv /\ LinksRight /\ [Next]_vars => LinksRight'
<1> SUFFICES ASSUME IInv, LinksRight, [Next]_vars PROVE LinksRight'
  OBVIOUS
<1>1. ASSUME NEW l \in F!Links, LinkEnds(l) PROVE LinksRight'
  BY <1>1, FewerLinks DEF LinkEnds
<1>2. CASE links' = links
  BY <1>2, FewerLinks
<1> QED BY <1>1, <1>2, OneMoreLink, LinksStay

LEMMA LinksInit == Init => LinksRight
<1> SUFFICES ASSUME Init PROVE LinksRight
  OBVIOUS
<1>1. links = {} /\ \A b \in Boards : Children(b, links) = {}
  BY DEF Init, Children
<1> QED BY <1>1, FS_EmptySet, TrafficAssumption DEF LinksRight

--------------------------------------------------------------------------------
(* A board's table agrees with the links, but for what its waiting connection  *)
(* events still have to say.  Said of one board b, the links tr, its events s  *)
(* and its table t, so that the steps can be taken apart.                      *)

Linked(tr, a, b) == <<a, b>> \in tr \/ <<b, a>> \in tr
Tells(s, type, c) == \E i \in 1 .. Len(s) : s[i].type = type /\ s[i].peer = c
Entry(e, c) == e.active /\ e.peer = c

\* A link comes up only when no handler waits: its event is the first.
FirstInLine(s) == \A i \in 1 .. Len(s) : s[i].type = "CONNECTED" => i = 1

\* A link that ended is not up again before its handler has run.
GoneIsGone(b, tr, s) ==
    \A c \in Boards : Tells(s, "DISCONNECTED", c) => ~Linked(tr, b, c)

\* A neighbour has an entry, or will.
Listed(b, tr, s, t) ==
    \A c \in Boards : Linked(tr, b, c) =>
        \/ \E i \in Slots : Entry(t[i], c) /\ t[i].type \in {"CENTRAL", "PERIPHERAL"}
        \/ Tells(s, "CONNECTED", c)

\* An entry is that of a neighbour, or will be cleared.
Honest(b, tr, s, t) ==
    \A i \in Slots : t[i].active =>
        t[i].peer \in Boards /\ (Linked(tr, b, t[i].peer) \/ Tells(s, "DISCONNECTED", t[i].peer))

\* The one that is to come finds a free slot, and none that has its peer.
Room(b, tr, s, t) ==
    \A c \in Boards : Tells(s, "CONNECTED", c) =>
        /\ Linked(tr, b, c) \/ Tells(s, "DISCONNECTED", c)
        /\ \A i \in Slots : ~Entry(t[i], c)
        /\ \E i \in Slots : ~t[i].active

OneEach(t) == \A i, j \in Slots : t[i].active /\ Entry(t[j], t[i].peer) => i = j

BoardRight(b, tr, s, t) ==
    /\ FirstInLine(s)
    /\ GoneIsGone(b, tr, s)
    /\ Listed(b, tr, s, t)
    /\ Honest(b, tr, s, t)
    /\ Room(b, tr, s, t)
    /\ OneEach(t)

LEMMA TellsAppended ==
    ASSUME NEW s \in Seq(Event), NEW e \in Event, e.type = "DISCONNECTED"
    PROVE  /\ Append(s, e) \in Seq(Event)
           /\ \A type, c : Tells(Append(s, e), type, c) <=>
                  Tells(s, type, c) \/ (type = "DISCONNECTED" /\ c = e.peer)
           /\ FirstInLine(s) => FirstInLine(Append(s, e))
<1> DEFINE r == Append(s, e)
<1>1. /\ r \in Seq(Event) /\ Len(r) = Len(s) + 1 /\ Len(s) \in Nat
      /\ \A i \in 1 .. Len(s) : r[i] = s[i]
      /\ r[Len(s) + 1] = e
  OBVIOUS
<1> HIDE DEF r
<1>2. \A i \in 1 .. Len(r) : i \in 1 .. Len(s) \/ i = Len(s) + 1
  BY <1>1
<1>3. \A i \in 1 .. Len(s) : i \in 1 .. Len(r)
  BY <1>1
<1>4. Len(s) + 1 \in 1 .. Len(r)
  BY <1>1
<1>5. \A type, c : Tells(r, type, c) <=>
          Tells(s, type, c) \/ (type = "DISCONNECTED" /\ c = e.peer)
  BY <1>1, <1>2, <1>3, <1>4 DEF Tells
<1>6. FirstInLine(s) => FirstInLine(r)
  BY <1>1, <1>2 DEF FirstInLine
<1> QED BY <1>1, <1>5, <1>6 DEF r

LEMMA TellsTail ==
    ASSUME NEW s \in Seq(Event), s # <<>>, FirstInLine(s)
    PROVE  /\ Tail(s) \in Seq(Event)
           /\ \A type, c : Tells(s, type, c) <=>
                  Tells(Tail(s), type, c) \/ (type = Head(s).type /\ c = Head(s).peer)
           /\ \A c : ~Tells(Tail(s), "CONNECTED", c)
           /\ FirstInLine(Tail(s))
<1> DEFINE r == Tail(s)
<1>1. /\ r \in Seq(Event) /\ Len(r) = Len(s) - 1 /\ Len(s) \in Nat \ {0}
      /\ \A i \in 1 .. Len(s) - 1 : r[i] = s[i + 1]
      /\ Head(s) = s[1]
  OBVIOUS
<1> HIDE DEF r
<1>2. \A i \in 1 .. Len(s) : i = 1 \/ (i - 1 \in 1 .. Len(r) /\ s[i] = r[i - 1])
  BY <1>1
<1>3. \A i \in 1 .. Len(r) : i + 1 \in 1 .. Len(s) /\ r[i] = s[i + 1] /\ i + 1 # 1
  BY <1>1
<1>4. 1 \in 1 .. Len(s)
  BY <1>1
<1>5. ASSUME NEW type, NEW c
      PROVE  Tells(s, type, c) <=> Tells(r, type, c) \/ (type = Head(s).type /\ c = Head(s).peer)
  BY <1>1, <1>2, <1>3, <1>4 DEF Tells
<1>6. \A i \in 1 .. Len(r) : r[i].type # "CONNECTED"
  BY <1>3 DEF FirstInLine
<1> QED BY <1>1, <1>5, <1>6 DEF r, Tells, FirstInLine

\* The handler of a link that came up gives the peer an entry.
LEMMA EntrySet ==
    ASSUME NEW b \in Boards, NEW tr, NEW s \in Seq(Event), NEW t \in [Slots -> connection],
           BoardRight(b, tr, s, t), s # <<>>,
           Head(s).type = "CONNECTED", NEW peer \in Boards, peer = Head(s).peer,
           NEW i \in Slots, ~t[i].active, NEW type \in {"CENTRAL", "PERIPHERAL"}, NEW u,
           u = [t EXCEPT ![i] = [@ EXCEPT !.active = TRUE, !.peer = peer, !.type = type]]
    PROVE  BoardRight(b, tr, Tail(s), u)
<1> DEFINE r == Tail(s)
<1>1. /\ \A y, c : Tells(s, y, c) <=> Tells(r, y, c) \/ (y = "CONNECTED" /\ c = peer)
      /\ \A c : ~Tells(r, "CONNECTED", c)
      /\ FirstInLine(r)
  BY TellsTail DEF BoardRight
<1> HIDE DEF r
<1>2. /\ u[i].active /\ u[i].peer = peer /\ u[i].type = type
      /\ \A j \in Slots : j # i => u[j] = t[j]
  <2>1. u[i] = [t[i] EXCEPT !.active = TRUE, !.peer = peer, !.type = type]
    OBVIOUS
  <2>2. t[i] \in connection
    OBVIOUS
  <2> QED BY <2>1, <2>2 DEF connection
<1>3. /\ Linked(tr, b, peer) \/ Tells(r, "DISCONNECTED", peer)
      /\ \A j \in Slots : ~Entry(t[j], peer)
  BY <1>1 DEF BoardRight, Room
<1>4. GoneIsGone(b, tr, r) /\ Room(b, tr, r, u)
  BY <1>1 DEF BoardRight, GoneIsGone, Room
<1>5. Listed(b, tr, r, u)
  BY <1>1, <1>2 DEF BoardRight, Listed, Entry
<1>6. Honest(b, tr, r, u)
  BY <1>1, <1>2, <1>3 DEF BoardRight, Honest
<1>7. OneEach(u)
  BY <1>2, <1>3 DEF BoardRight, OneEach, Entry
<1> QED BY <1>1, <1>4, <1>5, <1>6, <1>7 DEF BoardRight, r

\* The handler of a link that ended clears the entry of the peer.
LEMMA EntryCleared ==
    ASSUME NEW b \in Boards, NEW tr, NEW s \in Seq(Event), NEW t \in [Slots -> connection],
           BoardRight(b, tr, s, t), s # <<>>, Head(s).type = "DISCONNECTED",
           NEW peer \in Boards, peer = Head(s).peer, NEW u,
           u = [i \in Slots |-> IF Entry(t[i], peer) THEN NoConnection ELSE t[i]]
    PROVE  BoardRight(b, tr, Tail(s), u)
<1> DEFINE r == Tail(s)
<1>1. /\ \A y, c : Tells(s, y, c) <=> Tells(r, y, c) \/ (y = "DISCONNECTED" /\ c = peer)
      /\ \A c : ~Tells(r, "CONNECTED", c)
      /\ FirstInLine(r)
  BY TellsTail DEF BoardRight
<1> HIDE DEF r
<1>2. /\ \A j \in Slots : Entry(t[j], peer) => ~u[j].active
      /\ \A j \in Slots : ~Entry(t[j], peer) => u[j] = t[j]
  BY DEF NoConnection
<1>3. ~Linked(tr, b, peer)
  BY <1>1 DEF BoardRight, GoneIsGone
<1>4. GoneIsGone(b, tr, r) /\ Room(b, tr, r, u)
  BY <1>1 DEF BoardRight, GoneIsGone, Room
<1>5. Listed(b, tr, r, u)
  <2> SUFFICES ASSUME NEW c \in Boards, Linked(tr, b, c)
               PROVE  \E i \in Slots : Entry(u[i], c) /\ u[i].type \in {"CENTRAL", "PERIPHERAL"}
    BY DEF Listed
  <2>1. c # peer
    BY <1>3
  <2>2. ~Tells(s, "CONNECTED", c)
    BY <1>1
  <2>3. PICK i \in Slots : Entry(t[i], c) /\ t[i].type \in {"CENTRAL", "PERIPHERAL"}
    BY <2>2 DEF BoardRight, Listed
  <2>4. u[i] = t[i]
    BY <1>2, <2>1, <2>3 DEF Entry
  <2> QED BY <2>3, <2>4
<1>6. Honest(b, tr, r, u)
  <2> SUFFICES ASSUME NEW i \in Slots, u[i].active
               PROVE  /\ u[i].peer \in Boards
                      /\ Linked(tr, b, u[i].peer) \/ Tells(r, "DISCONNECTED", u[i].peer)
    BY DEF Honest
  <2>1. u[i] = t[i] /\ u[i].peer # peer
    BY <1>2 DEF Entry
  <2> QED BY <1>1, <2>1 DEF BoardRight, Honest
<1>7. OneEach(u)
  BY <1>2 DEF BoardRight, OneEach, Entry
<1> QED BY <1>1, <1>4, <1>5, <1>6, <1>7 DEF BoardRight, r

\* Links end, and the board is told of each of its own.
LEMMA EndsTold ==
    ASSUME NEW b \in Boards, NEW tr, NEW s, NEW t, BoardRight(b, tr, s, t),
           NEW left \in SUBSET tr, NEW r, FirstInLine(r),
           \A type, c : Tells(s, type, c) => Tells(r, type, c),
           \A type, c : Tells(r, type, c) =>
               Tells(s, type, c) \/ (type = "DISCONNECTED" /\ ~Linked(left, b, c)),
           \A c \in Boards : Linked(tr, b, c) =>
               Linked(left, b, c) \/ Tells(r, "DISCONNECTED", c)
    PROVE  BoardRight(b, left, r, t)
<1>1. \A c : Linked(left, b, c) => Linked(tr, b, c)
  BY DEF Linked
<1>2. GoneIsGone(b, left, r)
  BY <1>1 DEF BoardRight, GoneIsGone
<1>3. Listed(b, left, r, t)
  BY <1>1 DEF BoardRight, Listed
<1>4. Honest(b, left, r, t)
  BY DEF BoardRight, Honest
<1>5. Room(b, left, r, t)
  <2> SUFFICES ASSUME NEW c \in Boards, Tells(r, "CONNECTED", c)
               PROVE  /\ Linked(left, b, c) \/ Tells(r, "DISCONNECTED", c)
                      /\ \A i \in Slots : ~Entry(t[i], c)
                      /\ \E i \in Slots : ~t[i].active
    BY DEF Room
  <2>1. Tells(s, "CONNECTED", c)
    OBVIOUS
  <2>2. /\ Linked(tr, b, c) \/ Tells(s, "DISCONNECTED", c)
        /\ \A i \in Slots : ~Entry(t[i], c)
        /\ \E i \in Slots : ~t[i].active
    BY <2>1 DEF BoardRight, Room
  <2> QED BY <2>2
<1> QED BY <1>2, <1>3, <1>4, <1>5 DEF BoardRight

\* What an entry says of the id does not matter here.
LEMMA EntriesNamed ==
    ASSUME NEW b \in Boards, NEW tr, NEW s, NEW t, BoardRight(b, tr, s, t), NEW u,
           \A i \in Slots : /\ u[i].active = t[i].active
                            /\ u[i].peer = t[i].peer /\ u[i].type = t[i].type
    PROVE  BoardRight(b, tr, s, u)
  BY DEF BoardRight, Listed, Honest, Room, OneEach, Entry

\* A link comes up to a board on which no handler waits, and which has a slot.
LEMMA LinkTold ==
    ASSUME NEW b \in Boards, NEW tr, NEW t, BoardRight(b, tr, <<>>, t),
           NEW d \in Boards, ~Linked(tr, b, d), NEW more, Linked(more, b, d),
           \A c \in Boards : c # d => (Linked(more, b, c) <=> Linked(tr, b, c)),
           \E i \in Slots : ~t[i].active,
           NEW e \in Event, e.type = "CONNECTED", e.peer = d
    PROVE  BoardRight(b, more, <<e>>, t)
<1>1. /\ Len(<<e>>) = 1 /\ <<e>>[1] = e
      /\ \A type, c : ~Tells(<<>>, type, c)
  BY DEF Tells
<1>2. \A type, c : Tells(<<e>>, type, c) <=> type = "CONNECTED" /\ c = d
  BY <1>1 DEF Tells
<1>3. FirstInLine(<<e>>)
  BY <1>1 DEF FirstInLine
<1>4. GoneIsGone(b, more, <<e>>)
  BY <1>2 DEF GoneIsGone
<1>5. Listed(b, more, <<e>>, t)
  BY <1>1, <1>2 DEF BoardRight, Listed
<1>6. Honest(b, more, <<e>>, t) /\ \A i \in Slots : ~Entry(t[i], d)
  <2>1. \A i \in Slots : t[i].active => t[i].peer \in Boards /\ Linked(tr, b, t[i].peer)
    BY <1>1 DEF BoardRight, Honest
  <2>2. \A i \in Slots : t[i].active => t[i].peer # d
    BY <2>1
  <2> QED BY <2>1, <2>2 DEF Honest, Entry
<1>7. Room(b, more, <<e>>, t)
  BY <1>2, <1>6 DEF Room
<1> QED BY <1>3, <1>4, <1>5, <1>6, <1>7 DEF BoardRight

\* While it has fewer links than slots, one is free.
LEMMA SlotFree ==
    ASSUME NEW b \in Boards, NEW tr, NEW t, BoardRight(b, tr, <<>>, t),
           NEW N \in SUBSET Boards, IsFiniteSet(N), Cardinality(N) <= MAX_PERIPHERAL_CONNECTIONS,
           \A c \in Boards : Linked(tr, b, c) => c \in N
    PROVE  \E i \in Slots : ~t[i].active
<1> SUFFICES ASSUME \A i \in Slots : t[i].active PROVE FALSE
  OBVIOUS
<1>1. \A i \in Slots : t[i].peer \in N
  <2>1. \A c : ~Tells(<<>>, "DISCONNECTED", c)
    BY DEF Tells
  <2> QED BY <2>1 DEF BoardRight, Honest
<1> DEFINE f == [i \in Slots |-> t[i].peer]
<1>2. \A i, j \in Slots : f[i] = f[j] => i = j
  BY DEF BoardRight, OneEach, Entry
<1>3. f \in Injection(Slots, N)
  <2>1. f \in [Slots -> N]
    BY <1>1
  <2> HIDE DEF f
  <2> QED BY <1>2, <2>1 DEF Injection, IsInjective
<1> HIDE DEF f
<1>4. Cardinality(Slots) <= Cardinality(N)
  BY <1>3, FS_Injection
<1>5. Cardinality(Slots) = MAX_PERIPHERAL_CONNECTIONS + 1 /\ MAX_PERIPHERAL_CONNECTIONS \in Nat
  BY FS_Interval, TrafficAssumption DEF Slots
<1>6. Cardinality(N) \in Nat
  BY FS_CardinalityType
<1> QED BY <1>4, <1>5, <1>6

--------------------------------------------------------------------------------
(* Every step keeps the tables in agreement. *)

BoardsRight == \A b \in Boards : BoardRight(b, links, sched[b], activeConnections[b])

\* When a link ends, both its ends are told, behind what they still have to handle.
LEMMA EndTold ==
    ASSUME IInv, LinksRight, BoardsRight, NEW l \in F!Links, l \in links, LinkEnds(l), NEW c \in Boards
    PROVE  BoardRight(c, links', sched'[c], activeConnections[c])
<1> DEFINE t == activeConnections[c]
<1>1. /\ BoardRight(c, links, sched[c], t) /\ sched[c] \in Seq(Event)
      /\ links' = links \ {l} /\ links' \in SUBSET links
  BY DEF BoardsRight, IInv, TypeOK, LinkEnds
<1>2. /\ l = <<l[1], l[2]>> /\ l[1] \in Boards /\ l[2] \in Boards /\ l[1] # l[2]
      /\ \A d \in Boards : Told(d) \in Event /\ Told(d).type = "DISCONNECTED" /\ Told(d).peer = d
  BY LinkEndsTells
<1>3. ~Linked(links', l[1], l[2]) /\ ~Linked(links', l[2], l[1])
  <2>1. <<l[2], l[1]>> \notin links
    BY <1>2 DEF LinksRight
  <2> QED BY <1>1, <1>2, <2>1 DEF Linked
<1>4. \A d, e \in Boards : Linked(links, d, e) /\ ~Linked(links', d, e) =>
          (d = l[1] /\ e = l[2]) \/ (d = l[2] /\ e = l[1])
  BY <1>1, <1>2 DEF Linked
<1> HIDE DEF t
<1>5. ASSUME NEW d \in Boards, sched'[c] = Append(sched[c], Told(d)), ~Linked(links', c, d),
             \A e \in Boards : Linked(links, c, e) /\ ~Linked(links', c, e) => e = d
      PROVE  BoardRight(c, links', sched'[c], t)
  <2> DEFINE r == Append(sched[c], Told(d))
  <2>1. /\ \A type, e : Tells(r, type, e) <=>
               Tells(sched[c], type, e) \/ (type = "DISCONNECTED" /\ e = d)
        /\ FirstInLine(r)
    BY <1>1, <1>2, TellsAppended DEF BoardRight
  <2> HIDE DEF r
  <2>2. \A e \in Boards : Linked(links, c, e) => Linked(links', c, e) \/ Tells(r, "DISCONNECTED", e)
    BY <1>5, <2>1
  <2>3. BoardRight(c, links', r, t)
    BY <1>1, <1>5, <2>1, <2>2, EndsTold
  <2> QED BY <1>5, <2>3 DEF r
<1>6. CASE c = l[1]
  <2>1. sched'[c] = Append(sched[c], Told(l[2]))
    BY <1>6, LinkEndsTells
  <2> QED BY <1>2, <1>3, <1>4, <1>5, <1>6, <2>1 DEF t
<1>7. CASE c = l[2]
  <2>1. sched'[c] = Append(sched[c], Told(l[1]))
    BY <1>7, LinkEndsTells
  <2> QED BY <1>2, <1>3, <1>4, <1>5, <1>7, <2>1 DEF t
<1>8. CASE c \notin {l[1], l[2]}
  <2>1. sched'[c] = sched[c]
    BY <1>8, LinkEndsTells
  <2>2. \A d \in Boards : Linked(links, c, d) => Linked(links', c, d)
    BY <1>4, <1>8
  <2>3. FirstInLine(sched[c])
    BY <1>1 DEF BoardRight
  <2>4. BoardRight(c, links', sched[c], t)
    BY <1>1, <2>2, <2>3, EndsTold
  <2> QED BY <2>1, <2>4 DEF t
<1> QED BY <1>6, <1>7, <1>8

\* A handshake changes nothing in an entry but the id.
LEMMA LearnNames ==
    ASSUME IInv, NEW l \in F!Links, NEW id, Learn(l, id), NEW c \in Boards
    PROVE  \A i \in Slots :
               /\ activeConnections'[c][i].active = activeConnections[c][i].active
               /\ activeConnections'[c][i].peer = activeConnections[c][i].peer
               /\ activeConnections'[c][i].type = activeConnections[c][i].type
<1>1. /\ activeConnections \in [Boards -> [Slots -> connection]]
      /\ activeConnections[c] \in [Slots -> connection]
  BY DEF IInv, TypeOK
<1> TAKE i \in Slots
<1>2. \/ activeConnections'[c][i] = activeConnections[c][i]
      \/ activeConnections'[c][i] = [activeConnections[c][i] EXCEPT !.deviceId = id]
  BY <1>1, LinkHasTwoEnds DEF Learn
<1>3. activeConnections[c][i] \in connection
  BY <1>1
<1> QED BY <1>2, <1>3 DEF connection

LEMMA BoardsStep ==
    ASSUME IInv, LinksRight, BoardsRight, [Next]_vars
    PROVE  BoardsRight'
<1> SUFFICES ASSUME NEW c \in Boards PROVE BoardRight(c, links', sched'[c], activeConnections'[c])
  BY DEF BoardsRight
<1>a. /\ BoardRight(c, links, sched[c], activeConnections[c])
      /\ sched[c] \in Seq(Event) /\ sched \in [Boards -> Seq(Event)]
      /\ activeConnections[c] \in [Slots -> connection]
      /\ activeConnections \in [Boards -> [Slots -> connection]]
  BY DEF BoardsRight, IInv, TypeOK
<1>b. ASSUME links' = links, sched'[c] = sched[c],
             \A i \in Slots :
                 /\ activeConnections'[c][i].active = activeConnections[c][i].active
                 /\ activeConnections'[c][i].peer = activeConnections[c][i].peer
                 /\ activeConnections'[c][i].type = activeConnections[c][i].type
      PROVE  BoardRight(c, links', sched'[c], activeConnections'[c])
  BY <1>a, <1>b, EntriesNamed
\* A board handles an event.
<1>c. ASSUME NEW b \in Boards, Handling(b, "CONNECTED"), NEW type \in {"CENTRAL", "PERIPHERAL"},
             set_connection(b, Head(sched[b]).peer, type)
      PROVE  BoardRight(c, links, IF c = b THEN Tail(sched[b]) ELSE sched[c], activeConnections'[c])
  <2>1. /\ sched[b] # <<>> /\ sched[b] \in Seq(Event) /\ Head(sched[b]).type = "CONNECTED"
        /\ Head(sched[b]).peer \in Boards
    BY <1>a, <1>c, HeadOfSched DEF Handling
  <2>2. Tells(sched[b], "CONNECTED", Head(sched[b]).peer)
    BY <2>1 DEF Tells
  <2>3. BoardRight(b, links, sched[b], activeConnections[b]) /\ activeConnections[b] \in [Slots -> connection]
    BY <1>a DEF BoardsRight
  <2>4. Active(b) # Slots
    BY <2>1, <2>2, <2>3 DEF BoardRight, Room, Active
  <2>5. PICK i \in Slots :
            /\ ~activeConnections[b][i].active
            /\ activeConnections' = [activeConnections EXCEPT ![b][i] =
                   [@ EXCEPT !.active = TRUE, !.peer = Head(sched[b]).peer, !.type = type]]
    BY <1>c, <2>4 DEF set_connection, First, Active
  <2>6. CASE c = b
    <3>1. activeConnections'[b] = [activeConnections[b] EXCEPT ![i] =
              [@ EXCEPT !.active = TRUE, !.peer = Head(sched[b]).peer, !.type = type]]
      BY <1>a, <2>5
    <3> DEFINE t == activeConnections[b]
               s == sched[b]
               peer == Head(s).peer
               u == activeConnections'[b]
    <3>2. /\ t \in [Slots -> connection] /\ BoardRight(b, links, s, t) /\ ~t[i].active
          /\ s \in Seq(Event) /\ s # <<>> /\ Head(s).type = "CONNECTED" /\ peer \in Boards
          /\ u = [t EXCEPT ![i] = [@ EXCEPT !.active = TRUE, !.peer = peer, !.type = type]]
      BY <2>1, <2>3, <2>5, <3>1
    <3> HIDE DEF t, s, u
    <3>3. BoardRight(b, links, Tail(s), u)
      BY <3>2, EntrySet
    <3> QED BY <2>6, <3>3 DEF s, u
  <2>7. CASE c # b
    <3>1. activeConnections'[c] = activeConnections[c]
      BY <1>a, <2>5, <2>7
    <3> QED BY <1>a, <2>7, <3>1
  <2> QED BY <2>6, <2>7
<1>d. ASSUME NEW b \in Boards, Handling(b, "DISCONNECTED"), unset_connection(b, Head(sched[b]).peer)
      PROVE  BoardRight(c, links, IF c = b THEN Tail(sched[b]) ELSE sched[c], activeConnections'[c])
  <2> DEFINE peer == Head(sched[b]).peer
  <2>1. /\ sched[b] # <<>> /\ sched[b] \in Seq(Event) /\ Head(sched[b]).type = "DISCONNECTED"
        /\ peer \in Boards
    BY <1>a, <1>d, HeadOfSched DEF Handling
  <2>2. CASE c = b
    <3>1. activeConnections'[b] =
              [i \in Slots |-> IF Entry(activeConnections[b][i], peer) THEN NoConnection
                               ELSE activeConnections[b][i]]
      BY <1>a, <1>d DEF unset_connection, SlotsOf, Active, Entry
    <3>2. BoardRight(b, links, sched[b], activeConnections[b]) /\ activeConnections[b] \in [Slots -> connection]
      BY <1>a DEF BoardsRight
    <3> HIDE DEF peer
    <3>3. BoardRight(b, links, Tail(sched[b]), activeConnections'[b])
      BY <2>1, <3>1, <3>2, EntryCleared DEF peer
    <3> QED BY <2>2, <3>3
  <2>3. CASE c # b
    <3>1. activeConnections'[c] = activeConnections[c]
      BY <1>a, <1>d, <2>3 DEF unset_connection
    <3> QED BY <1>a, <2>3, <3>1
  <2> QED BY <2>2, <2>3
<1>e. ASSUME NEW b \in Boards, Return(b), links' = links,
             BoardRight(c, links, IF c = b THEN Tail(sched[b]) ELSE sched[c], activeConnections'[c])
      PROVE  BoardRight(c, links', sched'[c], activeConnections'[c])
  <2>1. sched'[c] = IF c = b THEN Tail(sched[b]) ELSE sched[c]
    BY <1>a, <1>e DEF Return
  <2> QED BY <1>e, <2>1
<1>1. ASSUME NEW b \in Boards, reject_connection_event(b)
      PROVE  BoardRight(c, links', sched'[c], activeConnections'[c])
  <2>1. /\ Handling(b, "CONNECTED") /\ set_connection(b, Head(sched[b]).peer, "PERIPHERAL")
        /\ Return(b) /\ links' = links
    BY <1>1 DEF reject_connection_event
  <2> QED BY <1>c, <1>e, <2>1
<1>2. ASSUME NEW b \in Boards, handle_connection_event(b)
      PROVE  BoardRight(c, links', sched'[c], activeConnections'[c])
  <2>1. /\ Handling(b, "CONNECTED") /\ set_connection(b, Head(sched[b]).peer, Head(sched[b]).role)
        /\ Return(b) /\ links' = links
    BY <1>2 DEF handle_connection_event
  <2>2. Head(sched[b]).role \in {"CENTRAL", "PERIPHERAL"}
    BY <2>1, HeadOfSched DEF Handling
  <2> QED BY <1>c, <1>e, <2>1, <2>2
<1>3. ASSUME NEW b \in Boards, handle_disconnection_event(b)
      PROVE  BoardRight(c, links', sched'[c], activeConnections'[c])
  <2>1. /\ Handling(b, "DISCONNECTED") /\ unset_connection(b, Head(sched[b]).peer)
        /\ Return(b) /\ links' = links
    BY <1>3 DEF handle_disconnection_event
  <2> QED BY <1>d, <1>e, <2>1
<1>4. ASSUME NEW l \in F!Links, LinkClosed(l) \/ LinkLost(l)
      PROVE  BoardRight(c, links', sched'[c], activeConnections'[c])
  <2>1. l \in links /\ LinkEnds(l) /\ activeConnections' = activeConnections
    BY <1>4 DEF LinkClosed, LinkLost, LinkEnds, tree, IInv, TypeOK
  <2> QED BY <2>1, EndTold
<1>5. ASSUME NEW p \in Boards, NEW d \in Boards, LinkEstablished(p, d)
      PROVE  BoardRight(c, links', sched'[c], activeConnections'[c])
  <2> DEFINE up == [type |-> "CONNECTED", peer |-> d, role |-> "PERIPHERAL"]
             down == [type |-> "CONNECTED", peer |-> p, role |-> "CENTRAL"]
  <2>1. /\ links' = links \union {<<p, d>>} /\ p # d /\ sched[p] = <<>> /\ sched[d] = <<>>
        /\ ~Up(p, d) /\ \A q \in Boards : <<q, d>> \notin links
        /\ Cardinality(Children(p, links)) < MAX_PERIPHERAL_CONNECTIONS
        /\ activeConnections' = activeConnections
    BY <1>5, ChildrenCounted DEF LinkEstablished
  <2>2. sched'[p] = <<up>> /\ sched'[d] = <<down>> /\ \A b \in Boards \ {p, d} : sched'[b] = sched[b]
    BY <1>5, <1>a, <2>1 DEF LinkEstablished
  <2>3. /\ up \in Event /\ up.type = "CONNECTED" /\ up.peer = d
        /\ down \in Event /\ down.type = "CONNECTED" /\ down.peer = p
    BY DEF Event
  <2> HIDE DEF up, down
  <2>4. ~Linked(links, p, d) /\ ~Linked(links, d, p)
    BY <2>1 DEF Linked, Up
  <2>5. Linked(links', p, d) /\ Linked(links', d, p)
    BY <2>1 DEF Linked
  <2>6. \A x, y : ~(x = p /\ y = d) /\ ~(x = d /\ y = p) =>
            (Linked(links', x, y) <=> Linked(links, x, y))
    BY <2>1 DEF Linked
  <2>7. CASE c = p
    <3> DEFINE parents == {q \in Boards : <<q, p>> \in links}
               N == Children(p, links) \union parents
    <3>1. /\ IsFiniteSet(parents)
          /\ Cardinality(parents) <= 1 /\ Cardinality(parents) \in Nat
      <4>1. parents \in SUBSET Boards
        OBVIOUS
      <4>2. IsFiniteSet(parents)
        BY <4>1, FS_Subset, TrafficAssumption
      <4>3. parents = {} \/ \E x : parents = {x}
        BY DEF LinksRight
      <4> HIDE DEF parents
      <4>4. Cardinality(parents) = 0 \/ Cardinality(parents) = 1
        BY <4>2, <4>3, FS_EmptySet, FS_Singleton
      <4> QED BY <4>2, <4>4
    <3>2. /\ IsFiniteSet(N)
          /\ Cardinality(N) = Cardinality(Children(p, links)) + Cardinality(parents)
                                  - Cardinality(Children(p, links) \cap parents)
      BY <3>1, ChildrenFinite, FS_Union
    <3>3. /\ Cardinality(Children(p, links) \cap parents) \in Nat
          /\ Cardinality(Children(p, links)) \in Nat
      BY ChildrenFinite, FS_Intersection, FS_CardinalityType
    <3>5. N \in SUBSET Boards /\ \A x \in Boards : Linked(links, p, x) => x \in N
      BY DEF Linked, Children
    <3> HIDE DEF N, parents
    <3>4. Cardinality(N) <= MAX_PERIPHERAL_CONNECTIONS
      BY <2>1, <3>1, <3>2, <3>3, TrafficAssumption
    <3>6. BoardRight(p, links, <<>>, activeConnections[p])
      BY <1>a, <2>1, <2>7
    <3>7. \E i \in Slots : ~activeConnections[p][i].active
      BY <3>2, <3>4, <3>5, <3>6, SlotFree
    <3>8. \A x \in Boards : x # d => (Linked(links', p, x) <=> Linked(links, p, x))
      BY <2>1, <2>6
    <3>9. BoardRight(p, links', <<up>>, activeConnections[p])
      BY <2>3, <2>4, <2>5, <3>6, <3>7, <3>8, LinkTold
    <3> QED BY <2>1, <2>2, <2>7, <3>9
  <2>8. CASE c = d
    <3>1. BoardRight(d, links, <<>>, activeConnections[d])
      BY <1>a, <2>1, <2>8
    <3>2. \A x \in Boards : Linked(links, d, x) => x \in Children(d, links)
      BY <2>1 DEF Linked, Children
    <3>3. /\ IsFiniteSet(Children(d, links)) /\ Children(d, links) \in SUBSET Boards
          /\ Cardinality(Children(d, links)) <= MAX_PERIPHERAL_CONNECTIONS
      BY ChildrenFinite DEF Children, LinksRight
    <3>4. \E i \in Slots : ~activeConnections[d][i].active
      BY <3>1, <3>2, <3>3, SlotFree
    <3>5. \A x \in Boards : x # p => (Linked(links', d, x) <=> Linked(links, d, x))
      BY <2>1, <2>6
    <3>6. BoardRight(d, links', <<down>>, activeConnections[d])
      BY <2>3, <2>4, <2>5, <3>1, <3>4, <3>5, LinkTold
    <3> QED BY <2>1, <2>2, <2>8, <3>6
  <2>9. CASE c \notin {p, d}
    <3>1. \A x \in Boards : Linked(links', c, x) <=> Linked(links, c, x)
      BY <2>6, <2>9
    <3>2. BoardRight(c, links', sched[c], activeConnections[c])
      BY <1>a, <3>1 DEF BoardRight, GoneIsGone, Listed, Honest, Room
    <3> QED BY <2>1, <2>2, <2>9, <3>2
  <2> QED BY <2>7, <2>8, <2>9
<1>6. ASSUME NEW b \in Boards, send_heartbeat_message(b) \/ send_broadcast_message(b)
      PROVE  BoardRight(c, links', sched'[c], activeConnections'[c])
  BY <1>a, <1>6 DEF send_heartbeat_message, send_broadcast_message
<1>7. ASSUME NEW l \in F!Links, handle_write_event(l)
      PROVE  BoardRight(c, links', sched'[c], activeConnections'[c])
  <2>1. CASE receive_handshake_message(l)
    <3>1. links' = links /\ sched' = sched /\ Learn(l, Head(onAir[l]).deviceId)
      BY <2>1 DEF receive_handshake_message
    <3>3. \A i \in Slots :
              /\ activeConnections'[c][i].active = activeConnections[c][i].active
              /\ activeConnections'[c][i].peer = activeConnections[c][i].peer
              /\ activeConnections'[c][i].type = activeConnections[c][i].type
      BY <1>a, <3>1, LearnNames
    <3> QED BY <1>b, <3>1, <3>3
  <2>2. CASE receive_heartbeat_message(l) \/ receive_broadcast_message(l)
    BY <1>a, <2>2 DEF receive_heartbeat_message, receive_broadcast_message
  <2> QED BY <1>7, <2>1, <2>2 DEF handle_write_event
<1>8. CASE UNCHANGED vars
  BY <1>a, <1>8 DEF vars
<1> QED BY <1>1, <1>2, <1>3, <1>4, <1>5, <1>6, <1>7, <1>8 DEF Next, ConnectionHandler

LEMMA BoardsInit == Init => BoardsRight
<1> SUFFICES ASSUME Init, NEW b \in Boards
             PROVE  BoardRight(b, links, sched[b], activeConnections[b])
  BY DEF BoardsRight
<1>1. links = {} /\ sched[b] = <<>> /\ \A i \in Slots : activeConnections[b][i] = NoConnection
  BY DEF Init
<1>2. \A type, c : ~Tells(sched[b], type, c)
  BY <1>1 DEF Tells
<1>3. \A c : ~Linked(links, b, c)
  BY <1>1 DEF Linked
<1>4. \A i \in Slots : ~activeConnections[b][i].active
  BY <1>1 DEF NoConnection
<1>5. FirstInLine(sched[b])
  BY <1>1 DEF FirstInLine
<1> QED BY <1>2, <1>3, <1>4, <1>5 DEF BoardRight, GoneIsGone, Listed, Honest, Room, OneEach

--------------------------------------------------------------------------------
(* Who is up and who is down.  A board has at most one parent in its table or  *)
(* among the events that wait, and that one is not its child.                  *)

Expects(s, p) ==
    \E i \in 1 .. Len(s) : s[i].type = "CONNECTED" /\ s[i].role = "CENTRAL" /\ s[i].peer = p

Above(s, t, p) ==
    \/ \E i \in Slots : t[i].type = "CENTRAL" /\ t[i].peer = p
    \/ Expects(s, p)

RoleRight(b, tr, s, t) ==
    /\ \A i \in Slots : t[i].type # "INVALID" => t[i].active
    /\ \A p \in Ids : Above(s, t, p) => <<b, p>> \notin tr
    /\ \A p, q \in Ids : Above(s, t, p) /\ Above(s, t, q) => p = q

RolesRight == \A b \in Boards : RoleRight(b, links, sched[b], activeConnections[b])

LEMMA NothingNew ==
    ASSUME NEW b \in Boards, NEW tr, NEW s, NEW t, RoleRight(b, tr, s, t),
           NEW fewer \in SUBSET tr, NEW r, NEW u,
           \A p \in Ids : Above(r, u, p) => Above(s, t, p),
           \A i \in Slots : u[i].type # "INVALID" => u[i].active
    PROVE  RoleRight(b, fewer, r, u)
  BY DEF RoleRight

\* An event of a link that ended brings no new parent, nor news of a link that came up.
LEMMA ExpectsAppended ==
    ASSUME NEW s \in Seq(Event), NEW e \in Event, e.type = "DISCONNECTED"
    PROVE  \A p : Expects(Append(s, e), p) <=> Expects(s, p)
<1> DEFINE r == Append(s, e)
<1>1. /\ Len(r) = Len(s) + 1 /\ Len(s) \in Nat
      /\ \A i \in 1 .. Len(s) : r[i] = s[i]
      /\ r[Len(s) + 1] = e
  OBVIOUS
<1> HIDE DEF r
<1>2. \A i \in 1 .. Len(r) : i \in 1 .. Len(s) \/ i = Len(s) + 1
  BY <1>1
<1>3. \A i \in 1 .. Len(s) : i \in 1 .. Len(r)
  BY <1>1
<1>4. \A p : Expects(r, p) <=> Expects(s, p)
  BY <1>1, <1>2, <1>3 DEF Expects
<1> QED BY <1>4 DEF r

LEMMA ExpectsTail ==
    ASSUME NEW s \in Seq(Event), s # <<>>
    PROVE  \A p : Expects(Tail(s), p) => Expects(s, p)
<1> DEFINE r == Tail(s)
<1>1. /\ Len(r) = Len(s) - 1 /\ Len(s) \in Nat \ {0}
      /\ \A i \in 1 .. Len(s) - 1 : r[i] = s[i + 1]
  OBVIOUS
<1> HIDE DEF r
<1>2. \A i \in 1 .. Len(r) : i + 1 \in 1 .. Len(s) /\ r[i] = s[i + 1]
  BY <1>1
<1>3. \A p : Expects(r, p) => Expects(s, p)
  BY <1>2 DEF Expects
<1> QED BY <1>3 DEF r

\* An event of another kind than CONNECTED that is handled leaves those of the links
\* that came up.
LEMMA ExpectsRest ==
    ASSUME NEW s \in Seq(Event), s # <<>>, Head(s).type # "CONNECTED"
    PROVE  /\ \A p : Expects(s, p) => Expects(Tail(s), p)
           /\ \A c : Tells(s, "CONNECTED", c) => Tells(Tail(s), "CONNECTED", c)
<1> DEFINE r == Tail(s)
<1>1. /\ Len(r) = Len(s) - 1 /\ Len(s) \in Nat \ {0}
      /\ \A i \in 1 .. Len(s) - 1 : r[i] = s[i + 1]
      /\ Head(s) = s[1]
  OBVIOUS
<1> HIDE DEF r
<1>2. \A i \in 1 .. Len(s) : s[i].type = "CONNECTED" => i - 1 \in 1 .. Len(r) /\ s[i] = r[i - 1]
  BY <1>1
<1> QED BY <1>2 DEF r, Expects, Tells

\* While no handler waits, a parent in the table has its link.
LEMMA ParentLinked ==
    ASSUME NEW d \in Boards, NEW tr, NEW t, RoleRight(d, tr, <<>>, t),
           BoardRight(d, tr, <<>>, t), NEW i \in Slots, t[i].type = "CENTRAL"
    PROVE  t[i].peer \in Boards /\ <<t[i].peer, d>> \in tr
<1>1. \A c : ~Tells(<<>>, "DISCONNECTED", c)
  BY DEF Tells
<1>2. t[i].active
  BY DEF RoleRight
<1>3. t[i].peer \in Boards /\ Linked(tr, d, t[i].peer)
  BY <1>1, <1>2 DEF BoardRight, Honest
<1>4. <<d, t[i].peer>> \notin tr
  BY <1>3 DEF RoleRight, Above, Ids
<1> QED BY <1>3, <1>4 DEF Linked

\* A parent joins: no handler waits, no link to another is up, so none was above.
LEMMA ParentJoined ==
    ASSUME NEW d \in Boards, NEW tr, NEW t, RoleRight(d, tr, <<>>, t),
           BoardRight(d, tr, <<>>, t), \A q \in Boards : <<q, d>> \notin tr,
           NEW p, NEW e, e.peer = p, NEW more, <<d, p>> \notin more
    PROVE  RoleRight(d, more, <<e>>, t)
<1>1. \A i \in Slots : t[i].type # "CENTRAL"
  BY ParentLinked
<1>2. Len(<<e>>) = 1 /\ <<e>>[1] = e
  OBVIOUS
<1>3. \A q : Above(<<e>>, t, q) => q = p
  BY <1>1, <1>2 DEF Above, Expects
<1> QED BY <1>3 DEF RoleRight

\* A child joins: it is not the one above, for that one has a link already.
LEMMA ChildJoined ==
    ASSUME NEW b \in Boards, NEW tr, NEW t, RoleRight(b, tr, <<>>, t),
           BoardRight(b, tr, <<>>, t), NEW d, ~Linked(tr, b, d),
           NEW e, e.role = "PERIPHERAL", NEW more,
           \A q : <<b, q>> \in more => q = d \/ <<b, q>> \in tr
    PROVE  RoleRight(b, more, <<e>>, t)
<1>1. \A c : ~Tells(<<>>, "DISCONNECTED", c)
  BY DEF Tells
<1>2. Len(<<e>>) = 1 /\ <<e>>[1] = e
  OBVIOUS
<1>3. \A p : ~Expects(<<e>>, p)
  BY <1>2 DEF Expects
<1>4. \A p : Above(<<e>>, t, p) => Above(<<>>, t, p)
  BY <1>3 DEF Above
<1>5. ASSUME NEW p, Above(<<e>>, t, p) PROVE Linked(tr, b, p)
  <2>1. PICK i \in Slots : t[i].type = "CENTRAL" /\ t[i].peer = p
    BY <1>3, <1>5 DEF Above
  <2>2. t[i].active
    BY <2>1 DEF RoleRight
  <2> QED BY <1>1, <2>1, <2>2 DEF BoardRight, Honest
<1>6. \A p \in Ids : Above(<<e>>, t, p) => <<b, p>> \notin more
  BY <1>4, <1>5 DEF RoleRight
<1> QED BY <1>4, <1>6 DEF RoleRight

LEMMA RolesStep ==
    ASSUME IInv, BoardsRight, RolesRight, [Next]_vars
    PROVE  RolesRight'
<1> SUFFICES ASSUME NEW c \in Boards PROVE RoleRight(c, links', sched'[c], activeConnections'[c])
  BY DEF RolesRight
<1>a. /\ RoleRight(c, links, sched[c], activeConnections[c])
      /\ BoardRight(c, links, sched[c], activeConnections[c])
      /\ sched[c] \in Seq(Event) /\ sched \in [Boards -> Seq(Event)]
      /\ activeConnections[c] \in [Slots -> connection]
      /\ activeConnections \in [Boards -> [Slots -> connection]]
      /\ links \subseteq F!Links
  BY DEF RolesRight, BoardsRight, IInv, TypeOK
<1>b. ASSUME links' = links, sched'[c] = sched[c],
             \A i \in Slots :
                 /\ activeConnections'[c][i].active = activeConnections[c][i].active
                 /\ activeConnections'[c][i].peer = activeConnections[c][i].peer
                 /\ activeConnections'[c][i].type = activeConnections[c][i].type
      PROVE  RoleRight(c, links', sched'[c], activeConnections'[c])
  <2>1. \A p : Above(sched'[c], activeConnections'[c], p) => Above(sched[c], activeConnections[c], p)
    BY <1>b DEF Above
  <2>2. \A i \in Slots : activeConnections'[c][i].type # "INVALID" => activeConnections'[c][i].active
    BY <1>a, <1>b DEF RoleRight
  <2> QED BY <1>a, <1>b, <2>1, <2>2, NothingNew
\* A board handles an event.
<1>d. ASSUME NEW b \in Boards, Handling(b, "CONNECTED"),
             NEW type \in {"PERIPHERAL", Head(sched[b]).role},
             set_connection(b, Head(sched[b]).peer, type)
      PROVE  RoleRight(c, links, IF c = b THEN Tail(sched[b]) ELSE sched[c], activeConnections'[c])
  <2> DEFINE s == sched[b]
             t == activeConnections[b]
             u == activeConnections'[b]
             peer == Head(sched[b]).peer
  <2>1. /\ s # <<>> /\ s \in Seq(Event) /\ Head(s).type = "CONNECTED"
        /\ t \in [Slots -> connection] /\ RoleRight(b, links, s, t)
    BY <1>a, <1>d DEF Handling, RolesRight
  <2>2. \/ activeConnections' = activeConnections
        \/ \E i \in Slots : activeConnections' = [activeConnections EXCEPT ![b][i] =
                   [@ EXCEPT !.active = TRUE, !.peer = peer, !.type = type]]
    BY <1>d, Zenon DEF set_connection
  <2>3. CASE c # b
    <3>1. CASE activeConnections' = activeConnections
      BY <1>a, <2>3, <3>1
    <3>2. ASSUME NEW i \in Slots, activeConnections' = [activeConnections EXCEPT ![b][i] =
                   [@ EXCEPT !.active = TRUE, !.peer = peer, !.type = type]]
          PROVE  activeConnections'[c] = activeConnections[c]
      BY <1>a, <2>3, <3>2
    <3> QED BY <1>a, <2>2, <2>3, <3>1, <3>2
  <2>4. CASE c = b
    <3>1. \A j \in Slots : \/ u[j] = t[j]
                           \/ u[j].active /\ u[j].type = type /\ u[j].peer = peer
      <4>1. CASE activeConnections' = activeConnections
        BY <4>1
      <4>2. ASSUME NEW i \in Slots, activeConnections' = [activeConnections EXCEPT ![b][i] =
                       [@ EXCEPT !.active = TRUE, !.peer = peer, !.type = type]]
            PROVE  \A j \in Slots : \/ u[j] = t[j]
                                    \/ u[j].active /\ u[j].type = type /\ u[j].peer = peer
        <5>1. u = [t EXCEPT ![i] = [@ EXCEPT !.active = TRUE, !.peer = peer, !.type = type]]
          BY <1>a, <4>2
        <5> HIDE DEF t, u, peer
        <5>2. t[i] \in connection /\ \A j \in Slots \ {i} : u[j] = t[j]
          BY <2>1, <5>1
        <5>3. u[i] = [t[i] EXCEPT !.active = TRUE, !.peer = peer, !.type = type]
          BY <2>1, <5>1
        <5>4. u[i].active /\ u[i].type = type /\ u[i].peer = peer
          BY <5>2, <5>3 DEF connection
        <5> QED BY <5>2, <5>4
      <4> QED BY <2>2, <4>1, <4>2
    <3>2. type = "CENTRAL" => Expects(s, peer)
      BY <1>d, <2>1 DEF Expects
    <3> HIDE DEF s, t, u, peer
    <3>3. \A p : Expects(Tail(s), p) => Expects(s, p)
      BY <2>1, ExpectsTail
    <3>4. \A p \in Ids : Above(Tail(s), u, p) => Above(s, t, p)
      BY <3>1, <3>2, <3>3 DEF Above
    <3>5. \A i \in Slots : u[i].type # "INVALID" => u[i].active
      BY <2>1, <3>1 DEF RoleRight
    <3>6. RoleRight(b, links, Tail(s), u)
      BY <2>1, <3>4, <3>5, NothingNew
    <3> QED BY <2>4, <3>6 DEF s, u
  <2> QED BY <2>3, <2>4
<1>e. ASSUME NEW b \in Boards, Return(b), links' = links,
             RoleRight(c, links, IF c = b THEN Tail(sched[b]) ELSE sched[c], activeConnections'[c])
      PROVE  RoleRight(c, links', sched'[c], activeConnections'[c])
  <2>1. sched'[c] = IF c = b THEN Tail(sched[b]) ELSE sched[c]
    BY <1>a, <1>e DEF Return
  <2> QED BY <1>e, <2>1
<1>1. ASSUME NEW b \in Boards, reject_connection_event(b)
      PROVE  RoleRight(c, links', sched'[c], activeConnections'[c])
  <2>1. /\ Handling(b, "CONNECTED") /\ set_connection(b, Head(sched[b]).peer, "PERIPHERAL")
        /\ Return(b) /\ links' = links
    BY <1>1 DEF reject_connection_event
  <2> QED BY <1>d, <1>e, <2>1
<1>2. ASSUME NEW b \in Boards, handle_connection_event(b)
      PROVE  RoleRight(c, links', sched'[c], activeConnections'[c])
  <2>1. /\ Handling(b, "CONNECTED") /\ set_connection(b, Head(sched[b]).peer, Head(sched[b]).role)
        /\ Return(b) /\ links' = links
    BY <1>2 DEF handle_connection_event
  <2> QED BY <1>d, <1>e, <2>1
<1>3. ASSUME NEW b \in Boards, handle_disconnection_event(b)
      PROVE  RoleRight(c, links', sched'[c], activeConnections'[c])
  <2> DEFINE peer == Head(sched[b]).peer
  <2>1. /\ unset_connection(b, peer) /\ sched[b] # <<>> /\ sched[b] \in Seq(Event)
        /\ Return(b) /\ links' = links
    BY <1>3, <1>a DEF handle_disconnection_event, Handling
  <2>3. \A i \in Slots : \/ activeConnections'[c][i] = activeConnections[c][i]
                         \/ activeConnections'[c][i] = NoConnection
    BY <1>a, <2>1 DEF unset_connection
  <2> HIDE DEF peer
  <2> DEFINE r == IF c = b THEN Tail(sched[b]) ELSE sched[c]
  <2>4. \A p : Expects(r, p) => Expects(sched[c], p)
    BY <2>1, ExpectsTail
  <2> HIDE DEF r
  <2>5. \A p \in Ids : Above(r, activeConnections'[c], p) => Above(sched[c], activeConnections[c], p)
    BY <2>3, <2>4 DEF Above, NoConnection
  <2>6. \A i \in Slots : activeConnections'[c][i].type # "INVALID" => activeConnections'[c][i].active
    <3>1. NoConnection.type = "INVALID"
      BY DEF NoConnection
    <3>2. \A i \in Slots : activeConnections[c][i].type # "INVALID" => activeConnections[c][i].active
      BY <1>a DEF RoleRight
    <3> QED BY <2>3, <3>1, <3>2
  <2>7. RoleRight(c, links, r, activeConnections'[c])
    BY <1>a, <2>5, <2>6, NothingNew
  <2> QED BY <1>e, <2>1, <2>7 DEF r
\* What the radio tells of a link that ended names no parent.
<1>4. ASSUME NEW l \in F!Links, LinkClosed(l) \/ LinkLost(l)
      PROVE  RoleRight(c, links', sched'[c], activeConnections'[c])
  <2>1. LinkEnds(l) /\ links' \in SUBSET links /\ activeConnections' = activeConnections
    BY <1>4 DEF LinkClosed, LinkLost, LinkEnds
  <2>2. sched'[c] = sched[c] \/ \E d \in Boards : sched'[c] = Append(sched[c], Told(d))
    BY <2>1, LinkEndsTells
  <2>3. \A d \in Boards : Told(d) \in Event /\ Told(d).type = "DISCONNECTED"
    BY <2>1, LinkEndsTells
  <2>4. \A p : Expects(sched'[c], p) => Expects(sched[c], p)
    BY <1>a, <2>2, <2>3, ExpectsAppended
  <2>5. \A p \in Ids : Above(sched'[c], activeConnections'[c], p) => Above(sched[c], activeConnections[c], p)
    BY <2>1, <2>4 DEF Above
  <2>6. \A i \in Slots : activeConnections'[c][i].type # "INVALID" => activeConnections'[c][i].active
    BY <1>a, <2>1 DEF RoleRight
  <2> QED BY <1>a, <2>1, <2>5, <2>6, NothingNew
<1>5. ASSUME NEW p \in Boards, NEW d \in Boards, LinkEstablished(p, d)
      PROVE  RoleRight(c, links', sched'[c], activeConnections'[c])
  <2> DEFINE up == [type |-> "CONNECTED", peer |-> d, role |-> "PERIPHERAL"]
             down == [type |-> "CONNECTED", peer |-> p, role |-> "CENTRAL"]
  <2>1. /\ links' = links \union {<<p, d>>} /\ p # d /\ sched[p] = <<>> /\ sched[d] = <<>>
        /\ ~Up(p, d) /\ \A q \in Boards : <<q, d>> \notin links
        /\ activeConnections' = activeConnections
    BY <1>5 DEF LinkEstablished
  <2>2. sched'[p] = <<up>> /\ sched'[d] = <<down>> /\ \A b \in Boards \ {p, d} : sched'[b] = sched[b]
    BY <1>5, <1>a, <2>1 DEF LinkEstablished
  <2>3. up.role = "PERIPHERAL" /\ down.peer = p
    OBVIOUS
  <2> HIDE DEF up, down
  <2>4. ~Linked(links, p, d)
    BY <2>1 DEF Linked, Up
  <2>5. CASE c = p
    <3>1. RoleRight(c, links, <<>>, activeConnections[c]) /\ BoardRight(c, links, <<>>, activeConnections[c])
      BY <1>a, <2>1, <2>5
    <3>2. \A q : <<c, q>> \in links' => q = d \/ <<c, q>> \in links
      BY <2>1
    <3>3. RoleRight(c, links', <<up>>, activeConnections[c])
      BY <2>3, <2>4, <2>5, <3>1, <3>2, ChildJoined
    <3> QED BY <2>1, <2>2, <2>5, <3>3
  <2>6. CASE c = d
    <3>1. RoleRight(c, links, <<>>, activeConnections[c]) /\ BoardRight(c, links, <<>>, activeConnections[c])
      BY <1>a, <2>1, <2>6
    <3>2. <<c, p>> \notin links'
      BY <2>1, <2>4, <2>6 DEF Linked
    <3>3. RoleRight(c, links', <<down>>, activeConnections[c])
      BY <2>1, <2>3, <2>6, <3>1, <3>2, ParentJoined
    <3> QED BY <2>1, <2>2, <2>6, <3>3
  <2>7. CASE c \notin {p, d}
    <3>1. \A q : <<c, q>> \in links' => <<c, q>> \in links
      BY <2>1, <2>7
    <3>2. RoleRight(c, links', sched[c], activeConnections[c])
      BY <1>a, <3>1 DEF RoleRight
    <3> QED BY <2>1, <2>2, <2>7, <3>2
  <2> QED BY <2>5, <2>6, <2>7
<1>6. ASSUME NEW b \in Boards, send_heartbeat_message(b) \/ send_broadcast_message(b)
      PROVE  RoleRight(c, links', sched'[c], activeConnections'[c])
  BY <1>a, <1>6 DEF send_heartbeat_message, send_broadcast_message
<1>7. ASSUME NEW l \in F!Links, handle_write_event(l)
      PROVE  RoleRight(c, links', sched'[c], activeConnections'[c])
  <2>1. CASE receive_handshake_message(l)
    <3>1. links' = links /\ sched' = sched /\ Learn(l, Head(onAir[l]).deviceId)
      BY <2>1 DEF receive_handshake_message
    <3>2. \A i \in Slots :
              /\ activeConnections'[c][i].active = activeConnections[c][i].active
              /\ activeConnections'[c][i].peer = activeConnections[c][i].peer
              /\ activeConnections'[c][i].type = activeConnections[c][i].type
      BY <1>a, <3>1, LearnNames
    <3> QED BY <1>b, <3>1, <3>2
  <2>2. CASE receive_heartbeat_message(l) \/ receive_broadcast_message(l)
    BY <1>a, <2>2 DEF receive_heartbeat_message, receive_broadcast_message
  <2> QED BY <1>7, <2>1, <2>2 DEF handle_write_event
<1>8. CASE UNCHANGED vars
  BY <1>a, <1>8 DEF vars
<1> QED BY <1>1, <1>2, <1>3, <1>4, <1>5, <1>6, <1>7, <1>8 DEF Next, ConnectionHandler

LEMMA RolesInit == Init => RolesRight
<1> SUFFICES ASSUME Init, NEW b \in Boards
             PROVE  RoleRight(b, links, sched[b], activeConnections[b])
  BY DEF RolesRight
<1>1. sched[b] = <<>> /\ \A i \in Slots : activeConnections[b][i] = NoConnection
  BY DEF Init
<1>2. \A p : ~Above(sched[b], activeConnections[b], p)
  BY <1>1 DEF Above, Expects, NoConnection
<1> QED BY <1>1, <1>2 DEF RoleRight, NoConnection

LEMMA InvariantOfTables == Spec => [](LinksRight /\ BoardsRight /\ RolesRight)
<1> DEFINE J == LinksRight /\ BoardsRight /\ RolesRight
<1>1. Init => J
  BY LinksInit, BoardsInit, RolesInit
<1>2. IInv /\ J /\ [Next]_vars => J'
  BY LinksStep, BoardsStep, RolesStep
<1> QED BY <1>1, <1>2, Invariant, PTL DEF Spec

--------------------------------------------------------------------------------
(* A board other than the gateway that has no parent in its table, and none to  *)
(* come, has asked all its children to leave, or will when it handles their     *)
(* coming.                                                                      *)

Sheds(b, tr, s, t) ==
    b # Gateway /\ (\A p \in Ids : ~Above(s, t, p)) =>
        \A c \in Boards : <<b, c>> \in tr => Tells(s, "CONNECTED", c)

Shedding == \A b \in Boards : Sheds(b, tree, sched[b], activeConnections[b])

LEMMA StillSheds ==
    ASSUME NEW b \in Boards, NEW tr, NEW s, NEW t, Sheds(b, tr, s, t), NEW left, NEW r, NEW u,
           \A c \in Boards : <<b, c>> \in left => <<b, c>> \in tr,
           \A p \in Ids : Above(s, t, p) => Above(r, u, p),
           \A c \in Boards : Tells(s, "CONNECTED", c) /\ <<b, c>> \in left => Tells(r, "CONNECTED", c)
    PROVE  Sheds(b, left, r, u)
  BY DEF Sheds

\* A handler that puts a link into the table leaves the parents that are there.
LEMMA ParentsKept ==
    ASSUME IInv, BoardsRight, RolesRight, NEW b \in Boards, Handling(b, "CONNECTED"),
           NEW type \in {"CENTRAL", "PERIPHERAL"}, set_connection(b, Head(sched[b]).peer, type)
    PROVE  /\ \A j \in Slots : activeConnections[b][j].type = "CENTRAL" =>
                  activeConnections'[b][j] = activeConnections[b][j]
           /\ \E i \in Slots : /\ activeConnections'[b][i].type = type
                                /\ activeConnections'[b][i].peer = Head(sched[b]).peer
           /\ \A c \in Boards \ {b} : activeConnections'[c] = activeConnections[c]
<1> DEFINE t == activeConnections[b]
           u == activeConnections'[b]
           peer == Head(sched[b]).peer
<1>1. /\ sched[b] # <<>> /\ sched[b] \in Seq(Event) /\ Head(sched[b]).type = "CONNECTED"
      /\ peer \in Boards
      /\ activeConnections \in [Boards -> [Slots -> connection]] /\ t \in [Slots -> connection]
      /\ BoardRight(b, links, sched[b], t) /\ RoleRight(b, links, sched[b], t)
  BY HeadOfSched DEF Handling, IInv, TypeOK, BoardsRight, RolesRight
<1>2. Tells(sched[b], "CONNECTED", peer)
  BY <1>1 DEF Tells
<1>3. Active(b) # Slots
  BY <1>1, <1>2 DEF BoardRight, Room, Active
<1>4. PICK i \in Slots :
          /\ ~t[i].active
          /\ activeConnections' = [activeConnections EXCEPT ![b][i] =
                 [@ EXCEPT !.active = TRUE, !.peer = peer, !.type = type]]
  BY <1>3 DEF set_connection, First, Active
<1>5. u = [t EXCEPT ![i] = [@ EXCEPT !.active = TRUE, !.peer = peer, !.type = type]]
  BY <1>1, <1>4
<1>6. \A c \in Boards \ {b} : activeConnections'[c] = activeConnections[c]
  BY <1>1, <1>4
<1>7. t[i].type # "CENTRAL"
  BY <1>1, <1>4 DEF RoleRight
<1> HIDE DEF t, u, peer
<1>8. \A j \in Slots \ {i} : u[j] = t[j]
  BY <1>1, <1>5
<1>9. u[i] = [t[i] EXCEPT !.active = TRUE, !.peer = peer, !.type = type] /\ t[i] \in connection
  BY <1>1, <1>5
<1>10. u[i].type = type /\ u[i].peer = peer
  BY <1>9 DEF connection
<1> QED BY <1>6, <1>7, <1>8, <1>10 DEF t, u, peer

LEMMA SheddingStep ==
    ASSUME IInv, LinksRight, BoardsRight, RolesRight, Shedding, [Next]_vars
    PROVE  Shedding'
<1> SUFFICES ASSUME NEW c \in Boards PROVE Sheds(c, tree', sched'[c], activeConnections'[c])
  BY DEF Shedding
<1>a. /\ Sheds(c, tree, sched[c], activeConnections[c])
      /\ BoardRight(c, links, sched[c], activeConnections[c])
      /\ RoleRight(c, links, sched[c], activeConnections[c])
      /\ sched[c] \in Seq(Event) /\ sched \in [Boards -> Seq(Event)]
      /\ activeConnections[c] \in [Slots -> connection]
      /\ activeConnections \in [Boards -> [Slots -> connection]]
      /\ closing \subseteq links
  BY DEF Shedding, RolesRight, BoardsRight, IInv, TypeOK
<1>b. ASSUME tree' \subseteq tree, sched'[c] = sched[c],
             \A i \in Slots :
                 /\ activeConnections'[c][i].peer = activeConnections[c][i].peer
                 /\ activeConnections'[c][i].type = activeConnections[c][i].type
      PROVE  Sheds(c, tree', sched'[c], activeConnections'[c])
  <2>1. \A p \in Ids : Above(sched[c], activeConnections[c], p) => Above(sched'[c], activeConnections'[c], p)
    BY <1>b DEF Above
  <2> QED BY <1>a, <1>b, <2>1, StillSheds
\* The handlers, seen by another board.
<1>c. ASSUME NEW b \in Boards, c # b, Return(b), tree' \subseteq tree,
             activeConnections'[c] = activeConnections[c]
      PROVE  Sheds(c, tree', sched'[c], activeConnections'[c])
  <2>1. sched'[c] = sched[c]
    BY <1>a, <1>c DEF Return
  <2> QED BY <1>b, <1>c, <2>1
<1>d. ASSUME c # Gateway => \E p \in Ids : Above(sched'[c], activeConnections'[c], p)
      PROVE  Sheds(c, tree', sched'[c], activeConnections'[c])
  BY <1>d DEF Sheds
<1>1. ASSUME NEW b \in Boards, reject_connection_event(b)
      PROVE  Sheds(c, tree', sched'[c], activeConnections'[c])
  <2> DEFINE s == sched[b]
             peer == Head(sched[b]).peer
  <2>1. /\ Handling(b, "CONNECTED") /\ set_connection(b, peer, "PERIPHERAL")
        /\ Return(b) /\ links' = links /\ closing' = closing \union ({<<b, peer>>} \cap links)
        /\ Head(s).role = "PERIPHERAL"
    BY <1>1 DEF reject_connection_event, Unwanted, disconnect_from_peers
  <2>2. tree' \subseteq tree /\ <<b, peer>> \notin tree'
    BY <2>1 DEF tree
  <2>3. CASE c # b
    BY <1>c, <2>1, <2>2, <2>3, ParentsKept
  <2>4. CASE c = b
    <3>1. /\ s # <<>> /\ s \in Seq(Event) /\ Head(s).type = "CONNECTED" /\ FirstInLine(s)
          /\ sched'[c] = Tail(s) /\ Head(s) = s[1]
      BY <1>a, <2>1, <2>4 DEF Handling, Return, BoardRight
    <3>2. \A p : ~Expects(s, p)
      BY <2>1, <3>1 DEF Expects, FirstInLine
    <3>3. \A p \in Ids : Above(s, activeConnections[c], p) => Above(Tail(s), activeConnections'[c], p)
      BY <2>1, <2>4, <3>2, ParentsKept DEF Above
    <3>4. \A d : Tells(s, "CONNECTED", d) => d = peer
      BY <3>1, TellsTail
    <3>5. \A d \in Boards : Tells(s, "CONNECTED", d) /\ <<c, d>> \in tree' => Tells(Tail(s), "CONNECTED", d)
      BY <2>2, <2>4, <3>4
    <3>6. Sheds(c, tree, s, activeConnections[c])
      BY <1>a, <2>4
    <3> HIDE DEF s, peer
    <3> QED BY <2>2, <3>1, <3>3, <3>5, <3>6, StillSheds
  <2> QED BY <2>3, <2>4
<1>2. ASSUME NEW b \in Boards, handle_connection_event(b)
      PROVE  Sheds(c, tree', sched'[c], activeConnections'[c])
  <2> DEFINE peer == Head(sched[b]).peer
             role == Head(sched[b]).role
  <2>1. /\ Handling(b, "CONNECTED") /\ set_connection(b, peer, role) /\ ~Unwanted(b)
        /\ Return(b) /\ links' = links /\ closing' = closing
    BY <1>2 DEF handle_connection_event
  <2>2. role \in {"CENTRAL", "PERIPHERAL"} /\ peer \in Boards
    BY <2>1, HeadOfSched DEF Handling
  <2>3. tree' = tree
    BY <2>1 DEF tree
  <2>4. CASE c # b
    BY <1>c, <2>1, <2>2, <2>3, <2>4, ParentsKept
  <2>5. CASE c = b /\ role = "CENTRAL"
    <3>1. \E i \in Slots : /\ activeConnections'[c][i].type = "CENTRAL"
                           /\ activeConnections'[c][i].peer = peer
      BY <2>1, <2>2, <2>5, ParentsKept
    <3> QED BY <1>d, <2>2, <3>1 DEF Above, Ids
  <2>6. CASE c = b /\ role # "CENTRAL"
    <3>1. role = "PERIPHERAL"
      BY <2>2, <2>6
    <3>2. c = Gateway \/ \E p \in Peers(b, {"CENTRAL"}) : TRUE
      BY <2>1, <2>6, <3>1 DEF Unwanted, central_connection_active
    <3>3. ASSUME NEW j \in Slots, activeConnections[b][j].type = "CENTRAL"
          PROVE  \E p \in Ids : Above(sched'[c], activeConnections'[c], p)
      <4>1. activeConnections'[c][j] = activeConnections[c][j] /\ activeConnections[c][j].type = "CENTRAL"
        BY <2>1, <2>2, <2>6, <3>3, ParentsKept
      <4>2. activeConnections[c][j].peer \in Ids
        BY <1>a DEF connection
      <4> QED BY <4>1, <4>2 DEF Above
    <3> QED BY <1>d, <3>2, <3>3 DEF Peers, Active
  <2> QED BY <2>4, <2>5, <2>6
<1>3. ASSUME NEW b \in Boards, handle_disconnection_event(b)
      PROVE  Sheds(c, tree', sched'[c], activeConnections'[c])
  <2> DEFINE s == sched[b]
             peer == Head(sched[b]).peer
             gone == IF peer \in Peers(b, {"CENTRAL"}) THEN LinksOf(b) ELSE {}
  <2>1. /\ Handling(b, "DISCONNECTED") /\ unset_connection(b, peer) /\ Return(b)
        /\ links' = links /\ closing' = closing \union gone
    BY <1>3 DEF handle_disconnection_event, disconnect_from_peers
  <2>2. tree' \subseteq tree
    BY <2>1 DEF tree
  <2>3. CASE c # b
    <3>1. activeConnections'[c] = activeConnections[c]
      BY <1>a, <2>1, <2>3 DEF unset_connection
    <3> QED BY <1>c, <2>1, <2>2, <2>3, <3>1
  <2>4. CASE c = b /\ peer \in Peers(b, {"CENTRAL"})
    <3>1. \A d \in Boards : <<c, d>> \notin tree'
      BY <2>1, <2>4 DEF tree, LinksOf
    <3> QED BY <3>1 DEF Sheds
  <2>5. CASE c = b /\ peer \notin Peers(b, {"CENTRAL"})
    <3>1. /\ s # <<>> /\ s \in Seq(Event) /\ Head(s).type = "DISCONNECTED" /\ FirstInLine(s)
          /\ sched'[c] = Tail(s)
      BY <1>a, <2>1, <2>5 DEF Handling, Return, BoardRight
    <3>2. \A i \in Slots : activeConnections[c][i].type = "CENTRAL" =>
              activeConnections'[c][i] = activeConnections[c][i]
      <4>1. \A i \in Slots : activeConnections[c][i].type = "CENTRAL" => i \notin SlotsOf(b, peer)
        BY <2>5 DEF SlotsOf, Peers
      <4> QED BY <1>a, <2>1, <2>5, <4>1 DEF unset_connection
    <3>3. /\ \A p : Expects(s, p) => Expects(Tail(s), p)
          /\ \A d : Tells(s, "CONNECTED", d) => Tells(Tail(s), "CONNECTED", d)
      BY <3>1, ExpectsRest
    <3>4. \A p \in Ids : Above(s, activeConnections[c], p) => Above(Tail(s), activeConnections'[c], p)
      BY <3>2, <3>3 DEF Above
    <3>5. Sheds(c, tree, s, activeConnections[c])
      BY <1>a, <2>5
    <3> HIDE DEF s, peer, gone
    <3> QED BY <2>2, <3>1, <3>3, <3>4, <3>5, StillSheds
  <2> QED BY <2>3, <2>4, <2>5
<1>4. ASSUME NEW l \in F!Links, LinkClosed(l) \/ LinkLost(l)
      PROVE  Sheds(c, tree', sched'[c], activeConnections'[c])
  <2>1. LinkEnds(l) /\ tree' \subseteq tree /\ activeConnections' = activeConnections
    BY <1>4 DEF LinkClosed, LinkLost, LinkEnds, tree
  <2>2. sched'[c] = sched[c] \/ \E d \in Boards : sched'[c] = Append(sched[c], Told(d))
    BY <2>1, LinkEndsTells
  <2>3. \A d \in Boards : Told(d) \in Event /\ Told(d).type = "DISCONNECTED"
    BY <2>1, LinkEndsTells
  <2>4. /\ \A p : Expects(sched[c], p) => Expects(sched'[c], p)
        /\ \A d : Tells(sched[c], "CONNECTED", d) => Tells(sched'[c], "CONNECTED", d)
    BY <1>a, <2>2, <2>3, ExpectsAppended, TellsAppended
  <2>5. \A p \in Ids : Above(sched[c], activeConnections[c], p) => Above(sched'[c], activeConnections'[c], p)
    BY <2>1, <2>4 DEF Above
  <2> QED BY <1>a, <2>1, <2>4, <2>5, StillSheds
<1>5. ASSUME NEW p \in Boards, NEW d \in Boards, LinkEstablished(p, d)
      PROVE  Sheds(c, tree', sched'[c], activeConnections'[c])
  <2> DEFINE up == [type |-> "CONNECTED", peer |-> d, role |-> "PERIPHERAL"]
             down == [type |-> "CONNECTED", peer |-> p, role |-> "CENTRAL"]
  <2>1. /\ links' = links \union {<<p, d>>} /\ closing' = closing /\ p # d
        /\ sched[p] = <<>> /\ sched[d] = <<>>
        /\ activeConnections' = activeConnections
    BY <1>5 DEF LinkEstablished
  <2>2. sched'[p] = <<up>> /\ sched'[d] = <<down>> /\ \A b \in Boards \ {p, d} : sched'[b] = sched[b]
    BY <1>5, <1>a, <2>1 DEF LinkEstablished
  <2>3. \A x, y : <<x, y>> \in tree' => <<x, y>> \in tree \/ (x = p /\ y = d)
    BY <2>1 DEF tree
  <2>4. /\ Len(<<up>>) = 1 /\ <<up>>[1] = up /\ up.type = "CONNECTED" /\ up.peer = d
        /\ Len(<<down>>) = 1 /\ <<down>>[1] = down
        /\ down.type = "CONNECTED" /\ down.peer = p /\ down.role = "CENTRAL"
    OBVIOUS
  <2> HIDE DEF up, down
  <2>5. CASE c = p
    <3>1. Tells(<<up>>, "CONNECTED", d) /\ \A x : ~Tells(<<>>, "CONNECTED", x)
      BY <2>4 DEF Tells
    <3>2. \A q \in Ids : Above(<<>>, activeConnections[c], q) => Above(<<up>>, activeConnections[c], q)
      BY DEF Above, Expects
    <3>3. Sheds(c, tree, <<>>, activeConnections[c])
      BY <1>a, <2>1, <2>5
    <3>4. Sheds(c, tree', <<up>>, activeConnections[c])
      BY <2>3, <2>5, <3>1, <3>2, <3>3 DEF Sheds
    <3> QED BY <2>1, <2>2, <2>5, <3>4
  <2>6. CASE c = d
    <3>1. Expects(<<down>>, p)
      BY <2>4 DEF Expects
    <3>2. Above(sched'[c], activeConnections'[c], p) /\ p \in Ids
      BY <2>2, <2>6, <3>1 DEF Above, Ids
    <3> QED BY <1>d, <3>2
  <2>7. CASE c \notin {p, d}
    <3>1. \A x \in Boards : <<c, x>> \in tree' => <<c, x>> \in tree
      BY <2>3, <2>7
    <3>2. sched'[c] = sched[c] /\ activeConnections'[c] = activeConnections[c]
      BY <2>1, <2>2, <2>7
    <3> QED BY <1>a, <3>1, <3>2, StillSheds
  <2> QED BY <2>5, <2>6, <2>7
<1>6. ASSUME NEW b \in Boards, send_heartbeat_message(b) \/ send_broadcast_message(b)
      PROVE  Sheds(c, tree', sched'[c], activeConnections'[c])
  BY <1>b, <1>6 DEF send_heartbeat_message, send_broadcast_message, tree
<1>7. ASSUME NEW l \in F!Links, handle_write_event(l)
      PROVE  Sheds(c, tree', sched'[c], activeConnections'[c])
  <2>1. tree' = tree /\ sched' = sched
    BY <1>7 DEF handle_write_event, receive_handshake_message, receive_heartbeat_message,
                receive_broadcast_message, tree
  <2>2. CASE receive_handshake_message(l)
    <3>1. Learn(l, Head(onAir[l]).deviceId)
      BY <2>2 DEF receive_handshake_message
    <3>2. \A i \in Slots :
              /\ activeConnections'[c][i].peer = activeConnections[c][i].peer
              /\ activeConnections'[c][i].type = activeConnections[c][i].type
      BY <3>1, LearnNames
    <3> QED BY <1>b, <2>1, <3>2
  <2>3. CASE receive_heartbeat_message(l) \/ receive_broadcast_message(l)
    BY <1>b, <2>1, <2>3 DEF receive_heartbeat_message, receive_broadcast_message
  <2> QED BY <1>7, <2>2, <2>3 DEF handle_write_event
<1>8. CASE UNCHANGED vars
  BY <1>b, <1>8 DEF vars, tree
<1> QED BY <1>1, <1>2, <1>3, <1>4, <1>5, <1>6, <1>7, <1>8 DEF Next, ConnectionHandler

LEMMA SheddingInit == Init => Shedding
  BY DEF Init, Shedding, Sheds, tree

--------------------------------------------------------------------------------
(* So the links that nobody is about to end are those of Forest: the board that *)
(* finds a parent has shed its children.                                        *)

Trees == F!OneParent /\ F!NoCycle

LEMMA TreeStep ==
    ASSUME IInv, BoardsRight, RolesRight, Shedding, [Next]_vars
    PROVE  F!Next \/ tree' = tree
<1>0. closing \subseteq links /\ links \subseteq F!Links
  BY DEF IInv, TypeOK
<1>a. ASSUME NEW gone, tree' = tree \ gone PROVE F!Next
  <2>1. (gone \cap tree) \in SUBSET tree /\ tree' = tree \ (gone \cap tree)
    BY <1>a
  <2> QED BY <2>1 DEF F!Next, F!Detach
<1>1. ASSUME NEW b \in Boards, ConnectionHandler(b) PROVE F!Next \/ tree' = tree
  <2>1. links' = links /\ (closing' = closing \/ \E gone : closing' = closing \union gone)
    BY <1>1 DEF ConnectionHandler, reject_connection_event, handle_connection_event,
                handle_disconnection_event, disconnect_from_peers
  <2>2. tree' = tree \/ \E gone : tree' = tree \ gone
    BY <2>1 DEF tree
  <2> QED BY <1>a, <2>2
<1>2. ASSUME NEW b \in Boards, send_heartbeat_message(b) \/ send_broadcast_message(b)
      PROVE  tree' = tree
  BY <1>2 DEF send_heartbeat_message, send_broadcast_message, tree
<1>3. ASSUME NEW l \in F!Links, handle_write_event(l) PROVE tree' = tree
  BY <1>3 DEF handle_write_event, receive_handshake_message, receive_heartbeat_message,
              receive_broadcast_message, tree
<1>4. ASSUME NEW l \in F!Links, LinkClosed(l) PROVE tree' = tree
  BY <1>4 DEF LinkClosed, LinkEnds, tree
<1>5. ASSUME NEW l \in F!Links, LinkLost(l) PROVE F!Next
  <2>1. tree' = tree \ {l}
    BY <1>5 DEF LinkLost, LinkEnds, tree
  <2> QED BY <1>a, <2>1
<1>6. ASSUME NEW p \in Boards, NEW c \in Boards, LinkEstablished(p, c) PROVE F!Next
  <2>1. /\ links' = links \union {<<p, c>>} /\ closing' = closing /\ p # c /\ c # Gateway
        /\ <<p, c>> \notin links /\ sched[c] = <<>>
        /\ \A q \in Boards : <<q, c>> \notin links
    BY <1>6 DEF LinkEstablished, Up
  <2>2. tree' = tree \union {<<p, c>>}
    BY <1>0, <2>1 DEF tree
  <2>3. F!ParentsOf(c) = {}
    BY <2>1 DEF F!ParentsOf, tree
  <2>4. F!ChildrenOf(c) = {}
    <3>1. /\ BoardRight(c, links, <<>>, activeConnections[c])
          /\ RoleRight(c, links, <<>>, activeConnections[c])
          /\ Sheds(c, tree, <<>>, activeConnections[c])
      BY <2>1 DEF BoardsRight, RolesRight, Shedding
    <3>2. \A i \in Slots : activeConnections[c][i].type # "CENTRAL"
      BY <2>1, <3>1, ParentLinked
    <3>3. \A q : ~Above(<<>>, activeConnections[c], q)
      BY <3>2 DEF Above, Expects
    <3>4. \A d : ~Tells(<<>>, "CONNECTED", d)
      BY DEF Tells
    <3> QED BY <2>1, <3>1, <3>3, <3>4 DEF Sheds, F!ChildrenOf
  <2>5. F!Attach(p, c)
    BY <2>1, <2>2, <2>3, <2>4 DEF F!Attach, F!Links
  <2> QED BY <2>5 DEF F!Next
<1>7. CASE UNCHANGED vars
  BY <1>7 DEF vars, tree
<1> QED BY <1>1, <1>2, <1>3, <1>4, <1>5, <1>6, <1>7 DEF Next

LEMMA AttachKeepsTrees ==
    ASSUME F!TypeOK, Trees, NEW p \in Boards, NEW c \in Boards, F!Attach(p, c)
    PROVE  Trees'
<1>1. /\ tree' = tree \union {<<p, c>>} /\ p # c
      /\ F!ParentsOf(c) = {} /\ F!ChildrenOf(c) = {}
  BY DEF F!Attach, F!Links
<1>2. \A b \in Boards : F!ParentsOf(b)' = IF b = c THEN {p} ELSE F!ParentsOf(b)
  BY <1>1 DEF F!ParentsOf
<1>3. F!OneParent'
  BY <1>2 DEF Trees, F!OneParent
<1>4. F!NoCycle'
  <2> SUFFICES ASSUME NEW some \in SUBSET Boards, some # {}
               PROVE  \E b \in some : F!ParentsOf(b)' \cap some = {}
    BY DEF F!NoCycle
  <2>1. CASE c \notin some
    BY <1>2, <2>1 DEF Trees, F!NoCycle
  <2>2. CASE some = {c}
    BY <1>1, <1>2, <2>2
  <2>3. CASE c \in some /\ some # {c}
    <3> DEFINE rest == some \ {c}
    <3>1. rest \in SUBSET Boards /\ rest # {}
      BY <2>3
    <3>2. PICK b \in rest : F!ParentsOf(b) \cap rest = {}
      BY <3>1 DEF Trees, F!NoCycle
    <3>3. c \notin F!ParentsOf(b)
      BY <1>1, <3>1, <3>2 DEF F!ChildrenOf, F!ParentsOf
    <3> QED BY <1>2, <3>2, <3>3
  <2> QED BY <2>1, <2>2, <2>3
<1> QED BY <1>3, <1>4 DEF Trees

LEMMA DetachKeepsTrees ==
    ASSUME Trees, tree' \subseteq tree
    PROVE  Trees'
<1>1. \A b \in Boards : F!ParentsOf(b)' \subseteq F!ParentsOf(b)
  BY DEF F!ParentsOf
<1>2. F!OneParent'
  BY <1>1 DEF Trees, F!OneParent
<1>3. F!NoCycle'
  BY <1>1 DEF Trees, F!NoCycle
<1> QED BY <1>2, <1>3 DEF Trees

LEMMA TreesStep == F!TypeOK /\ Trees /\ [F!Next]_tree => Trees'
  BY AttachKeepsTrees, DetachKeepsTrees DEF F!Next, F!Detach

LEMMA TreesInit == F!Init => Trees
  BY DEF F!Init, Trees, F!OneParent, F!NoCycle, F!ParentsOf

LEMMA InvariantOfTrees ==
    Spec => F!Spec /\ [](Shedding /\ Trees)
<1> DEFINE H == IInv /\ LinksRight /\ BoardsRight /\ RolesRight
           J == Shedding /\ Trees
<1>1. Init => F!Init /\ J
  <2>1. Init => F!Init
    BY DEF Init, F!Init, tree
  <2> QED BY <2>1, SheddingInit, TreesInit
<1>2. H /\ J /\ [Next]_vars => J' /\ [F!Next]_tree
  <2> SUFFICES ASSUME H, J, [Next]_vars PROVE J' /\ [F!Next]_tree
    OBVIOUS
  <2>1. F!TypeOK
    BY DEF IInv, TypeOK, F!TypeOK, tree
  <2>2. [F!Next]_tree
    BY TreeStep
  <2>3. Shedding'
    BY SheddingStep
  <2>4. Trees'
    BY <2>1, <2>2, TreesStep
  <2> QED BY <2>2, <2>3, <2>4
<1>3. Spec => []H
  BY Invariant, InvariantOfTables, PTL
<1> HIDE DEF H, J
<1>4. Spec => F!Init /\ []J /\ [][F!Next]_tree
  BY <1>1, <1>2, <1>3, PTL DEF Spec
<1>5. J => Shedding /\ Trees
  BY DEF J
<1> QED BY <1>4, <1>5, PTL DEF F!Spec

--------------------------------------------------------------------------------
(* The broadcast.  While no link changes, the boards it has reached hang       *)
(* together and have one root; over every link that leads out of them, and     *)
(* over no other, it is on its way, once.                                      *)

NoneIn(s) == \A i \in 1 .. Len(s) : s[i].type # "broadcast"
OneIn(s) == \E i \in 1 .. Len(s) :
                /\ s[i].type = "broadcast"
                /\ \A j \in 1 .. Len(s) : s[j].type = "broadcast" => j = i

AirRight(R, air) ==
    \A l \in F!Links : IF Up(l[1], l[2]) /\ l[1] \in R /\ l[2] \notin R
                       THEN OneIn(air[l]) ELSE NoneIn(air[l])

Rooted(R) == \E r \in R : \A b \in R \ {r} : \E p \in R : <<p, b>> \in links

Reached == {origin} \union {b \in Boards : got[b] # 0}

\* Before the broadcast is sent there is no trace of one.
Waiting ==
    /\ ~calm => got = Nothing
    /\ ~sent => ~calm /\ \A l \in F!Links : NoneIn(onAir[l])

Spreads ==
    calm =>
        /\ origin \in Boards /\ got[origin] = 0 /\ closing = {}
        /\ \A b \in Boards : got[b] # 2 /\ sched[b] = <<>>
        /\ AirRight(Reached, onAir)
        /\ \A b \in Reached : Together(b, origin)
        /\ Rooted(Reached)

LEMMA MessageKinds ==
    /\ \A m \in Message : m.type = "broadcast" <=> m = Broadcast
    /\ \A m \in Message : m.type \in {"handshake", "heartbeat", "broadcast"}
    /\ Broadcast \in Message
  BY DEF Message, Broadcast

LEMMA CountAppended ==
    ASSUME NEW s \in Seq(Message), NEW m \in Message
    PROVE  /\ Append(s, m) \in Seq(Message)
           /\ m.type # "broadcast" /\ NoneIn(s) => NoneIn(Append(s, m))
           /\ m.type # "broadcast" /\ OneIn(s) => OneIn(Append(s, m))
           /\ m.type = "broadcast" /\ NoneIn(s) => OneIn(Append(s, m))
<1> DEFINE r == Append(s, m)
<1>1. /\ r \in Seq(Message) /\ Len(r) = Len(s) + 1 /\ Len(s) \in Nat
      /\ \A i \in 1 .. Len(s) : r[i] = s[i]
      /\ r[Len(s) + 1] = m
  OBVIOUS
<1> HIDE DEF r
<1>2. \A i \in 1 .. Len(r) : i \in 1 .. Len(s) \/ i = Len(s) + 1
  BY <1>1
<1>3. \A i \in 1 .. Len(s) : i \in 1 .. Len(r)
  BY <1>1
<1>4. Len(s) + 1 \in 1 .. Len(r)
  BY <1>1
<1>5. m.type # "broadcast" /\ NoneIn(s) => NoneIn(r)
  BY <1>1, <1>2 DEF NoneIn
<1>6. ASSUME m.type # "broadcast", OneIn(s) PROVE OneIn(r)
  <2>1. PICK i \in 1 .. Len(s) : /\ s[i].type = "broadcast"
                                /\ \A j \in 1 .. Len(s) : s[j].type = "broadcast" => j = i
    BY <1>6 DEF OneIn
  <2>2. i \in 1 .. Len(r) /\ r[i].type = "broadcast"
    BY <1>1, <1>3, <2>1
  <2>3. ASSUME NEW j \in 1 .. Len(r), r[j].type = "broadcast" PROVE j = i
    <3>1. j # Len(s) + 1
      BY <1>1, <1>6, <2>3
    <3>2. j \in 1 .. Len(s) /\ s[j].type = "broadcast"
      BY <1>1, <1>2, <2>3, <3>1
    <3> QED BY <2>1, <3>2
  <2> QED BY <2>2, <2>3 DEF OneIn
<1>7. m.type = "broadcast" /\ NoneIn(s) => OneIn(r)
  BY <1>1, <1>2, <1>4 DEF OneIn, NoneIn
<1> QED BY <1>1, <1>5, <1>6, <1>7 DEF r

LEMMA CountTail ==
    ASSUME NEW s \in Seq(Message), s # <<>>
    PROVE  /\ NoneIn(s) => NoneIn(Tail(s)) /\ Head(s).type # "broadcast"
           /\ Head(s).type # "broadcast" /\ OneIn(s) => OneIn(Tail(s))
           /\ Head(s).type = "broadcast" /\ OneIn(s) => NoneIn(Tail(s))
<1> DEFINE r == Tail(s)
<1>1. /\ r \in Seq(Message) /\ Len(r) = Len(s) - 1 /\ Len(s) \in Nat \ {0}
      /\ \A i \in 1 .. Len(s) - 1 : r[i] = s[i + 1]
      /\ Head(s) = s[1]
  OBVIOUS
<1> HIDE DEF r
<1>2. \A i \in 1 .. Len(s) : i = 1 \/ (i - 1 \in 1 .. Len(r) /\ s[i] = r[i - 1])
  BY <1>1
<1>3. \A i \in 1 .. Len(r) : i + 1 \in 1 .. Len(s) /\ r[i] = s[i + 1] /\ i + 1 # 1
  BY <1>1
<1>4. 1 \in 1 .. Len(s)
  BY <1>1
<1>5. NoneIn(s) => NoneIn(r) /\ Head(s).type # "broadcast"
  BY <1>1, <1>3, <1>4 DEF NoneIn
<1>6. ASSUME Head(s).type # "broadcast", OneIn(s) PROVE OneIn(r)
  <2>1. PICK i \in 1 .. Len(s) :
            s[i].type = "broadcast" /\ \A j \in 1 .. Len(s) : s[j].type = "broadcast" => j = i
    BY <1>6 DEF OneIn
  <2>2. i - 1 \in 1 .. Len(r) /\ r[i - 1].type = "broadcast"
    BY <1>1, <1>2, <1>6, <2>1
  <2>3. \A j \in 1 .. Len(r) : r[j].type = "broadcast" => j = i - 1
    <3> SUFFICES ASSUME NEW j \in 1 .. Len(r), r[j].type = "broadcast" PROVE j = i - 1
      OBVIOUS
    <3>1. j + 1 = i
      BY <1>3, <2>1
    <3> QED BY <1>1, <3>1
  <2> QED BY <2>2, <2>3 DEF OneIn
<1>7. Head(s).type = "broadcast" /\ OneIn(s) => NoneIn(r)
  BY <1>1, <1>3, <1>4 DEF OneIn, NoneIn
<1> QED BY <1>5, <1>6, <1>7 DEF r

LEMMA NotBoth == \A s : ~(OneIn(s) /\ NoneIn(s))
  BY DEF OneIn, NoneIn

--------------------------------------------------------------------------------
(* How the boards reached grow. *)

\* Two links between them and a board outside would close a circle.
LEMMA OneWayIn ==
    ASSUME Trees, closing = {}, NEW R \in SUBSET Boards, Rooted(R), NEW w \in Boards \ R,
           NEW x \in R, NEW y \in R, Up(w, x), Up(w, y)
    PROVE  x = y
<1> SUFFICES ASSUME x # y PROVE FALSE
  OBVIOUS
<1>0. tree = links
  BY DEF tree
<1>1. PICK r \in R : \A b \in R \ {r} : \E p \in R : <<p, b>> \in links
  BY DEF Rooted
<1>2. \A c, p, q \in Boards : <<p, c>> \in links /\ <<q, c>> \in links => p = q
  BY <1>0 DEF Trees, F!OneParent, F!ParentsOf
<1>3. \A z \in R : <<w, z>> \in links => z = r
  BY <1>1, <1>2
<1>4. ASSUME NEW u \in R, <<u, w>> \in links, <<w, r>> \in links PROVE FALSE
  <2> DEFINE some == R \union {w}
  <2>1. some \in SUBSET Boards /\ some # {}
    OBVIOUS
  <2>2. PICK b \in some : F!ParentsOf(b) \cap some = {}
    BY <2>1 DEF Trees, F!NoCycle
  <2>3. \E p \in some : <<p, b>> \in links
    BY <1>1, <1>4, <2>2
  <2>4. PICK p \in some : p \in F!ParentsOf(b)
    BY <1>0, <2>1, <2>3 DEF F!ParentsOf
  <2> QED BY <2>2, <2>4
<1>5. ~(<<x, w>> \in links /\ <<y, w>> \in links)
  BY <1>2
<1>6. ~(<<w, x>> \in links /\ <<w, y>> \in links)
  BY <1>3
<1>7. ~(<<x, w>> \in links /\ <<w, y>> \in links)
  BY <1>3, <1>4
<1>8. ~(<<w, x>> \in links /\ <<y, w>> \in links)
  BY <1>3, <1>4
<1> QED BY <1>5, <1>6, <1>7, <1>8 DEF Up

LEMMA RootedNext ==
    ASSUME Trees, closing = {}, NEW R \in SUBSET Boards, Rooted(R), NEW w \in Boards \ R,
           NEW x \in R, Up(w, x)
    PROVE  Rooted(R \union {w})
<1>0. tree = links
  BY DEF tree
<1>1. PICK r \in R : \A b \in R \ {r} : \E p \in R : <<p, b>> \in links
  BY DEF Rooted
<1>2. CASE <<x, w>> \in links
  BY <1>1, <1>2 DEF Rooted
<1>3. CASE <<w, x>> \in links
  <2>1. \A c, p, q \in Boards : <<p, c>> \in links /\ <<q, c>> \in links => p = q
    BY <1>0 DEF Trees, F!OneParent, F!ParentsOf
  <2>2. x = r
    BY <1>1, <1>3, <2>1
  <2> QED BY <1>1, <1>3, <2>2 DEF Rooted
<1> QED BY <1>2, <1>3 DEF Up

LEMMA TogetherNext ==
    ASSUME NEW a \in Boards, NEW b \in Boards, NEW o \in Boards, Together(a, o), Up(a, b)
    PROVE  Together(b, o)
<1> SUFFICES ASSUME NEW some \in SUBSET Boards, b \in some, o \notin some
             PROVE  \E l \in links : Cardinality({l[1], l[2]} \cap some) = 1
  BY DEF Together
<1>1. CASE a \in some
  BY <1>1 DEF Together
<1>2. CASE a \notin some
  <2>1. PICK l \in {<<a, b>>, <<b, a>>} : l \in links
    BY DEF Up
  <2>2. {l[1], l[2]} \cap some = {b}
    BY <1>2, <2>1
  <2>3. Cardinality({l[1], l[2]} \cap some) = 1
    BY <2>2, FS_Singleton
  <2> QED BY <2>1, <2>3
<1> QED BY <1>1, <1>2

LEMMA TogetherSelf == \A o \in Boards : Together(o, o)
  BY DEF Together

\* Boards from which no link leads out are not together with the others.
LEMMA ApartWhenClosed ==
    ASSUME links \subseteq F!Links, NEW R \in SUBSET Boards, NEW o \in R, NEW b \in Boards \ R,
           \A l \in F!Links : Up(l[1], l[2]) /\ l[1] \in R => l[2] \in R
    PROVE  ~Together(b, o)
<1> SUFFICES ASSUME Together(b, o) PROVE FALSE
  OBVIOUS
<1> DEFINE some == Boards \ R
<1>1. some \in SUBSET Boards /\ b \in some /\ o \notin some
  OBVIOUS
<1>2. PICK l \in links : Cardinality({l[1], l[2]} \cap some) = 1
  BY <1>1 DEF Together
<1>3. /\ l \in F!Links /\ l = <<l[1], l[2]>> /\ l[1] \in Boards /\ l[2] \in Boards /\ l[1] # l[2]
      /\ <<l[2], l[1]>> \in F!Links
  BY DEF F!Links
<1>4. Up(l[1], l[2]) /\ Up(l[2], l[1])
  BY <1>3 DEF Up
<1>5. l[1] \in R <=> l[2] \in R
  <2>1. l[1] \in R => l[2] \in R
    BY <1>3, <1>4
  <2> DEFINE k == <<l[2], l[1]>>
  <2>2. k \in F!Links /\ Up(k[1], k[2]) /\ k[1] = l[2] /\ k[2] = l[1]
    BY <1>3, <1>4
  <2> HIDE DEF k
  <2>3. l[2] \in R => l[1] \in R
    BY <2>2
  <2> QED BY <2>1, <2>3
<1>6. CASE l[1] \in R
  <2>1. {l[1], l[2]} \cap some = {}
    BY <1>5, <1>6
  <2>2. Cardinality({}) = 0
    BY FS_EmptySet
  <2>3. Cardinality({l[1], l[2]} \cap some) = 0
    BY <2>1, <2>2
  <2> HIDE DEF some
  <2> QED BY <1>2, <2>3
<1>7. CASE l[1] \notin R
  <2>1. {l[1], l[2]} \cap some = {l[1]} \union {l[2]}
    BY <1>3, <1>5, <1>7
  <2>2. /\ IsFiniteSet({l[1]}) /\ Cardinality({l[1]}) = 1
        /\ Cardinality({l[1]} \union {l[2]}) = 1 + 1
    <3>1. IsFiniteSet({l[1]}) /\ Cardinality({l[1]}) = 1
      BY FS_Singleton
    <3>2. l[2] \notin {l[1]}
      BY <1>3
    <3>3. Cardinality({l[1]} \union {l[2]}) = Cardinality({l[1]}) + 1
      BY <3>1, <3>2, FS_AddElement
    <3> QED BY <3>1, <3>3
  <2> QED BY <1>2, <2>1, <2>2
<1> QED BY <1>6, <1>7

--------------------------------------------------------------------------------
(* What the steps do to it. *)

LEMMA AirTypes ==
    ASSUME IInv
    PROVE  /\ onAir \in [F!Links -> Seq(Message)]
           /\ \A l \in F!Links : /\ onAir[l] \in Seq(Message)
                                 /\ onAir[l] # <<>> => Head(onAir[l]) \in Message
  BY DEF IInv, TypeOK

LEMMA SentOther ==
    ASSUME IInv, NEW b, NEW peers, NEW m \in Message, m.type # "broadcast",
           NEW l \in F!Links
    PROVE  /\ NoneIn(onAir[l]) => NoneIn(SentTo(b, peers, m)[l])
           /\ OneIn(onAir[l]) => OneIn(SentTo(b, peers, m)[l])
<1>1. \/ SentTo(b, peers, m)[l] = onAir[l]
      \/ SentTo(b, peers, m)[l] = Append(onAir[l], m)
  BY DEF SentTo
<1> QED BY <1>1, AirTypes, CountAppended

LEMMA PassedOn ==
    ASSUME IInv, NEW l \in F!Links, NEW peers, PassOn(l, peers), NEW k \in F!Links
    PROVE  onAir'[k] = IF k = l THEN Tail(onAir[l])
                       ELSE IF k[1] = l[2] /\ k[2] \in peers /\ k[2] # l[1] /\ Up(k[1], k[2])
                       THEN Append(onAir[k], Head(onAir[l])) ELSE onAir[k]
<1> DEFINE m == Head(onAir[l])
           out == SentTo(l[2], peers \ {l[1]}, m)
<1>1. onAir' = [out EXCEPT ![l] = Tail(@)]
  BY DEF PassOn
<1>2. \A j \in F!Links :
          out[j] = IF j[1] = l[2] /\ j[2] \in peers \ {l[1]} /\ Up(l[2], j[2])
                    THEN Append(onAir[j], m) ELSE onAir[j]
  BY DEF SentTo
<1>3. DOMAIN out = F!Links
  BY DEF SentTo
<1>4. l[1] # l[2]
  BY DEF F!Links
<1> HIDE DEF out, m
<1>5. out[l] = onAir[l]
  BY <1>2, <1>4
<1>6. onAir'[k] = IF k = l THEN Tail(out[l]) ELSE out[k]
  BY <1>1, <1>3
<1> QED BY <1>2, <1>5, <1>6 DEF m

LEMMA PassedOther ==
    ASSUME IInv, NEW l \in F!Links, NEW peers, PassOn(l, peers),
           onAir[l] # <<>>, Head(onAir[l]).type # "broadcast", NEW k \in F!Links
    PROVE  /\ NoneIn(onAir[k]) => NoneIn(onAir'[k])
           /\ OneIn(onAir[k]) => OneIn(onAir'[k])
<1>1. \/ k = l /\ onAir'[k] = Tail(onAir[l])
      \/ onAir'[k] = Append(onAir[k], Head(onAir[l]))
      \/ onAir'[k] = onAir[k]
  BY PassedOn
<1>2. onAir[k] \in Seq(Message) /\ onAir[l] \in Seq(Message) /\ Head(onAir[l]) \in Message
  BY AirTypes
<1>3. CASE k = l /\ onAir'[k] = Tail(onAir[l])
  BY <1>2, <1>3, CountTail
<1>4. CASE onAir'[k] = Append(onAir[k], Head(onAir[l]))
  BY <1>2, <1>4, CountAppended
<1> QED BY <1>1, <1>3, <1>4

LEMMA NeighboursServed ==
    ASSUME BoardsRight, NEW b \in Boards, NEW c \in Boards, sched[b] = <<>>, Up(b, c)
    PROVE  c \in Peers(b, {"CENTRAL", "PERIPHERAL"})
<1>1. BoardRight(b, links, <<>>, activeConnections[b]) /\ Linked(links, b, c)
  BY DEF BoardsRight, Up, Linked
<1>2. ~Tells(<<>>, "CONNECTED", c)
  BY DEF Tells
<1>3. PICK i \in Slots : /\ Entry(activeConnections[b][i], c)
                         /\ activeConnections[b][i].type \in {"CENTRAL", "PERIPHERAL"}
  BY <1>1, <1>2 DEF BoardRight, Listed
<1> QED BY <1>3 DEF Peers, Active, Entry

\* Handlers of connections and the radio leave no calm behind, or act on an event
\* that is still waiting; and they put no broadcast on air.
LEMMA UnrestSteps ==
    ASSUME IInv, Waiting,
           \/ \E b \in Boards : ConnectionHandler(b)
           \/ \E l \in F!Links : LinkClosed(l) \/ LinkLost(l)
           \/ \E p, c \in Boards : LinkEstablished(p, c)
    PROVE  /\ sent' = sent
           /\ calm' => calm /\ \E b \in Boards : sched[b] # <<>>
           /\ ~calm' => got' = Nothing
           /\ \A l \in F!Links : NoneIn(onAir[l]) => NoneIn(onAir'[l])
<1>a. NoneIn(<<>>)
  BY DEF NoneIn
<1>0. ASSUME NEW yes \in BOOLEAN, Stays(yes)
      PROVE  (calm' => calm /\ yes) /\ (~calm' => got' = Nothing)
  <2>1. CASE yes
    BY <1>0, <2>1 DEF Stays, Waiting, calm
  <2>2. CASE ~yes
    BY <1>0, <2>2 DEF Stays, calm
  <2> QED BY <2>1, <2>2
<1>1. ASSUME NEW b \in Boards, reject_connection_event(b) \/ handle_disconnection_event(b)
      PROVE  /\ sched[b] # <<>> /\ UNCHANGED <<onAir, sent>>
             /\ \E gone : Stays(gone = {})
  BY <1>1 DEF reject_connection_event, handle_disconnection_event, Handling, disconnect_from_peers
<1>2. ASSUME NEW b \in Boards, handle_connection_event(b)
      PROVE  /\ sched[b] # <<>> /\ UNCHANGED <<got, origin, sent>>
             /\ \A l \in F!Links : NoneIn(onAir[l]) => NoneIn(onAir'[l])
  <2> DEFINE m == [type |-> "handshake", deviceId |-> b]
             peers == {Head(sched[b]).peer}
  <2>1. m \in Message /\ m.type # "broadcast"
    BY DEF Message
  <2>2. /\ sched[b] # <<>> /\ UNCHANGED <<got, origin, sent>>
        /\ onAir' = SentTo(b, peers, m)
    BY <1>2 DEF handle_connection_event, Handling
  <2> HIDE DEF m, peers
  <2> QED BY <2>1, <2>2, SentOther
<1>3. ASSUME NEW l \in F!Links, LinkEnds(l)
      PROVE  /\ Stays(FALSE) /\ sent' = sent
             /\ \A k \in F!Links : NoneIn(onAir[k]) => NoneIn(onAir'[k])
  <2>1. \A k \in F!Links : onAir'[k] = <<>> \/ onAir'[k] = onAir[k]
    BY <1>3 DEF LinkEnds
  <2> QED BY <1>a, <1>3, <2>1 DEF LinkEnds
<1>4. ASSUME NEW p \in Boards, NEW c \in Boards, LinkEstablished(p, c)
      PROVE  Stays(FALSE) /\ UNCHANGED <<onAir, sent>>
  BY <1>4 DEF LinkEstablished
<1>5. ASSUME NEW b \in Boards, ConnectionHandler(b)
      PROVE  /\ sent' = sent
             /\ calm' => calm /\ \E c \in Boards : sched[c] # <<>>
             /\ ~calm' => got' = Nothing
             /\ \A l \in F!Links : NoneIn(onAir[l]) => NoneIn(onAir'[l])
  <2>1. CASE handle_connection_event(b)
    BY <1>2, <2>1 DEF Waiting, calm
  <2>2. CASE reject_connection_event(b) \/ handle_disconnection_event(b)
    <3>1. sched[b] # <<>> /\ UNCHANGED <<onAir, sent>>
      BY <1>1, <2>2
    <3>2. PICK gone : Stays(gone = {})
      BY <1>1, <2>2
    <3>3. (gone = {}) \in BOOLEAN
      OBVIOUS
    <3>4. (calm' => calm) /\ (~calm' => got' = Nothing)
      BY <1>0, <3>2, <3>3
    <3> QED BY <3>1, <3>4
  <2> QED BY <1>5, <2>1, <2>2 DEF ConnectionHandler
<1>6. CASE \E l \in F!Links : LinkClosed(l) \/ LinkLost(l)
  BY <1>0, <1>3, <1>6 DEF LinkClosed, LinkLost
<1>7. CASE \E p, c \in Boards : LinkEstablished(p, c)
  BY <1>0, <1>4, <1>7
<1> QED BY <1>5, <1>6, <1>7

\* Whatever is sent besides leaves the broadcast alone.
LEMMA SpreadsKept ==
    ASSUME Waiting, Spreads, UNCHANGED <<links, closing, sched, got, origin, sent>>,
           \A l \in F!Links : /\ NoneIn(onAir[l]) => NoneIn(onAir'[l])
                              /\ OneIn(onAir[l]) => OneIn(onAir'[l])
    PROVE  Waiting' /\ Spreads'
<1>1. Waiting'
  BY DEF Waiting, calm
<1>2. Spreads'
  <2> SUFFICES ASSUME calm PROVE Spreads'
    BY DEF Spreads, calm
  <2>1. Reached' = Reached
    BY DEF Reached
  <2>2. AirRight(Reached, onAir)'
    BY <2>1 DEF Spreads, AirRight, Up
  <2>3. \A b \in Reached' : Together(b, origin)'
    BY <2>1 DEF Spreads, Together
  <2>4. Rooted(Reached)'
    BY <2>1 DEF Spreads, Rooted
  <2> QED BY <2>2, <2>3, <2>4 DEF Spreads
<1> QED BY <1>1, <1>2

LEMMA BroadcastSent ==
    ASSUME IInv, Trees, BoardsRight, Waiting, NEW b \in Boards, send_broadcast_message(b)
    PROVE  Waiting' /\ Spreads'
<1> DEFINE peers == Peers(b, {"CENTRAL", "PERIPHERAL"})
<1>1. /\ ~sent /\ sent' = TRUE /\ origin' = IF closing = {} THEN b ELSE "none"
      /\ \A c \in Boards : sched[c] = <<>>
      /\ onAir' = SentTo(b, peers, Broadcast)
      /\ UNCHANGED <<links, closing, sched, got>>
  BY DEF send_broadcast_message
<1>2. got = Nothing /\ \A l \in F!Links : NoneIn(onAir[l])
  BY <1>1 DEF Waiting
<1>3. Waiting'
  BY <1>1, <1>2 DEF Waiting
<1>4. SUFFICES ASSUME closing = {} PROVE Spreads'
  BY <1>1, <1>3 DEF Spreads, calm
<1>5. Reached' = {b}
  BY <1>1, <1>2, <1>4 DEF Reached, Nothing
<1>6. ASSUME NEW l \in F!Links
      PROVE  IF Up(l[1], l[2]) /\ l[1] \in {b} /\ l[2] \notin {b}
             THEN OneIn(onAir'[l]) ELSE NoneIn(onAir'[l])
  <2>1. l[1] \in Boards /\ l[2] \in Boards /\ l[1] # l[2]
    BY DEF F!Links
  <2>2. onAir'[l] = IF l[1] = b /\ l[2] \in peers /\ Up(b, l[2])
                    THEN Append(onAir[l], Broadcast) ELSE onAir[l]
    BY <1>1 DEF SentTo
  <2>3. Up(b, l[2]) => l[2] \in peers
    BY <1>1, <2>1, NeighboursServed
  <2> HIDE DEF peers
  <2>4. OneIn(Append(onAir[l], Broadcast)) /\ NoneIn(onAir[l])
    BY <1>2, AirTypes, MessageKinds, CountAppended
  <2> QED BY <2>1, <2>2, <2>3, <2>4
<1>7. AirRight({b}, onAir')
  BY <1>6 DEF AirRight
<1>8. AirRight(Reached, onAir)'
  BY <1>1, <1>5, <1>7 DEF AirRight, Up
<1>9. Rooted(Reached)'
  BY <1>5 DEF Rooted
<1>10. \A c \in Reached' : Together(c, origin)'
  BY <1>1, <1>4, <1>5 DEF Together
<1>11. got'[origin'] = 0 /\ \A c \in Boards : got'[c] # 2 /\ sched'[c] = <<>>
  BY <1>1, <1>2, <1>4 DEF Nothing
<1> QED BY <1>1, <1>4, <1>8, <1>9, <1>10, <1>11 DEF Spreads

\* A copy that arrives while no link has changed finds a board not reached before.
LEMMA ArrivesFresh ==
    ASSUME IInv, Spreads, calm, NEW l \in F!Links, onAir[l] # <<>>,
           Head(onAir[l]).type = "broadcast"
    PROVE  /\ Up(l[1], l[2]) /\ OneIn(onAir[l])
           /\ l[1] \in Reached /\ l[2] \in Boards \ Reached
           /\ l[2] # origin /\ got[l[2]] = 0
<1>1. onAir[l] \in Seq(Message) /\ Head(onAir[l]) \in Message
  BY AirTypes
<1>2. ~NoneIn(onAir[l])
  BY <1>1, CountTail
<1>3. AirRight(Reached, onAir)
  BY DEF Spreads
<1>4. /\ Up(l[1], l[2]) /\ OneIn(onAir[l])
      /\ l[1] \in Reached /\ l[2] \notin Reached
  BY <1>2, <1>3 DEF AirRight
<1>5. l[2] \in Boards
  BY LinkHasTwoEnds
<1> QED BY <1>4, <1>5 DEF Reached

LEMMA BroadcastReceived ==
    ASSUME IInv, Trees, BoardsRight, Waiting, Spreads, NEW l \in F!Links,
           receive_broadcast_message(l)
    PROVE  Waiting' /\ Spreads'
<1> DEFINE w == l[2]
           x == l[1]
           peers == Peers(w, {"CENTRAL", "PERIPHERAL"})
           R == Reached
<1>1. /\ onAir[l] # <<>> /\ Head(onAir[l]).type = "broadcast"
      /\ got' = IF calm THEN [got EXCEPT ![w] = IF @ = 0 THEN 1 ELSE 2] ELSE got
      /\ PassOn(l, peers)
      /\ UNCHANGED <<links, closing, sched, activeConnections, view, origin, sent, losses>>
  BY DEF receive_broadcast_message, Arriving, Received
<1>2. onAir[l] \in Seq(Message) /\ Head(onAir[l]) \in Message
  BY <1>1, AirTypes
<1>3. ~NoneIn(onAir[l])
  BY <1>1, <1>2, CountTail
<1>4. Waiting'
  <2>1. sent
    BY <1>3 DEF Waiting
  <2> QED BY <1>1, <2>1 DEF Waiting, calm
<1>5. ASSUME calm PROVE Spreads'
  <2>1. /\ origin \in Boards /\ got[origin] = 0 /\ closing = {}
        /\ \A b \in Boards : got[b] # 2 /\ sched[b] = <<>>
        /\ AirRight(R, onAir)
        /\ \A b \in R : Together(b, origin)
        /\ Rooted(R)
    BY <1>5 DEF Spreads
  <2>2. w \in Boards /\ x \in Boards /\ w # x /\ R \in SUBSET Boards
    BY <2>1 DEF F!Links, Reached
  <2>3. Up(x, w) /\ x \in R /\ w \notin R /\ OneIn(onAir[l])
    BY <1>1, <1>5, ArrivesFresh
  <2>4. w # origin /\ got[w] = 0
    BY <1>1, <1>5, ArrivesFresh
  <2>5. got \in [Boards -> 0 .. 2]
    BY DEF IInv, TypeOK
  <2>6. got' = [got EXCEPT ![w] = 1]
    BY <1>1, <1>5, <2>2, <2>4, <2>5
  <2>7. Reached' = R \union {w}
    <3>1. \A b \in Boards : got'[b] # 0 <=> got[b] # 0 \/ b = w
      BY <2>5, <2>6
    <3> HIDE DEF w
    <3> QED BY <1>1, <2>2, <3>1 DEF Reached
  <2>8. Up(w, x)
    BY <2>3 DEF Up
  <2>9. ASSUME NEW y \in R, Up(w, y) PROVE y = x
    <3> HIDE DEF w, x, R
    <3> QED BY <2>1, <2>2, <2>3, <2>8, <2>9, OneWayIn
  <2>10. ASSUME NEW k \in F!Links
         PROVE  IF Up(k[1], k[2]) /\ k[1] \in R \union {w} /\ k[2] \notin R \union {w}
                THEN OneIn(onAir'[k]) ELSE NoneIn(onAir'[k])
    <3>1. k = <<k[1], k[2]>> /\ l = <<x, w>> /\ k[1] \in Boards /\ k[2] \in Boards /\ k[1] # k[2]
      BY DEF F!Links
    <3>2. onAir'[k] = IF k = l THEN Tail(onAir[l])
                      ELSE IF k[1] = w /\ k[2] \in peers /\ k[2] # x /\ Up(k[1], k[2])
                      THEN Append(onAir[k], Head(onAir[l])) ELSE onAir[k]
      BY <1>1, PassedOn
    <3>3. IF Up(k[1], k[2]) /\ k[1] \in R /\ k[2] \notin R THEN OneIn(onAir[k]) ELSE NoneIn(onAir[k])
      BY <2>1 DEF AirRight
    <3>4. onAir[k] \in Seq(Message)
      BY AirTypes
    <3>5. Up(w, k[2]) => k[2] \in peers
      BY <2>1, <2>2, <3>1, NeighboursServed
    <3> HIDE DEF w, x, R, peers
    <3>6. CASE k = l
      <4>1. NoneIn(onAir'[k])
        BY <1>1, <1>2, <2>3, <3>2, <3>6, CountTail
      <4> QED BY <3>1, <3>6, <4>1 DEF w
    <3>7. CASE k # l /\ k[1] = w
      <4>1. NoneIn(onAir[k])
        BY <2>3, <3>3, <3>7
      <4>2. CASE k[2] = x
        BY <2>3, <3>2, <3>7, <4>1, <4>2
      <4>3. CASE k[2] # x /\ Up(w, k[2])
        <5>1. k[2] \notin R \union {w}
          BY <2>9, <3>1, <3>7, <4>3
        <5>2. OneIn(Append(onAir[k], Head(onAir[l])))
          BY <1>1, <1>2, <3>4, <4>1, CountAppended
        <5> QED BY <3>2, <3>5, <3>7, <4>3, <5>1, <5>2
      <4>4. CASE ~Up(w, k[2])
        BY <3>2, <3>7, <4>1, <4>4
      <4> QED BY <4>2, <4>3, <4>4
    <3>8. CASE k # l /\ k[1] # w
      <4>1. onAir'[k] = onAir[k]
        BY <3>2, <3>8
      <4>2. ~(Up(k[1], k[2]) /\ k[1] \in R /\ k[2] = w)
        <5> SUFFICES ASSUME Up(k[1], k[2]), k[1] \in R, k[2] = w PROVE FALSE
          OBVIOUS
        <5>1. Up(w, k[1])
          BY DEF Up
        <5>2. k[1] = x
          BY <2>9, <5>1
        <5> QED BY <3>1, <3>8, <5>2
      <4> QED BY <3>3, <3>8, <4>1, <4>2
    <3> QED BY <3>6, <3>7, <3>8
  <2>11. AirRight(R \union {w}, onAir')
    BY <2>10 DEF AirRight
  <2>12. AirRight(Reached, onAir)'
    BY <1>1, <2>7, <2>11 DEF AirRight, Up
  <2>13. Rooted(Reached)'
    <3>1. Rooted(R \union {w})
      <4> HIDE DEF w, x, R
      <4> QED BY <2>1, <2>2, <2>3, <2>8, RootedNext
    <3> QED BY <1>1, <2>7, <3>1 DEF Rooted
  <2>14. \A b \in Reached' : Together(b, origin)'
    <3>1. Together(w, origin)
      BY <2>1, <2>2, <2>3, TogetherNext
    <3>2. \A b \in R \union {w} : Together(b, origin)
      BY <2>1, <3>1
    <3> QED BY <1>1, <2>7, <3>2 DEF Together
  <2>15. /\ origin' \in Boards /\ got'[origin'] = 0
         /\ \A b \in Boards : got'[b] # 2 /\ sched'[b] = <<>>
    BY <1>1, <2>1, <2>4, <2>5, <2>6
  <2> QED BY <1>1, <2>1, <2>12, <2>13, <2>14, <2>15 DEF Spreads
<1>6. ASSUME ~calm PROVE Spreads'
  BY <1>1, <1>6 DEF Spreads, calm
<1> QED BY <1>4, <1>5, <1>6

LEMMA SpreadsStep ==
    ASSUME IInv, Trees, BoardsRight, Waiting, Spreads, [Next]_vars
    PROVE  Waiting' /\ Spreads'
<1>1. CASE \/ \E b \in Boards : ConnectionHandler(b)
           \/ \E l \in F!Links : LinkClosed(l) \/ LinkLost(l)
           \/ \E p, c \in Boards : LinkEstablished(p, c)
  <2>1. /\ sent' = sent
        /\ calm' => calm /\ \E b \in Boards : sched[b] # <<>>
        /\ ~calm' => got' = Nothing
        /\ \A l \in F!Links : NoneIn(onAir[l]) => NoneIn(onAir'[l])
    BY <1>1, UnrestSteps
  <2>2. ~calm'
    BY <2>1 DEF Spreads
  <2>3. Waiting'
    BY <2>1, <2>2 DEF Waiting
  <2> QED BY <2>2, <2>3 DEF Spreads
<1>2. ASSUME NEW b \in Boards, send_heartbeat_message(b) PROVE Waiting' /\ Spreads'
  <2>1. PICK id \in Ids :
            onAir' = SentTo(b, Peers(b, {"CENTRAL"}),
                [type |-> "heartbeat", deviceId |-> b, centralConnectionDeviceId |-> id])
    BY <1>2 DEF send_heartbeat_message
  <2> DEFINE m == [type |-> "heartbeat", deviceId |-> b, centralConnectionDeviceId |-> id]
  <2>2. m \in Message /\ m.type # "broadcast"
    BY DEF Message
  <2> HIDE DEF m
  <2>3. UNCHANGED <<links, closing, sched, got, origin, sent>>
    BY <1>2 DEF send_heartbeat_message
  <2>4. \A l \in F!Links : /\ NoneIn(onAir[l]) => NoneIn(onAir'[l])
                           /\ OneIn(onAir[l]) => OneIn(onAir'[l])
    BY <2>1, <2>2, SentOther DEF m
  <2> QED BY <2>3, <2>4, SpreadsKept
<1>3. ASSUME NEW b \in Boards, send_broadcast_message(b) PROVE Waiting' /\ Spreads'
  BY <1>3, BroadcastSent
<1>4. ASSUME NEW l \in F!Links, receive_handshake_message(l) \/ receive_heartbeat_message(l)
      PROVE  Waiting' /\ Spreads'
  <2>1. /\ onAir[l] # <<>> /\ Head(onAir[l]).type # "broadcast"
        /\ \E peers : PassOn(l, peers)
        /\ UNCHANGED <<links, closing, sched, got, origin, sent>>
    BY <1>4 DEF receive_handshake_message, receive_heartbeat_message, Arriving
  <2>2. \A k \in F!Links : /\ NoneIn(onAir[k]) => NoneIn(onAir'[k])
                           /\ OneIn(onAir[k]) => OneIn(onAir'[k])
    BY <2>1, PassedOther
  <2> QED BY <2>1, <2>2, SpreadsKept
<1>5. ASSUME NEW l \in F!Links, receive_broadcast_message(l) PROVE Waiting' /\ Spreads'
  BY <1>5, BroadcastReceived
<1>6. CASE UNCHANGED vars
  BY <1>6, SpreadsKept DEF vars
<1> QED BY <1>1, <1>2, <1>3, <1>4, <1>5, <1>6 DEF Next, handle_write_event

LEMMA SpreadsInit == Init => Waiting /\ Spreads
  BY DEF Init, Waiting, Spreads, NoneIn, calm

LEMMA Complete ==
    ASSUME IInv, Spreads
    PROVE  BroadcastComplete
<1> SUFFICES ASSUME calm, ~InFlight({Broadcast}), NEW b \in Boards
             PROVE  got[b] = IF b # origin /\ Together(b, origin) THEN 1 ELSE 0
  BY DEF BroadcastComplete
<1>1. /\ origin \in Boards /\ got[origin] = 0 /\ got[b] # 2
      /\ AirRight(Reached, onAir)
      /\ \A c \in Reached : Together(c, origin)
  BY DEF Spreads
<1>2. got[b] \in 0 .. 2 /\ links \subseteq F!Links
  BY DEF IInv, TypeOK
<1>3. ASSUME NEW l \in F!Links PROVE ~OneIn(onAir[l])
  <2> SUFFICES ASSUME OneIn(onAir[l]) PROVE FALSE
    OBVIOUS
  <2>1. onAir[l] \in Seq(Message)
    BY AirTypes
  <2>2. PICK i \in 1 .. Len(onAir[l]) : onAir[l][i].type = "broadcast"
    BY DEF OneIn
  <2>3. onAir[l][i] \in Message /\ i \in DOMAIN onAir[l]
    BY <2>1
  <2>4. onAir[l][i] \in {Broadcast}
    BY <2>2, <2>3, MessageKinds
  <2> QED BY <2>3, <2>4 DEF InFlight
<1>4. \A l \in F!Links : Up(l[1], l[2]) /\ l[1] \in Reached => l[2] \in Reached
  BY <1>1, <1>3 DEF AirRight
<1>5. Reached \in SUBSET Boards /\ origin \in Reached
  BY <1>1 DEF Reached
<1>6. CASE b = origin
  BY <1>1, <1>6
<1>7. CASE b # origin /\ b \in Reached
  <2>1. got[b] # 0
    BY <1>7 DEF Reached
  <2> QED BY <1>1, <1>2, <1>7, <2>1
<1>8. CASE b \notin Reached
  <2>1. ~Together(b, origin)
    BY <1>2, <1>4, <1>5, <1>8, ApartWhenClosed
  <2>2. got[b] = 0
    BY <1>8 DEF Reached
  <2> QED BY <2>1, <2>2
<1> QED BY <1>6, <1>7, <1>8

LEMMA InvariantOfSpreads == Spec => [](Waiting /\ Spreads)
<1> DEFINE J == Waiting /\ Spreads
<1>1. Init => J
  BY SpreadsInit
<1>2. IInv /\ Trees /\ BoardsRight /\ J /\ [Next]_vars => J'
  BY SpreadsStep
<1> QED BY <1>1, <1>2, Invariant, InvariantOfTables, InvariantOfTrees, PTL DEF Spec

--------------------------------------------------------------------------------
(* A heartbeat goes up only.                                                   *)

Climbs(l, tr, s) == \A i \in 1 .. Len(s) : s[i].type = "heartbeat" => <<l[2], l[1]>> \in tr

HeartbeatsClimb == \A l \in F!Links : Climbs(l, links, onAir[l])

\* What the table calls the parent is the parent, if the link is up.
LEMMA ParentServed ==
    ASSUME IInv, RolesRight, NEW b \in Boards, NEW p \in Peers(b, {"CENTRAL"}), Up(b, p)
    PROVE  /\ <<p, b>> \in links
           /\ \A q \in Peers(b, {"CENTRAL"}) : q = p
<1>1. /\ RoleRight(b, links, sched[b], activeConnections[b])
      /\ activeConnections[b] \in [Slots -> connection]
  BY DEF RolesRight, IInv, TypeOK
<1>2. \A q \in Peers(b, {"CENTRAL"}) : q \in Ids /\ Above(sched[b], activeConnections[b], q)
  BY <1>1 DEF Peers, Active, Above, connection
<1> QED BY <1>1, <1>2 DEF RoleRight, Up

LEMMA ClimbsAppended ==
    ASSUME NEW l, NEW tr, NEW s \in Seq(Message), NEW m \in Message, Climbs(l, tr, s)
    PROVE  /\ (m.type = "heartbeat" => <<l[2], l[1]>> \in tr) => Climbs(l, tr, Append(s, m))
           /\ s # <<>> => Climbs(l, tr, Tail(s))
<1>1. /\ Len(Append(s, m)) = Len(s) + 1 /\ Len(s) \in Nat
      /\ \A i \in 1 .. Len(s) : Append(s, m)[i] = s[i]
      /\ Append(s, m)[Len(s) + 1] = m
  OBVIOUS
<1>2. ASSUME s # <<>>
      PROVE  /\ Len(Tail(s)) = Len(s) - 1 /\ Len(s) \in Nat \ {0}
             /\ \A i \in 1 .. Len(s) - 1 : Tail(s)[i] = s[i + 1]
  BY <1>2
<1>3. (m.type = "heartbeat" => <<l[2], l[1]>> \in tr) => Climbs(l, tr, Append(s, m))
  BY <1>1 DEF Climbs
<1>4. s # <<>> => Climbs(l, tr, Tail(s))
  BY <1>2 DEF Climbs
<1> QED BY <1>3, <1>4

\* A message is sent; if it is a heartbeat, to the parent.
LEMMA ClimbsSent ==
    ASSUME IInv, HeartbeatsClimb, NEW b, NEW peers, NEW m \in Message,
           m.type = "heartbeat" => \A c \in peers : Up(b, c) => <<c, b>> \in links
    PROVE  \A k \in F!Links : Climbs(k, links, SentTo(b, peers, m)[k])
<1> TAKE k \in F!Links
<1>1. onAir[k] \in Seq(Message) /\ Climbs(k, links, onAir[k])
  BY AirTypes DEF HeartbeatsClimb
<1>2. CASE SentTo(b, peers, m)[k] = onAir[k]
  BY <1>1, <1>2
<1>3. CASE k[1] = b /\ k[2] \in peers /\ Up(b, k[2]) /\ SentTo(b, peers, m)[k] = Append(onAir[k], m)
  BY <1>1, <1>3, ClimbsAppended
<1> QED BY <1>2, <1>3 DEF SentTo

\* A message is handled, and passed on; if it is a heartbeat, to the parent.
LEMMA ClimbsPassedOn ==
    ASSUME IInv, HeartbeatsClimb, NEW l \in F!Links, NEW peers, onAir[l] # <<>>, PassOn(l, peers),
           Head(onAir[l]).type = "heartbeat" =>
               \A c \in peers : Up(l[2], c) => <<c, l[2]>> \in links
    PROVE  \A k \in F!Links : Climbs(k, links, onAir'[k])
<1> DEFINE m == Head(onAir[l])
<1>1. m \in Message /\ onAir[l] \in Seq(Message) /\ Climbs(l, links, onAir[l])
  BY AirTypes DEF HeartbeatsClimb
<1>2. \A k \in F!Links : Climbs(k, links, SentTo(l[2], peers \ {l[1]}, m)[k])
  <2>1. m.type = "heartbeat" => \A c \in peers \ {l[1]} : Up(l[2], c) => <<c, l[2]>> \in links
    OBVIOUS
  <2> HIDE DEF m
  <2> QED BY <1>1, <2>1, ClimbsSent
<1>3. Climbs(l, links, Tail(onAir[l]))
  <2> HIDE DEF m
  <2> QED BY <1>1, ClimbsAppended
<1>4. ASSUME NEW k \in F!Links
      PROVE  \/ onAir'[k] = SentTo(l[2], peers \ {l[1]}, m)[k]
             \/ k = l /\ onAir'[k] = Tail(onAir[l])
  <2>1. onAir'[k] = IF k = l THEN Tail(onAir[l])
                    ELSE IF k[1] = l[2] /\ k[2] \in peers /\ k[2] # l[1] /\ Up(k[1], k[2])
                    THEN Append(onAir[k], m) ELSE onAir[k]
    BY PassedOn
  <2> HIDE DEF m
  <2> QED BY <2>1 DEF SentTo
<1> QED BY <1>2, <1>3, <1>4

\* With a link goes what is on air over it.
LEMMA ClimbsEnds ==
    ASSUME IInv, HeartbeatsClimb, NEW l \in F!Links, LinkEnds(l)
    PROVE  HeartbeatsClimb'
<1> SUFFICES ASSUME NEW k \in F!Links PROVE Climbs(k, links', onAir'[k])
  BY DEF HeartbeatsClimb
<1>1. /\ links' = links \ {l}
      /\ onAir'[k] = IF k \in {l, <<l[2], l[1]>>} THEN <<>> ELSE onAir[k]
  BY DEF LinkEnds
<1>2. k = <<k[1], k[2]>> /\ l = <<l[1], l[2]>>
  BY DEF F!Links
<1>3. <<k[2], k[1]>> = l => k = <<l[2], l[1]>>
  BY <1>2
<1>4. Climbs(k, links, onAir[k])
  BY DEF HeartbeatsClimb
<1>5. CASE onAir'[k] = <<>>
  BY <1>5 DEF Climbs
<1>6. CASE onAir'[k] = onAir[k] /\ <<k[2], k[1]>> # l
  BY <1>1, <1>4, <1>6 DEF Climbs
<1> QED BY <1>1, <1>3, <1>5, <1>6

LEMMA ClimbsStep ==
    ASSUME IInv, RolesRight, HeartbeatsClimb, [Next]_vars
    PROVE  HeartbeatsClimb'
<1>1. ASSUME NEW b \in Boards, reject_connection_event(b) \/ handle_disconnection_event(b)
      PROVE  HeartbeatsClimb'
  BY <1>1 DEF reject_connection_event, handle_disconnection_event, HeartbeatsClimb
<1>2. ASSUME NEW b \in Boards, handle_connection_event(b) PROVE HeartbeatsClimb'
  <2> DEFINE m == [type |-> "handshake", deviceId |-> b]
  <2>1. m \in Message /\ m.type # "heartbeat"
    BY DEF Message
  <2>2. links' = links /\ \E peers : onAir' = SentTo(b, peers, m)
    BY <1>2 DEF handle_connection_event
  <2> HIDE DEF m
  <2> QED BY <2>1, <2>2, ClimbsSent DEF HeartbeatsClimb
<1>3. ASSUME NEW l \in F!Links, LinkClosed(l) \/ LinkLost(l) PROVE HeartbeatsClimb'
  BY <1>3, ClimbsEnds DEF LinkClosed, LinkLost
<1>4. ASSUME NEW p \in Boards, NEW c \in Boards, LinkEstablished(p, c) PROVE HeartbeatsClimb'
  BY <1>4 DEF LinkEstablished, HeartbeatsClimb, Climbs
<1>5. ASSUME NEW b \in Boards, send_heartbeat_message(b) PROVE HeartbeatsClimb'
  <2>1. PICK id \in Ids :
            onAir' = SentTo(b, Peers(b, {"CENTRAL"}),
                [type |-> "heartbeat", deviceId |-> b, centralConnectionDeviceId |-> id])
    BY <1>5 DEF send_heartbeat_message
  <2> DEFINE m == [type |-> "heartbeat", deviceId |-> b, centralConnectionDeviceId |-> id]
  <2>2. m \in Message
    BY DEF Message
  <2>3. \A c \in Peers(b, {"CENTRAL"}) : Up(b, c) => <<c, b>> \in links
    BY ParentServed
  <2>4. links' = links
    BY <1>5 DEF send_heartbeat_message
  <2> HIDE DEF m
  <2> QED BY <2>1, <2>2, <2>3, <2>4, ClimbsSent DEF HeartbeatsClimb, m
<1>6. ASSUME NEW b \in Boards, send_broadcast_message(b) PROVE HeartbeatsClimb'
  <2>1. Broadcast \in Message /\ Broadcast.type # "heartbeat"
    BY DEF Message, Broadcast
  <2>2. links' = links /\ \E peers : onAir' = SentTo(b, peers, Broadcast)
    BY <1>6 DEF send_broadcast_message
  <2> QED BY <2>1, <2>2, ClimbsSent DEF HeartbeatsClimb
<1>7. ASSUME NEW l \in F!Links, receive_handshake_message(l) \/ receive_broadcast_message(l)
      PROVE  HeartbeatsClimb'
  <2>1. /\ onAir[l] # <<>> /\ Head(onAir[l]).type # "heartbeat"
        /\ \E peers : PassOn(l, peers)
        /\ links' = links
    BY <1>7 DEF receive_handshake_message, receive_broadcast_message, Arriving
  <2> QED BY <2>1, ClimbsPassedOn DEF HeartbeatsClimb
<1>8. ASSUME NEW l \in F!Links, receive_heartbeat_message(l) PROVE HeartbeatsClimb'
  <2>1. onAir[l] # <<>> /\ PassOn(l, Peers(l[2], {"CENTRAL"})) /\ links' = links /\ l[2] \in Boards
    BY <1>8, LinkHasTwoEnds DEF receive_heartbeat_message, Arriving
  <2>2. \A c \in Peers(l[2], {"CENTRAL"}) : Up(l[2], c) => <<c, l[2]>> \in links
    BY <2>1, ParentServed
  <2> QED BY <2>1, <2>2, ClimbsPassedOn DEF HeartbeatsClimb
<1>9. CASE UNCHANGED vars
  BY <1>9 DEF vars, HeartbeatsClimb
<1> QED BY <1>1, <1>2, <1>3, <1>4, <1>5, <1>6, <1>7, <1>8, <1>9
        DEF Next, ConnectionHandler, handle_write_event

LEMMA InvariantOfClimbs == Spec => []HeartbeatsClimb
<1>1. Init => HeartbeatsClimb
  BY DEF Init, HeartbeatsClimb, Climbs
<1>2. IInv /\ RolesRight /\ HeartbeatsClimb /\ [Next]_vars => HeartbeatsClimb'
  BY ClimbsStep
<1> QED BY <1>1, <1>2, Invariant, InvariantOfTables, PTL DEF Spec

--------------------------------------------------------------------------------
(* What a board says with a heartbeat, and to whom.                            *)

Heartbeat(b, id) == [type |-> "heartbeat", deviceId |-> b, centralConnectionDeviceId |-> id]

\* One message, over the link to the parent.
ToParent(b) ==
    \E p \in Boards :
        /\ <<p, b>> \in links
        /\ \E id \in {p, "none"} : onAir' = [onAir EXCEPT ![<<b, p>>] = Append(@, Heartbeat(b, id))]

LEMMA HeartbeatSent ==
    ASSUME IInv, BoardsRight, RolesRight, NEW b \in Boards, send_heartbeat_message(b)
    PROVE  ToParent(b)
<1> DEFINE peers == Peers(b, {"CENTRAL"})
<1>1. PICK id \in Ids :
          /\ get_central_connection_device_id(b, id)
          /\ onAir' = SentTo(b, peers, Heartbeat(b, id))
          /\ onAir' # onAir
  BY DEF send_heartbeat_message, Heartbeat
<1>2. /\ onAir \in [F!Links -> Seq(Message)] /\ links \subseteq F!Links
      /\ activeConnections[b] \in [Slots -> connection]
      /\ \A i \in Slots : KnowsPeer(activeConnections[b][i])
      /\ RoleRight(b, links, sched[b], activeConnections[b])
  BY DEF IInv, TypeOK, KnowsPeers, KnowsPeer, RolesRight
<1>3. PICK l \in F!Links : l[1] = b /\ l[2] \in peers /\ Up(b, l[2])
  BY <1>1, <1>2 DEF SentTo
<1>4. /\ l = <<b, l[2]>> /\ l[2] \in Boards
      /\ <<l[2], b>> \in links /\ \A q \in peers : q = l[2]
  BY <1>3, ParentServed DEF F!Links
<1>5. onAir' = [onAir EXCEPT ![<<b, l[2]>>] = Append(@, Heartbeat(b, id))]
  <2>1. \A k \in F!Links : k[1] = b /\ k[2] \in peers /\ Up(b, k[2]) <=> k = l
    BY <1>3, <1>4 DEF F!Links
  <2> HIDE DEF peers
  <2>2. SentTo(b, peers, Heartbeat(b, id)) =
            [k \in F!Links |-> IF k = l THEN Append(onAir[k], Heartbeat(b, id)) ELSE onAir[k]]
    BY <2>1 DEF SentTo
  <2> QED BY <1>1, <1>2, <1>4, <2>2
<1>6. id \in {l[2], "none"}
  <2>1. CASE id = "none"
    BY <2>1
  <2>2. ASSUME NEW i \in Slots, activeConnections[b][i].type = "CENTRAL",
               id = activeConnections[b][i].deviceId
        PROVE  id \in {l[2], "none"}
    <3>1. activeConnections[b][i].active
      BY <1>2, <2>2 DEF RoleRight
    <3>2. activeConnections[b][i].peer \in peers
      BY <2>2, <3>1 DEF Peers, Active
    <3> QED BY <1>2, <1>4, <2>2, <3>2 DEF KnowsPeer
  <2> QED BY <1>1, <2>1, <2>2 DEF get_central_connection_device_id, First, ParentSlots
<1> QED BY <1>4, <1>5, <1>6 DEF ToParent

--------------------------------------------------------------------------------
(* The theorems. *)

\* Types of the links, the messages and the tables, for any number of boards.
THEOREM TypeCorrect == Spec => []TypeOK
  BY Invariant, PTL DEF IInv

\* What a heartbeat says of its sender's parent is that parent's id or nothing: no
\* entry names a board that was connected earlier (connection.c, heartbeat_message.c).
THEOREM PeersKnown == Spec => []KnowsPeers
  BY Invariant, PTL DEF IInv

\* The handlers keep the links that nobody has asked to end a forest, as Forest says:
\* a board that loses its parent asks all its children to leave (gap.c:
\* disconnect_from_peers), those still coming it turns away (gap.c:225), and only then
\* another board can become its parent.  Without either its children would close a circle.
THEOREM ForestStays == Spec => F!Spec /\ [](F!OneParent /\ F!NoCycle)
<1>1. Trees => F!OneParent /\ F!NoCycle
  BY DEF Trees
<1> QED BY <1>1, InvariantOfTrees, PTL

\* A broadcast that no change of the links disturbs reaches every board that hangs
\* together with its origin once, and the origin never: propagate_message needs no
\* sequence numbers, whatever the number of boards and the shape of the trees.
THEOREM BroadcastReachesAll == Spec => []BroadcastComplete
  BY Complete, Invariant, InvariantOfSpreads, PTL

\* While no link changes a broadcast comes to a board at most once, and not back to
\* the one that sent it, at whatever time and over whichever link it arrives:
\* propagate_message leaves out where it came from, and the links are trees.
THEOREM BroadcastNeverReturns ==
    Spec => [][\A l \in F!Links : receive_broadcast_message(l) /\ calm =>
                   l[2] # origin /\ got[l[2]] = 0]_vars
<1>1. ASSUME IInv, Spreads
      PROVE  \A l \in F!Links : receive_broadcast_message(l) /\ calm =>
                 l[2] # origin /\ got[l[2]] = 0
  <2> SUFFICES ASSUME NEW l \in F!Links, receive_broadcast_message(l), calm
               PROVE  l[2] # origin /\ got[l[2]] = 0
    OBVIOUS
  <2>1. onAir[l] # <<>> /\ Head(onAir[l]).type = "broadcast"
    BY DEF receive_broadcast_message, Arriving
  <2> QED BY <1>1, <2>1, ArrivesFresh
<1> QED BY <1>1, Invariant, InvariantOfSpreads, PTL

\* A heartbeat is on air over links that are up and lead to the parent of its last
\* sender, whatever links broke on the way: handed on to the parent's connection only
\* (message_types/heartbeat_message.c, PropagateToCentral), it runs in no circle.
THEOREM HeartbeatsGoUp == Spec => []HeartbeatsClimb
  BY InvariantOfClimbs, PTL

\* A board sends its heartbeat once, to the parent it has, and names that parent or
\* nothing: the first entry that get_central_connection_device_id finds, active or
\* not, is never that of a parent it had earlier.
THEOREM HeartbeatsNameParent ==
    Spec => [][\A b \in Boards : send_heartbeat_message(b) => ToParent(b)]_vars
<1>1. IInv /\ BoardsRight /\ RolesRight =>
          \A b \in Boards : send_heartbeat_message(b) => ToParent(b)
  BY HeartbeatSent
<1> QED BY <1>1, Invariant, InvariantOfTables, PTL
================================================================================
