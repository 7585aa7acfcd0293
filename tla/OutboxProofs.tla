------------------------------ MODULE OutboxProofs ------------------------------
(***************************************************************************)
(* The send path never stalls and never loses, duplicates or reorders a    *)
(* message, for every queue size and every number of transmit buffers.     *)
(***************************************************************************)
EXTENDS Outbox, SequenceTheorems, FiniteSetTheorems, TLAPS

\* The least of three naturals is one of them, and no more than any.
LEMMA MinOfThree ==
    ASSUME NEW a \in Nat, NEW b \in Nat, NEW c \in Nat
    PROVE  /\ Min({a, b, c}) \in Nat
           /\ Min({a, b, c}) <= a /\ Min({a, b, c}) <= b /\ Min({a, b, c}) <= c
           /\ Min({a, b, c}) \in {a, b, c}
<1>1. \E x \in {a, b, c} : \A y \in {a, b, c} : x <= y
  OBVIOUS
<1> DEFINE m == CHOOSE x \in {a, b, c} : \A y \in {a, b, c} : x <= y
<1>2. m \in {a, b, c} /\ \A y \in {a, b, c} : m <= y
  BY <1>1
<1>3. Min({a, b, c}) = m
  BY DEF Min
<1> HIDE DEF m
<1> QED BY <1>2, <1>3

--------------------------------------------------------------------------------
(* Sequences cut in two. *)

LEMMA Cut ==
    ASSUME NEW S, NEW s \in Seq(S), NEW t \in 0 .. Len(s)
    PROVE  /\ SubSeq(s, 1, t) \in Seq(S)
           /\ Len(SubSeq(s, 1, t)) = t
           /\ \A i \in 1 .. t : SubSeq(s, 1, t)[i] = s[i]
           /\ SubSeq(s, t + 1, Len(s)) \in Seq(S)
           /\ Len(SubSeq(s, t + 1, Len(s))) = Len(s) - t
           /\ \A i \in 1 .. Len(s) - t : SubSeq(s, t + 1, Len(s))[i] = s[t + i]
  OBVIOUS

\* How three sequences are grouped makes no difference.
Groups(r, s, u) == (r \o s) \o u = r \o (s \o u)

LEMMA Grouping == \A r, s, u \in Seq(Message) : Groups(r, s, u)
<1> SUFFICES ASSUME NEW r \in Seq(Message), NEW s \in Seq(Message), NEW u \in Seq(Message)
             PROVE  (r \o s) \o u = r \o (s \o u)
  BY Zenon DEF Groups
<1> QED BY ConcatAssociative

\* The front of a sequence may move to the end of the one before it.
Moved(s, u, t) ==
    /\ (s \o SubSeq(u, 1, t)) \o SubSeq(u, t + 1, Len(u)) = s \o u
    /\ s \o SubSeq(u, 1, t) \in Seq(Message)
    /\ Len(s \o SubSeq(u, 1, t)) = Len(s) + t

LEMMA MoveFront == \A s, u \in Seq(Message) : \A t \in 0 .. Len(u) : Moved(s, u, t)
<1> TAKE s, u \in Seq(Message)
<1> TAKE t \in 0 .. Len(u)
<1> DEFINE a == SubSeq(u, 1, t)
           b == SubSeq(u, t + 1, Len(u))
<1>1. /\ a \in Seq(Message) /\ Len(a) = t /\ \A i \in 1 .. t : a[i] = u[i]
      /\ b \in Seq(Message) /\ Len(b) = Len(u) - t
      /\ \A i \in 1 .. Len(u) - t : b[i] = u[t + i]
  BY Cut
<1> HIDE DEF a, b
<1>2. s \o a \in Seq(Message) /\ Len(s \o a) = Len(s) + t
  BY <1>1, ConcatProperties
<1>3. a \o b = u
  <2>1. /\ a \o b \in Seq(Message) /\ Len(a \o b) = Len(u)
        /\ \A i \in 1 .. Len(u) : (a \o b)[i] = IF i <= t THEN a[i] ELSE b[i - t]
    BY <1>1, ConcatProperties
  <2>2. \A i \in 1 .. Len(u) : (a \o b)[i] = u[i]
    BY <1>1, <2>1
  <2> QED BY <2>1, <2>2, SeqEqual
<1>4. Groups(s, a, b)
  BY <1>1, Grouping, Zenon
<1>5. (s \o a) \o b = s \o u
  BY <1>3, <1>4, Zenon DEF Groups
<1> QED BY <1>2, <1>5, Zenon DEF Moved, a, b

\* The same behind a further sequence.
MovedBehind(r, s, u, t) ==
    (r \o (s \o SubSeq(u, 1, t))) \o SubSeq(u, t + 1, Len(u)) = (r \o s) \o u

LEMMA MoveFrontBehind ==
    \A r, s, u \in Seq(Message) : \A t \in 0 .. Len(u) : MovedBehind(r, s, u, t)
<1> TAKE r, s, u \in Seq(Message)
<1> TAKE t \in 0 .. Len(u)
<1> DEFINE a == SubSeq(u, 1, t)
           b == SubSeq(u, t + 1, Len(u))
           c == s \o a
<1>1. Moved(s, u, t)
  BY MoveFront, Zenon
<1>2. c \in Seq(Message) /\ c \o b = s \o u
  BY <1>1, Zenon DEF Moved
<1>3. b \in Seq(Message)
  BY Cut
<1> HIDE DEF a, b, c
<1>4. Groups(r, c, b) /\ Groups(r, s, u)
  BY <1>2, <1>3, Grouping, Zenon
<1>5. (r \o c) \o b = (r \o s) \o u
  <2>1. (r \o c) \o b = r \o (c \o b)
    BY <1>4, Zenon DEF Groups
  <2>2. (r \o s) \o u = r \o (s \o u)
    BY <1>4, Zenon DEF Groups
  <2> QED BY <1>2, <2>1, <2>2, Zenon
<1> QED BY <1>5, Zenon DEF MovedBehind, a, b, c

\* The messages accepted so far, as they were numbered.
Numbered(n) == [k \in 1 .. n |-> k]

LEMMA NumberNext ==
    ASSUME NEW n \in Nat, NEW w \in Seq(Message), NEW u \in Seq(Message),
           w \o u = Numbered(n)
    PROVE  w \o Append(u, n + 1) = Numbered(n + 1)
<1>1. /\ Len(w) + Len(u) = n
      /\ \A i \in 1 .. n : (IF i <= Len(w) THEN w[i] ELSE u[i - Len(w)]) = i
  <2>1. /\ Len(w \o u) = Len(w) + Len(u)
        /\ \A i \in 1 .. Len(w) + Len(u) :
               (w \o u)[i] = IF i <= Len(w) THEN w[i] ELSE u[i - Len(w)]
    BY ConcatProperties
  <2>2. Len(Numbered(n)) = n /\ \A i \in 1 .. n : Numbered(n)[i] = i
    BY DEF Numbered
  <2> QED BY <2>1, <2>2
<1>2. /\ Append(u, n + 1) \in Seq(Message)
      /\ Len(Append(u, n + 1)) = Len(u) + 1
      /\ \A i \in 1 .. Len(u) + 1 :
             Append(u, n + 1)[i] = IF i = Len(u) + 1 THEN n + 1 ELSE u[i]
  BY DEF Message
<1> DEFINE v == Append(u, n + 1)
<1> HIDE DEF v
<1>3. /\ w \o v \in Seq(Message) /\ Len(w \o v) = n + 1
      /\ \A i \in 1 .. n + 1 : (w \o v)[i] = IF i <= Len(w) THEN w[i] ELSE v[i - Len(w)]
  BY <1>1, <1>2, ConcatProperties DEF v
<1>4. \A i \in 1 .. n + 1 : (w \o v)[i] = i
  BY <1>1, <1>2, <1>3 DEF v
<1>5. /\ Numbered(n + 1) \in Seq(Message) /\ Len(Numbered(n + 1)) = n + 1
      /\ \A i \in 1 .. n + 1 : Numbered(n + 1)[i] = i
  BY DEF Numbered, Message
<1>6. w \o v = Numbered(n + 1)
  BY <1>3, <1>4, <1>5, SeqEqual
<1> QED BY <1>6 DEF v

\* A front of what is numbered in order is itself numbered in order.
LEMMA NumberedFront ==
    ASSUME NEW n \in Nat, NEW r \in Seq(Message), NEW s \in Seq(Message),
           NEW u \in Seq(Message), NEW t \in 0 .. Len(s), (r \o s) \o u = Numbered(n)
    PROVE  \A k \in 1 .. Len(r \o SubSeq(s, 1, t)) :
               (r \o SubSeq(s, 1, t))[k] = k /\ k <= n
<1> DEFINE a == SubSeq(s, 1, t)
           b == SubSeq(s, t + 1, Len(s))
<1>1. a \in Seq(Message) /\ b \in Seq(Message)
  BY Cut
<1>2. r \o a \in Seq(Message) /\ (r \o a) \o b = r \o s
  <2>1. Moved(r, s, t)
    BY MoveFront, Zenon
  <2> QED BY <2>1, Zenon DEF Moved
<1> HIDE DEF a, b
<1>3. ((r \o a) \o b) \o u = Numbered(n)
  BY <1>2
<1> DEFINE ra == r \o a
           rab == ra \o b
           w == rab \o u
<1>4. ra \in Seq(Message)
  BY <1>2
<1> HIDE DEF ra
<1>5. rab \in Seq(Message) /\ Len(ra) <= Len(rab) /\ \A k \in 1 .. Len(ra) : rab[k] = ra[k]
  BY <1>1, <1>4, ConcatProperties
<1> HIDE DEF rab
<1>6. Len(rab) <= Len(w) /\ \A k \in 1 .. Len(rab) : w[k] = rab[k]
  BY <1>5, ConcatProperties
<1>7. w = Numbered(n)
  BY <1>3 DEF rab, ra
<1>8. Len(w) = n /\ \A k \in 1 .. n : w[k] = k
  BY <1>7 DEF Numbered
<1> HIDE DEF w
<1>9. \A k \in 1 .. Len(ra) : ra[k] = k /\ k <= n
  BY <1>4, <1>5, <1>6, <1>8
<1> QED BY <1>9 DEF ra, a

--------------------------------------------------------------------------------
(* The inductive invariant.  InOrder and the others are not inductive: a CONNECTED *)
(* event must find the queue of its entry empty and the air clear, which        *)
(* EventsAlternate and Quiet say.                                               *)

IInv == TypeOK /\ EventsAlternate /\ Quiet /\ InOrder /\ NoStall /\ BuffersBusy

LEMMA Nothing == <<>> \in Seq(Message) /\ <<>> \in Seq(Event) /\ Len(<<>>) = 0
  BY EmptySeq

LEMMA Initially == Init => IInv
<1> SUFFICES ASSUME Init PROVE IInv
  OBVIOUS
<1> USE OutboxAssumption DEF Init
<1>1. TypeOK
  <2>1. Len(<<>>) <= TX_BUFFERS /\ Len(<<>>) <= MAX_QUEUE_SIZE
    BY Nothing
  <2> QED BY <2>1, Nothing DEF TypeOK
<1>2. EventsAlternate /\ Quiet /\ NoStall /\ BuffersBusy
  BY Nothing DEF EventsAlternate, Quiet, NoStall, BuffersBusy, Pending
<1>3. InOrder
  BY Nothing DEF InOrder
<1> QED BY <1>1, <1>2, <1>3 DEF IInv

\* What a run of sends does to the air and to the queue.
LEMMA Sends ==
    ASSUME TypeOK, NEW n \in Nat, NEW q \in Seq(Message),
           send_messages_from_connection_queue(n, q)
    PROVE  /\ onAir' \in Seq(Message) /\ Len(onAir') <= TX_BUFFERS
           /\ unsent' \in Seq(Message) /\ Len(unsent') <= Len(q)
           /\ link # "up" => onAir' = onAir /\ unsent' = q
           /\ q = <<>> => onAir' = onAir /\ unsent' = <<>>
           /\ n >= 1 /\ link = "up" /\ unsent' # <<>> => onAir' # <<>>
           /\ n = 1 /\ q # <<>> /\ link = "up" => onAir' # <<>>
           /\ Len(onAir') >= Len(onAir)
           /\ link = "up" /\ unsent' # <<>> =>
                  Len(onAir') >= Len(onAir) + n \/ Len(onAir') >= TX_BUFFERS
           /\ Len(onAir') + Len(unsent') = Len(onAir) + Len(q)
           /\ \A r \in Seq(Message) : (r \o onAir') \o unsent' = (r \o onAir) \o q
<1> USE OutboxAssumption
<1>1. /\ Len(q) \in Nat /\ Room \in Nat /\ Len(onAir) \in Nat
      /\ onAir \in Seq(Message) /\ Len(onAir) <= TX_BUFFERS
  BY DEF TypeOK, Room
<1> DEFINE t == Min({n, Len(q), Room})
<1>2. t \in Nat /\ t <= n /\ t <= Len(q) /\ t <= Room /\ t \in {n, Len(q), Room}
  BY <1>1, MinOfThree
<1>3. onAir' = onAir \o SubSeq(q, 1, t) /\ unsent' = SubSeq(q, t + 1, Len(q))
  BY DEF send_messages_from_connection_queue
<1> HIDE DEF t
<1>4. t \in 0 .. Len(q)
  BY <1>1, <1>2
<1>5. onAir' \in Seq(Message) /\ Len(onAir') = Len(onAir) + t
  <2>1. onAir \in Seq(Message)
    BY <1>1
  <2>2. Moved(onAir, q, t)
    BY <1>4, <2>1, MoveFront, Zenon
  <2> QED BY <1>3, <2>2, Zenon DEF Moved
<1>6. unsent' \in Seq(Message) /\ Len(unsent') = Len(q) - t
  BY <1>3, <1>4, Cut
<1>7. ASSUME t = 0 PROVE onAir' = onAir /\ unsent' = q
  <2>1. /\ onAir' = onAir \o SubSeq(q, 1, 0)
        /\ unsent' = SubSeq(q, 1, Len(q))
    BY <1>3, <1>7
  <2>2. /\ SubSeq(q, 1, 0) = <<>>
        /\ SubSeq(q, 1, Len(q)) = q
    OBVIOUS
  <2>3. onAir \o <<>> = onAir
    BY <1>1, ConcatEmptySeq
  <2> QED BY <2>1, <2>2, <2>3
<1>8. link # "up" => t = 0
  BY <1>2 DEF Room
<1>9. q = <<>> => t = 0
  BY <1>4
<1>10. link = "up" => Room = TX_BUFFERS - Len(onAir)
  BY DEF Room
<1>11. link = "up" /\ unsent' # <<>> /\ n >= 1 => Len(onAir') >= 1
  <2>1. unsent' # <<>> => t < Len(q)
    BY <1>4, <1>6, EmptySeq
  <2> QED BY <1>1, <1>2, <1>5, <1>10, <2>1
<1>12. link = "up" /\ q # <<>> /\ n = 1 => Len(onAir') >= 1
  BY <1>1, <1>2, <1>5, <1>10, EmptySeq
<1>13. ASSUME NEW r \in Seq(Message) PROVE (r \o onAir') \o unsent' = (r \o onAir) \o q
  <2>1. onAir \in Seq(Message)
    BY <1>1
  <2>2. MovedBehind(r, onAir, q, t)
    BY <1>4, <2>1, MoveFrontBehind, Zenon
  <2> QED BY <1>3, <2>2, Zenon DEF MovedBehind
<1>14. Len(onAir') <= TX_BUFFERS
  BY <1>1, <1>2, <1>5, <1>8, <1>10
<1>15. onAir' # <<>> <=> Len(onAir') >= 1
  BY <1>5, EmptySeq
<1>16. Len(unsent') <= Len(q) /\ Len(onAir') + Len(unsent') = Len(onAir) + Len(q)
  BY <1>1, <1>4, <1>5, <1>6
<1>17. q = <<>> => onAir' = onAir /\ unsent' = <<>>
  BY <1>7, <1>9
<1>18. link # "up" => onAir' = onAir /\ unsent' = q
  BY <1>7, <1>8
<1>19. Len(onAir') >= Len(onAir)
  BY <1>1, <1>2, <1>5
<1>20. link = "up" /\ unsent' # <<>> =>
           Len(onAir') >= Len(onAir) + n \/ Len(onAir') >= TX_BUFFERS
  <2>1. unsent' # <<>> => t < Len(q)
    BY <1>4, <1>6, EmptySeq
  <2> QED BY <1>1, <1>2, <1>5, <1>10, <2>1
<1> QED BY <1>5, <1>6, <1>11, <1>12, <1>13, <1>14, <1>15, <1>16, <1>17, <1>18, <1>19, <1>20

\* The main loop takes an event off the front; the softdevice adds one at the end.
LEMMA Taken ==
    ASSUME TypeOK, NEW type, Handle(type)
    PROVE  /\ Len(events) \in Nat \ {0} /\ events[1].type = type
           /\ Head(events) \in Event /\ Head(events).type = type
           /\ events' \in Seq(Event) /\ Len(events') = Len(events) - 1
           /\ \A i \in 1 .. Len(events) - 1 : events'[i] = events[i + 1]
           /\ \A i \in 2 .. Len(events) : events[i] = events'[i - 1]
  BY DEF TypeOK, Handle

\* What the peer has once it received k packets.
LEMMA Received ==
    ASSUME TypeOK, NEW k \in 0 .. Len(onAir), Receive(k)
    PROVE  /\ delivered' \in Seq(Message) /\ Len(delivered') = Len(delivered) + k
           /\ delivered' \o SubSeq(onAir, k + 1, Len(onAir)) = delivered \o onAir
<1>1. onAir \in Seq(Message) /\ delivered \in Seq(Message)
  BY DEF TypeOK
<1>2. Moved(delivered, onAir, k)
  BY <1>1, MoveFront, Zenon
<1>3. delivered' = delivered \o SubSeq(onAir, 1, k)
  BY DEF Receive
<1> QED BY <1>2, <1>3, Zenon DEF Moved

LEMMA Added ==
    ASSUME TypeOK, NEW e \in Event, events' = Append(events, e)
    PROVE  /\ Len(events) \in Nat
           /\ events' \in Seq(Event) /\ Len(events') = Len(events) + 1
           /\ \A i \in 1 .. Len(events) : events'[i] = events[i]
           /\ events'[Len(events) + 1] = e
  BY DEF TypeOK
--------------------------------------------------------------------------------
(* TypeOK is preserved by every step. *)

LEMMA TypeStep == TypeOK /\ [Next]_vars => TypeOK'
<1> SUFFICES ASSUME TypeOK, [Next]_vars PROVE TypeOK'
  OBVIOUS
<1> USE OutboxAssumption
<1>0. ASSUME send_to_single_connection
      PROVE  /\ link' \in {"down", "up", "closing"} /\ accepted' \in Nat
             /\ onAir' \in Seq(Message) /\ Len(onAir') <= TX_BUFFERS
             /\ unsent' \in Seq(Message) /\ Len(unsent') <= MAX_QUEUE_SIZE
  <2>1. CASE Len(unsent) < MAX_QUEUE_SIZE
    <3>1. /\ accepted' = accepted + 1 /\ link' = link
          /\ send_messages_from_connection_queue(1, Append(unsent, accepted'))
      BY <1>0, <2>1 DEF send_to_single_connection, TypeOK
    <3>2. Append(unsent, accepted') \in Seq(Message) /\ Len(Append(unsent, accepted')) = Len(unsent) + 1
      BY <3>1 DEF TypeOK, Message
    <3>3. /\ onAir' \in Seq(Message) /\ Len(onAir') <= TX_BUFFERS
          /\ unsent' \in Seq(Message) /\ Len(unsent') <= Len(unsent) + 1
      BY <3>1, <3>2, Sends
    <3>4. Len(unsent') <= MAX_QUEUE_SIZE
      BY <2>1, <3>3 DEF TypeOK
    <3> QED BY <3>1, <3>3, <3>4 DEF TypeOK
  <2>2. CASE Len(unsent) >= MAX_QUEUE_SIZE
    BY <1>0, <2>2 DEF send_to_single_connection, disconnect_from_peer, TypeOK
  <2> QED BY <2>1, <2>2 DEF TypeOK
<1>1. CASE Send
  BY <1>0, <1>1 DEF TypeOK, Send
<1>2. CASE handle_connection_event
  <2>1. events' \in Seq(Event)
    BY <1>2, Taken DEF handle_connection_event
  <2> QED BY <1>0, <1>2, <2>1 DEF handle_connection_event, TypeOK
<1>3. CASE handle_connection_event_orphan
  <2>1. events' \in Seq(Event)
    BY <1>3, Taken DEF handle_connection_event_orphan
  <2> QED BY <1>3, <2>1 DEF handle_connection_event_orphan, disconnect_from_peer, TypeOK
<1>4. CASE handle_disconnection_event
  <2>1. events' \in Seq(Event)
    BY <1>4, Taken DEF handle_disconnection_event
  <2>2. unsent' \in Seq(Message) /\ Len(unsent') <= MAX_QUEUE_SIZE
    BY <1>4, Nothing DEF handle_disconnection_event
  <2> QED BY <1>4, <2>1, <2>2 DEF handle_disconnection_event, TypeOK
<1>5. CASE handle_buffers_freed_event
  <2>1. events' \in Seq(Event) /\ Head(events) \in Event /\ Head(events).type = "TX_COMPLETE"
    BY <1>5, Taken DEF handle_buffers_freed_event
  <2>2. Head(events).count \in Nat
    BY <2>1 DEF Event
  <2>3. CASE active
    BY <1>5, <2>1, <2>2, <2>3, Sends DEF handle_buffers_freed_event, TypeOK
  <2>4. CASE ~active
    BY <1>5, <2>1, <2>4 DEF handle_buffers_freed_event, TypeOK
  <2> QED BY <2>3, <2>4
<1>6. ASSUME NEW k \in 1 .. Len(onAir), Acknowledge(k) PROVE TypeOK'
  <2>1. [type |-> "TX_COMPLETE", count |-> k] \in Event
    BY DEF Event, TypeOK
  <2>2. events' \in Seq(Event) /\ drops' \in Nat
    <3>1. events' \in Seq(Event) \/ events' = events
      BY <1>6, <2>1, Added DEF Acknowledge
    <3>2. drops' = drops \/ drops' = drops + 1
      BY <1>6 DEF Acknowledge
    <3> QED BY <3>1, <3>2 DEF TypeOK
  <2>3. k \in 0 .. Len(onAir) /\ onAir \in Seq(Message) /\ delivered \in Seq(Message)
    BY DEF TypeOK
  <2>4. /\ onAir' \in Seq(Message) /\ Len(onAir') <= TX_BUFFERS
        /\ delivered' \in Seq(Message)
    <3>1. onAir' \in Seq(Message) /\ Len(onAir') = Len(onAir) - k
      BY <1>6, <2>3, Cut DEF Acknowledge
    <3>2. delivered' \in Seq(Message)
      BY <1>6, <2>3, Received DEF Acknowledge
    <3> QED BY <3>1, <3>2 DEF TypeOK
  <2> QED BY <1>6, <2>2, <2>4 DEF Acknowledge, TypeOK
<1>7. CASE LinkLost
  <2>1. PICK k \in 0 .. Len(onAir) : Receive(k)
    BY <1>7 DEF LinkLost
  <2>2. delivered' \in Seq(Message)
    BY <2>1, Received
  <2>3. events' \in Seq(Event)
    BY <1>7, Added DEF LinkLost, Event
  <2> QED BY <1>7, <2>2, <2>3 DEF LinkLost, TypeOK
<1>8. CASE LinkEstablished
  <2>1. events' \in Seq(Event)
    BY <1>8, Added DEF LinkEstablished, Event
  <2> QED BY <1>8, <2>1 DEF LinkEstablished, TypeOK
<1>9. CASE UNCHANGED vars
  BY <1>9 DEF vars, TypeOK
<1> QED BY <1>1, <1>2, <1>3, <1>4, <1>5, <1>6, <1>7, <1>8, <1>9 DEF Next, MainLoop

--------------------------------------------------------------------------------
(* EventsAlternate is preserved: a step leaves the events alone, takes one off *)
(* the front or adds one at the end.                                           *)

\* Sending neither raises an event nor brings a lost link back.
LEMMA SendKeepsLink ==
    ASSUME TypeOK, send_to_single_connection \/ (disconnect_from_peer /\ UNCHANGED accepted)
    PROVE  /\ link' = "down" <=> link = "down"
           /\ link' = "up" => link = "up"
  BY DEF TypeOK, send_to_single_connection, disconnect_from_peer

\* The parts of EventsAlternate, as they are named below.
Separated ==
    \A i, j \in 1 .. Len(events) :
        i < j /\ events[i].type = "DISCONNECTED" /\ events[j].type = "DISCONNECTED"
            => \E k \in i + 1 .. j - 1 : events[k].type = "CONNECTED"

Renewed ==
    \A i \in 1 .. Len(events) :
        events[i].type = "DISCONNECTED"
            => \E k \in i + 1 .. Len(events) : events[k].type = "CONNECTED"

Single ==
    \A i, j \in 1 .. Len(events) :
        events[i].type = "CONNECTED" /\ events[j].type = "CONNECTED" => i = j

\* What the events left over still say when one is taken off the front.
LEMMA TakenKeeps ==
    ASSUME TypeOK, Separated, NEW type, Handle(type)
    PROVE  /\ \A t : Pending(t)' => Pending(t)
           /\ \A t : Pending(t) /\ t # type => Pending(t)'
           /\ Separated'
           /\ Renewed => Renewed'
           /\ Single => Single' /\ (type = "CONNECTED" => ~Pending("CONNECTED")')
           /\ Renewed /\ type = "DISCONNECTED" => Pending("CONNECTED")'
           /\ type = "DISCONNECTED" /\ Pending("DISCONNECTED")' => Pending("CONNECTED")'
<1> DEFINE n == Len(events)
<1>1. /\ n \in Nat \ {0} /\ events[1].type = type
      /\ Len(events') = n - 1
      /\ \A i \in 1 .. n - 1 : events'[i] = events[i + 1]
  BY Taken
<1> HIDE DEF n
<1>2. \A i \in 2 .. n : i - 1 \in 1 .. n - 1 /\ events'[i - 1] = events[i]
  BY <1>1
<1>3. \A t : Pending(t)' <=> \E i \in 1 .. n - 1 : events'[i].type = t
  BY <1>1 DEF Pending
<1>4. \A t : Pending(t) <=> \E i \in 1 .. n : events[i].type = t
  BY DEF Pending, n
<1>5. \A t : Pending(t)' <=> \E i \in 2 .. n : events[i].type = t
  <2> TAKE t
  <2>1. ASSUME NEW i \in 1 .. n - 1, events'[i].type = t
        PROVE  \E j \in 2 .. n : events[j].type = t
    <3>1. i + 1 \in 2 .. n /\ events[i + 1].type = t
      BY <1>1, <2>1
    <3> QED BY <3>1
  <2>2. ASSUME NEW i \in 2 .. n, events[i].type = t
        PROVE  \E j \in 1 .. n - 1 : events'[j].type = t
    <3>1. i - 1 \in 1 .. n - 1 /\ events'[i - 1].type = t
      BY <1>2, <2>2
    <3> QED BY <3>1
  <2> QED BY <1>3, <2>1, <2>2
<1>6. \A t : Pending(t)' => Pending(t)
  <2> SUFFICES ASSUME NEW t, Pending(t)' PROVE Pending(t)
    OBVIOUS
  <2>1. PICK i \in 2 .. n : events[i].type = t
    BY <1>5
  <2>2. i \in 1 .. n
    BY <1>1
  <2> QED BY <1>4, <2>1, <2>2
<1>7. \A t : Pending(t) /\ t # type => Pending(t)'
  <2> SUFFICES ASSUME NEW t, Pending(t), t # type PROVE Pending(t)'
    OBVIOUS
  <2>1. PICK i \in 1 .. n : events[i].type = t
    BY <1>4
  <2>2. i # 1
    BY <1>1, <2>1
  <2>3. i \in 2 .. n
    BY <1>1, <2>2
  <2> QED BY <1>5, <2>1, <2>3
<1>8. Separated'
  <2> SUFFICES ASSUME NEW i \in 1 .. n - 1, NEW j \in 1 .. n - 1, i < j,
                      events'[i].type = "DISCONNECTED", events'[j].type = "DISCONNECTED"
               PROVE  \E k \in i + 1 .. j - 1 : events'[k].type = "CONNECTED"
    BY <1>1 DEF Separated
  <2>1. /\ i + 1 \in 1 .. n /\ j + 1 \in 1 .. n /\ i + 1 < j + 1
        /\ events[i + 1].type = "DISCONNECTED" /\ events[j + 1].type = "DISCONNECTED"
    BY <1>1
  <2>2. PICK k \in (i + 1) + 1 .. (j + 1) - 1 : events[k].type = "CONNECTED"
    BY <2>1 DEF Separated, n
  <2>3. k \in 2 .. n /\ k - 1 \in i + 1 .. j - 1
    BY <1>1
  <2> QED BY <1>2, <2>2, <2>3
<1>9. ASSUME Renewed PROVE Renewed'
  <2> SUFFICES ASSUME NEW i \in 1 .. n - 1, events'[i].type = "DISCONNECTED"
               PROVE  \E k \in i + 1 .. n - 1 : events'[k].type = "CONNECTED"
    BY <1>1 DEF Renewed
  <2>1. i + 1 \in 1 .. n /\ events[i + 1].type = "DISCONNECTED"
    BY <1>1
  <2>2. PICK k \in (i + 1) + 1 .. n : events[k].type = "CONNECTED"
    BY <1>9, <2>1 DEF Renewed, n
  <2>3. k \in 2 .. n /\ k - 1 \in i + 1 .. n - 1
    BY <1>1
  <2> QED BY <1>2, <2>2, <2>3
<1>10. ASSUME Single PROVE Single' /\ (type = "CONNECTED" => ~Pending("CONNECTED")')
  <2>1. ASSUME NEW i \in 1 .. n - 1, NEW j \in 1 .. n - 1,
               events'[i].type = "CONNECTED", events'[j].type = "CONNECTED"
        PROVE  i = j
    <3>1. /\ i + 1 \in 1 .. n /\ j + 1 \in 1 .. n
          /\ events[i + 1].type = "CONNECTED" /\ events[j + 1].type = "CONNECTED"
      BY <1>1, <2>1
    <3>2. i + 1 = j + 1
      BY <1>10, <3>1 DEF Single, n
    <3> QED BY <3>2
  <2>2. Single'
    BY <1>1, <2>1 DEF Single
  <2>3. ASSUME type = "CONNECTED", NEW i \in 2 .. n, events[i].type = "CONNECTED" PROVE FALSE
    <3>1. 1 \in 1 .. n /\ i \in 1 .. n /\ i # 1
      BY <1>1
    <3> QED BY <1>1, <1>10, <2>3, <3>1 DEF Single, n
  <2> QED BY <1>5, <2>2, <2>3
<1>11. ASSUME Renewed, type = "DISCONNECTED" PROVE Pending("CONNECTED")'
  <2>1. PICK k \in 1 + 1 .. n : events[k].type = "CONNECTED"
    BY <1>1, <1>11 DEF Renewed, n
  <2> QED BY <1>5, <2>1
<1>12. ASSUME type = "DISCONNECTED", Pending("DISCONNECTED")' PROVE Pending("CONNECTED")'
  <2>1. PICK j \in 2 .. n : events[j].type = "DISCONNECTED"
    BY <1>5, <1>12
  <2>2. 1 \in 1 .. n /\ j \in 1 .. n /\ 1 < j
    BY <1>1
  <2>3. PICK k \in 1 + 1 .. j - 1 : events[k].type = "CONNECTED"
    BY <1>1, <1>12, <2>1, <2>2 DEF Separated, n
  <2>4. k \in 2 .. n
    BY <1>1
  <2> QED BY <1>5, <2>3, <2>4
<1> QED BY <1>6, <1>7, <1>8, <1>9, <1>10, <1>11, <1>12

\* What the events say when one more is added at the end.
LEMMA AddedKeeps ==
    ASSUME TypeOK, Separated, NEW e \in Event, events' = Append(events, e)
    PROVE  /\ \A t : Pending(t)' <=> Pending(t) \/ t = e.type
           /\ e.type # "DISCONNECTED" \/ Renewed => Separated'
           /\ e.type = "CONNECTED" => Renewed'
           /\ e.type = "TX_COMPLETE" /\ Renewed => Renewed'
           /\ Single /\ (e.type # "CONNECTED" \/ ~Pending("CONNECTED")) => Single'
<1> DEFINE n == Len(events)
<1>1. /\ n \in Nat /\ Len(events') = n + 1
      /\ \A i \in 1 .. n : events'[i] = events[i]
      /\ events'[n + 1] = e
  BY Added
<1> HIDE DEF n
<1>2. \A t : Pending(t)' <=> Pending(t) \/ t = e.type
  BY <1>1 DEF Pending, n
<1>3. ASSUME e.type # "DISCONNECTED" \/ Renewed PROVE Separated'
  <2> SUFFICES ASSUME NEW i \in 1 .. n + 1, NEW j \in 1 .. n + 1, i < j,
                      events'[i].type = "DISCONNECTED", events'[j].type = "DISCONNECTED"
               PROVE  \E k \in i + 1 .. j - 1 : events'[k].type = "CONNECTED"
    BY <1>1 DEF Separated
  <2>1. i \in 1 .. n /\ events[i].type = "DISCONNECTED"
    BY <1>1
  <2>2. CASE j \in 1 .. n
    <3>1. PICK k \in i + 1 .. j - 1 : events[k].type = "CONNECTED"
      BY <1>1, <2>1, <2>2 DEF Separated, n
    <3> QED BY <1>1, <2>2, <3>1
  <2>3. CASE j = n + 1
    <3>1. Renewed
      BY <1>1, <1>3, <2>3
    <3>2. PICK k \in i + 1 .. n : events[k].type = "CONNECTED"
      BY <2>1, <3>1 DEF Renewed, n
    <3> QED BY <1>1, <2>3, <3>2
  <2> QED BY <1>1, <2>2, <2>3
<1>4. ASSUME e.type = "CONNECTED" PROVE Renewed'
  <2> SUFFICES ASSUME NEW i \in 1 .. n + 1, events'[i].type = "DISCONNECTED"
               PROVE  \E k \in i + 1 .. n + 1 : events'[k].type = "CONNECTED"
    BY <1>1 DEF Renewed
  <2>1. n + 1 \in i + 1 .. n + 1
    BY <1>1, <1>4
  <2> QED BY <1>1, <1>4, <2>1
<1>5. ASSUME e.type = "TX_COMPLETE", Renewed PROVE Renewed'
  <2> SUFFICES ASSUME NEW i \in 1 .. n + 1, events'[i].type = "DISCONNECTED"
               PROVE  \E k \in i + 1 .. n + 1 : events'[k].type = "CONNECTED"
    BY <1>1 DEF Renewed
  <2>1. i \in 1 .. n /\ events[i].type = "DISCONNECTED"
    BY <1>1, <1>5
  <2>2. PICK k \in i + 1 .. n : events[k].type = "CONNECTED"
    BY <1>5, <2>1 DEF Renewed, n
  <2> QED BY <1>1, <2>2
<1>6. ASSUME Single, e.type # "CONNECTED" \/ ~Pending("CONNECTED") PROVE Single'
  BY <1>1, <1>6 DEF Single, Pending, n
<1> QED BY <1>2, <1>3, <1>4, <1>5, <1>6

LEMMA EventsStep == TypeOK /\ EventsAlternate /\ [Next]_vars => EventsAlternate'
<1> SUFFICES ASSUME TypeOK, EventsAlternate, [Next]_vars PROVE EventsAlternate'
  OBVIOUS
<1> DEFINE Parts ==
        /\ Pending("DISCONNECTED") => active \/ Pending("CONNECTED")
        /\ Separated
        /\ link # "down" => (active \/ Pending("CONNECTED")) /\ Renewed
        /\ fresh /\ link # "down" => ~Pending("DISCONNECTED")
        /\ fresh => Single
<1>a. Parts
  BY DEF EventsAlternate, Separated, Renewed, Single
<1>b. Parts' => EventsAlternate'
  BY DEF EventsAlternate, Separated, Renewed, Single
<1>0. ASSUME UNCHANGED <<events, active, fresh>>, link' = "down" <=> link = "down"
      PROVE  EventsAlternate'
  BY <1>0 DEF EventsAlternate, Pending
<1>1. CASE Send
  BY <1>0, <1>1, SendKeepsLink DEF Send
<1>2. ASSUME handle_connection_event \/ handle_connection_event_orphan PROVE EventsAlternate'
  <2>1. /\ Handle("CONNECTED") /\ active' /\ fresh' = fresh
        /\ link' = "down" <=> link = "down"
    BY <1>2, SendKeepsLink DEF handle_connection_event, handle_connection_event_orphan
  <2> QED BY <2>1, <1>a, <1>b, TakenKeeps
<1>3. CASE handle_disconnection_event
  <2>1. Handle("DISCONNECTED") /\ ~active' /\ fresh' = fresh /\ link' = link
    BY <1>3 DEF handle_disconnection_event
  <2> QED BY <2>1, <1>a, <1>b, TakenKeeps
<1>4. CASE handle_buffers_freed_event
  <2>1. Handle("TX_COMPLETE") /\ active' = active /\ fresh' = fresh /\ link' = link
    BY <1>4 DEF handle_buffers_freed_event
  <2> QED BY <2>1, <1>a, <1>b, TakenKeeps
<1>5. ASSUME NEW k \in 1 .. Len(onAir), Acknowledge(k) PROVE EventsAlternate'
  <2>1. active' = active /\ fresh' = fresh /\ link' = link
    BY <1>5 DEF Acknowledge
  <2>2. CASE events' = events
    BY <1>0, <2>1, <2>2
  <2>3. CASE events' = Append(events, [type |-> "TX_COMPLETE", count |-> k])
    <3> DEFINE e == [type |-> "TX_COMPLETE", count |-> k]
    <3>1. e \in Event /\ e.type = "TX_COMPLETE"
      BY DEF Event, TypeOK
    <3> HIDE DEF e
    <3>2. events' = Append(events, e)
      BY <2>3 DEF e
    <3> QED BY <2>1, <3>1, <3>2, <1>a, <1>b, AddedKeeps
  <2> QED BY <1>5, <2>2, <2>3 DEF Acknowledge
<1>6. CASE LinkLost
  <2> DEFINE e == [type |-> "DISCONNECTED"]
  <2>1. active' = active /\ fresh' = fresh /\ link' = "down" /\ link # "down"
        /\ events' = Append(events, e)
    BY <1>6 DEF LinkLost
  <2>2. e \in Event /\ e.type = "DISCONNECTED"
    BY DEF Event
  <2> HIDE DEF e
  <2> QED BY <2>1, <2>2, <1>a, <1>b, AddedKeeps
<1>7. CASE LinkEstablished
  <2> DEFINE e == [type |-> "CONNECTED"]
  <2>1. active' = active /\ fresh' = (~active /\ ~Pending("CONNECTED"))
        /\ link' = "up" /\ link = "down" /\ events' = Append(events, e)
    BY <1>7 DEF LinkEstablished
  <2>2. e \in Event /\ e.type = "CONNECTED"
    BY DEF Event
  <2>3. ~Pending("CONNECTED") => Single
    BY DEF Pending, Single
  <2> HIDE DEF e
  <2> QED BY <2>1, <2>2, <2>3, <1>a, <1>b, AddedKeeps
<1>8. CASE UNCHANGED vars
  BY <1>0, <1>8 DEF vars
<1> QED BY <1>1, <1>2, <1>3, <1>4, <1>5, <1>6, <1>7, <1>8 DEF Next, MainLoop

--------------------------------------------------------------------------------
(* Counting the buffers that the waiting events report free. *)

LEMMA FreedIsFinite ==
    ASSUME NEW es \in Seq(Event)
    PROVE  IsFiniteSet(Freed(es)) /\ Cardinality(Freed(es)) \in Nat
<1>1. IsFiniteSet(1 .. Len(es)) /\ IsFiniteSet(1 .. TX_BUFFERS)
  BY FS_Interval, OutboxAssumption
<1>2. IsFiniteSet((1 .. Len(es)) \X (1 .. TX_BUFFERS))
  BY <1>1, FS_Product
<1>3. Freed(es) \in SUBSET ((1 .. Len(es)) \X (1 .. TX_BUFFERS))
  BY DEF Freed
<1>4. IsFiniteSet(Freed(es))
  BY <1>2, <1>3, FS_Subset
<1> QED BY <1>4, FS_CardinalityType

\* One column of the count.
LEMMA ColumnSize ==
    ASSUME NEW i, NEW k \in Nat
    PROVE  IsFiniteSet({i} \X (1 .. k)) /\ Cardinality({i} \X (1 .. k)) = k
<1>1. IsFiniteSet({i}) /\ Cardinality({i}) = 1
  BY FS_Singleton
<1>2. IsFiniteSet(1 .. k) /\ Cardinality(1 .. k) = k
  BY FS_Interval
<1>3. /\ IsFiniteSet({i} \X (1 .. k))
      /\ Cardinality({i} \X (1 .. k)) = Cardinality({i}) * Cardinality(1 .. k)
  BY <1>1, <1>2, FS_Product, Zenon
<1> QED BY <1>1, <1>2, <1>3

LEMMA AppendedAt ==
    ASSUME NEW es \in Seq(Event), NEW e \in Event
    PROVE  /\ Len(es) \in Nat
           /\ Len(Append(es, e)) = Len(es) + 1
           /\ \A i \in 1 .. Len(es) : Append(es, e)[i] = es[i]
           /\ Append(es, e)[Len(es) + 1] = e
  OBVIOUS

\* An event of another type reports nothing free.
LEMMA FreedByOther ==
    ASSUME NEW es \in Seq(Event), NEW e \in Event, e.type # "TX_COMPLETE"
    PROVE  Freed(Append(es, e)) = Freed(es)
<1> DEFINE n == Len(es)
           fs == Append(es, e)
<1>1. /\ n \in Nat /\ Len(fs) = n + 1 /\ fs[n + 1] = e
      /\ \A i \in 1 .. n : fs[i] = es[i]
  BY AppendedAt
<1> HIDE DEF fs
<1>2. \A i \in 1 .. Len(fs) : fs[i].type = "TX_COMPLETE" => i \in 1 .. n
  BY <1>1
<1>3. \A i \in 1 .. n : i \in 1 .. Len(fs)
  BY <1>1
<1> HIDE DEF n
<1>4. ASSUME NEW i, NEW k
      PROVE  /\ i \in 1 .. Len(fs) /\ fs[i].type = "TX_COMPLETE" /\ k <= fs[i].count
                 <=> i \in 1 .. n /\ es[i].type = "TX_COMPLETE" /\ k <= es[i].count
  BY <1>1, <1>2, <1>3
<1>5. Freed(fs) = Freed(es)
  BY <1>4 DEF Freed, n
<1> QED BY <1>5 DEF fs

\* A TX_COMPLETE event of count k adds k.
LEMMA FreedByTransmission ==
    ASSUME NEW es \in Seq(Event), NEW k \in 1 .. TX_BUFFERS
    PROVE  Cardinality(Freed(Append(es, [type |-> "TX_COMPLETE", count |-> k])))
               = Cardinality(Freed(es)) + k
<1> DEFINE n == Len(es)
           e == [type |-> "TX_COMPLETE", count |-> k]
           fs == Append(es, e)
           new == {n + 1} \X (1 .. k)
<1> USE OutboxAssumption
<1>0. e \in Event /\ k \in Nat /\ e.type = "TX_COMPLETE" /\ e.count = k
  BY DEF Event
<1> HIDE DEF e
<1>1. /\ n \in Nat /\ Len(fs) = n + 1 /\ fs[n + 1] = e
      /\ \A i \in 1 .. n : fs[i] = es[i]
  BY <1>0, AppendedAt
<1> HIDE DEF fs
<1>2. ASSUME NEW x
      PROVE  x \in Freed(fs) <=> x \in Freed(es) \/ x \in new
  <2>1. x \in Freed(fs) => x \in Freed(es) \/ x \in new
    <3> SUFFICES ASSUME x \in Freed(fs) PROVE x \in Freed(es) \/ x \in new
      OBVIOUS
    <3>1. PICK i \in 1 .. Len(fs), j \in 1 .. TX_BUFFERS :
              x = <<i, j>> /\ fs[i].type = "TX_COMPLETE" /\ j <= fs[i].count
      BY DEF Freed
    <3>2. CASE i = n + 1
      <4>1. j \in 1 .. k
        BY <1>0, <1>1, <3>1, <3>2
      <4> QED BY <3>1, <3>2, <4>1
    <3>3. CASE i # n + 1
      <4>1. i \in 1 .. n /\ fs[i] = es[i]
        BY <1>1, <3>3
      <4> QED BY <3>1, <4>1 DEF Freed
    <3> QED BY <3>2, <3>3
  <2>2. x \in Freed(es) => x \in Freed(fs)
    <3> SUFFICES ASSUME x \in Freed(es) PROVE x \in Freed(fs)
      OBVIOUS
    <3>1. PICK i \in 1 .. n, j \in 1 .. TX_BUFFERS :
              x = <<i, j>> /\ es[i].type = "TX_COMPLETE" /\ j <= es[i].count
      BY DEF Freed
    <3>2. i \in 1 .. Len(fs) /\ fs[i] = es[i]
      BY <1>1
    <3> QED BY <3>1, <3>2 DEF Freed
  <2>3. x \in new => x \in Freed(fs)
    <3> SUFFICES ASSUME NEW j \in 1 .. k, x = <<n + 1, j>> PROVE x \in Freed(fs)
      OBVIOUS
    <3>1. n + 1 \in 1 .. Len(fs) /\ j \in 1 .. TX_BUFFERS /\ j <= fs[n + 1].count
      BY <1>0, <1>1
    <3> QED BY <1>0, <1>1, <3>1 DEF Freed
  <2> QED BY <2>1, <2>2, <2>3
<1>3. Freed(fs) = Freed(es) \cup new
  BY <1>2
<1>4. Freed(es) \cap new = {}
  <2> SUFFICES ASSUME NEW x \in Freed(es), x \in new PROVE FALSE
    OBVIOUS
  <2>1. x[1] \in 1 .. n /\ x[1] = n + 1
    BY DEF Freed
  <2> QED BY <1>1, <2>1
<1>5. IsFiniteSet(new) /\ Cardinality(new) = k
  BY <1>0, ColumnSize
<1>6. IsFiniteSet(Freed(es)) /\ Cardinality(Freed(es)) \in Nat
  BY FreedIsFinite
<1> HIDE DEF new
<1>7. Cardinality(Freed(es) \cup new)
          = Cardinality(Freed(es)) + Cardinality(new) - Cardinality(Freed(es) \cap new)
  BY <1>5, <1>6, FS_Union
<1>8. Cardinality(Freed(es) \cap new) = 0
  BY <1>4, FS_EmptySet
<1>9. Cardinality(Freed(fs)) = Cardinality(Freed(es)) + k
  BY <1>0, <1>3, <1>5, <1>6, <1>7, <1>8
<1> QED BY <1>9 DEF fs, e

\* What is left of the count when an event is taken off the front: all of it, but
\* for the count of a TX_COMPLETE event.
LEMMA FreedBehind ==
    ASSUME NEW es \in Seq(Event), es # <<>>, NEW c \in Nat,
           Head(es).type = "TX_COMPLETE" => c = Head(es).count
    PROVE  Cardinality(Freed(Tail(es))) + c >= Cardinality(Freed(es))
<1> DEFINE n == Len(es)
           fs == Tail(es)
           first == {1} \X (1 .. c)
           rest == {x \in Freed(es) : x[1] # 1}
           shift == [x \in rest |-> <<x[1] - 1, x[2]>>]
<1> USE OutboxAssumption
<1>1. /\ n \in Nat \ {0} /\ es[1] = Head(es) /\ fs \in Seq(Event)
      /\ Len(fs) = n - 1 /\ \A i \in 1 .. n - 1 : fs[i] = es[i + 1]
  OBVIOUS
<1> HIDE DEF fs
<1>2. IsFiniteSet(Freed(es)) /\ Cardinality(Freed(es)) \in Nat
  BY FreedIsFinite
<1>3. IsFiniteSet(Freed(fs)) /\ Cardinality(Freed(fs)) \in Nat
  BY <1>1, FreedIsFinite
<1>4. IsFiniteSet(first) /\ Cardinality(first) = c
  BY ColumnSize
<1>5. \A x \in rest : shift[x] \in Freed(fs)
  <2> SUFFICES ASSUME NEW x \in rest PROVE <<x[1] - 1, x[2]>> \in Freed(fs)
    OBVIOUS
  <2>1. PICK i \in 1 .. n, j \in 1 .. TX_BUFFERS :
            x = <<i, j>> /\ es[i].type = "TX_COMPLETE" /\ j <= es[i].count
    BY DEF Freed
  <2>2. x[1] = i /\ x[2] = j /\ i # 1
    BY <2>1
  <2>3. i - 1 \in 1 .. Len(fs) /\ fs[i - 1] = es[i]
    BY <1>1, <2>2
  <2>4. <<i - 1, j>> \in Freed(fs)
    BY <2>1, <2>3 DEF Freed
  <2> QED BY <2>2, <2>4
<1>6. \A x, y \in rest : shift[x] = shift[y] => x = y
  <2> SUFFICES ASSUME NEW x \in rest, NEW y \in rest, shift[x] = shift[y] PROVE x = y
    OBVIOUS
  <2>1. PICK i \in 1 .. n, j \in 1 .. TX_BUFFERS : x = <<i, j>>
    BY DEF Freed
  <2>2. PICK k \in 1 .. n, l \in 1 .. TX_BUFFERS : y = <<k, l>>
    BY DEF Freed
  <2>3. <<i - 1, j>> = <<k - 1, l>>
    BY <2>1, <2>2
  <2>4. i - 1 = k - 1 /\ j = l
    BY <2>3
  <2> QED BY <1>1, <2>1, <2>2, <2>4
<1>7. shift \in Injection(rest, Freed(fs))
  <2>1. shift \in [rest -> Freed(fs)]
    BY <1>5
  <2> HIDE DEF shift, rest
  <2> QED BY <1>6, <2>1 DEF Injection, IsInjective
<1> HIDE DEF shift
<1>8. IsFiniteSet(rest) /\ Cardinality(rest) <= Cardinality(Freed(fs))
  BY <1>3, <1>7, FS_Injection
<1>9. Freed(es) \subseteq first \cup rest
  <2> SUFFICES ASSUME NEW x \in Freed(es), x[1] = 1 PROVE x \in first
    OBVIOUS
  <2>1. PICK i \in 1 .. n, j \in 1 .. TX_BUFFERS :
            x = <<i, j>> /\ es[i].type = "TX_COMPLETE" /\ j <= es[i].count
    BY DEF Freed
  <2>2. i = 1 /\ j \in 1 .. c
    BY <1>1, <2>1
  <2> QED BY <2>1, <2>2
<1> HIDE DEF first, rest
<1>10. /\ IsFiniteSet(first \cup rest)
       /\ Cardinality(first \cup rest)
              = Cardinality(first) + Cardinality(rest) - Cardinality(first \cap rest)
  BY <1>4, <1>8, FS_Union
<1>11. /\ Cardinality(first \cap rest) \in Nat /\ Cardinality(rest) \in Nat
  BY <1>4, <1>8, FS_Intersection, FS_CardinalityType
<1>12. Cardinality(Freed(es)) <= Cardinality(first \cup rest)
  BY <1>9, <1>10, FS_Subset
<1>13. Cardinality(Freed(fs)) + c >= Cardinality(Freed(es))
  BY <1>2, <1>3, <1>4, <1>8, <1>10, <1>11, <1>12
<1> QED BY <1>13 DEF fs
--------------------------------------------------------------------------------
(* Quiet, InOrder and NoStall are preserved. *)

\* A message offered to a connection is refused, and costs it the link, or is
\* numbered, queued and, if the softdevice has room, put on air.
LEMMA SendsOne ==
    ASSUME TypeOK, send_to_single_connection
    PROVE  \/ /\ link' # "up" /\ (link' = "down" <=> link = "down")
              /\ UNCHANGED <<onAir, unsent, accepted>>
           \/ /\ link' = link /\ accepted' = accepted + 1
              /\ link # "up" => onAir' = onAir
              /\ link = "up" => onAir' # <<>>
              /\ \A r \in Seq(Message) :
                     (r \o onAir') \o unsent' = (r \o onAir) \o Append(unsent, accepted + 1)
<1> USE OutboxAssumption
<1>0. Len(unsent) \in Nat /\ accepted \in Nat /\ unsent \in Seq(Message)
  BY DEF TypeOK
<1>1. CASE Len(unsent) < MAX_QUEUE_SIZE
  <2>1. /\ accepted' = accepted + 1 /\ link' = link
        /\ send_messages_from_connection_queue(1, Append(unsent, accepted'))
    BY <1>0, <1>1 DEF send_to_single_connection
  <2> DEFINE q == Append(unsent, accepted + 1)
  <2>2. accepted + 1 \in Message
    BY <1>0 DEF Message
  <2>3. q \in Seq(Message) /\ q # <<>>
    BY <1>0, <2>2
  <2> HIDE DEF q
  <2>4. send_messages_from_connection_queue(1, q)
    BY <2>1 DEF q
  <2>5. /\ link # "up" => onAir' = onAir
        /\ link = "up" => onAir' # <<>>
        /\ \A r \in Seq(Message) : (r \o onAir') \o unsent' = (r \o onAir) \o q
    BY <2>3, <2>4, Sends
  <2> QED BY <2>1, <2>5 DEF q
<1>2. CASE Len(unsent) >= MAX_QUEUE_SIZE
  <2>1. disconnect_from_peer /\ UNCHANGED <<onAir, unsent, accepted>>
    BY <1>0, <1>2 DEF send_to_single_connection
  <2> QED BY <2>1 DEF disconnect_from_peer
<1>3. Len(unsent) < MAX_QUEUE_SIZE \/ Len(unsent) >= MAX_QUEUE_SIZE
  BY <1>0
<1> QED BY <1>1, <1>2, <1>3, Zenon

LEMMA QuietStep == TypeOK /\ EventsAlternate /\ Quiet /\ [Next]_vars => Quiet'
<1> SUFFICES ASSUME TypeOK, EventsAlternate, Quiet, [Next]_vars PROVE Quiet'
  OBVIOUS
<1>0. Separated /\ (fresh => Single)
  BY DEF EventsAlternate, Separated, Single
<1>1. CASE Send
  <2>1. active /\ UNCHANGED <<events, active, delivered, fresh>> /\ send_to_single_connection
    BY <1>1 DEF Send
  <2>2. (link' = "down" <=> link = "down") /\ (link = "down" => onAir' = onAir)
    BY <2>1, SendsOne
  <2> QED BY <2>1, <2>2 DEF Quiet, Pending
<1>2. CASE handle_connection_event
  <2>1. Handle("CONNECTED") /\ active' /\ fresh' = fresh /\ send_to_single_connection
    BY <1>2 DEF handle_connection_event
  <2>2. (link' = "down" <=> link = "down") /\ (link = "down" => onAir' = onAir)
    BY <2>1, SendsOne
  <2>3. fresh => ~Pending("CONNECTED")'
    BY <1>0, <2>1, TakenKeeps
  <2> QED BY <2>1, <2>2, <2>3 DEF Quiet
<1>3. CASE handle_connection_event_orphan
  <2>1. Handle("CONNECTED") /\ active' /\ fresh' = fresh /\ disconnect_from_peer
        /\ UNCHANGED <<onAir, accepted>>
    BY <1>3 DEF handle_connection_event_orphan
  <2>2. link' = "down" <=> link = "down"
    BY <2>1, SendKeepsLink
  <2>3. fresh => ~Pending("CONNECTED")'
    BY <1>0, <2>1, TakenKeeps
  <2> QED BY <2>1, <2>2, <2>3 DEF Quiet
<1>4. CASE handle_disconnection_event
  <2>1. /\ Handle("DISCONNECTED") /\ ~active' /\ unsent' = <<>> /\ accepted' = 0
        /\ UNCHANGED <<link, onAir, delivered, fresh>>
    BY <1>4 DEF handle_disconnection_event
  <2>2. Pending("CONNECTED")' => Pending("CONNECTED")
    BY <1>0, <2>1, TakenKeeps
  <2> QED BY <2>1, <2>2 DEF Quiet
<1>5. CASE handle_buffers_freed_event
  <2>1. Handle("TX_COMPLETE") /\ UNCHANGED <<link, active, accepted, delivered, fresh>>
    BY <1>5 DEF handle_buffers_freed_event
  <2>2. Pending("CONNECTED")' => Pending("CONNECTED")
    BY <1>0, <2>1, TakenKeeps
  <2>3. ~active => UNCHANGED <<onAir, unsent>>
    BY <1>5 DEF handle_buffers_freed_event
  <2>4. ASSUME active, link # "up" PROVE onAir' = onAir
    <3>1. Head(events).count \in Nat /\ unsent \in Seq(Message)
      BY <2>1, Taken DEF Event, TypeOK
    <3> QED BY <1>5, <2>4, <3>1, Sends DEF handle_buffers_freed_event
  <2> QED BY <2>1, <2>2, <2>3, <2>4 DEF Quiet
<1>6. ASSUME NEW k \in 1 .. Len(onAir), Acknowledge(k) PROVE Quiet'
  <2>1. link # "down" /\ UNCHANGED <<link, active, unsent, accepted, fresh>>
    BY <1>6 DEF Acknowledge
  <2>2. onAir # <<>>
    BY Nothing
  <2>3. Pending("CONNECTED")' => Pending("CONNECTED")
    <3>1. CASE events' = events
      BY <3>1 DEF Pending
    <3>2. CASE events' = Append(events, [type |-> "TX_COMPLETE", count |-> k])
      <4>1. [type |-> "TX_COMPLETE", count |-> k] \in Event
        BY DEF Event, TypeOK
      <4> QED BY <1>0, <3>2, <4>1, AddedKeeps
    <3> QED BY <1>6, <3>1, <3>2 DEF Acknowledge
  <2> QED BY <2>1, <2>2, <2>3 DEF Quiet
<1>7. CASE LinkLost
  <2>1. PICK k \in 0 .. Len(onAir) : Receive(k)
    BY <1>7 DEF LinkLost
  <2>2. onAir' = <<>> /\ UNCHANGED <<active, unsent, accepted, fresh>>
        /\ events' = Append(events, [type |-> "DISCONNECTED"])
    BY <1>7 DEF LinkLost
  <2>3. Pending("CONNECTED")' => Pending("CONNECTED")
    <3>1. [type |-> "DISCONNECTED"] \in Event
      BY DEF Event
    <3> QED BY <1>0, <2>2, <3>1, AddedKeeps
  <2>4. delivered = <<>> /\ onAir = <<>> => delivered' = <<>>
    <3> SUFFICES ASSUME delivered = <<>>, onAir = <<>> PROVE delivered' = <<>>
      OBVIOUS
    <3>1. /\ k \in 0 .. Len(onAir) /\ onAir \in Seq(Message) /\ delivered \in Seq(Message)
          /\ Len(onAir) = 0 /\ Len(delivered) = 0
      BY Nothing DEF TypeOK
    <3>2. delivered' \in Seq(Message) /\ Len(delivered') = 0
      BY <2>1, <3>1, Received
    <3> QED BY <3>2, EmptySeq
  <2> QED BY <2>2, <2>3, <2>4 DEF Quiet
<1>8. CASE LinkEstablished
  BY <1>8 DEF LinkEstablished, Quiet
<1>9. CASE UNCHANGED vars
  BY <1>9 DEF vars, Quiet, Pending
<1> QED BY <1>1, <1>2, <1>3, <1>4, <1>5, <1>6, <1>7, <1>8, <1>9 DEF Next, MainLoop

LEMMA InOrderStep ==
    TypeOK /\ EventsAlternate /\ Quiet /\ InOrder /\ [Next]_vars => InOrder'
<1> SUFFICES ASSUME TypeOK, EventsAlternate, Quiet, InOrder, [Next]_vars PROVE InOrder'
  OBVIOUS
<1> DEFINE Whole == (delivered \o onAir) \o unsent = Numbered(accepted)
           Prefixed == \A k \in 1 .. Len(delivered) : delivered[k] = k /\ k <= accepted
<1>a. fresh => (link # "down" => Whole) /\ (active => Prefixed)
  BY DEF InOrder, Numbered
<1>b. (fresh => (link # "down" => Whole) /\ (active => Prefixed))' => InOrder'
  BY DEF InOrder, Numbered
<1>c. /\ accepted \in Nat /\ delivered \in Seq(Message) /\ onAir \in Seq(Message)
      /\ unsent \in Seq(Message) /\ delivered \o onAir \in Seq(Message)
  BY ConcatProperties DEF TypeOK
<1>d. ASSUME send_to_single_connection, delivered' = delivered, fresh' = fresh,
             fresh => Prefixed
      PROVE  InOrder'
  <2>1. CASE /\ link' # "up" /\ (link' = "down" <=> link = "down")
             /\ UNCHANGED <<onAir, unsent, accepted>>
    BY <1>a, <1>b, <1>d, <2>1
  <2>2. CASE /\ link' = link /\ accepted' = accepted + 1
             /\ \A r \in Seq(Message) :
                    (r \o onAir') \o unsent' = (r \o onAir) \o Append(unsent, accepted + 1)
    <3>1. fresh => Prefixed'
      BY <1>c, <1>d, <2>2
    <3>2. (delivered' \o onAir') \o unsent' = (delivered \o onAir) \o Append(unsent, accepted + 1)
      BY <1>c, <1>d, <2>2
    <3>3. Whole => (delivered \o onAir) \o Append(unsent, accepted + 1) = Numbered(accepted + 1)
      BY <1>c, NumberNext
    <3>4. Whole => Whole'
      BY <2>2, <3>2, <3>3
    <3> HIDE DEF Whole, Prefixed
    <3> QED BY <1>a, <1>b, <1>d, <2>2, <3>1, <3>4
  <2> QED BY <1>d, <2>1, <2>2, SendsOne
<1>1. CASE Send
  <2>1. active /\ UNCHANGED <<delivered, fresh>> /\ send_to_single_connection
    BY <1>1 DEF Send
  <2> QED BY <1>a, <1>d, <2>1
<1>2. ASSUME Handle("CONNECTED"), fresh PROVE delivered = <<>> /\ Prefixed
  <2>1. Pending("CONNECTED")
    BY <1>2, Taken DEF Pending
  <2> QED BY <1>2, <2>1, Nothing DEF Quiet
<1>3. CASE handle_connection_event
  <2>1. Handle("CONNECTED") /\ UNCHANGED <<delivered, fresh>> /\ send_to_single_connection
    BY <1>3 DEF handle_connection_event
  <2> HIDE DEF Whole, Prefixed
  <2> QED BY <1>d, <1>2, <2>1
<1>4. CASE handle_connection_event_orphan
  <2>1. /\ Handle("CONNECTED") /\ disconnect_from_peer
        /\ UNCHANGED <<onAir, unsent, accepted, delivered, fresh>>
    BY <1>4 DEF handle_connection_event_orphan
  <2>2. link' = "down" <=> link = "down"
    BY <2>1, SendKeepsLink
  <2> QED BY <1>a, <1>b, <1>2, <2>1, <2>2
<1>5. CASE handle_disconnection_event
  <2>1. Handle("DISCONNECTED") /\ ~active' /\ link' = link /\ fresh' = fresh
    BY <1>5 DEF handle_disconnection_event
  <2>2. Pending("DISCONNECTED")
    BY <2>1, Taken DEF Pending
  <2>3. fresh => link = "down"
    BY <2>2 DEF EventsAlternate
  <2> HIDE DEF Whole, Prefixed
  <2> QED BY <1>b, <2>1, <2>3
<1>6. CASE handle_buffers_freed_event
  <2>1. Handle("TX_COMPLETE") /\ UNCHANGED <<link, active, accepted, delivered, fresh>>
    BY <1>6 DEF handle_buffers_freed_event
  <2>2. CASE ~active
    <3>1. UNCHANGED <<onAir, unsent>>
      BY <1>6, <2>2 DEF handle_buffers_freed_event
    <3> QED BY <1>a, <1>b, <2>1, <3>1
  <2>3. CASE active
    <3>1. Head(events).count \in Nat
      BY <2>1, Taken DEF Event
    <3>2. \A r \in Seq(Message) : (r \o onAir') \o unsent' = (r \o onAir) \o unsent
      BY <1>6, <1>c, <2>3, <3>1, Sends DEF handle_buffers_freed_event
    <3>3. (delivered' \o onAir') \o unsent' = (delivered \o onAir) \o unsent
      BY <1>c, <2>1, <3>2
    <3> QED BY <1>a, <1>b, <2>1, <3>3
  <2> QED BY <2>2, <2>3
<1>7. ASSUME NEW k \in 0 .. Len(onAir), Receive(k), link # "down", fresh,
             UNCHANGED <<accepted, unsent>>
      PROVE  /\ Prefixed'
             /\ onAir' = SubSeq(onAir, k + 1, Len(onAir)) => Whole'
  <2>1. Whole
    BY <1>a, <1>7
  <2>2. Prefixed'
    <3>1. delivered' = delivered \o SubSeq(onAir, 1, k)
      BY <1>7 DEF Receive
    <3>2. \A i \in 1 .. Len(delivered \o SubSeq(onAir, 1, k)) :
              (delivered \o SubSeq(onAir, 1, k))[i] = i /\ i <= accepted
      BY <1>c, <2>1, NumberedFront
    <3> QED BY <1>7, <3>1, <3>2
  <2>3. delivered' \o SubSeq(onAir, k + 1, Len(onAir)) = delivered \o onAir
    BY <1>7, Received, Zenon
  <2> QED BY <1>7, <2>1, <2>2, <2>3
<1>8. ASSUME NEW k \in 1 .. Len(onAir), Acknowledge(k) PROVE InOrder'
  <2>1. /\ k \in 0 .. Len(onAir) /\ Receive(k) /\ link # "down"
        /\ onAir' = SubSeq(onAir, k + 1, Len(onAir))
        /\ UNCHANGED <<link, active, unsent, accepted, fresh>>
    BY <1>8 DEF Acknowledge
  <2>2. fresh => Prefixed' /\ Whole'
    BY <1>7, <2>1
  <2> HIDE DEF Whole, Prefixed
  <2> QED BY <1>b, <2>1, <2>2
<1>9. CASE LinkLost
  <2>1. PICK k \in 0 .. Len(onAir) : Receive(k)
    BY <1>9 DEF LinkLost
  <2>2. link # "down" /\ link' = "down" /\ UNCHANGED <<active, unsent, accepted, fresh>>
    BY <1>9 DEF LinkLost
  <2>3. fresh => Prefixed'
    BY <1>7, <2>1, <2>2
  <2> HIDE DEF Whole, Prefixed
  <2> QED BY <1>b, <2>2, <2>3
<1>10. CASE LinkEstablished
  <2>1. /\ delivered' = <<>> /\ fresh' = (~active /\ ~Pending("CONNECTED")) /\ link = "down"
        /\ UNCHANGED <<onAir, active, unsent, accepted>>
    BY <1>10 DEF LinkEstablished
  <2>2. fresh' => ~active' /\ onAir' = <<>> /\ unsent' = <<>> /\ accepted' = 0
    BY <2>1 DEF Quiet
  <2>3. (<<>> \o <<>>) \o <<>> = Numbered(0)
    <3>1. <<>> \o <<>> = <<>>
      BY Nothing, ConcatEmptySeq
    <3>2. Numbered(0) = <<>>
      BY DEF Numbered
    <3> QED BY <3>1, <3>2
  <2> QED BY <1>b, <2>1, <2>2, <2>3
<1>11. CASE UNCHANGED vars
  BY <1>a, <1>b, <1>11 DEF vars
<1> QED BY <1>1, <1>3, <1>4, <1>5, <1>6, <1>8, <1>9, <1>10, <1>11 DEF Next, MainLoop

LEMMA NoStallStep ==
    TypeOK /\ Quiet /\ NoStall /\ [Next]_vars => NoStall'
<1> SUFFICES ASSUME TypeOK, Quiet, NoStall, [Next]_vars, fresh', link' = "up", unsent' # <<>>, drops' = 0
             PROVE  onAir' # <<>> \/ Pending("TX_COMPLETE")'
  BY DEF NoStall
<1>1. CASE send_to_single_connection
  BY <1>1, SendsOne
<1>2. CASE Send \/ handle_connection_event
  BY <1>1, <1>2 DEF Send, handle_connection_event
<1>3. CASE handle_connection_event_orphan
  BY <1>3 DEF handle_connection_event_orphan, disconnect_from_peer
<1>4. CASE handle_disconnection_event
  BY <1>4 DEF handle_disconnection_event
<1>5. CASE handle_buffers_freed_event
  <2>1. Handle("TX_COMPLETE") /\ UNCHANGED <<link, active, drops, fresh>>
    BY <1>5 DEF handle_buffers_freed_event
  <2>2. active
    BY <1>5, <2>1 DEF handle_buffers_freed_event, Quiet
  <2>3. Head(events).count \in Nat /\ Head(events).count >= 1 /\ unsent \in Seq(Message)
    BY <2>1, Taken DEF Event, TypeOK
  <2> QED BY <1>5, <2>1, <2>2, <2>3, Sends DEF handle_buffers_freed_event
<1>6. ASSUME NEW k \in 1 .. Len(onAir), Acknowledge(k)
      PROVE  onAir' # <<>> \/ Pending("TX_COMPLETE")'
  <2>1. events' = Append(events, [type |-> "TX_COMPLETE", count |-> k])
    BY <1>6 DEF Acknowledge, TypeOK
  <2>2. [type |-> "TX_COMPLETE", count |-> k] \in Event
    BY DEF Event, TypeOK
  <2>3. /\ Len(events) + 1 \in 1 .. Len(events')
        /\ events'[Len(events) + 1].type = "TX_COMPLETE"
    BY <2>1, <2>2, Added
  <2> QED BY <2>3 DEF Pending
<1>7. CASE LinkLost
  BY <1>7 DEF LinkLost
<1>8. CASE LinkEstablished
  BY <1>8 DEF LinkEstablished, Quiet
<1>9. CASE UNCHANGED vars
  BY <1>9 DEF vars, NoStall, Pending
<1> QED BY <1>2, <1>3, <1>4, <1>5, <1>6, <1>7, <1>8, <1>9 DEF Next, MainLoop

\* BuffersBusy is preserved: a send fills the buffers, sends the message or finds
\* the queue as it was; what leaves the air is owed by the event that says so,
\* and the handler of that event sends as many again.
LEMMA BuffersStep ==
    TypeOK /\ EventsAlternate /\ Quiet /\ BuffersBusy /\ [Next]_vars => BuffersBusy'
<1> SUFFICES ASSUME TypeOK, EventsAlternate, Quiet, BuffersBusy, [Next]_vars,
                    fresh', link' = "up", unsent' # <<>>, drops' = 0
             PROVE  Len(onAir') + Owed' >= TX_BUFFERS
  BY DEF BuffersBusy
<1> USE OutboxAssumption
<1>a. /\ Owed = Cardinality(Freed(events)) /\ Owed' = Cardinality(Freed(events'))
      /\ events \in Seq(Event) /\ unsent \in Seq(Message) /\ Len(onAir) \in Nat
  BY DEF Owed, TypeOK
<1>b. Owed \in Nat
  BY <1>a, FreedIsFinite
<1>c. fresh /\ link = "up" /\ unsent # <<>> /\ drops = 0 => Len(onAir) + Owed >= TX_BUFFERS
  BY DEF BuffersBusy
<1>d. Owed' \in Nat
  <2>1. events' \in Seq(Event)
    BY TypeStep DEF TypeOK
  <2> QED BY <1>a, <2>1, FreedIsFinite
<1>e. onAir' \in Seq(Message) /\ Len(onAir') \in Nat
  BY TypeStep DEF TypeOK
<1>1. ASSUME send_to_single_connection, link = "up", fresh, drops = 0, unsent # <<>>
      PROVE  Len(onAir') >= Len(onAir)
  <2>1. CASE Len(unsent) < MAX_QUEUE_SIZE
    <3>1. /\ accepted' = accepted + 1
          /\ send_messages_from_connection_queue(1, Append(unsent, accepted'))
      BY <1>1, <2>1 DEF send_to_single_connection, TypeOK
    <3>2. Append(unsent, accepted') \in Seq(Message)
      BY <3>1 DEF TypeOK, Message
    <3> QED BY <3>1, <3>2, Sends
  <2>2. CASE Len(unsent) >= MAX_QUEUE_SIZE
    BY <1>1, <1>a, <2>2 DEF send_to_single_connection, TypeOK
  <2> QED BY <2>1, <2>2, <1>a
<1>2. ASSUME send_to_single_connection, unsent = <<>> PROVE Len(onAir') >= TX_BUFFERS
  <2>1. Len(unsent) < MAX_QUEUE_SIZE
    BY <1>2, Nothing
  <2>2. /\ accepted' = accepted + 1 /\ link' = link
        /\ send_messages_from_connection_queue(1, Append(unsent, accepted'))
    BY <1>2, <2>1 DEF send_to_single_connection, TypeOK
  <2>3. Append(unsent, accepted') \in Seq(Message) /\ Len(Append(unsent, accepted')) = 1
    BY <1>2, <2>2 DEF TypeOK, Message
  <2> DEFINE q == Append(unsent, accepted')
  <2>4. q \in Seq(Message) /\ Len(q) = 1 /\ link = "up" /\ send_messages_from_connection_queue(1, q)
    BY <2>2, <2>3
  <2> HIDE DEF q
  <2>5. /\ Len(onAir') >= Len(onAir) + 1 \/ Len(onAir') >= TX_BUFFERS
        /\ Len(onAir') + Len(unsent') = Len(onAir) + Len(q)
        /\ unsent' \in Seq(Message)
    BY <2>4, Sends
  <2>6. Len(unsent') >= 1
    BY <2>5, EmptySeq
  <2> QED BY <1>a, <1>e, <2>4, <2>5, <2>6
<1>3. CASE Send
  <2>1. /\ send_to_single_connection /\ events' = events
        /\ fresh' = fresh /\ drops' = drops
    BY <1>3 DEF Send
  <2>2. link = "up"
    BY <2>1, SendKeepsLink
  <2>3. Owed' = Owed
    BY <1>a, <2>1
  <2>4. CASE unsent = <<>>
    BY <1>2, <1>b, <1>e, <2>1, <2>3, <2>4
  <2>5. CASE unsent # <<>>
    BY <1>1, <1>a, <1>b, <1>c, <1>e, <2>1, <2>2, <2>3, <2>5
  <2> QED BY <2>4, <2>5
<1>4. CASE handle_connection_event
  <2>1. /\ send_to_single_connection /\ Handle("CONNECTED") /\ fresh' = fresh
    BY <1>4 DEF handle_connection_event
  <2>2. Pending("CONNECTED")
    BY <2>1, Taken DEF Pending
  <2>3. unsent = <<>>
    BY <2>1, <2>2 DEF Quiet
  <2> QED BY <1>2, <1>d, <1>e, <2>1, <2>3
<1>5. CASE handle_connection_event_orphan
  BY <1>5 DEF handle_connection_event_orphan, disconnect_from_peer
<1>6. CASE handle_disconnection_event
  BY <1>6 DEF handle_disconnection_event
<1>7. CASE handle_buffers_freed_event
  <2>1. Handle("TX_COMPLETE") /\ UNCHANGED <<link, active, drops, fresh>>
    BY <1>7 DEF handle_buffers_freed_event
  <2>2. active
    BY <1>7, <2>1 DEF handle_buffers_freed_event, Quiet
  <2> DEFINE c == Head(events).count
  <2>3. c \in Nat /\ c >= 1 /\ Head(events).type = "TX_COMPLETE"
    BY <2>1, Taken DEF Event
  <2>4. send_messages_from_connection_queue(c, unsent)
    BY <1>7, <2>2 DEF handle_buffers_freed_event
  <2>5. events # <<>> /\ events' = Tail(events)
    BY <2>1 DEF Handle
  <2> HIDE DEF c
  <2>6. Cardinality(Freed(Tail(events))) + c >= Cardinality(Freed(events))
    BY <1>a, <2>3, <2>5, FreedBehind DEF c
  <2>7. Owed' + c >= Owed
    BY <1>a, <2>5, <2>6
  <2>8. Len(onAir') >= Len(onAir) + c \/ Len(onAir') >= TX_BUFFERS
    BY <1>a, <2>1, <2>3, <2>4, Sends
  <2>9. unsent # <<>>
    BY <1>a, <2>4, <2>3, Sends
  <2>10. CASE Len(onAir') >= TX_BUFFERS
    BY <1>d, <2>10, <1>e
  <2>11. CASE Len(onAir') >= Len(onAir) + c
    <3>1. fresh /\ drops = 0
      BY <1>b, <1>e, <2>1
    <3>2. Len(onAir) + Owed >= TX_BUFFERS
      BY <1>b, <1>c, <1>e, <2>1, <2>9, <3>1
    <3> QED BY <1>a, <1>d, <1>e, <2>3, <2>7, <2>11, <3>2
  <2> QED BY <2>8, <2>10, <2>11
<1>8. ASSUME NEW k \in 1 .. Len(onAir), Acknowledge(k)
      PROVE  Len(onAir') + Owed' >= TX_BUFFERS
  <2>1. /\ events' = Append(events, [type |-> "TX_COMPLETE", count |-> k])
        /\ onAir' = SubSeq(onAir, k + 1, Len(onAir))
        /\ UNCHANGED <<link, unsent, drops, fresh>>
    <3>1. drops' # drops + 1
      BY DEF TypeOK
    <3> QED BY <1>8, <3>1 DEF Acknowledge
  <2>2. k \in 1 .. TX_BUFFERS /\ k \in 0 .. Len(onAir)
    BY DEF TypeOK
  <2>3. Owed' = Owed + k
    BY <1>a, <2>1, <2>2, FreedByTransmission
  <2>4. Len(onAir') = Len(onAir) - k
    BY <2>1, <2>2, Cut DEF TypeOK
  <2> QED BY <1>a, <1>b, <1>c, <2>1, <2>2, <2>3, <2>4
<1>9. CASE LinkLost
  BY <1>9 DEF LinkLost
<1>10. CASE LinkEstablished
  BY <1>10 DEF LinkEstablished, Quiet
<1>11. CASE UNCHANGED vars
  BY <1>11, <1>a, <1>c DEF vars
<1> QED BY <1>3, <1>4, <1>5, <1>6, <1>7, <1>8, <1>9, <1>10, <1>11 DEF Next, MainLoop
--------------------------------------------------------------------------------
(* The refinement of Channel. *)

State == IF fresh THEN link ELSE "down"
Line == IF fresh THEN IF link = "up" THEN onAir \o unsent ELSE onAir ELSE <<>>
Heard == IF fresh THEN delivered ELSE <<>>

LEMMA Unseen ==
    ASSUME State' = State, Line' = Line, Heard' = Heard
    PROVE  UNCHANGED C!vars
  BY DEF State, Line, Heard, C!vars

\* A front of a sequence is a front of what continues it.
LEMMA FrontOfBoth ==
    ASSUME NEW s \in Seq(Message), NEW u \in Seq(Message), NEW k \in 0 .. Len(s)
    PROVE  /\ k \in 0 .. Len(s \o u)
           /\ SubSeq(s \o u, 1, k) = SubSeq(s, 1, k)
           /\ SubSeq(s \o u, k + 1, Len(s \o u)) = SubSeq(s, k + 1, Len(s)) \o u
<1> DEFINE w == s \o u
           a == SubSeq(s, 1, k)
           b == SubSeq(s, k + 1, Len(s))
<1>1. /\ w \in Seq(Message) /\ Len(w) = Len(s) + Len(u)
      /\ \A i \in 1 .. Len(s) + Len(u) : w[i] = IF i <= Len(s) THEN s[i] ELSE u[i - Len(s)]
  BY ConcatProperties
<1>2. /\ a \in Seq(Message) /\ Len(a) = k /\ \A i \in 1 .. k : a[i] = s[i]
      /\ b \in Seq(Message) /\ Len(b) = Len(s) - k /\ \A i \in 1 .. Len(s) - k : b[i] = s[k + i]
  BY Cut
<1> HIDE DEF w, a, b
<1>3. k \in 0 .. Len(w)
  BY <1>1
<1> DEFINE c == SubSeq(w, 1, k)
           d == SubSeq(w, k + 1, Len(w))
<1>4. /\ c \in Seq(Message) /\ Len(c) = k /\ \A i \in 1 .. k : c[i] = w[i]
      /\ d \in Seq(Message) /\ Len(d) = Len(w) - k /\ \A i \in 1 .. Len(w) - k : d[i] = w[k + i]
  BY <1>1, <1>3, Cut
<1> HIDE DEF c, d
<1>5. c = a
  <2>1. ASSUME NEW i \in 1 .. k PROVE c[i] = a[i]
    <3>1. i \in 1 .. Len(s) + Len(u) /\ i <= Len(s)
      OBVIOUS
    <3> QED BY <1>1, <1>2, <1>4, <3>1
  <2> QED BY <1>2, <1>4, <2>1, SeqEqual
<1>6. d = b \o u
  <2>1. /\ b \o u \in Seq(Message) /\ Len(b \o u) = Len(b) + Len(u)
        /\ \A i \in 1 .. Len(b) + Len(u) : (b \o u)[i] = IF i <= Len(b) THEN b[i] ELSE u[i - Len(b)]
    BY <1>2, ConcatProperties
  <2>2. Len(d) = Len(b) + Len(u)
    BY <1>1, <1>2, <1>4
  <2>3. ASSUME NEW i \in 1 .. Len(b) + Len(u), i <= Len(b) PROVE d[i] = (b \o u)[i]
    <3>1. i \in 1 .. Len(s) - k /\ i \in 1 .. Len(w) - k
      BY <1>1, <1>2, <2>3
    <3>2. k + i \in 1 .. Len(s) + Len(u) /\ k + i <= Len(s)
      BY <3>1
    <3> QED BY <1>1, <1>2, <1>4, <2>1, <2>3, <3>1, <3>2
  <2>4. ASSUME NEW i \in 1 .. Len(b) + Len(u), ~(i <= Len(b)) PROVE d[i] = (b \o u)[i]
    <3>1. i \in 1 .. Len(w) - k
      BY <1>1, <1>2
    <3>2. k + i \in 1 .. Len(s) + Len(u) /\ ~(k + i <= Len(s)) /\ (k + i) - Len(s) = i - Len(b)
      BY <1>2, <2>4
    <3>3. d[i] = u[(k + i) - Len(s)]
      BY <1>1, <1>4, <3>1, <3>2
    <3> QED BY <2>1, <2>4, <3>2, <3>3
  <2> QED BY <1>4, <2>1, <2>2, <2>3, <2>4, SeqEqual
<1> QED BY <1>3, <1>5, <1>6 DEF w, a, b, c, d

\* What is on air and in the queue of a live link, in numbers.
LEMMA LineNumbered ==
    ASSUME TypeOK, InOrder, fresh, link = "up"
    PROVE  /\ onAir \in Seq(Message) /\ unsent \in Seq(Message)
           /\ accepted + 1 = Len(delivered) + Len(onAir \o unsent) + 1
<1>1. onAir \in Seq(Message) /\ unsent \in Seq(Message) /\ delivered \in Seq(Message) /\ accepted \in Nat
  BY DEF TypeOK
<1>2. /\ Len(onAir \o unsent) = Len(onAir) + Len(unsent)
      /\ Len(delivered \o onAir) = Len(delivered) + Len(onAir)
      /\ Len(delivered) \in Nat /\ Len(onAir) \in Nat /\ Len(unsent) \in Nat
  BY <1>1, ConcatProperties
<1>3. Len((delivered \o onAir) \o unsent) = Len(delivered \o onAir) + Len(unsent)
  <2>1. delivered \o onAir \in Seq(Message)
    BY <1>1, ConcatProperties
  <2> QED BY <1>1, <2>1, ConcatProperties
<1>4. (delivered \o onAir) \o unsent = Numbered(accepted)
  BY DEF InOrder, Numbered
<1>5. Len(Numbered(accepted)) = accepted
  BY <1>1 DEF Numbered
<1>6. Len(delivered \o onAir) + Len(unsent) = accepted
  BY <1>3, <1>4, <1>5, Zenon
<1>7. accepted + 1 = Len(delivered) + Len(onAir \o unsent) + 1
  BY <1>2, <1>6
<1> QED BY <1>1, <1>7, Zenon

\* A message handed over joins the line, or costs the connection.
LEMMA SendOnChannel ==
    ASSUME TypeOK, InOrder, TypeOK', send_to_single_connection, UNCHANGED <<delivered, fresh>>
    PROVE  C!Next \/ UNCHANGED C!vars
<1>1. CASE fresh /\ link = "up"
  <2>1. /\ onAir \in Seq(Message) /\ unsent \in Seq(Message)
        /\ accepted + 1 = Len(delivered) + Len(onAir \o unsent) + 1
    BY <1>1, LineNumbered
  <2>2. CASE link' # "up" /\ (link' = "down" <=> link = "down") /\ UNCHANGED <<onAir, unsent, accepted>>
    <3>1. link' = "closing"
      BY <1>1, <2>2 DEF TypeOK
    <3>2. Len(onAir) \in 0 .. Len(onAir \o unsent) /\ SubSeq(onAir \o unsent, 1, Len(onAir)) = onAir
      <4>1. Len(onAir) \in 0 .. Len(onAir)
        BY <2>1
      <4>2. SubSeq(onAir, 1, Len(onAir)) = onAir
        BY <2>1
      <4> QED BY <2>1, <4>1, <4>2, FrontOfBoth
    <3>3. \E k \in 0 .. Len(onAir \o unsent) : onAir = SubSeq(onAir \o unsent, 1, k)
      BY <3>2
    <3>4. C!GiveUp
      BY <1>1, <2>2, <3>1, <3>3 DEF C!GiveUp
    <3> QED BY <3>4 DEF C!Next
  <2>3. CASE /\ link' = link /\ accepted' = accepted + 1
             /\ \A r \in Seq(Message) :
                    (r \o onAir') \o unsent' = (r \o onAir) \o Append(unsent, accepted + 1)
    <3>1. onAir' \in Seq(Message) /\ unsent' \in Seq(Message) /\ accepted + 1 \in Message
      BY DEF TypeOK, Message
    <3>2. <<>> \o onAir' = onAir' /\ <<>> \o onAir = onAir /\ <<>> \in Seq(Message)
      BY <2>1, <3>1, ConcatEmptySeq, Nothing
    <3>3. onAir' \o unsent' = onAir \o Append(unsent, accepted + 1)
      BY <2>3, <3>2
    <3>4. onAir \o Append(unsent, accepted + 1) = Append(onAir \o unsent, accepted + 1)
      BY <2>1, <3>1
    <3>5. onAir' \o unsent' = Append(onAir \o unsent, Len(delivered) + Len(onAir \o unsent) + 1)
      BY <2>1, <3>3, <3>4
    <3>6. C!Accept
      BY <1>1, <2>3, <3>5 DEF C!Accept
    <3> QED BY <3>6 DEF C!Next
  <2> QED BY <2>2, <2>3, SendsOne
<1>2. CASE ~(fresh /\ link = "up")
  <2>1. link # "up" => link' = link /\ onAir' = onAir
    BY SendsOne DEF TypeOK
  <2>2. State' = State /\ Line' = Line /\ Heard' = Heard
    BY <1>2, <2>1 DEF State, Line, Heard
  <2> QED BY <2>2, Unseen
<1> QED BY <1>1, <1>2

LEMMA ChannelStep ==
    ASSUME IInv, IInv', [Next]_vars
    PROVE  C!Next \/ UNCHANGED C!vars
<1>1. TypeOK /\ InOrder /\ EventsAlternate /\ Quiet /\ TypeOK' /\ Quiet'
  BY DEF IInv
<1>2. onAir \in Seq(Message) /\ unsent \in Seq(Message) /\ delivered \in Seq(Message)
  BY <1>1 DEF TypeOK
<1>3. CASE Send
  BY <1>1, <1>3, SendOnChannel DEF Send
<1>4. CASE handle_connection_event
  BY <1>1, <1>4, SendOnChannel DEF handle_connection_event
<1>5. CASE handle_connection_event_orphan
  <2>1. /\ disconnect_from_peer /\ UNCHANGED <<onAir, unsent, delivered, fresh>>
    BY <1>5 DEF handle_connection_event_orphan
  <2>2. CASE fresh /\ link = "up"
    <3>1. Len(onAir) \in 0 .. Len(onAir) /\ SubSeq(onAir, 1, Len(onAir)) = onAir
      BY <1>2
    <3>2. \E k \in 0 .. Len(onAir \o unsent) : onAir = SubSeq(onAir \o unsent, 1, k)
      BY <1>2, <3>1, FrontOfBoth
    <3>3. C!GiveUp
      BY <2>1, <2>2, <3>2 DEF C!GiveUp, disconnect_from_peer
    <3> QED BY <3>3 DEF C!Next
  <2>3. CASE ~(fresh /\ link = "up")
    <3>1. State' = State /\ Line' = Line /\ Heard' = Heard
      BY <2>1, <2>3 DEF State, Line, Heard, disconnect_from_peer
    <3> QED BY <3>1, Unseen
  <2> QED BY <2>2, <2>3
<1>6. CASE handle_disconnection_event
  <2>1. Handle("DISCONNECTED") /\ UNCHANGED <<link, onAir, delivered, fresh>>
    BY <1>6 DEF handle_disconnection_event
  <2>2. Pending("DISCONNECTED")
    BY <1>1, <2>1, Taken DEF Pending
  <2>3. ~(fresh /\ link = "up")
    BY <1>1, <2>2 DEF EventsAlternate
  <2>4. State' = State /\ Line' = Line /\ Heard' = Heard
    BY <2>1, <2>3 DEF State, Line, Heard
  <2> QED BY <2>4, Unseen
<1>7. CASE handle_buffers_freed_event
  <2>1. Handle("TX_COMPLETE") /\ UNCHANGED <<link, delivered, fresh>>
    BY <1>7 DEF handle_buffers_freed_event
  <2>2. /\ link # "up" => onAir' = onAir
        /\ onAir' \o unsent' = onAir \o unsent
    <3>1. CASE ~active
      BY <1>7, <3>1 DEF handle_buffers_freed_event
    <3>2. CASE active
      <4>1. Head(events).count \in Nat
        BY <1>1, <2>1, Taken DEF Event
      <4>2. /\ link # "up" => onAir' = onAir
            /\ \A r \in Seq(Message) : (r \o onAir') \o unsent' = (r \o onAir) \o unsent
        BY <1>1, <1>2, <1>7, <3>2, <4>1, Sends DEF handle_buffers_freed_event
      <4>3. <<>> \o onAir' = onAir' /\ <<>> \o onAir = onAir /\ <<>> \in Seq(Message)
        BY <1>1, <1>2, ConcatEmptySeq, Nothing DEF TypeOK
      <4> QED BY <4>2, <4>3
    <3> QED BY <3>1, <3>2
  <2>3. State' = State /\ Line' = Line /\ Heard' = Heard
    BY <2>1, <2>2 DEF State, Line, Heard
  <2> QED BY <2>3, Unseen
<1>8. ASSUME NEW k \in 1 .. Len(onAir), Acknowledge(k) PROVE C!Next \/ UNCHANGED C!vars
  <2>1. /\ link # "down" /\ UNCHANGED <<link, unsent, fresh>>
        /\ delivered' = delivered \o SubSeq(onAir, 1, k)
        /\ onAir' = SubSeq(onAir, k + 1, Len(onAir))
    BY <1>8 DEF Acknowledge, Receive
  <2>2. CASE ~fresh
    <3>1. State' = State /\ Line' = Line /\ Heard' = Heard
      BY <2>1, <2>2 DEF State, Line, Heard
    <3> QED BY <3>1, Unseen
  <2>3. CASE fresh /\ link = "up"
    <3>1. k \in 0 .. Len(onAir)
      BY <1>2
    <3>2. /\ k \in 0 .. Len(onAir \o unsent)
          /\ delivered' = delivered \o SubSeq(onAir \o unsent, 1, k)
          /\ onAir' \o unsent' = SubSeq(onAir \o unsent, k + 1, Len(onAir \o unsent))
      BY <1>2, <2>1, <3>1, FrontOfBoth
    <3>3. k \in 1 .. Len(onAir \o unsent)
      BY <3>2
    <3>4. C!Deliver
      BY <2>1, <2>3, <3>2, <3>3 DEF C!Deliver, C!Receive
    <3> QED BY <3>4 DEF C!Next
  <2>4. CASE fresh /\ link # "up"
    <3>1. C!Deliver
      BY <2>1, <2>4 DEF C!Deliver, C!Receive
    <3> QED BY <3>1 DEF C!Next
  <2> QED BY <2>2, <2>3, <2>4
<1>9. CASE LinkLost
  <2>1. /\ link # "down" /\ link' = "down" /\ onAir' = <<>> /\ UNCHANGED <<unsent, fresh>>
    BY <1>9 DEF LinkLost
  <2>2. PICK k \in 0 .. Len(onAir) : delivered' = delivered \o SubSeq(onAir, 1, k)
    BY <1>9 DEF LinkLost, Receive
  <2>3. CASE ~fresh
    <3>1. State' = State /\ Line' = Line /\ Heard' = Heard
      BY <2>1, <2>3 DEF State, Line, Heard
    <3> QED BY <3>1, Unseen
  <2>4. CASE fresh /\ link = "up"
    <3>1. k \in 0 .. Len(onAir \o unsent) /\ delivered' = delivered \o SubSeq(onAir \o unsent, 1, k)
      BY <1>2, <2>2, FrontOfBoth
    <3>2. C!Break
      BY <2>1, <2>4, <3>1 DEF C!Break, C!Receive
    <3> QED BY <3>2 DEF C!Next
  <2>5. CASE fresh /\ link # "up"
    <3>1. C!Break
      BY <2>1, <2>2, <2>5 DEF C!Break, C!Receive
    <3> QED BY <3>1 DEF C!Next
  <2> QED BY <2>3, <2>4, <2>5
<1>10. CASE LinkEstablished
  <2>1. /\ link = "down" /\ link' = "up" /\ delivered' = <<>>
        /\ fresh' = (~active /\ ~Pending("CONNECTED"))
        /\ UNCHANGED <<onAir, active, unsent>>
    BY <1>10 DEF LinkEstablished
  <2>2. onAir = <<>> /\ (fresh' => unsent = <<>>)
    BY <1>1, <2>1 DEF Quiet
  <2>3. CASE fresh'
    <3>1. <<>> \o <<>> = <<>>
      BY Nothing, ConcatEmptySeq
    <3>2. State = "down" /\ State' = "up" /\ Heard' = <<>> /\ Line' = <<>> /\ Line = <<>>
      BY <2>1, <2>2, <2>3, <3>1 DEF State, Line, Heard
    <3>3. C!Connect
      BY <3>2 DEF C!Connect, State, Line, Heard
    <3> QED BY <3>3 DEF C!Next
  <2>4. CASE ~fresh'
    <3>1. State = "down" /\ State' = "down" /\ Heard' = <<>> /\ Line' = <<>> /\ Line = <<>>
      BY <2>1, <2>2, <2>4 DEF State, Line, Heard
    <3>2. C!Forget
      BY <3>1 DEF C!Forget, State, Line, Heard
    <3> QED BY <3>2 DEF C!Next
  <2> QED BY <2>3, <2>4
<1>11. CASE UNCHANGED vars
  BY <1>11 DEF vars, C!vars
<1> QED BY <1>3, <1>4, <1>5, <1>6, <1>7, <1>8, <1>9, <1>10, <1>11 DEF Next, MainLoop
--------------------------------------------------------------------------------
LEMMA Inductive == IInv /\ [Next]_vars => IInv'
  BY TypeStep, EventsStep, QuietStep, InOrderStep, NoStallStep, BuffersStep DEF IInv

LEMMA Invariant == Spec => []IInv
  BY Initially, Inductive, PTL DEF Spec

\* Every variable keeps its type; the queue and the air keep their bounds.
THEOREM TypeCorrect == Spec => []TypeOK
  BY Invariant, PTL DEF IInv

\* Between push_onto_queue and the peer no message is lost, duplicated,
\* reordered or mixed with those of an earlier connection.
THEOREM DeliveredInOrder == Spec => []InOrder
  BY Invariant, PTL DEF IInv

\* A queue that holds messages for a live link always has a transmission, or
\* the handling of one, ahead of it that will send the next.
THEOREM NeverStalls == Spec => []NoStall
  BY Invariant, PTL DEF IInv

\* No transmit buffer of a live link idles while messages wait for it: what is
\* not on air is owed by a TX_COMPLETE event already queued, whatever the counts
\* in which the softdevice reports its transmissions.
THEOREM BuffersNeverIdle == Spec => []BuffersBusy
  BY Invariant, PTL DEF IInv

\* The send path implements Channel: what the peer of a fresh connection
\* receives is a front of what the application handed over, whatever the queue
\* size and the number of transmit buffers.
THEOREM ChannelKept == Spec => ImplementsChannel
<1>1. Init => C!Init
  BY DEF Init, C!Init
<1>2. IInv /\ IInv' /\ [Next]_vars => [C!Next]_(C!vars)
  BY ChannelStep
<1> QED BY <1>1, <1>2, Invariant, PTL DEF Spec, ImplementsChannel, C!Spec
================================================================================
