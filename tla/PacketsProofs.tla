----------------------------- MODULE PacketsProofs -----------------------------
(***************************************************************************)
(* The ring buffer keeps its types and implements BoundedFifo, for every   *)
(* ring size a uint8_t can count; boards are heard in time and recognised; *)
(* and a message read from the ring is the message that was said, for      *)
(* every text, version and id.                                             *)
(***************************************************************************)
EXTENDS Packets, SequenceTheorems, TLAPS

\* The slot k places after front, when front is a slot and k at most the size.
At(front, k) == (front + k) % MAX_QUEUE_SIZE

\* Modulo the ring size, an index less than twice the size wraps at most once.
LEMMA Wrap ==
    ASSUME NEW f \in Slots, NEW k \in 0 .. MAX_QUEUE_SIZE
    PROVE  /\ At(f, k) = IF f + k < MAX_QUEUE_SIZE THEN f + k ELSE f + k - MAX_QUEUE_SIZE
           /\ At(f, k) \in Slots
           /\ At(f, k) % 256 = At(f, k)
<1> USE QueueAssumption DEF Slots
<1>1. CASE f + k < MAX_QUEUE_SIZE
  <2>1. (f + k) % MAX_QUEUE_SIZE = f + k
    BY <1>1
  <2>2. (f + k) % 256 = f + k
    BY <1>1
  <2> QED BY <1>1, <2>1, <2>2 DEF At
<1>2. CASE f + k >= MAX_QUEUE_SIZE
  <2> DEFINE r == f + k - MAX_QUEUE_SIZE
  <2>1. f + k = MAX_QUEUE_SIZE * 1 + r /\ r \in 0 .. MAX_QUEUE_SIZE - 1
    BY <1>2
  <2>2. (f + k) % MAX_QUEUE_SIZE = r
    BY <2>1
  <2>3. r % 256 = r
    BY <2>1
  <2> QED BY <1>2, <2>1, <2>2, <2>3 DEF At
<1> QED BY <1>1, <1>2

\* Two different places of the ring are two different slots.
LEMMA Distinct ==
    ASSUME NEW f \in Slots, NEW k \in 0 .. MAX_QUEUE_SIZE - 1, NEW l \in 0 .. k - 1
    PROVE  At(f, l) # At(f, k)
<1> USE QueueAssumption
<1>1. l \in 0 .. MAX_QUEUE_SIZE /\ k \in 0 .. MAX_QUEUE_SIZE
  OBVIOUS
<1>2. At(f, l) = IF f + l < MAX_QUEUE_SIZE THEN f + l ELSE f + l - MAX_QUEUE_SIZE
  BY <1>1, Wrap
<1>3. At(f, k) = IF f + k < MAX_QUEUE_SIZE THEN f + k ELSE f + k - MAX_QUEUE_SIZE
  BY <1>1, Wrap
<1> QED BY <1>2, <1>3 DEF Slots

\* Stepping front by one moves every place by one.
LEMMA Shift ==
    ASSUME NEW f \in Slots, NEW k \in 0 .. MAX_QUEUE_SIZE - 1
    PROVE  At(At(f, 1), k) = At(f, k + 1)
<1> USE QueueAssumption
<1>1. k \in 0 .. MAX_QUEUE_SIZE /\ k + 1 \in 0 .. MAX_QUEUE_SIZE /\ 1 \in 0 .. MAX_QUEUE_SIZE
  OBVIOUS
<1>2. At(f, 1) \in Slots
  BY <1>1, Wrap
<1>3. At(At(f, 1), k) = IF At(f, 1) + k < MAX_QUEUE_SIZE THEN At(f, 1) + k
                                                         ELSE At(f, 1) + k - MAX_QUEUE_SIZE
  BY <1>1, <1>2, Wrap
<1>4. At(f, 1) = IF f + 1 < MAX_QUEUE_SIZE THEN f + 1 ELSE f + 1 - MAX_QUEUE_SIZE
  BY <1>1, Wrap
<1>5. At(f, k + 1) = IF f + (k + 1) < MAX_QUEUE_SIZE THEN f + (k + 1)
                                                     ELSE f + (k + 1) - MAX_QUEUE_SIZE
  BY <1>1, Wrap
<1> QED BY <1>3, <1>4, <1>5 DEF Slots

\* A queue that is well formed, taken apart.
LEMMA Parts ==
    ASSUME NEW q, WellFormed(q)
    PROVE  \E c \in 0 .. MAX_QUEUE_SIZE, f \in Slots, s \in [Slots -> Storable] :
               /\ q = [count |-> c, front |-> f, queue |-> s]
               /\ Held(q) = [i \in 1 .. c |-> s[At(f, i - 1)]]
               /\ \A i \in 1 .. c : At(f, i - 1) \in Slots
               /\ Held(q) \in Seq(Storable)
               /\ Len(Held(q)) = c
<1> USE QueueAssumption
<1> DEFINE c == q.count
           f == q.front
           s == q.queue
<1>1. /\ c \in 0 .. MAX_QUEUE_SIZE /\ f \in Slots /\ s \in [Slots -> Storable]
      /\ q = [count |-> c, front |-> f, queue |-> s]
  <2>1. q \in [count : UInt8, front : UInt8, queue : [Slots -> Storable]]
    BY DEF WellFormed, transmissionPacketQueue
  <2>2. q = [count |-> c, front |-> f, queue |-> s] /\ s \in [Slots -> Storable]
    BY <2>1
  <2>3. c \in UInt8 /\ f \in UInt8
    BY <2>1
  <2>4. c <= MAX_QUEUE_SIZE /\ f < MAX_QUEUE_SIZE
    BY DEF WellFormed
  <2> HIDE DEF c, f
  <2>5. c \in 0 .. MAX_QUEUE_SIZE /\ f \in Slots
    BY <2>3, <2>4 DEF UInt8, Slots
  <2> QED BY <2>2, <2>5
<1> HIDE DEF c, f, s
<1>2. \A i \in 1 .. c : f + i - 1 = f + (i - 1) /\ i - 1 \in 0 .. MAX_QUEUE_SIZE
  BY <1>1 DEF Slots
<1>3. Held(q) = [i \in 1 .. c |-> s[At(f, i - 1)]]
  <2>1. Held(q) = [i \in 1 .. c |-> s[(f + i - 1) % MAX_QUEUE_SIZE]]
    BY DEF Held, c, f, s
  <2> QED BY <1>2, <2>1 DEF At
<1>4. \A i \in 1 .. c : At(f, i - 1) \in Slots
  BY <1>1, <1>2, Wrap
<1>5. Held(q) \in Seq(Storable) /\ Len(Held(q)) = c
  BY <1>1, <1>3, <1>4
<1> QED BY <1>1, <1>3, <1>4, <1>5

\* A push that succeeds appends the packet to those held.
LEMMA PushAppends ==
    ASSUME NEW q, WellFormed(q), NEW p \in Packet, push_succeeds(q, p)
    PROVE  /\ WellFormed(pushed(q, p))
           /\ Held(pushed(q, p)) = Append(Held(q), p)
<1> USE QueueAssumption
<1>1. p \in Storable
  BY DEF Packet, Storable, push_succeeds
<1>2. PICK c \in 0 .. MAX_QUEUE_SIZE, f \in Slots, s \in [Slots -> Storable] :
          /\ q = [count |-> c, front |-> f, queue |-> s]
          /\ Held(q) = [i \in 1 .. c |-> s[At(f, i - 1)]]
          /\ \A i \in 1 .. c : At(f, i - 1) \in Slots
          /\ Held(q) \in Seq(Storable)
          /\ Len(Held(q)) = c
  BY Parts
<1>3. c < MAX_QUEUE_SIZE
  BY <1>2 DEF push_succeeds, queue_is_full
<1> DEFINE e == At(f, c)
           t == [s EXCEPT ![e] = p]
           r == pushed(q, p)
<1>4. e \in Slots /\ first_empty_index(q) = e
  <2>1. first_empty_index(q) = At(f, c) % 256
    BY <1>2 DEF first_empty_index, At
  <2> QED BY <2>1, Wrap
<1>5. t \in [Slots -> Storable] /\ t[e] = p
  BY <1>1, <1>4
<1>6. r = [count |-> c + 1, front |-> f, queue |-> t] /\ c + 1 \in 1 .. MAX_QUEUE_SIZE
  <2>1. (c + 1) % 256 = c + 1
    BY <1>3
  <2>2. r = [q EXCEPT !.queue = t, !.count = c + 1]
    BY <1>2, <1>4, <2>1 DEF pushed
  <2> HIDE DEF t, r, e
  <2>3. c + 1 \in 1 .. MAX_QUEUE_SIZE
    BY <1>3
  <2> QED BY <1>2, <2>2, <2>3
<1>7. WellFormed(r)
  <2> HIDE DEF t, r, e
  <2> QED BY <1>5, <1>6 DEF WellFormed, transmissionPacketQueue, UInt8, Slots
<1>8. ASSUME NEW i \in 1 .. c
      PROVE  t[At(f, i - 1)] = s[At(f, i - 1)]
  <2>1. c \in 0 .. MAX_QUEUE_SIZE - 1 /\ i - 1 \in 0 .. c - 1
    BY <1>3
  <2>2. At(f, i - 1) # At(f, c)
    BY <2>1, Distinct
  <2> QED BY <1>2, <2>2
<1>9. Held(r) = [i \in 1 .. c + 1 |-> t[At(f, i - 1)]]
  <2>1. Held(r) = [i \in 1 .. c + 1 |-> t[(f + i - 1) % MAX_QUEUE_SIZE]]
    BY <1>6 DEF Held
  <2>2. \A i \in 1 .. c + 1 : f + i - 1 = f + (i - 1)
    BY DEF Slots
  <2> QED BY <2>1, <2>2 DEF At
<1>10. Append(Held(q), p) = [i \in 1 .. c + 1 |-> IF i = c + 1 THEN p ELSE s[At(f, i - 1)]]
  BY <1>1, <1>2
<1>11. \A i \in 1 .. c + 1 : t[At(f, i - 1)] = IF i = c + 1 THEN p ELSE s[At(f, i - 1)]
  <2> TAKE i \in 1 .. c + 1
  <2>1. CASE i = c + 1
    BY <1>5, <2>1
  <2>2. CASE i \in 1 .. c
    BY <1>8, <2>2
  <2> QED BY <2>1, <2>2
<1>12. Held(r) = Append(Held(q), p)
  BY <1>9, <1>10, <1>11
<1> QED BY <1>7, <1>12

\* The packet at front is the oldest one held; a pop removes it and no other.
LEMMA PopRemovesOldest ==
    ASSUME NEW q, WellFormed(q), ~queue_is_empty(q)
    PROVE  /\ WellFormed(popped(q))
           /\ Held(q) # <<>>
           /\ peeked(q) \in Storable
           /\ peeked(q) = Head(Held(q))
           /\ Held(popped(q)) = Tail(Held(q))
<1> USE QueueAssumption
<1>1. PICK c \in 0 .. MAX_QUEUE_SIZE, f \in Slots, s \in [Slots -> Storable] :
          /\ q = [count |-> c, front |-> f, queue |-> s]
          /\ Held(q) = [i \in 1 .. c |-> s[At(f, i - 1)]]
          /\ \A i \in 1 .. c : At(f, i - 1) \in Slots
          /\ Held(q) \in Seq(Storable)
          /\ Len(Held(q)) = c
  BY Parts
<1>2. c >= 1
  BY <1>1 DEF queue_is_empty
<1> DEFINE g == At(f, 1)
           r == popped(q)
<1>3. g \in Slots /\ increment_index(f) = g
  <2>1. increment_index(f) = At(f, 1) % 256
    BY DEF increment_index, At
  <2> QED BY <2>1, Wrap
<1>4. r = [count |-> c - 1, front |-> g, queue |-> s] /\ c - 1 \in 0 .. MAX_QUEUE_SIZE - 1
  <2>1. (c - 1) % 256 = c - 1 /\ c - 1 \in 0 .. MAX_QUEUE_SIZE - 1
    BY <1>2
  <2>2. r = [q EXCEPT !.front = g, !.count = c - 1]
    BY <1>1, <1>3, <2>1 DEF popped
  <2> HIDE DEF g, r
  <2> QED BY <1>1, <2>1, <2>2
<1>5. WellFormed(r)
  <2> HIDE DEF g, r
  <2> QED BY <1>3, <1>4 DEF WellFormed, transmissionPacketQueue, UInt8, Slots
<1>6. peeked(q) = Head(Held(q)) /\ peeked(q) \in Storable /\ Held(q) # <<>>
  <2>1. At(f, 0) = f
    BY Wrap DEF Slots
  <2>2. 1 \in 1 .. c /\ 1 - 1 = 0
    BY <1>2
  <2> QED BY <1>1, <1>2, <2>1, <2>2 DEF peeked
<1>7. Held(r) = [i \in 1 .. c - 1 |-> s[At(g, i - 1)]]
  <2>1. Held(r) = [i \in 1 .. c - 1 |-> s[(g + i - 1) % MAX_QUEUE_SIZE]]
    BY <1>4 DEF Held
  <2>2. \A i \in 1 .. c - 1 : g + i - 1 = g + (i - 1)
    BY <1>3 DEF Slots
  <2> QED BY <2>1, <2>2 DEF At
<1>8. Tail(Held(q)) = [i \in 1 .. c - 1 |-> s[At(f, (i + 1) - 1)]]
  BY <1>1, <1>2
<1>9. \A i \in 1 .. c - 1 : At(g, i - 1) = At(f, (i + 1) - 1)
  <2> TAKE i \in 1 .. c - 1
  <2>1. i - 1 \in 0 .. MAX_QUEUE_SIZE - 1 /\ (i - 1) + 1 = (i + 1) - 1
    BY <1>2
  <2> QED BY <2>1, Shift
<1>10. Held(r) = Tail(Held(q))
  BY <1>7, <1>8, <1>9
<1> QED BY <1>5, <1>6, <1>10

LEMMA ZeroIsEmpty == WellFormed(ZeroQueue) /\ Held(ZeroQueue) = <<>>
<1> USE QueueAssumption
<1>1. WellFormed(ZeroQueue)
  <2>1. ZeroPacket \in Storable
    BY DEF ZeroPacket, Storable
  <2> QED BY <2>1 DEF WellFormed, ZeroQueue, transmissionPacketQueue, UInt8, Slots
<1>2. Held(ZeroQueue) = <<>>
  BY DEF Held, ZeroQueue
<1> QED BY <1>1, <1>2
--------------------------------------------------------------------------------
\* TypeOK is inductive: whatever the calls, the two uint8_t indices stay inside
\* the ring and no slot holds, and no peek returns, an oversized packet.
THEOREM TypeCorrect == Spec => []TypeOK
<1>1. Init => TypeOK
  BY ZeroIsEmpty DEF Init, TypeOK
<1>2. TypeOK /\ [Next]_vars => TypeOK'
  <2> SUFFICES ASSUME TypeOK, [Next]_vars PROVE TypeOK'
    OBVIOUS
  <2>1. ASSUME NEW p \in Offered, push_onto_queue(p) PROVE TypeOK'
    <3>1. p \in Packet /\ WellFormed(queue)
      BY OfferedAssumption DEF TypeOK
    <3>2. WellFormed(queue')
      BY <2>1, <3>1, PushAppends DEF push_onto_queue
    <3>3. ok' \in BOOLEAN
      BY <2>1 DEF push_onto_queue, push_succeeds
    <3> QED BY <2>1, <3>2, <3>3 DEF TypeOK, push_onto_queue
  <2>2. CASE peek_from_queue
    BY <2>2, PopRemovesOldest DEF TypeOK, peek_from_queue, queue_is_empty
  <2>3. CASE pop_from_queue
    BY <2>3, PopRemovesOldest DEF TypeOK, pop_from_queue, queue_is_empty
  <2>4. CASE reset
    BY <2>4, ZeroIsEmpty DEF TypeOK, reset
  <2>5. CASE UNCHANGED vars
    BY <2>5 DEF TypeOK, vars
  <2> QED BY <2>1, <2>2, <2>3, <2>4, <2>5 DEF Next
<1> QED BY <1>1, <1>2, PTL DEF Spec

\* The ring buffer implements the bounded FIFO, for every ring size: the packets
\* come out unaltered, in the order in which push_onto_queue accepted them.
THEOREM RingIsFifo == Spec => ImplementsFifo
<1>1. Init => Fifo!Init
  BY ZeroIsEmpty DEF Init, Fifo!Init
<1>2. TypeOK /\ [Next]_vars => [Fifo!Next]_(Fifo!vars)
  <2> SUFFICES ASSUME TypeOK, [Next]_vars PROVE [Fifo!Next]_(Fifo!vars)
    OBVIOUS
  <2>0. PICK c \in 0 .. MAX_QUEUE_SIZE :
            queue.count = c /\ Len(Held(queue)) = c /\ Held(queue) \in Seq(Storable)
    BY Parts DEF TypeOK
  <2>1. ASSUME NEW p \in Offered, push_onto_queue(p)
        PROVE  Fifo!Push(p) \/ Fifo!PushRefused(p)
    <3>1. p \in Packet /\ WellFormed(queue)
      BY OfferedAssumption DEF TypeOK
    <3>2. CASE push_succeeds(queue, p)
      <4>1. c < MAX_QUEUE_SIZE /\ p \in Storable
        <5>1. p \in Storable
          BY <3>1, <3>2 DEF push_succeeds, Packet, Storable
        <5>2. c < MAX_QUEUE_SIZE
          BY <2>0, <3>2, QueueAssumption DEF push_succeeds, queue_is_full
        <5> QED BY <5>1, <5>2
      <4>2. Held(queue') = Append(Held(queue), p)
        BY <2>1, <3>1, <3>2, PushAppends DEF push_onto_queue
      <4> QED BY <2>0, <2>1, <3>2, <4>1, <4>2 DEF push_onto_queue, Fifo!Push
    <3>3. CASE ~push_succeeds(queue, p)
      <4>1. c = MAX_QUEUE_SIZE \/ p \notin Storable
        BY <2>0, <3>1, <3>3, QueueAssumption DEF push_succeeds, queue_is_full, Packet, Storable
      <4> QED BY <2>0, <2>1, <3>3, <4>1 DEF push_onto_queue, Fifo!PushRefused, Fifo!Refuse
    <3> QED BY <3>2, <3>3
  <2>2. queue_is_empty(queue) <=> Held(queue) = <<>>
    BY <2>0 DEF queue_is_empty
  <2>3. CASE peek_from_queue
    <3>1. CASE queue_is_empty(queue)
      BY <2>2, <2>3, <3>1 DEF peek_from_queue, Fifo!Empty, Fifo!Refuse, Fifo!Next
    <3>2. CASE ~queue_is_empty(queue)
      BY <2>2, <2>3, <3>2, PopRemovesOldest
         DEF TypeOK, peek_from_queue, Fifo!Peek, Fifo!Next
    <3> QED BY <3>1, <3>2
  <2>4. CASE pop_from_queue
    <3>1. CASE queue_is_empty(queue)
      BY <2>2, <2>4, <3>1 DEF pop_from_queue, Fifo!Empty, Fifo!Refuse, Fifo!Next
    <3>2. CASE ~queue_is_empty(queue)
      BY <2>2, <2>4, <3>2, PopRemovesOldest
         DEF TypeOK, pop_from_queue, Fifo!Pop, Fifo!Next
    <3> QED BY <3>1, <3>2
  <2>5. CASE reset
    BY <2>5, ZeroIsEmpty DEF reset, Fifo!Reset, Fifo!Next
  <2>6. CASE UNCHANGED vars
    BY <2>6 DEF vars, Fifo!vars
  <2> QED BY <2>1, <2>3, <2>4, <2>5, <2>6 DEF Next, Fifo!Next
<1> QED BY <1>1, <1>2, TypeCorrect, PTL DEF Spec, ImplementsFifo, Fifo!Spec
--------------------------------------------------------------------------------
(* The bytes of a message, by their place in the packet. *)

LEMMA IdIsSeq ==
    ASSUME NEW id \in [1 .. 4 -> Byte]
    PROVE  id \in Seq(Byte) /\ Len(id) = 4
<1>1. id = [i \in 1 .. 4 |-> id[i]]
  OBVIOUS
<1>2. [i \in 1 .. 4 |-> id[i]] \in Seq(Byte) /\ Len([i \in 1 .. 4 |-> id[i]]) = 4
  OBVIOUS
<1> QED BY <1>1, <1>2

LEMMA NoIdIsId == NoId \in [1 .. 4 -> Byte]
  BY DEF NoId, Zeros, Byte

\* Four bytes of a sequence, read as an id.
LEMMA IdRead ==
    ASSUME NEW b \in Seq(Byte), NEW id \in Seq(Byte), Len(id) = 4,
           NEW f \in Nat \ {0}, NEW l \in Nat, l = f + 3, l <= Len(b),
           \A i \in 1 .. 4 : b[f - 1 + i] = id[i]
    PROVE  SubSeq(b, f, l) = id
<1>1. \A i \in f .. l : b[i] \in Byte
  BY ElementOfSeq
<1>2. /\ SubSeq(b, f, l) \in Seq(Byte)
      /\ Len(SubSeq(b, f, l)) = 4
      /\ \A i \in 1 .. 4 : SubSeq(b, f, l)[i] = b[f + i - 1]
  <2>1. f \in Int /\ l \in Int /\ l - f + 1 = 4 /\ f <= l
    OBVIOUS
  <2> QED BY <1>1, <2>1, SubSeqProperties
<1>3. \A i \in 1 .. 4 : f + i - 1 = f - 1 + i
  OBVIOUS
<1> QED BY <1>2, <1>3, SeqEqual

\* Two byte sequences, one behind the other.
LEMMA Joined ==
    ASSUME NEW s \in Seq(Byte), NEW t \in Seq(Byte)
    PROVE  /\ s \o t \in Seq(Byte)
           /\ Len(s \o t) = Len(s) + Len(t)
           /\ \A i \in 1 .. Len(s) + Len(t) :
                  (s \o t)[i] = IF i <= Len(s) THEN s[i] ELSE t[i - Len(s)]
  BY ConcatProperties

LEMMA BroadcastBytes ==
    ASSUME NEW m \in Broadcast
    PROVE  LET b == BleMessageReq(m)
               s == m.message
           IN  /\ b \in Seq(Byte) /\ Len(b) = 14
               /\ s \in Seq(Byte \ {0}) /\ Len(s) \in 0 .. 12
               /\ b[1] = 1
               /\ \A i \in 1 .. 13 : b[1 + i] = IF i <= Len(s) THEN s[i] ELSE 0
<1> DEFINE s == m.message
           l == Len(s)
           z == Zeros(13 - l)
<1>1. m.type = "broadcast" /\ s \in Seq(Byte \ {0}) /\ l \in 0 .. 12
  <2>1. m.type = "broadcast" /\ s \in Texts /\ l <= 12
    BY DEF Broadcast, BROADCAST_MESSAGE_MAX_SIZE
  <2>2. s \in Seq(Byte \ {0})
    BY <2>1, PacketsAssumption
  <2>3. l \in Nat
    BY <2>2
  <2> HIDE DEF s, l
  <2> QED BY <2>1, <2>2, <2>3
<1>2. s \in Seq(Byte)
  BY <1>1, SeqMonotonic
<1>3. z \in Seq(Byte) /\ Len(z) = 13 - l /\ \A i \in 1 .. 13 - l : z[i] = 0
  <2>1. 13 - l \in Nat
    <3> HIDE DEF l
    <3> QED BY <1>1
  <2> QED BY <2>1 DEF Zeros, Byte
<1> DEFINE t == <<1>>
           h == t \o s
<1>4. t \in Seq(Byte) /\ Len(t) = 1 /\ t[1] = 1
  BY DEF Byte
<1>5. BleMessageReq(m) = h \o z
  <2>1. BleMessageReq(m) = <<1>> \o s \o Zeros(12 + 1 - l)
    BY <1>1 DEF BleMessageReq, MessageType, BROADCAST_MESSAGE_MAX_SIZE
  <2>2. 12 + 1 - l = 13 - l
    <3> HIDE DEF l
    <3> QED BY <1>1
  <2> QED BY <2>1, <2>2
<1> HIDE DEF z, l, s, t
<1>6. /\ h \in Seq(Byte) /\ Len(h) = Len(t) + Len(s)
      /\ \A i \in 1 .. Len(t) + Len(s) : h[i] = IF i <= Len(t) THEN t[i] ELSE s[i - Len(t)]
  BY <1>2, <1>4, Joined, Zenon
<1>7. Len(s) = l
  BY DEF l
<1> HIDE DEF h
<1>8. Len(h) = 1 + l /\ h[1] = 1 /\ \A i \in 2 .. 1 + l : h[i] = s[i - 1]
  BY <1>1, <1>4, <1>6, <1>7
<1> DEFINE b == h \o z
<1>9. /\ b \in Seq(Byte) /\ Len(b) = Len(h) + Len(z)
      /\ \A i \in 1 .. Len(h) + Len(z) : b[i] = IF i <= Len(h) THEN h[i] ELSE z[i - Len(h)]
  BY <1>3, <1>6, Joined, Zenon
<1> HIDE DEF b
<1>10. /\ Len(b) = 14 /\ b[1] = 1
       /\ \A i \in 2 .. 14 : b[i] = IF i <= 1 + l THEN s[i - 1] ELSE 0
  <2>1. Len(h) + Len(z) = 14
    BY <1>1, <1>3, <1>8
  <2>2. \A i \in 2 .. 14 : i <= 1 + l => b[i] = s[i - 1]
    BY <1>8, <1>9, <2>1
  <2>3. \A i \in 2 .. 14 : ~(i <= 1 + l) => b[i] = 0
    <3> TAKE i \in 2 .. 14
    <3> HAVE ~(i <= 1 + l)
    <3>1. i - (1 + l) \in 1 .. 13 - l
      BY <1>1
    <3>2. b[i] = z[i - (1 + l)]
      BY <1>8, <1>9, <2>1
    <3> QED BY <1>3, <3>1, <3>2
  <2>4. b[1] = h[1]
    BY <1>1, <1>8, <1>9, <2>1
  <2> QED BY <1>8, <1>9, <2>1, <2>2, <2>3, <2>4
<1>11. \A i \in 1 .. 13 : b[1 + i] = IF i <= l THEN s[i] ELSE 0
  <2>1. \A i \in 1 .. 13 : /\ 1 + i \in 2 .. 14 /\ (1 + i) - 1 = i
                            /\ 1 + i <= 1 + l <=> i <= l
    BY <1>1
  <2> QED BY <1>10, <2>1
<1> QED BY <1>1, <1>5, <1>9, <1>10, <1>11 DEF s, l, b

LEMMA HandshakeBytes ==
    ASSUME NEW m \in Handshake
    PROVE  LET b == BleMessageReq(m)
           IN  /\ b \in Seq(Byte) /\ Len(b) = 7
               /\ m.deviceId \in Seq(Byte) /\ Len(m.deviceId) = 4
               /\ b[1] = 2
               /\ \A i \in 1 .. 4 : b[1 + i] = m.deviceId[i]
               /\ b[6] = m.majorVersion /\ b[7] = m.minorVersion
<1> DEFINE d == m.deviceId
           v == <<m.majorVersion, m.minorVersion>>
           t == <<2>>
           h == t \o d
<1>1. d \in Seq(Byte) /\ Len(d) = 4
  <2>1. d \in [1 .. 4 -> Byte]
    BY PacketsAssumption DEF Handshake
  <2> QED BY <2>1, IdIsSeq
<1>2. v \in Seq(Byte) /\ Len(v) = 2 /\ v[1] = m.majorVersion /\ v[2] = m.minorVersion
  BY PacketsAssumption DEF Handshake
<1>3. BleMessageReq(m) = h \o v
  <2>1. m.type = "handshake"
    BY DEF Handshake
  <2> QED BY <2>1 DEF BleMessageReq, MessageType
<1> HIDE DEF d, v
<1>4. t \in Seq(Byte) /\ Len(t) = 1 /\ t[1] = 2
  BY DEF Byte
<1> HIDE DEF t
<1>5. /\ h \in Seq(Byte) /\ Len(h) = Len(t) + Len(d)
      /\ \A i \in 1 .. Len(t) + Len(d) : h[i] = IF i <= Len(t) THEN t[i] ELSE d[i - Len(t)]
  BY <1>1, <1>4, Joined, Zenon
<1> HIDE DEF h
<1>6. Len(h) = 5 /\ h[1] = 2 /\ h[2] = d[1] /\ h[3] = d[2] /\ h[4] = d[3] /\ h[5] = d[4]
  BY <1>1, <1>4, <1>5
<1> DEFINE b == h \o v
<1>7. /\ b \in Seq(Byte) /\ Len(b) = Len(h) + Len(v)
      /\ \A i \in 1 .. Len(h) + Len(v) : b[i] = IF i <= Len(h) THEN h[i] ELSE v[i - Len(h)]
  BY <1>2, <1>5, Joined, Zenon
<1> HIDE DEF b
<1>8. /\ Len(b) = 7 /\ b[1] = 2
      /\ b[1 + 1] = d[1] /\ b[1 + 2] = d[2] /\ b[1 + 3] = d[3] /\ b[1 + 4] = d[4]
      /\ b[6] = m.majorVersion /\ b[7] = m.minorVersion
  BY <1>2, <1>6, <1>7
<1>9. \A i \in 1 .. 4 : b[1 + i] = d[i]
  <2>1. \A i \in 1 .. 4 : i = 1 \/ i = 2 \/ i = 3 \/ i = 4
    OBVIOUS
  <2> QED BY <1>8, <2>1
<1> QED BY <1>1, <1>3, <1>7, <1>8, <1>9 DEF d, b

LEMMA HeartbeatBytes ==
    ASSUME NEW m \in Heartbeat
    PROVE  LET b == BleMessageReq(m)
               d == m.deviceId
               c == m.centralConnectionDeviceId
           IN  /\ b \in Seq(Byte) /\ Len(b) = 11
               /\ d \in Seq(Byte) /\ Len(d) = 4 /\ c \in Seq(Byte) /\ Len(c) = 4
               /\ b[1] = 3
               /\ \A i \in 1 .. 4 : b[1 + i] = d[i]
               /\ \A i \in 1 .. 4 : b[5 + i] = c[i]
               /\ b[10] = 0 /\ b[11] = 1
<1> DEFINE d == m.deviceId
           c == m.centralConnectionDeviceId
           v == <<0, 1>>
           t == <<3>>
           h == t \o d
           g == h \o c
<1>1. d \in Seq(Byte) /\ Len(d) = 4 /\ c \in Seq(Byte) /\ Len(c) = 4
  <2>1. d \in [1 .. 4 -> Byte] /\ c \in [1 .. 4 -> Byte]
    BY PacketsAssumption, NoIdIsId DEF Heartbeat
  <2> QED BY <2>1, IdIsSeq
<1>2. v \in Seq(Byte) /\ Len(v) = 2 /\ v[1] = 0 /\ v[2] = 1
  BY DEF Byte
<1>3. BleMessageReq(m) = g \o v
  <2>1. m.type = "heartbeat" /\ m.majorVersion = 0 /\ m.minorVersion = 1
    BY DEF Heartbeat
  <2> QED BY <2>1 DEF BleMessageReq, MessageType
<1> HIDE DEF d, c, v
<1>4. t \in Seq(Byte) /\ Len(t) = 1 /\ t[1] = 3
  BY DEF Byte
<1> HIDE DEF t
<1>5. /\ h \in Seq(Byte) /\ Len(h) = Len(t) + Len(d)
      /\ \A i \in 1 .. Len(t) + Len(d) : h[i] = IF i <= Len(t) THEN t[i] ELSE d[i - Len(t)]
  BY <1>1, <1>4, Joined, Zenon
<1> HIDE DEF h
<1>6. Len(h) = 5 /\ h[1] = 3 /\ h[2] = d[1] /\ h[3] = d[2] /\ h[4] = d[3] /\ h[5] = d[4]
  BY <1>1, <1>4, <1>5
<1>7. /\ g \in Seq(Byte) /\ Len(g) = Len(h) + Len(c)
      /\ \A i \in 1 .. Len(h) + Len(c) : g[i] = IF i <= Len(h) THEN h[i] ELSE c[i - Len(h)]
  BY <1>1, <1>5, Joined, Zenon
<1> HIDE DEF g
<1>8. /\ Len(g) = 9
      /\ g[1] = 3 /\ g[2] = d[1] /\ g[3] = d[2] /\ g[4] = d[3] /\ g[5] = d[4]
      /\ g[6] = c[1] /\ g[7] = c[2] /\ g[8] = c[3] /\ g[9] = c[4]
  BY <1>1, <1>6, <1>7
<1> DEFINE b == g \o v
<1>9. /\ b \in Seq(Byte) /\ Len(b) = Len(g) + Len(v)
      /\ \A i \in 1 .. Len(g) + Len(v) : b[i] = IF i <= Len(g) THEN g[i] ELSE v[i - Len(g)]
  BY <1>2, <1>7, Joined, Zenon
<1> HIDE DEF b
<1>10. /\ Len(b) = 11 /\ b[1] = 3 /\ b[10] = 0 /\ b[11] = 1
       /\ b[1 + 1] = d[1] /\ b[1 + 2] = d[2] /\ b[1 + 3] = d[3] /\ b[1 + 4] = d[4]
       /\ b[5 + 1] = c[1] /\ b[5 + 2] = c[2] /\ b[5 + 3] = c[3] /\ b[5 + 4] = c[4]
  BY <1>2, <1>8, <1>9
<1>11. \A i \in 1 .. 4 : b[1 + i] = d[i] /\ b[5 + i] = c[i]
  <2>1. \A i \in 1 .. 4 : i = 1 \/ i = 2 \/ i = 3 \/ i = 4
    OBVIOUS
  <2> QED BY <1>10, <2>1
<1> QED BY <1>1, <1>3, <1>9, <1>10, <1>11 DEF d, c, b

\* The text of a broadcast ends at the first zero byte behind it.
LEMMA TextEnds ==
    ASSUME NEW m \in Broadcast
    PROVE  Text(Tail(BleMessageReq(m))) = m.message
<1> DEFINE s == m.message
           l == Len(s)
           q == BleMessageReq(m)
           b == Tail(q)
           Ends(i) == b[i] = 0 /\ \A j \in 1 .. i - 1 : b[j] # 0
<1>1. s \in Seq(Byte \ {0}) /\ l \in 0 .. 12
  BY BroadcastBytes
<1>2. b \in Seq(Byte) /\ Len(b) = 13 /\ \A i \in 1 .. 13 : b[i] = IF i <= l THEN s[i] ELSE 0
  <2>1. q \in Seq(Byte) /\ Len(q) = 14 /\ \A i \in 1 .. 13 : q[1 + i] = IF i <= l THEN s[i] ELSE 0
    BY BroadcastBytes
  <2> HIDE DEF q, s, l
  <2>2. q # <<>>
    <3>1. Len(q) # Len(<<>>)
      BY <2>1
    <3> QED BY <3>1
  <2>3. b \in Seq(Byte) /\ Len(b) = 14 - 1 /\ \A i \in 1 .. Len(b) : b[i] = q[i + 1]
    BY <2>1, <2>2, HeadTailProperties
  <2> HIDE DEF b
  <2>4. ASSUME NEW i \in 1 .. 13
        PROVE  b[i] = q[1 + i]
    <3>1. i \in 1 .. Len(b) /\ i + 1 = 1 + i
      BY <2>3
    <3> QED BY <2>3, <3>1
  <2> QED BY <2>1, <2>3, <2>4
<1> HIDE DEF b
<1>3. \A i \in 1 .. 13 : b[i] = 0 <=> i > l
  <2>1. \A i \in 1 .. l : s[i] # 0
    BY <1>1, ElementOfSeq
  <2> HIDE DEF l, s
  <2>2. ASSUME NEW i \in 1 .. 13, i <= l PROVE b[i] # 0
    <3>1. i \in 1 .. l
      BY <1>1, <2>2
    <3>2. b[i] = s[i]
      BY <1>2, <2>2
    <3> QED BY <2>1, <3>1, <3>2
  <2>3. ASSUME NEW i \in 1 .. 13, i > l PROVE b[i] = 0
    <3>1. ~(i <= l)
      BY <1>1, <2>3
    <3> QED BY <1>2, <3>1
  <2>4. \A i \in 1 .. 13 : i <= l \/ i > l
    BY <1>1
  <2>5. \A i \in 1 .. 13 : ~(i <= l /\ i > l)
    BY <1>1
  <2> QED BY <2>2, <2>3, <2>4, <2>5, Zenon
<1>4. (CHOOSE i \in 1 .. Len(b) : Ends(i)) = l + 1
  <2> HIDE DEF l
  <2>1. Ends(l + 1) /\ l + 1 \in 1 .. 13
    BY <1>1, <1>3
  <2>2. \A i \in 1 .. 13 : Ends(i) => i = l + 1
    BY <1>1, <1>3
  <2> QED BY <1>2, <2>1, <2>2
<1>5. Text(b) = SubSeq(b, 1, (l + 1) - 1)
  BY <1>4 DEF Text
<1>6. SubSeq(b, 1, l) = s
  <2>0. l \in 0 .. 12
    BY <1>1
  <2>1. \A i \in 1 .. l : b[i] \in Byte
    <3> HIDE DEF l
    <3>1. \A i \in 1 .. l : i \in 1 .. Len(b)
      BY <1>2, <2>0
    <3> QED BY <1>2, <3>1, ElementOfSeq
  <2>2. /\ SubSeq(b, 1, l) \in Seq(Byte) /\ Len(SubSeq(b, 1, l)) = l
        /\ \A i \in 1 .. l : SubSeq(b, 1, l)[i] = b[i]
    <3> HIDE DEF l
    <3>1. (IF 1 <= l THEN l - 1 + 1 ELSE 0) = l /\ 1 \in Int /\ l \in Int /\ l - 1 + 1 = l
      BY <1>1
    <3>2. \A i \in 1 .. l : 1 + i - 1 = i
      BY <1>1
    <3> QED BY <2>1, <3>1, <3>2, SubSeqProperties
  <2>3. s \in Seq(Byte)
    BY <1>1, SeqMonotonic
  <2>4. \A i \in 1 .. l : b[i] = s[i]
    <3> HIDE DEF l
    <3>1. \A i \in 1 .. l : i \in 1 .. 13 /\ i <= l
      BY <2>0
    <3> QED BY <1>2, <3>1
  <2> QED BY <2>2, <2>3, <2>4, SeqEqual
<1>7. (l + 1) - 1 = l
  BY <1>1
<1> QED BY <1>5, <1>6, <1>7 DEF b

\* What a peer reads in the bytes of a message is the message.
LEMMA ReceivedIsSent ==
    ASSUME NEW m \in Message
    PROVE  received(BleMessageReq(m)) = m
<1> DEFINE b == BleMessageReq(m)
<1>1. CASE m \in Broadcast
  <2>1. b[1] = 1
    BY <1>1, BroadcastBytes
  <2>2. received(b) = [type |-> "broadcast", message |-> m.message]
    BY <1>1, <2>1, TextEnds DEF received, MessageType
  <2> QED BY <1>1, <2>2 DEF Broadcast
<1>2. CASE m \in Handshake
  <2>1. /\ b \in Seq(Byte) /\ Len(b) = 7
        /\ m.deviceId \in Seq(Byte) /\ Len(m.deviceId) = 4
        /\ b[1] = 2
        /\ \A i \in 1 .. 4 : b[1 + i] = m.deviceId[i]
        /\ b[6] = m.majorVersion /\ b[7] = m.minorVersion
    BY <1>2, HandshakeBytes
  <2> HIDE DEF b
  <2>2. SubSeq(b, 2, 5) = m.deviceId
    <3>1. \A i \in 1 .. 4 : b[2 - 1 + i] = m.deviceId[i]
      BY <2>1
    <3> QED BY <2>1, <3>1, IdRead
  <2>3. received(b) = [type |-> "handshake", deviceId |-> SubSeq(b, 2, 5),
                       majorVersion |-> b[6], minorVersion |-> b[7]]
    <3>1. /\ b[1] = MessageType.handshake
          /\ b[1] # MessageType.broadcast /\ b[1] # MessageType.heartbeat
      BY <2>1 DEF MessageType
    <3> QED BY <3>1 DEF received
  <2>4. b[6] = m.majorVersion /\ b[7] = m.minorVersion
    BY <2>1
  <2> HIDE DEF b
  <2>5. received(b) = m
    BY <1>2, <2>2, <2>3, <2>4 DEF Handshake
  <2> QED BY <2>5 DEF b
<1>3. CASE m \in Heartbeat
  <2> DEFINE d == m.deviceId
             c == m.centralConnectionDeviceId
  <2>1. /\ b \in Seq(Byte) /\ Len(b) = 11
        /\ d \in Seq(Byte) /\ Len(d) = 4 /\ c \in Seq(Byte) /\ Len(c) = 4
        /\ b[1] = 3
        /\ \A i \in 1 .. 4 : b[1 + i] = d[i]
        /\ \A i \in 1 .. 4 : b[5 + i] = c[i]
        /\ b[10] = 0 /\ b[11] = 1
    BY <1>3, HeartbeatBytes
  <2> HIDE DEF b, c, d
  <2>2. SubSeq(b, 2, 5) = d
    <3>1. \A i \in 1 .. 4 : b[2 - 1 + i] = d[i]
      BY <2>1
    <3> QED BY <2>1, <3>1, IdRead
  <2>3. SubSeq(b, 6, 9) = c
    <3>1. \A i \in 1 .. 4 : b[6 - 1 + i] = c[i]
      BY <2>1
    <3> QED BY <2>1, <3>1, IdRead
  <2>4. received(b) = [type |-> "heartbeat", deviceId |-> d, centralConnectionDeviceId |-> c,
                       majorVersion |-> 0, minorVersion |-> 1]
    <3>1. /\ b[1] = MessageType.heartbeat
          /\ b[1] # MessageType.broadcast /\ b[1] # MessageType.handshake
      BY <2>1 DEF MessageType
    <3> QED BY <2>1, <2>2, <2>3, <3>1 DEF received
  <2> QED BY <1>3, <2>4 DEF Heartbeat, b, c, d
<1> QED BY <1>1, <1>2, <1>3 DEF Message
--------------------------------------------------------------------------------
(* The messages on their way. *)

\* What the ring holds are the bytes of the unsent messages, in their order.
HeldAsSaid ==
    /\ unsent \in Seq(Message)
    /\ Len(unsent) = Len(Held(queue))
    /\ \A i \in 1 .. Len(unsent) : Held(queue)[i].data = BleMessageReq(unsent[i])
    /\ out # <<>> => unsent # <<>> /\ out[1].data = BleMessageReq(Head(unsent))

\* Every action of the board and its peer is an operation of the queue, or none.
LEMMA StepOfQueue == [PacketsNext]_pvars => [Next]_vars
<1>1. \A m \in Message : Sent(m) => Next
  BY OffersAssumption DEF Sent, Next
<1>2. send_handshake_message \/ send_heartbeat_message \/ send_broadcast_message => Next
  BY <1>1 DEF send_handshake_message, send_heartbeat_message, send_broadcast_message, Message
<1>3. push_other => Next
  BY OffersAssumption DEF push_other, Next
<1>4. peek \/ pop \/ handle_disconnection_event => Next
  BY DEF peek, pop, handle_disconnection_event, Next
<1>5. missed_event \/ handle_advertising_report_event \/ handle_connection_event
         \/ handle_connection_timeout_event => UNCHANGED vars
  BY DEF missed_event, handle_advertising_report_event, handle_connection_event,
         handle_connection_timeout_event, vars
<1>6. UNCHANGED pvars => UNCHANGED vars
  BY DEF pvars, vars
<1> QED BY <1>2, <1>3, <1>4, <1>5, <1>6 DEF PacketsNext

\* The board's queue is a TransmissionQueue, so that its theorems hold here too.
THEOREM QueueWithin == PacketsSpec => Spec
<1>1. PacketsInit => Init
  BY DEF PacketsInit
<1> QED BY <1>1, StepOfQueue, PTL DEF PacketsSpec, Spec

\* So the ring of a board implements the bounded FIFO.
THEOREM BoardsRingIsFifo == PacketsSpec => ImplementsFifo
  BY QueueWithin, RingIsFifo, PTL

LEMMA SentAsSaid ==
    ASSUME TypeOK, HeldAsSaid, NEW m \in Message, Sent(m)
    PROVE  HeldAsSaid'
<1> DEFINE p == packet(m)
           h == Held(queue)
<1>1. p \in Packet /\ p.data = BleMessageReq(m)
  BY OffersAssumption, OfferedAssumption DEF packet
<1>2. WellFormed(queue)
  BY DEF TypeOK
<1>3. h \in Seq(Storable) /\ Len(h) \in Nat
  BY <1>2, Parts
<1>4. out' = <<>>
  BY DEF Sent, push_onto_queue
<1>5. CASE push_succeeds(queue, p)
  <2>1. Held(queue') = Append(h, p) /\ unsent' = Append(unsent, m)
    <3>1. queue' = pushed(queue, p) /\ unsent' = Append(unsent, m)
      BY <1>5 DEF Sent, push_onto_queue
    <3> QED BY <1>1, <1>2, <1>5, <3>1, PushAppends
  <2>2. p \in Storable
    BY <1>1, <1>5 DEF push_succeeds, Packet, Storable
  <2>3. unsent' \in Seq(Message) /\ Len(unsent') = Len(unsent) + 1
    BY <2>1, AppendProperties DEF HeldAsSaid
  <2>4. Len(Held(queue')) = Len(h) + 1
    BY <1>3, <2>1, <2>2, AppendProperties
  <2>5. ASSUME NEW i \in 1 .. Len(unsent')
        PROVE  Held(queue')[i].data = BleMessageReq(unsent'[i])
    <3>1. CASE i \in 1 .. Len(unsent)
      <4>1. Held(queue')[i] = h[i] /\ unsent'[i] = unsent[i]
        BY <1>3, <2>1, <2>2, <3>1, AppendProperties DEF HeldAsSaid
      <4> QED BY <3>1, <4>1 DEF HeldAsSaid
    <3>2. CASE i = Len(unsent) + 1
      <4>1. Held(queue')[i] = p /\ unsent'[i] = m
        BY <1>3, <2>1, <2>2, <3>2, AppendProperties DEF HeldAsSaid
      <4> QED BY <1>1, <4>1
    <3>3. Len(unsent) \in Nat
      BY DEF HeldAsSaid
    <3> QED BY <2>3, <3>1, <3>2, <3>3
  <2> QED BY <1>4, <2>3, <2>4, <2>5 DEF HeldAsSaid
<1>6. CASE ~push_succeeds(queue, p)
  <2>1. queue' = queue /\ unsent' = unsent
    BY <1>6 DEF Sent, push_onto_queue
  <2> QED BY <1>4, <2>1 DEF HeldAsSaid
<1> QED BY <1>5, <1>6

LEMMA PoppedAsSaid ==
    ASSUME TypeOK, HeldAsSaid, pop
    PROVE  HeldAsSaid'
<1> DEFINE h == Held(queue)
<1>1. WellFormed(queue) /\ h \in Seq(Storable)
  BY Parts DEF TypeOK
<1>2. out' = <<>>
  BY DEF pop, pop_from_queue
<1>3. CASE queue_is_empty(queue)
  BY <1>2, <1>3 DEF HeldAsSaid, pop, pop_from_queue
<1>4. CASE ~queue_is_empty(queue)
  <2>1. Held(queue') = Tail(h) /\ h # <<>> /\ unsent' = Tail(unsent)
    BY <1>1, <1>4, PopRemovesOldest DEF pop, pop_from_queue
  <2>2. Len(h) # 0
    BY <1>1, <2>1, EmptySeq
  <2>3. unsent # <<>>
    BY <2>2, EmptySeq DEF HeldAsSaid
  <2>4. /\ Tail(unsent) \in Seq(Message) /\ Len(Tail(unsent)) = Len(unsent) - 1
        /\ \A i \in 1 .. Len(Tail(unsent)) : Tail(unsent)[i] = unsent[i + 1]
    BY <2>3, HeadTailProperties DEF HeldAsSaid
  <2>5. /\ Len(Tail(h)) = Len(h) - 1
        /\ \A i \in 1 .. Len(Tail(h)) : Tail(h)[i] = h[i + 1]
    BY <1>1, <2>1, HeadTailProperties
  <2>6. ASSUME NEW i \in 1 .. Len(Tail(unsent))
        PROVE  Tail(h)[i].data = BleMessageReq(Tail(unsent)[i])
    <3>1. Len(Tail(unsent)) = Len(Tail(h))
      BY <2>4, <2>5 DEF HeldAsSaid
    <3>2. i + 1 \in 1 .. Len(unsent)
      <4>1. Len(unsent) \in Nat
        BY DEF HeldAsSaid
      <4> QED BY <2>4, <4>1
    <3>3. h[i + 1].data = BleMessageReq(unsent[i + 1])
      BY <3>2 DEF HeldAsSaid
    <3> QED BY <2>4, <2>5, <3>1, <3>3
  <2> QED BY <1>2, <2>1, <2>4, <2>5, <2>6 DEF HeldAsSaid
<1> QED BY <1>3, <1>4

LEMMA PeekedAsSaid ==
    ASSUME TypeOK, HeldAsSaid, peek
    PROVE  HeldAsSaid'
<1> DEFINE h == Held(queue)
<1>1. WellFormed(queue) /\ h \in Seq(Storable) /\ queue' = queue /\ unsent' = unsent
  BY Parts DEF TypeOK, peek, peek_from_queue
<1>2. CASE queue_is_empty(queue)
  BY <1>1, <1>2 DEF HeldAsSaid, peek, peek_from_queue
<1>3. CASE ~queue_is_empty(queue)
  <2>1. h # <<>> /\ out' = <<Head(h)>>
    BY <1>1, <1>3, PopRemovesOldest DEF peek, peek_from_queue
  <2>2. Len(h) # 0
    BY <1>1, <2>1, EmptySeq
  <2>3. unsent # <<>> /\ 1 \in 1 .. Len(unsent)
    BY <2>2, EmptySeq DEF HeldAsSaid
  <2>4. Head(unsent) = unsent[1] /\ Head(h) = h[1]
    OBVIOUS
  <2>5. out'[1].data = BleMessageReq(Head(unsent))
    BY <2>1, <2>3, <2>4 DEF HeldAsSaid
  <2> QED BY <1>1, <2>3, <2>5 DEF HeldAsSaid
<1> QED BY <1>2, <1>3

LEMMA HeldAsSaidStep ==
    ASSUME TypeOK, HeldAsSaid, [PacketsNext]_pvars
    PROVE  HeldAsSaid'
<1>1. ASSUME NEW m \in Message, Sent(m) PROVE HeldAsSaid'
  BY <1>1, SentAsSaid
<1>2. CASE send_handshake_message \/ send_heartbeat_message \/ send_broadcast_message
  BY <1>1, <1>2 DEF send_handshake_message, send_heartbeat_message, send_broadcast_message, Message
<1>3. CASE push_other
  BY <1>3 DEF push_other, push_onto_queue, HeldAsSaid
<1>4. CASE peek
  BY <1>4, PeekedAsSaid
<1>5. CASE pop
  BY <1>5, PoppedAsSaid
<1>6. CASE handle_disconnection_event
  <2>1. Held(queue') = <<>> /\ unsent' = <<>> /\ out' = <<>>
    BY <1>6, ZeroIsEmpty DEF handle_disconnection_event, reset
  <2>2. <<>> \in Seq(Message) /\ Len(<<>>) = 0
    OBVIOUS
  <2> QED BY <2>1, <2>2 DEF HeldAsSaid
<1>7. CASE missed_event \/ handle_advertising_report_event \/ handle_connection_event
              \/ handle_connection_timeout_event \/ UNCHANGED pvars
  <2>1. UNCHANGED <<queue, out, unsent>>
    BY <1>7 DEF missed_event, handle_advertising_report_event, handle_connection_event,
                handle_connection_timeout_event, pvars, vars
  <2> QED BY <2>1 DEF HeldAsSaid
<1> QED BY <1>2, <1>3, <1>4, <1>5, <1>6, <1>7 DEF PacketsNext

LEMMA AlwaysAsSaid == PacketsSpec => []HeldAsSaid
<1>1. PacketsInit => HeldAsSaid
  <2> SUFFICES ASSUME PacketsInit PROVE HeldAsSaid
    OBVIOUS
  <2>1. Held(queue) = <<>> /\ unsent = <<>> /\ out = <<>>
    BY ZeroIsEmpty DEF PacketsInit, Init
  <2>2. <<>> \in Seq(Message) /\ Len(<<>>) = 0
    OBVIOUS
  <2> QED BY <2>1, <2>2 DEF HeldAsSaid
<1>2. TypeOK /\ HeldAsSaid /\ [PacketsNext]_pvars => HeldAsSaid'
  BY HeldAsSaidStep
<1> QED BY <1>1, <1>2, QueueWithin, TypeCorrect, PTL DEF PacketsSpec

\* What the peer reads is what the board meant to say: for every text, version
\* and id, however long the message waited in a ring of whatever size.
THEOREM HeardAsSaid == PacketsSpec => []HearsWhatWasSaid
<1>1. HeldAsSaid => HearsWhatWasSaid
  <2> SUFFICES ASSUME HeldAsSaid, out # <<>>
               PROVE  received(out[1].data) = Head(unsent)
    BY DEF HearsWhatWasSaid
  <2>1. Head(unsent) \in Message /\ out[1].data = BleMessageReq(Head(unsent))
    BY HeadTailProperties DEF HeldAsSaid
  <2> QED BY <2>1, ReceivedIsSent
<1> QED BY <1>1, AlwaysAsSaid, PTL

\* What the queue hands out fits one write and the characteristic, and the text
\* of a broadcast ends inside its packet.
THEOREM AlwaysWritable == PacketsSpec => []PacketsAreWritable
<1>1. HeldAsSaid => PacketsAreWritable
  <2> SUFFICES ASSUME HeldAsSaid, out # <<>>
               PROVE  LET data == out[1].data
                      IN  /\ Len(data) <= 20 /\ Len(data) <= FOO_CHARACTERISTIC_MAX_LENGTH
                          /\ data[1] = MessageType.broadcast =>
                                /\ Len(data) = 1 + BROADCAST_MESSAGE_MAX_SIZE + 1
                                /\ 0 \in {data[i] : i \in 2 .. Len(data)}
    BY DEF PacketsAreWritable
  <2> DEFINE m == Head(unsent)
             b == out[1].data
  <2>1. m \in Message /\ b = BleMessageReq(m)
    BY HeadTailProperties DEF HeldAsSaid
  <2> HIDE DEF m, b
  <2> USE DEF FOO_CHARACTERISTIC_MAX_LENGTH, BROADCAST_MESSAGE_MAX_SIZE, MessageType
  <2>2. CASE m \in Handshake
    <3>1. Len(b) = 7 /\ b[1] = 2
      BY <2>1, <2>2, HandshakeBytes
    <3> QED BY <3>1 DEF b
  <2>3. CASE m \in Heartbeat
    <3>1. Len(b) = 11 /\ b[1] = 3
      BY <2>1, <2>3, HeartbeatBytes
    <3> QED BY <3>1 DEF b
  <2>4. CASE m \in Broadcast
    <3> DEFINE l == Len(m.message)
    <3>1. /\ Len(b) = 14 /\ l \in 0 .. 12
          /\ \A i \in 1 .. 13 : b[1 + i] = IF i <= l THEN m.message[i] ELSE 0
      BY <2>1, <2>4, BroadcastBytes
    <3> HIDE DEF l
    <3>2. b[14] = 0
      <4>1. 13 \in 1 .. 13 /\ ~(13 <= l) /\ 1 + 13 = 14
        BY <3>1
      <4> QED BY <3>1, <4>1
    <3>3. 0 \in {b[i] : i \in 2 .. Len(b)}
      BY <3>1, <3>2
    <3> QED BY <3>1, <3>3 DEF b
  <2> QED BY <2>1, <2>2, <2>3, <2>4 DEF Message
<1> QED BY <1>1, AlwaysAsSaid, PTL

\* Whatever versions and ids peers claim, the texts about them fit their buffers.
THEOREM TextsFit == PacketsSpec => []PrintedTextFits
<1>1. \A n \in Byte : DigitsOf(n) \in 1 .. 3
  BY DEF DigitsOf
<1>2. \A v, w \in Byte : VersionLength(v, w) \in 4 .. 8
  <2> TAKE v, w \in Byte
  <2>1. DigitsOf(v) \in 1 .. 3 /\ DigitsOf(w) \in 1 .. 3
    BY <1>1
  <2> HIDE DEF DigitsOf
  <2> QED BY <2>1 DEF VersionLength
<1>3. HeldAsSaid => PrintedTextFits
  <2> SUFFICES ASSUME HeldAsSaid, out # <<>>
               PROVE  LET m == received(out[1].data)
                      IN  /\ m.type = "handshake" =>
                              /\ VersionLength(m.majorVersion, m.minorVersion) < 9
                              /\ ConnectionLength(m.deviceId, m.majorVersion, m.minorVersion) < 50
                          /\ m.type = "heartbeat" =>
                              HeartbeatLength(m.centralConnectionDeviceId, m.majorVersion,
                                              m.minorVersion) < NRF_LOG_BACKEND_MAX_STRING_LENGTH
    BY DEF PrintedTextFits
  <2> DEFINE m == Head(unsent)
  <2>1. m \in Message /\ out[1].data = BleMessageReq(m)
    BY HeadTailProperties DEF HeldAsSaid
  <2>2. received(out[1].data) = m
    BY <2>1, ReceivedIsSent
  <2> HIDE DEF m
  <2> USE DEF ConnectionLength, HeartbeatLength, HEX_DEVICE_ID_LENGTH, NRF_LOG_BACKEND_MAX_STRING_LENGTH
  <2>3. CASE m \in Handshake
    <3>1. m.type = "handshake" /\ VersionLength(m.majorVersion, m.minorVersion) \in 4 .. 8
      BY <1>2, <2>3, PacketsAssumption DEF Handshake
    <3> QED BY <2>2, <3>1
  <2>4. CASE m \in Heartbeat
    <3>1. m.type = "heartbeat" /\ m.majorVersion \in Byte /\ m.minorVersion \in Byte
      BY <2>4 DEF Heartbeat, Byte
    <3>2. VersionLength(m.majorVersion, m.minorVersion) \in 4 .. 8
      BY <1>2, <3>1
    <3> QED BY <2>2, <3>1, <3>2
  <2>5. CASE m \in Broadcast
    BY <2>2, <2>5 DEF Broadcast
  <2> QED BY <2>1, <2>3, <2>4, <2>5 DEF Message
<1> QED BY <1>3, AlwaysAsSaid, PTL
--------------------------------------------------------------------------------
(* The board and the scanner. *)

\* While the peer scans, the events missed so far have moved the phase up by 32 or
\* more each, from somewhere behind the window on; the one that passes the end of
\* the sweep lands in the window.
Rises(r) ==
    /\ r \in [gap : {"scanning", "initiating", "linked"}, phase : 0 .. 479, missed : Nat]
    /\ r.gap = "scanning" =>
          IF r.phase < 64 THEN r.missed <= 13 ELSE r.phase >= 64 + 32 * r.missed

PhaseRises == Rises(radio)

LEMMA ScanParameters ==
    /\ Sweep = 480
    /\ Phases \subseteq 0 .. 479
    /\ Heard <=> radio.phase \in 0 .. 63
<1>1. Sweep = 480
  BY DEF Sweep, meshScanningParams
<1>2. Phases \subseteq 0 .. 479
  <2>1. Phases = {16 * i : i \in 0 .. 29}
    <3>1. Sweep \div 16 - 1 = 29
      BY <1>1
    <3> QED BY <3>1 DEF Phases
  <2>2. ASSUME NEW x \in Phases PROVE x \in 0 .. 479
    <3>1. PICK i \in 0 .. 29 : x = 16 * i
      BY <2>1
    <3> QED BY <3>1
  <2> QED BY <2>2
<1>3. Heard <=> radio.phase \in 0 .. 63
  BY DEF Heard, Listens, meshAdvertisingParams, meshScanningParams
<1> QED BY <1>1, <1>2, <1>3

\* A scan begins anywhere, with nothing missed.
LEMMA ScanBegins ==
    ASSUME NEW r \in [gap : {"scanning", "initiating"}, phase : Phases, missed : {0}]
    PROVE  Rises(r)
<1>1. r.phase \in 0 .. 479 /\ r.missed = 0
  <2>1. r.phase \in Phases /\ r.missed = 0
    OBVIOUS
  <2>2. ASSUME NEW p \in Phases PROVE p \in 0 .. 479
    BY ScanParameters
  <2> DEFINE phase == r.phase
  <2>3. phase \in Phases
    BY <2>1
  <2> HIDE DEF phase
  <2>4. phase \in 0 .. 479
    BY <2>2, <2>3
  <2> QED BY <2>1, <2>4 DEF phase
<1>2. r \in [gap : {"scanning", "initiating", "linked"}, phase : 0 .. 479, missed : Nat]
  <2>1. r = [gap |-> r.gap, phase |-> r.phase, missed |-> r.missed] /\ r.gap \in {"scanning", "initiating"}
    OBVIOUS
  <2> QED BY <1>1, <2>1
<1>3. 64 + 32 * r.missed = 64
  BY <1>1
<1> QED BY <1>1, <1>2, <1>3 DEF Rises

\* A board that advertises is heard within fourteen of its events, wherever in the
\* sweep of the scanner they began and however the radio delays them.
THEOREM AlwaysHeardInTime == PacketsSpec => []HeardInTime
<1>1. PacketsInit => PhaseRises
  BY ScanBegins DEF PacketsInit, PhaseRises
<1>2. PhaseRises /\ [PacketsNext]_pvars => PhaseRises'
  <2> SUFFICES ASSUME PhaseRises, [PacketsNext]_pvars PROVE PhaseRises'
    OBVIOUS
  <2>1. CASE missed_event
    <3>1. PICK delay \in advDelay :
              radio' = [radio EXCEPT
                  !.phase = (@ + meshAdvertisingParams.interval + delay) % Sweep,
                  !.missed = @ + 1]
      BY <2>1 DEF missed_event
    <3> DEFINE p == radio.phase
               n == radio.missed
               q == (p + 512 + delay) % 480
    <3>2. /\ p \in 0 .. 479 /\ n \in Nat /\ delay \in 0 .. 16
          /\ radio.gap \in {"scanning", "initiating"} /\ p \notin 0 .. 63
      BY <2>1, ScanParameters DEF missed_event, PhaseRises, Rises, advDelay
    <3>3. radio' = [gap |-> radio.gap, phase |-> q, missed |-> n + 1]
      <4>1. radio = [gap |-> radio.gap, phase |-> p, missed |-> n]
        BY DEF PhaseRises, Rises
      <4>2. radio' = [radio EXCEPT !.phase = q, !.missed = n + 1]
        BY <3>1, ScanParameters DEF meshAdvertisingParams
      <4> HIDE DEF p, n, q
      <4> QED BY <4>1, <4>2
    <3>4. q = IF p + 32 + delay < 480 THEN p + 32 + delay ELSE p + 32 + delay - 480
      <4> HIDE DEF p, n
      <4> QED BY <3>2
    <3> HIDE DEF p, n, q
    <3>5. radio'.gap = radio.gap /\ radio'.phase = q /\ radio'.missed = n + 1
      BY <3>3
    <3>6. radio' \in [gap : {"scanning", "initiating", "linked"}, phase : 0 .. 479, missed : Nat]
      <4>1. q \in 0 .. 479 /\ n + 1 \in Nat
        BY <3>2, <3>4
      <4> QED BY <3>2, <3>3, <4>1
    <3>7. ASSUME radio.gap = "scanning"
          PROVE  IF q < 64 THEN n + 1 <= 13 ELSE q >= 64 + 32 * (n + 1)
      <4>1. p >= 64 + 32 * n
        BY <3>2, <3>7 DEF PhaseRises, Rises, p, n
      <4> QED BY <3>2, <3>4, <4>1
    <3> QED BY <3>5, <3>6, <3>7 DEF PhaseRises, Rises
  <2>2. CASE handle_advertising_report_event
    <3>1. CASE UNCHANGED radio
      BY <3>1 DEF PhaseRises
    <3>2. CASE radio' \in [gap : {"initiating"}, phase : Phases, missed : {0}]
      BY <3>2, ScanBegins DEF PhaseRises
    <3> QED BY <2>2, <3>1, <3>2 DEF handle_advertising_report_event
  <2>3. CASE handle_connection_event
    BY <2>3 DEF handle_connection_event, PhaseRises, Rises
  <2>4. CASE handle_connection_timeout_event
    BY <2>4, ScanBegins DEF handle_connection_timeout_event, PhaseRises
  <2>5. CASE handle_disconnection_event
    BY <2>5, ScanBegins DEF handle_disconnection_event, PhaseRises
  <2>6. CASE send_handshake_message \/ send_heartbeat_message \/ send_broadcast_message
    BY <2>6 DEF send_handshake_message, send_heartbeat_message, send_broadcast_message, Sent,
                PhaseRises
  <2>7. CASE push_other \/ peek \/ pop \/ UNCHANGED pvars
    BY <2>7 DEF push_other, peek, pop, pvars, PhaseRises
  <2> QED BY <2>1, <2>2, <2>3, <2>4, <2>5, <2>6, <2>7 DEF PacketsNext
<1>3. PhaseRises => HeardInTime
  BY DEF PhaseRises, Rises, HeardInTime
<1> QED BY <1>1, <1>2, <1>3, PTL DEF PacketsSpec

\* The digit that stands for n reads as n.
LEMMA DigitRead ==
    ASSUME NEW n \in 0 .. 15
    PROVE  hex_digit_to_uint8(HEX_DIGITS[n + 1]) = n
<1>1. \A i, j \in 0 .. 15 : HEX_DIGITS[i + 1] = HEX_DIGITS[j + 1] => i = j
  <2>1. \A i \in 0 .. 15 : HEX_DIGITS[i + 1] = IF i < 10 THEN 48 + i ELSE 55 + i
    BY DEF HEX_DIGITS
  <2> QED BY <2>1
<1>2. (CHOOSE i \in 0 .. 15 : HEX_DIGITS[i + 1] = HEX_DIGITS[n + 1]) = n
  BY <1>1
<1> QED BY <1>2 DEF hex_digit_to_uint8

\* A byte is its two digits.
LEMMA TwoDigits ==
    ASSUME NEW b \in Byte
    PROVE  /\ b % 16 \in 0 .. 15 /\ (b \div 16) % 16 \in 0 .. 15
           /\ 16 * ((b \div 16) % 16) + (b % 16) = b
<1> DEFINE h == b \div 16
           l == b % 16
           r == b - 16 * h
<1>1. b \in Int /\ 0 <= b /\ b <= 255
  BY DEF Byte
<1>2. h \in 0 .. 15 /\ b >= 16 * h /\ b < 16 * h + 16
  BY <1>1
<1> HIDE DEF h
<1>3. r \in 0 .. 15 /\ b = 16 * h + r
  BY <1>1, <1>2
<1>4. h % 16 = h
  BY <1>2
<1> HIDE DEF r
<1>5. l = r
  BY <1>1, <1>2, <1>3
<1> HIDE DEF l
<1>6. l \in 0 .. 15 /\ 16 * h + l = b
  BY <1>3, <1>5
<1>7. h % 16 \in 0 .. 15 /\ 16 * (h % 16) + l = b
  BY <1>2, <1>4, <1>6
<1> QED BY <1>6, <1>7, Zenon DEF h, l

LEMMA NameBytes ==
    ASSUME NEW id \in [1 .. 4 -> Byte]
    PROVE  LET s == get_short_hex_device_id(id)
           IN  /\ s \in Seq(Byte) /\ Len(s) = 10
               /\ s[6] = HEX_DIGITS[((id[2] \div 16) % 16) + 1] /\ s[7] = HEX_DIGITS[(id[2] % 16) + 1]
               /\ s[8] = HEX_DIGITS[((id[1] \div 16) % 16) + 1] /\ s[9] = HEX_DIGITS[(id[1] % 16) + 1]
<1> DEFINE s == get_short_hex_device_id(id)
           Digit(i) == HEX_DIGITS[Nibble(id, 9 - i) + 1]
<1>1. /\ Nibble(id, 3) = (id[2] \div 16) % 16 /\ Nibble(id, 2) = id[2] % 16
      /\ Nibble(id, 1) = (id[1] \div 16) % 16 /\ Nibble(id, 0) = id[1] % 16
  <2>1. /\ 3 \div 2 = 1 /\ 2 \div 2 = 1 /\ 1 \div 2 = 0 /\ 0 \div 2 = 0
        /\ 3 % 2 = 1 /\ 2 % 2 = 0 /\ 1 % 2 = 1 /\ 0 % 2 = 0
    OBVIOUS
  <2>2. id[1] \in Byte /\ id[2] \in Byte
    OBVIOUS
  <2>3. id[1] \div 1 = id[1] /\ id[2] \div 1 = id[2]
    BY <2>2 DEF Byte
  <2> QED BY <2>1, <2>3 DEF Nibble
<1>2. \A n \in 0 .. 15 : HEX_DIGITS[n + 1] \in Byte
  BY DEF HEX_DIGITS, Byte
<1>3. \A n \in 0 .. 3 : Nibble(id, n) \in 0 .. 15
  <2>1. id[1] \in Byte /\ id[2] \in Byte
    OBVIOUS
  <2>2. \A n \in 0 .. 3 : n = 0 \/ n = 1 \/ n = 2 \/ n = 3
    OBVIOUS
  <2> QED BY <1>1, <2>1, <2>2, TwoDigits
<1>4. s = [i \in 1 .. 10 |-> IF i \in 6 .. 9 THEN Digit(i) ELSE HEX_DEVICE_ID_TEMPLATE[i]]
  BY DEF get_short_hex_device_id, HEX_DEVICE_ID_LENGTH
<1>5. \A i \in 6 .. 9 : Digit(i) \in Byte
  <2>1. \A i \in 6 .. 9 : 9 - i \in 0 .. 3
    OBVIOUS
  <2> QED BY <1>2, <1>3, <2>1
<1>6. \A i \in 1 .. 10 : HEX_DEVICE_ID_TEMPLATE[i] \in Byte
  BY DEF HEX_DEVICE_ID_TEMPLATE, Byte
<1> HIDE DEF Digit, s
<1>7. s \in Seq(Byte) /\ Len(s) = 10
  <2> DEFINE c(i) == IF i \in 6 .. 9 THEN Digit(i) ELSE HEX_DEVICE_ID_TEMPLATE[i]
  <2>1. \A i \in 1 .. 10 : c(i) \in Byte
    BY <1>5, <1>6
  <2>2. s = [i \in 1 .. 10 |-> c(i)]
    BY <1>4
  <2> HIDE DEF c
  <2> QED BY <2>1, <2>2
<1>8. s[6] = Digit(6) /\ s[7] = Digit(7) /\ s[8] = Digit(8) /\ s[9] = Digit(9)
  BY <1>4
<1>9. /\ Digit(6) = HEX_DIGITS[Nibble(id, 3) + 1] /\ Digit(7) = HEX_DIGITS[Nibble(id, 2) + 1]
      /\ Digit(8) = HEX_DIGITS[Nibble(id, 1) + 1] /\ Digit(9) = HEX_DIGITS[Nibble(id, 0) + 1]
  BY DEF Digit
<1> QED BY <1>1, <1>7, <1>8, <1>9 DEF s

\* The advertising data of a board, by the place of its bytes.
LEMMA AdvertisingBytes ==
    ASSUME NEW id \in [1 .. 4 -> Byte], NEW unused \in [1 .. 4 -> Byte]
    PROVE  LET b == advertisingData(id, unused)
               s == get_short_hex_device_id(id)
           IN  /\ Len(b) = 22
               /\ b[1] = 9 /\ b[2] = 255 /\ b[3] = 222 /\ b[4] = 192
               /\ b[11] = 11 /\ b[12] = 9
               /\ b[18] = s[6] /\ b[19] = s[7] /\ b[20] = s[8] /\ b[21] = s[9]
               /\ SubSeq(b, 3, 4) = MANUFACTURER_ID
<1> DEFINE s == get_short_hex_device_id(id)
           t1 == <<9, 255>>
           t2 == <<222, 192>>
           t3 == <<0, 6>>
           t4 == <<11, 9>>
           c1 == t1 \o t2
           c2 == c1 \o t3
           c3 == c2 \o unused
           d == t4 \o s
           b == c3 \o d
<1>1. b = advertisingData(id, unused) /\ t2 = MANUFACTURER_ID
  BY DEF advertisingData, manufacturerData, deviceData, AD_MANUFACTURER, MANUFACTURER_ID,
         APP_VERSION_MAIN, APP_VERSION_SUB, HEX_DEVICE_ID_LENGTH, AD_LOCAL_NAME
<1>2. t1 \in Seq(Byte) /\ t2 \in Seq(Byte) /\ t3 \in Seq(Byte) /\ t4 \in Seq(Byte)
  BY DEF Byte
<1>3. /\ Len(t1) = 2 /\ t1[1] = 9 /\ t1[2] = 255
       /\ Len(t2) = 2 /\ t2[1] = 222 /\ t2[2] = 192
       /\ Len(t3) = 2
       /\ Len(t4) = 2 /\ t4[1] = 11 /\ t4[2] = 9
  OBVIOUS
<1>4. unused \in Seq(Byte) /\ Len(unused) = 4 /\ s \in Seq(Byte) /\ Len(s) = 10
  BY IdIsSeq, NameBytes
<1> HIDE DEF t1, t2, t3, t4, s
<1>5. /\ c1 \in Seq(Byte) /\ Len(c1) = Len(t1) + Len(t2)
      /\ \A i \in 1 .. Len(t1) + Len(t2) : c1[i] = IF i <= Len(t1) THEN t1[i] ELSE t2[i - Len(t1)]
  BY <1>2, Joined, Zenon
<1> HIDE DEF c1
<1>6. Len(c1) = 4 /\ c1[1] = 9 /\ c1[2] = 255 /\ c1[3] = 222 /\ c1[4] = 192
  BY <1>3, <1>5
<1>7. /\ c2 \in Seq(Byte) /\ Len(c2) = Len(c1) + Len(t3)
      /\ \A i \in 1 .. Len(c1) + Len(t3) : c2[i] = IF i <= Len(c1) THEN c1[i] ELSE t3[i - Len(c1)]
  BY <1>2, <1>5, Joined, Zenon
<1> HIDE DEF c2
<1>8. Len(c2) = 6 /\ c2[1] = 9 /\ c2[2] = 255 /\ c2[3] = 222 /\ c2[4] = 192
  BY <1>3, <1>6, <1>7
<1>9. /\ c3 \in Seq(Byte) /\ Len(c3) = Len(c2) + Len(unused)
      /\ \A i \in 1 .. Len(c2) + Len(unused) :
             c3[i] = IF i <= Len(c2) THEN c2[i] ELSE unused[i - Len(c2)]
  BY <1>4, <1>7, Joined, Zenon
<1> HIDE DEF c3
<1>10. Len(c3) = 10 /\ c3[1] = 9 /\ c3[2] = 255 /\ c3[3] = 222 /\ c3[4] = 192
  BY <1>4, <1>8, <1>9
<1>11. /\ d \in Seq(Byte) /\ Len(d) = Len(t4) + Len(s)
       /\ \A i \in 1 .. Len(t4) + Len(s) : d[i] = IF i <= Len(t4) THEN t4[i] ELSE s[i - Len(t4)]
  BY <1>2, <1>4, Joined, Zenon
<1> HIDE DEF d
<1>12. /\ Len(d) = 12 /\ d[1] = 11 /\ d[2] = 9
       /\ d[8] = s[6] /\ d[9] = s[7] /\ d[10] = s[8] /\ d[11] = s[9]
  BY <1>3, <1>4, <1>11
<1>13. /\ b \in Seq(Byte) /\ Len(b) = Len(c3) + Len(d)
       /\ \A i \in 1 .. Len(c3) + Len(d) : b[i] = IF i <= Len(c3) THEN c3[i] ELSE d[i - Len(c3)]
  BY <1>9, <1>11, Joined, Zenon
<1> HIDE DEF b
<1>14. /\ Len(b) = 22
       /\ b[1] = 9 /\ b[2] = 255 /\ b[3] = 222 /\ b[4] = 192
       /\ b[11] = 11 /\ b[12] = 9
       /\ b[18] = s[6] /\ b[19] = s[7] /\ b[20] = s[8] /\ b[21] = s[9]
  BY <1>10, <1>12, <1>13
<1>15. SubSeq(b, 3, 4) = t2
  <2>1. \A i \in 3 .. 4 : b[i] \in Byte
    <3>1. \A i \in 3 .. 4 : i \in 1 .. Len(b)
      BY <1>14
    <3> QED BY <1>13, <3>1, ElementOfSeq
  <2>2. /\ SubSeq(b, 3, 4) \in Seq(Byte) /\ Len(SubSeq(b, 3, 4)) = 2
        /\ \A i \in 1 .. 2 : SubSeq(b, 3, 4)[i] = b[3 + i - 1]
    <3>1. 4 - 3 + 1 = 2 /\ 3 <= 4 /\ 3 \in Int /\ 4 \in Int
      OBVIOUS
    <3> QED BY <2>1, <3>1, SubSeqProperties
  <2>3. \A i \in 1 .. 2 : b[3 + i - 1] = t2[i]
    <3>1. \A i \in 1 .. 2 : i = 1 \/ i = 2
      OBVIOUS
    <3>2. b[3 + 1 - 1] = t2[1] /\ b[3 + 2 - 1] = t2[2]
      BY <1>3, <1>14
    <3> QED BY <3>1, <3>2
  <2> QED BY <1>2, <1>3, <2>2, <2>3, SeqEqual
<1> QED BY <1>1, <1>14, <1>15 DEF s

\* The report handled last is of a board, of another device or of nobody, and tells
\* whether an attempt goes on; once linked there is none.
ReportKnown ==
    /\ \/ report = Nobody
       \/ \E id \in DeviceIds, unused \in UnusedBytes :
              report = [id |-> id, data |-> advertisingData(id, unused), response |-> scanResponseData]
       \/ report.id = NoId
    /\ radio.gap = "linked" => report = Nobody
    /\ RecognisesMesh

LEMMA BoardRecognised ==
    ASSUME NEW id \in [1 .. 4 -> Byte], NEW unused \in [1 .. 4 -> Byte]
    PROVE  should_connect_to_advertiser(advertisingData(id, unused))
<1>1. SizeOfAdvertisingData = 22
  BY AdvertisingBytes, NoIdIsId DEF SizeOfAdvertisingData
<1> QED BY <1>1, AdvertisingBytes DEF should_connect_to_advertiser, AD_MANUFACTURER

LEMMA OthersIgnored ==
    ASSUME NEW data \in OtherReports
    PROVE  ~should_connect_to_advertiser(data)
<1>1. SizeOfAdvertisingData = 22
  BY AdvertisingBytes, NoIdIsId DEF SizeOfAdvertisingData
<1> QED BY <1>1, PacketsAssumption DEF should_connect_to_advertiser

LEMMA ReportKnownAlways == PacketsSpec => []ReportKnown
<1>1. PacketsInit => ReportKnown
  BY DEF PacketsInit, ReportKnown, RecognisesMesh
<1>2. ReportKnown /\ [PacketsNext]_pvars => ReportKnown'
  <2> SUFFICES ASSUME ReportKnown, [PacketsNext]_pvars PROVE ReportKnown'
    OBVIOUS
  <2> USE DEF ReportKnown, RecognisesMesh
  <2>1. CASE missed_event
    <3>1. radio'.gap = radio.gap /\ report' = report
      BY <2>1 DEF missed_event
    <3> QED BY <3>1
  <2>2. CASE handle_advertising_report_event
    <3>1. CASE board_reported
      <4>1. PICK id \in DeviceIds, unused \in UnusedBytes :
                report' = [id |-> id, data |-> advertisingData(id, unused), response |-> scanResponseData]
        BY <3>1 DEF board_reported
      <4>2. id \in [1 .. 4 -> Byte] /\ id # NoId /\ unused \in [1 .. 4 -> Byte]
        BY PacketsAssumption
      <4>3. should_connect_to_advertiser(report'.data)
        BY <4>1, <4>2, BoardRecognised
      <4>4. ConnectionAccepted
        BY DEF ConnectionAccepted, meshConnectionParams, ATTR_MESH_CONNECTION_INTERVAL,
               ATTR_MESH_CONNECTION_TIMEOUT
      <4>5. radio'.gap = "initiating"
        BY <2>2, <4>3, <4>4 DEF handle_advertising_report_event
      <4>6. report'.id # NoId
        BY <4>1, <4>2
      <4> QED BY <4>1, <4>5, <4>6
    <3>2. CASE other_reported
      <4>1. report'.id = NoId /\ report'.data \in OtherReports /\ radio.gap = "scanning"
        BY <3>2 DEF other_reported
      <4>2. radio' = radio
        BY <2>2, <4>1, OthersIgnored DEF handle_advertising_report_event
      <4> QED BY <4>1, <4>2
    <3> QED BY <2>2, <3>1, <3>2 DEF handle_advertising_report_event
  <2>3. CASE handle_connection_event
    BY <2>3 DEF handle_connection_event
  <2>4. CASE handle_connection_timeout_event
    BY <2>4 DEF handle_connection_timeout_event
  <2>5. CASE handle_disconnection_event
    BY <2>5 DEF handle_disconnection_event
  <2>6. CASE send_handshake_message \/ send_heartbeat_message \/ send_broadcast_message
    BY <2>6 DEF send_handshake_message, send_heartbeat_message, send_broadcast_message, Sent
  <2>7. CASE push_other \/ peek \/ pop \/ UNCHANGED pvars
    BY <2>7 DEF push_other, peek, pop, pvars
  <2> QED BY <2>1, <2>2, <2>3, <2>4, <2>5, <2>6, <2>7 DEF PacketsNext
<1> QED BY <1>1, <1>2, PTL DEF PacketsSpec

\* Whatever the ids of boards and the bytes they leave unset, a scanning board sets
\* out to connect to them, and to no device that is not of the mesh.
THEOREM AlwaysRecognised == PacketsSpec => []RecognisesMesh
<1>1. ReportKnown => RecognisesMesh
  BY DEF ReportKnown
<1> QED BY <1>1, ReportKnownAlways, PTL

\* The advertising data of every board can be taken apart, and its name says the
\* lower half of the id.
THEOREM AlwaysParses == PacketsSpec => []AdvertisementParses
<1>1. ReportKnown => AdvertisementParses
  <2> SUFFICES ASSUME ReportKnown, report.id # NoId PROVE AdvertisementParses
    BY DEF AdvertisementParses
  <2>1. report # Nobody
    BY DEF Nobody
  <2>2. PICK id \in DeviceIds, unused \in UnusedBytes :
            report = [id |-> id, data |-> advertisingData(id, unused), response |-> scanResponseData]
    BY <2>1 DEF ReportKnown
  <2>3. id \in [1 .. 4 -> Byte] /\ unused \in [1 .. 4 -> Byte]
    BY PacketsAssumption
  <2> DEFINE b == report.data
             Digit(n) == hex_digit_to_uint8(HEX_DIGITS[n + 1])
  <2>4. /\ Len(b) = 22 /\ b[1] = 9 /\ b[11] = 11 /\ b[12] = 9
        /\ b[18] = HEX_DIGITS[((id[2] \div 16) % 16) + 1] /\ b[19] = HEX_DIGITS[(id[2] % 16) + 1]
        /\ b[20] = HEX_DIGITS[((id[1] \div 16) % 16) + 1] /\ b[21] = HEX_DIGITS[(id[1] % 16) + 1]
    BY <2>2, <2>3, AdvertisingBytes, NameBytes
  <2>5. id[1] \in Byte /\ id[2] \in Byte
    BY <2>3
  <2>6. ASSUME NEW c \in Byte, NEW h, NEW l,
               h = HEX_DIGITS[((c \div 16) % 16) + 1], l = HEX_DIGITS[(c % 16) + 1]
        PROVE  16 * hex_digit_to_uint8(h) + hex_digit_to_uint8(l) = c
    <3>1. (c \div 16) % 16 \in 0 .. 15 /\ c % 16 \in 0 .. 15
      BY TwoDigits, Zenon
    <3>2. hex_digit_to_uint8(h) = (c \div 16) % 16 /\ hex_digit_to_uint8(l) = c % 16
      BY <2>6, <3>1, DigitRead, Zenon
    <3>3. 16 * ((c \div 16) % 16) + (c % 16) = c
      BY TwoDigits, Zenon
    <3> QED BY <3>2, <3>3, Zenon
  <2>7. /\ 16 * hex_digit_to_uint8(b[18]) + hex_digit_to_uint8(b[19]) = id[2]
        /\ 16 * hex_digit_to_uint8(b[20]) + hex_digit_to_uint8(b[21]) = id[1]
    <3>1. /\ b[18] = HEX_DIGITS[((id[2] \div 16) % 16) + 1] /\ b[19] = HEX_DIGITS[(id[2] % 16) + 1]
          /\ b[20] = HEX_DIGITS[((id[1] \div 16) % 16) + 1] /\ b[21] = HEX_DIGITS[(id[1] % 16) + 1]
      BY <2>4
    <3> DEFINE c1 == id[1]
               c2 == id[2]
    <3>2. c1 \in Byte /\ c2 \in Byte
      BY <2>5
    <3> HIDE DEF b
    <3>3. /\ b[18] = HEX_DIGITS[((c2 \div 16) % 16) + 1] /\ b[19] = HEX_DIGITS[(c2 % 16) + 1]
          /\ b[20] = HEX_DIGITS[((c1 \div 16) % 16) + 1] /\ b[21] = HEX_DIGITS[(c1 % 16) + 1]
      BY <3>1
    <3> HIDE DEF c1, c2
    <3>4. 16 * hex_digit_to_uint8(b[18]) + hex_digit_to_uint8(b[19]) = c2
      BY <2>6, <3>2, <3>3, Zenon
    <3>5. 16 * hex_digit_to_uint8(b[20]) + hex_digit_to_uint8(b[21]) = c1
      BY <2>6, <3>2, <3>3, Zenon
    <3> QED BY <3>4, <3>5 DEF c1, c2
  <2>8. Len(report.response) = 18 /\ report.response[1] = 17
    BY <2>2 DEF scanResponseData, FOO_SERVICE_UUID
  <2>9. report.id = id
    BY <2>2
  <2> HIDE DEF b
  <2> QED BY <2>4, <2>7, <2>8, <2>9 DEF AdvertisementParses, AD_LOCAL_NAME, b
<1> QED BY <1>1, ReportKnownAlways, PTL
================================================================================
