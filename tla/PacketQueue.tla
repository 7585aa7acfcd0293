------------------------------ MODULE PacketQueue ------------------------------
(***************************************************************************)
(* The ring buffer of outgoing packets that every connection owns          *)
(* (src/queue.c, inc/queue.h), as operators on a record                    *)
(*   [count, front : uint8_t, queue : [0 .. MAX_QUEUE_SIZE - 1 -> Packet]]. *)
(* The two indices keep the width of the uint8_t fields they stand for.    *)
(***************************************************************************)
EXTENDS Integers, Sequences

CONSTANTS MAX_QUEUE_SIZE,          \* 20 in inc/queue.h
          MAX_QUEUE_DATA_LENGTH,   \* 23 in inc/queue.h
          Payloads,                \* what the data bytes of a packet can say
          ZeroPayload              \* data bytes that memset cleared

\* count must be able to reach MAX_QUEUE_SIZE in a uint8_t.
ASSUME QueueAssumption ==
    /\ MAX_QUEUE_SIZE \in 1 .. 255
    /\ MAX_QUEUE_DATA_LENGTH \in Nat
    /\ ZeroPayload \in Payloads

UInt8 == 0 .. 255
Slots == 0 .. MAX_QUEUE_SIZE - 1

Packet == [dataLength : Nat, data : Payloads]
ZeroPacket == [dataLength |-> 0, data |-> ZeroPayload]
Storable == [dataLength : 0 .. MAX_QUEUE_DATA_LENGTH, data : Payloads]

transmissionPacketQueue ==
    [count : UInt8, front : UInt8, queue : [Slots -> Storable]]

\* A connection is memset to zero before it is used, its queue with it.
ZeroQueue == [count |-> 0, front |-> 0, queue |-> [s \in Slots |-> ZeroPacket]]

queue_is_empty(q) == q.count <= 0

queue_is_full(q) == q.count >= MAX_QUEUE_SIZE

\* Slip: the ring is taken to start at slot 0.
first_empty_index_unrotated(q) == q.count % MAX_QUEUE_SIZE

first_empty_index(q) == ((q.front + q.count) % MAX_QUEUE_SIZE) % 256

increment_index(i) == ((i + 1) % MAX_QUEUE_SIZE) % 256

\* push_onto_queue returns true ...
push_succeeds(q, p) ==
    /\ ~queue_is_full(q)
    /\ p.dataLength <= MAX_QUEUE_DATA_LENGTH

\* ... and then leaves the queue like this.
pushed(q, p) ==
    [q EXCEPT !.queue[first_empty_index(q)] = p,
              !.count = (q.count + 1) % 256]

\* The packet peek_from_queue copies out of a queue that is not empty.
peeked(q) == q.queue[q.front]

\* What pop_from_queue leaves of a queue that is not empty.
popped(q) ==
    [q EXCEPT !.front = increment_index(q.front),
              !.count = (q.count - 1) % 256]
================================================================================
