--------------------------- MODULE TransmissionQueue ---------------------------
(***************************************************************************)
(* One packet queue driven by its callers: gatt.c pushes, peeks and pops,  *)
(* connection.c clears it when the connection is lost.  It implements      *)
(* BoundedFifo.                                                            *)
(***************************************************************************)
EXTENDS PacketQueue

CONSTANT Offered        \* the packets callers offer: a subset of Packet

ASSUME OfferedAssumption == Offered \subseteq Packet

VARIABLES queue,        \* the transmissionPacketQueue
          ok,           \* the bool the last call returned
          out           \* <<packet>> the last call copied out, else <<>>

vars == <<queue, ok, out>>

WellFormed(q) ==
    /\ q \in transmissionPacketQueue
    /\ q.count <= MAX_QUEUE_SIZE
    /\ q.front < MAX_QUEUE_SIZE

\* The two uint8_t indices stay inside the ring, no slot holds a packet longer
\* than its array, and nothing else is ever handed out.
TypeOK ==
    /\ WellFormed(queue)
    /\ ok \in BOOLEAN
    /\ out \in {<<>>} \union {<<p>> : p \in Storable}

Init == queue = ZeroQueue /\ ok = TRUE /\ out = <<>>

push_onto_queue(p) ==
    /\ ok' = push_succeeds(queue, p)
    /\ queue' = IF push_succeeds(queue, p) THEN pushed(queue, p) ELSE queue
    /\ out' = <<>>

peek_from_queue ==
    /\ ok' = ~queue_is_empty(queue)
    /\ out' = IF queue_is_empty(queue) THEN <<>> ELSE <<peeked(queue)>>
    /\ UNCHANGED queue

pop_from_queue ==
    /\ ok' = ~queue_is_empty(queue)
    /\ queue' = IF queue_is_empty(queue) THEN queue ELSE popped(queue)
    /\ out' = <<>>

\* unset_connection clears the whole connection, its queue included.
reset == queue' = ZeroQueue /\ ok' = TRUE /\ out' = <<>>

Next ==
    \/ \E p \in Offered : push_onto_queue(p)
    \/ peek_from_queue
    \/ pop_from_queue
    \/ reset

Spec == Init /\ [][Next]_vars

--------------------------------------------------------------------------------
(* The packets held, oldest first: the slots from front on, modulo the size. *)
Held(q) ==
    [i \in 1 .. q.count |-> q.queue[(q.front + i - 1) % MAX_QUEUE_SIZE]]

Fifo == INSTANCE BoundedFifo
            WITH contents <- Held(queue), Capacity <- MAX_QUEUE_SIZE,
                 Items <- Offered, Admissible <- Storable

\* The ring buffer implements a bounded FIFO: whatever the order of pushes,
\* pops and clears, and however often the indices wrap, peek_from_queue hands
\* out the oldest packet not yet popped, unaltered; push_onto_queue refuses
\* exactly when MAX_QUEUE_SIZE packets are held or the packet is too long.
ImplementsFifo == Fifo!Spec
================================================================================
