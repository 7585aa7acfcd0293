-------------------------------- MODULE Channel --------------------------------
(***************************************************************************)
(* What the send path promises the two ends of one connection: the peer    *)
(* receives a front of the messages the application handed over, each one  *)
(* once and in their order.  A message that finds no room costs the        *)
(* connection, and nothing handed over after it arrives.  Outbox           *)
(* implements this specification; Traffic takes it for granted.            *)
(***************************************************************************)
EXTENDS Integers, Sequences

VARIABLES state,      \* "down", "up" or, once the connection is given up, "closing"
          line,       \* messages handed over that will still arrive, unless the link breaks
          received    \* messages the peer has received

vars == <<state, line, received>>

Init == state = "down" /\ line = <<>> /\ received = <<>>

\* The peer receives the first k messages of the line; rest is what stays.
Receive(k, rest) ==
    /\ received' = received \o SubSeq(line, 1, k)
    /\ line' = rest

Connect ==
    /\ state = "down"
    /\ state' = "up"
    /\ received' = <<>>
    /\ UNCHANGED line

\* Messages are numbered as they are handed over.
Accept ==
    /\ state = "up"
    /\ line' = Append(line, Len(received) + Len(line) + 1)
    /\ UNCHANGED <<state, received>>

\* A message is refused, or the peer is not wanted: what has not left is lost.
GiveUp ==
    /\ state = "up"
    /\ state' = "closing"
    /\ \E k \in 0 .. Len(line) : line' = SubSeq(line, 1, k)
    /\ UNCHANGED received

Deliver ==
    /\ state # "down"
    /\ \E k \in 1 .. Len(line) : Receive(k, SubSeq(line, k + 1, Len(line)))
    /\ UNCHANGED state

\* The link ends; the last packets may or may not have come through.
Break ==
    /\ state # "down"
    /\ state' = "down"
    /\ \E k \in 0 .. Len(line) : Receive(k, <<>>)

\* What the peer of an earlier link received no longer counts.
Forget ==
    /\ state = "down"
    /\ received' = <<>>
    /\ UNCHANGED <<state, line>>

Next == Connect \/ Accept \/ GiveUp \/ Deliver \/ Break \/ Forget

Spec == Init /\ [][Next]_vars
================================================================================
