------------------------------ MODULE BoundedFifo ------------------------------
(***************************************************************************)
(* What the packet queue promises: a FIFO of at most Capacity admissible   *)
(* items whose operations report whether they took effect.                 *)
(***************************************************************************)
EXTENDS Naturals, Sequences

CONSTANTS Capacity, Items, Admissible

VARIABLES contents,   \* the items held, oldest first
          ok,         \* the result of the last operation
          out         \* <<item>> copied out by the last operation, else <<>>

vars == <<contents, ok, out>>

Init == contents = <<>> /\ ok = TRUE /\ out = <<>>

Refuse == ok' = FALSE /\ out' = <<>> /\ UNCHANGED contents

Push(item) ==
    /\ Len(contents) < Capacity
    /\ item \in Admissible
    /\ contents' = Append(contents, item)
    /\ ok' = TRUE
    /\ out' = <<>>

PushRefused(item) ==
    /\ Len(contents) = Capacity \/ item \notin Admissible
    /\ Refuse

Peek ==
    /\ contents # <<>>
    /\ ok' = TRUE
    /\ out' = <<Head(contents)>>
    /\ UNCHANGED contents

Pop ==
    /\ contents # <<>>
    /\ contents' = Tail(contents)
    /\ ok' = TRUE
    /\ out' = <<>>

Empty == contents = <<>> /\ Refuse

Reset == contents' = <<>> /\ ok' = TRUE /\ out' = <<>>

Next ==
    \/ \E item \in Items : Push(item) \/ PushRefused(item)
    \/ Peek
    \/ Pop
    \/ Empty
    \/ Reset

Spec == Init /\ [][Next]_vars
================================================================================
