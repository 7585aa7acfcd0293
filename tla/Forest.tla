-------------------------------- MODULE Forest --------------------------------
(***************************************************************************)
(* What the connection handling of the boards promises to the rest of the  *)
(* mesh: links between boards come and go, and those that nobody has asked *)
(* to end form trees, whatever their number and however they break.  Mesh  *)
(* and Traffic implement this specification where handlers run before the  *)
(* next link of their board comes up.                                      *)
(***************************************************************************)
CONSTANT Boards
VARIABLE tree          \* the links, as pairs <<parent, child>>

Links == {l \in Boards \X Boards : l[1] # l[2]}
TypeOK == tree \subseteq Links

ParentsOf(c) == {p \in Boards : <<p, c>> \in tree}
ChildrenOf(p) == {c \in Boards : <<p, c>> \in tree}

Init == tree = {}

\* A board finds a parent only while it has neither a parent nor children:
\* it advertises as an orphan, and an orphan sheds its children.
Attach(p, c) ==
    /\ <<p, c>> \in Links
    /\ ParentsOf(c) = {}
    /\ ChildrenOf(c) = {}
    /\ tree' = tree \union {<<p, c>>}

\* Links break, several at once when a board sheds its children.
Detach(gone) ==
    /\ gone \subseteq tree
    /\ tree' = tree \ gone

Next ==
    \/ \E p, c \in Boards : Attach(p, c)
    \/ \E gone \in SUBSET tree : Detach(gone)

Spec == Init /\ [][Next]_tree

--------------------------------------------------------------------------------
\* No board has two parents.
OneParent == \A c \in Boards : \A p, q \in ParentsOf(c) : p = q

\* No cycles: among any boards there is one whose parent is not among them.
\* A message that never goes back to where it came from ends (gatt.c:121).
NoCycle ==
    \A some \in SUBSET Boards :
        some # {} => \E b \in some : ParentsOf(b) \cap some = {}
================================================================================
