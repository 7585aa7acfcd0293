------------------------------ MODULE MeshProofs ------------------------------
(***************************************************************************)
(* When handlers run before the next link comes up (Prompt), the links of  *)
(* any number of boards form a forest, and a tree that has settled hangs   *)
(* under the gateway and looks for the boards that are not in it.          *)
(*                                                                         *)
(* The boards decide on ble_conn_state, which lags behind the links.  The  *)
(* invariant says by how much: what is missing or too many in it is still  *)
(* among the events that the softdevice holds.                             *)
(***************************************************************************)
EXTENDS Mesh, FiniteSetTheorems, TLAPS

Among(s) == {s[i] : i \in 1 .. Len(s)}

Conn(l) == [type |-> "CONNECTED", link |-> l]
Disc(l) == [type |-> "DISCONNECTED", link |-> l]
Ends(l) == {l[1], l[2]}

\* The events by which a board learns that a link to a parent ended.
ParentLoss(b) == {Disc(l) : l \in {m \in Links : m[2] = b}}

None(D, s) == Among(s) \cap D = {}
Once(D, s) == \A i, j \in 1 .. Len(s) : s[i] \in D /\ s[j] \in D => i = j

--------------------------------------------------------------------------------
(* The inductive invariant. *)

\* A board hears of its own links only.
OwnEvents ==
    \A b \in Boards :
        /\ \A l \in connState[b] : b \in Ends(l)
        /\ \A l \in Links : Conn(l) \in Among(sdEvents[b]) \/ Disc(l) \in Among(sdEvents[b])
                            => b \in Ends(l)

\* ble_conn_state lists every link, or will.
Listed ==
    \A b \in Boards : \A l \in links :
        b \in Ends(l) => l \in connState[b] \/ Conn(l) \in Among(sdEvents[b])

\* What it lists, or will list, is a link, or it will be told otherwise.
Honest ==
    \A b \in Boards : \A l \in Links :
        l \in connState[b] \/ Conn(l) \in Among(sdEvents[b])
        => l \in links \/ Disc(l) \in Among(sdEvents[b])

\* A link comes up again only after its loss was dispatched.
Gone == \A b \in Boards : \A l \in Links : Disc(l) \in Among(sdEvents[b]) => l \notin links

\* A CONNECTED event has no other event in front of it.
FirstInLine ==
    \A b \in Boards : \A i \in 1 .. Len(sdEvents[b]) :
        sdEvents[b][i].type = "CONNECTED" => i = 1

OneParentLink == \A l, m \in links : l[2] = m[2] => l = m

NoLoss(b) == None(ParentLoss(b), sdEvents[b]) /\ None(ParentLoss(b), sched[b])

\* A mesh board advertises, or has one parent, or is about to learn of the loss of
\* one: exactly one of the three.
Orphans ==
    \A c \in Boards :
        /\ c \in advertising => c # Gateway /\ ~HasParent(c) /\ NoLoss(c)
        /\ ~NoLoss(c) => ~HasParent(c)
        /\ Once(ParentLoss(c), sdEvents[c]) /\ Once(ParentLoss(c), sched[c])
        /\ None(ParentLoss(c), sdEvents[c]) \/ None(ParentLoss(c), sched[c])
        /\ c # Gateway => c \in advertising \/ HasParent(c) \/ ~NoLoss(c)

\* The children of a board that advertises are on their way out, but for those
\* whose CONNECTED event it has not handled.
Shedding ==
    \A c \in advertising : \A l \in links \ closing :
        l[1] = c => Conn(l) \in Among(sdEvents[c]) \union Among(sched[c])

IInv ==
    /\ TypeOK
    /\ OwnEvents
    /\ Listed
    /\ Honest
    /\ Gone
    /\ FirstInLine
    /\ OneParentLink
    /\ Orphans
    /\ Shedding

--------------------------------------------------------------------------------
(* Sequences and the events in them. *)

LEMMA AmongAppended ==
    ASSUME NEW S, NEW s \in Seq(S), NEW e \in S
    PROVE  /\ Append(s, e) \in Seq(S)
           /\ Among(Append(s, e)) = Among(s) \union {e}
<1>1. /\ Append(s, e) \in Seq(S) /\ Len(Append(s, e)) = Len(s) + 1
      /\ \A i \in 1 .. Len(s) : Append(s, e)[i] = s[i]
      /\ Append(s, e)[Len(s) + 1] = e /\ Len(s) \in Nat
  OBVIOUS
<1>2. 1 .. Len(s) + 1 = 1 .. Len(s) \union {Len(s) + 1}
  BY <1>1
<1> QED BY <1>1, <1>2 DEF Among

LEMMA AmongTail ==
    ASSUME NEW S, NEW s \in Seq(S), s # <<>>
    PROVE  /\ Tail(s) \in Seq(S)
           /\ Head(s) \in S
           /\ Among(s) = {Head(s)} \union Among(Tail(s))
<1>1. /\ Tail(s) \in Seq(S) /\ Head(s) \in S /\ Head(s) = s[1]
      /\ Len(s) \in Nat \ {0} /\ Len(Tail(s)) = Len(s) - 1
      /\ \A i \in 1 .. Len(s) - 1 : Tail(s)[i] = s[i + 1]
  OBVIOUS
<1>2. \A i \in 2 .. Len(s) : i - 1 \in 1 .. Len(s) - 1 /\ s[i] = Tail(s)[i - 1]
  BY <1>1
<1>3. \A i \in 1 .. Len(s) - 1 : i + 1 \in 1 .. Len(s)
  BY <1>1
<1>4. 1 \in 1 .. Len(s) /\ \A i \in 1 .. Len(s) : i = 1 \/ i \in 2 .. Len(s)
  BY <1>1
<1>5. ASSUME NEW x \in Among(s) PROVE x \in {Head(s)} \union Among(Tail(s))
  <2>1. PICK i \in 1 .. Len(s) : x = s[i]
    BY <1>5 DEF Among
  <2>2. CASE i = 1
    BY <1>1, <2>1, <2>2
  <2>3. CASE i \in 2 .. Len(s)
    <3>1. i - 1 \in 1 .. Len(Tail(s)) /\ x = Tail(s)[i - 1]
      BY <1>1, <1>2, <2>1, <2>3
    <3> QED BY <3>1 DEF Among
  <2> QED BY <1>4, <2>2, <2>3
<1>6. ASSUME NEW x \in Among(Tail(s)) PROVE x \in Among(s)
  <2>1. PICK i \in 1 .. Len(Tail(s)) : x = Tail(s)[i]
    BY <1>6 DEF Among
  <2>2. i + 1 \in 1 .. Len(s) /\ x = s[i + 1]
    BY <1>1, <1>3, <2>1
  <2> QED BY <2>2 DEF Among
<1>7. Head(s) \in Among(s)
  BY <1>1, <1>4 DEF Among
<1> QED BY <1>1, <1>5, <1>6, <1>7

LEMMA AmongNothing == Among(<<>>) = {}
  BY DEF Among

LEMMA OnceAppended ==
    ASSUME NEW S, NEW s \in Seq(S), NEW e \in S, NEW D, Once(D, s), None(D, s) \/ e \notin D
    PROVE  Once(D, Append(s, e))
<1>1. /\ Len(Append(s, e)) = Len(s) + 1 /\ Len(s) \in Nat
      /\ \A i \in 1 .. Len(s) : Append(s, e)[i] = s[i]
      /\ Append(s, e)[Len(s) + 1] = e
  OBVIOUS
<1>2. SUFFICES ASSUME NEW i \in 1 .. Len(s) + 1, NEW j \in 1 .. Len(s) + 1,
                      Append(s, e)[i] \in D, Append(s, e)[j] \in D
               PROVE  i = j
  BY <1>1 DEF Once
<1>3. CASE e \notin D
  BY <1>1, <1>2, <1>3 DEF Once
<1>4. CASE None(D, s)
  <2>1. \A k \in 1 .. Len(s) : s[k] \notin D
    BY <1>4 DEF None, Among
  <2> QED BY <1>1, <1>2, <2>1
<1> QED BY <1>3, <1>4

LEMMA OnceTail ==
    ASSUME NEW S, NEW s \in Seq(S), s # <<>>, NEW D, Once(D, s)
    PROVE  /\ Once(D, Tail(s))
           /\ Head(s) \in D => None(D, Tail(s))
<1>1. /\ Head(s) = s[1] /\ Len(s) \in Nat \ {0} /\ Len(Tail(s)) = Len(s) - 1
      /\ \A i \in 1 .. Len(s) - 1 : Tail(s)[i] = s[i + 1]
  OBVIOUS
<1>2. Once(D, Tail(s))
  BY <1>1 DEF Once
<1>3. ASSUME Head(s) \in D PROVE None(D, Tail(s))
  <2>1. \A i \in 1 .. Len(s) - 1 : i + 1 \in 1 .. Len(s) /\ i + 1 # 1
    BY <1>1
  <2>2. \A i \in 1 .. Len(s) - 1 : Tail(s)[i] \notin D
    BY <1>1, <1>3, <2>1 DEF Once
  <2> QED BY <1>1, <2>2 DEF None, Among
<1> QED BY <1>2, <1>3

LEMMA Events ==
    /\ \A l, m : (Conn(l) = Conn(m) => l = m) /\ (Disc(l) = Disc(m) => l = m)
    /\ \A l, m : Conn(l) # Disc(m)
    /\ \A l \in Links : Conn(l) \in Event /\ Disc(l) \in Event
    /\ \A e \in Event : e.type = "CONNECTED" => e.link \in Links /\ e = Conn(e.link)
    /\ \A e \in Event : e.type = "DISCONNECTED" => e.link \in Links /\ e = Disc(e.link)
    /\ \A e \in Event : e.type = "TIMEOUT" => \A l : e # Conn(l) /\ e # Disc(l)
    /\ \A e \in Event : e.type \in {"CONNECTED", "DISCONNECTED", "TIMEOUT"}
    /\ [type |-> "TIMEOUT"] \in Event
    /\ \A l : Conn(l).type = "CONNECTED" /\ Disc(l).type = "DISCONNECTED"
    /\ \A l : Conn(l).link = l /\ Disc(l).link = l
  BY DEF Conn, Disc, Event, LinkEvent

LEMMA LinkHasTwoEnds ==
    /\ \A l \in Links : l = <<l[1], l[2]>> /\ l[1] \in Boards /\ l[2] \in Boards /\ l[1] # l[2]
    /\ \A p, c \in Boards : p # c => <<p, c>> \in Links
    /\ \A p, c : <<p, c>>[1] = p /\ <<p, c>>[2] = c
  BY DEF Links

--------------------------------------------------------------------------------
(* What the steps do to the events and to the links. *)

\* A handler takes one event from the queue, and asks for links to end at most.
HandlerEffect(b) ==
    /\ sched[b] # <<>> /\ sched' = [sched EXCEPT ![b] = Tail(@)]
    /\ UNCHANGED <<links, sdEvents, connState, losses>>
    /\ closing \subseteq closing' /\ closing' \subseteq links
    /\ \E g \in {"idle", "scanning"} \union Boards : gap' = [gap EXCEPT ![b] = g]

LEMMA HandlerSteps ==
    ASSUME TypeOK, NEW b \in Boards,
           \/ handle_connection_timeout_event(b) \/ child_connected(b) \/ parent_connected(b)
           \/ parent_lost(b) \/ child_lost(b)
    PROVE  HandlerEffect(b) /\ advertising' \subseteq Boards
<1>1. /\ scan_started(b) \in {"idle", "scanning"} \union Boards
      /\ scan_stopped(b) \in {"idle", "scanning"} \union Boards
      /\ gap[b] \in {"idle", "scanning"} \union Boards
      /\ gap = [gap EXCEPT ![b] = gap[b]]
  BY DEF TypeOK, scan_started, scan_stopped
<1>2. closing \subseteq links /\ advertising \subseteq Boards
  BY DEF TypeOK
<1>3. CASE handle_connection_timeout_event(b)
  BY <1>1, <1>2, <1>3 DEF handle_connection_timeout_event, HandlerEffect, Handling, Return, SetGap
<1>4. CASE child_connected(b)
  <2>1. CASE b # Gateway /\ ~central_connection_active(b)
    BY <1>1, <1>2, <1>4, <2>1 DEF child_connected, HandlerEffect, Handling, Return, SetGap
  <2>2. CASE ~(b # Gateway /\ ~central_connection_active(b))
    BY <1>1, <1>2, <1>4, <2>2 DEF child_connected, HandlerEffect, Handling, Return, SetGap
  <2> QED BY <2>1, <2>2
<1>5. CASE parent_connected(b)
  BY <1>1, <1>2, <1>5 DEF parent_connected, HandlerEffect, Handling, Return, SetGap
<1>6. CASE parent_lost(b)
  BY <1>1, <1>2, <1>6 DEF parent_lost, HandlerEffect, Handling, Return, SetGap, start_advertising
<1>7. CASE child_lost(b)
  BY <1>1, <1>2, <1>7 DEF child_lost, HandlerEffect, Handling, Return, SetGap
<1> QED BY <1>3, <1>4, <1>5, <1>6, <1>7

LEMMA RaiseSteps ==
    ASSUME TypeOK, NEW bs, NEW e \in Event, Raise(bs, e)
    PROVE  /\ sdEvents' \in [Boards -> Seq(Event)]
           /\ \A b \in Boards :
                 /\ b \in bs => sdEvents'[b] = Append(sdEvents[b], e)
                 /\ b \in bs => Among(sdEvents'[b]) = Among(sdEvents[b]) \union {e}
                 /\ b \notin bs => sdEvents'[b] = sdEvents[b]
<1>1. \A b \in Boards : sdEvents[b] \in Seq(Event)
  BY DEF TypeOK
<1>2. \A b \in Boards : /\ Append(sdEvents[b], e) \in Seq(Event)
                        /\ Among(Append(sdEvents[b], e)) = Among(sdEvents[b]) \union {e}
  BY <1>1, AmongAppended
<1> QED BY <1>1, <1>2 DEF Raise

LEMMA TypeStep ==
    ASSUME TypeOK, [Next]_vars
    PROVE  TypeOK'
<1>1. CASE UNCHANGED vars
  BY <1>1 DEF TypeOK, vars, softdevice
<1>2. ASSUME NEW b \in Boards, ble_evt_dispatch(b) PROVE TypeOK'
  <2> DEFINE e == Head(sdEvents[b])
  <2>1. sdEvents[b] \in Seq(Event) /\ sched[b] \in Seq(Event) /\ sdEvents[b] # <<>>
    BY <1>2 DEF TypeOK, ble_evt_dispatch
  <2>2. e \in Event /\ Tail(sdEvents[b]) \in Seq(Event)
    BY <2>1
  <2>3. Append(sched[b], e) \in Seq(Event)
    BY <2>1, <2>2
  <2>4. sdEvents' \in [Boards -> Seq(Event)] /\ sched' \in [Boards -> Seq(Event)]
    BY <1>2, <2>2, <2>3 DEF TypeOK, ble_evt_dispatch
  <2>5. /\ e.type = "CONNECTED" => e.link \in Links
        /\ e.type = "DISCONNECTED" => e.link \in Links
    BY <2>2, Events
  <2> HIDE DEF e
  <2>6. connState' = [connState EXCEPT ![b] =
            IF e.type = "CONNECTED" THEN @ \union {e.link}
            ELSE IF e.type = "DISCONNECTED" THEN @ \ {e.link} ELSE @]
    BY <1>2 DEF ble_evt_dispatch, e
  <2>7. connState' \in [Boards -> SUBSET Links]
    BY <2>5, <2>6 DEF TypeOK
  <2> QED BY <1>2, <2>4, <2>7 DEF TypeOK, ble_evt_dispatch, softdevice
<1>3. ASSUME NEW b \in Boards, HandlerEffect(b), advertising' \subseteq Boards PROVE TypeOK'
  <2>1. Tail(sched[b]) \in Seq(Event)
    BY <1>3 DEF TypeOK, HandlerEffect
  <2> QED BY <1>3, <2>1 DEF TypeOK, HandlerEffect
<1>4. ASSUME NEW p \in Boards, ConnectingTimesOut(p) PROVE TypeOK'
  <2>1. sdEvents' \in [Boards -> Seq(Event)]
    BY <1>4, RaiseSteps, Events DEF ConnectingTimesOut
  <2> QED BY <1>4, <2>1 DEF TypeOK, ConnectingTimesOut, SetGap
<1>5. ASSUME NEW p \in Boards, NEW c \in Boards, hears_advertiser(p, c) PROVE TypeOK'
  BY <1>5 DEF TypeOK, hears_advertiser, SetGap
<1>6. ASSUME NEW p \in Boards, NEW c \in Boards, Connects(p, c) PROVE TypeOK'
  <2>1. <<p, c>> \in Links
    BY <1>6, LinkHasTwoEnds DEF Connects
  <2>2. sdEvents' \in [Boards -> Seq(Event)]
    BY <1>6, <2>1, RaiseSteps, Events DEF Connects, Conn
  <2> QED BY <1>6, <2>1, <2>2 DEF TypeOK, Connects, SetGap
<1>7. ASSUME NEW l \in links, LinkClosed(l) \/ LinkLost(l) PROVE TypeOK'
  <2>1. LinkEnds(l) /\ losses' \in 0 .. MaxLosses
    BY <1>7, MeshAssumption DEF TypeOK, LinkClosed, LinkLost
  <2>2. l \in Links
    BY DEF TypeOK
  <2>3. sdEvents' \in [Boards -> Seq(Event)]
    BY <2>1, <2>2, RaiseSteps, Events DEF LinkEnds, Disc
  <2> QED BY <2>1, <2>3 DEF TypeOK, LinkEnds
<1>8. ASSUME NEW b \in Boards, MainLoop(b) PROVE TypeOK'
  BY <1>2, <1>3, <1>8, HandlerSteps DEF MainLoop
<1> QED BY <1>1, <1>4, <1>5, <1>6, <1>7, <1>8 DEF Next

LEMMA TypeInit == Init => TypeOK
  BY MeshAssumption DEF Init, TypeOK

--------------------------------------------------------------------------------
(* Each step preserves the invariant. *)

LEMMA FirstRaised ==
    ASSUME TypeOK, FirstInLine, NEW bs, NEW e \in Event, Raise(bs, e),
           e.type # "CONNECTED" \/ \A b \in bs : b \in Boards => sdEvents[b] = <<>>
    PROVE  FirstInLine'
<1> SUFFICES ASSUME NEW b \in Boards, NEW i \in 1 .. Len(sdEvents'[b]),
                    sdEvents'[b][i].type = "CONNECTED"
             PROVE  i = 1
  BY DEF FirstInLine
<1>1. sdEvents[b] \in Seq(Event)
  BY DEF TypeOK
<1>2. CASE b \notin bs
  BY <1>2, RaiseSteps DEF FirstInLine
<1>3. CASE b \in bs
  <2>1. /\ sdEvents'[b] = Append(sdEvents[b], e)
        /\ Len(sdEvents'[b]) = Len(sdEvents[b]) + 1 /\ Len(sdEvents[b]) \in Nat
        /\ \A k \in 1 .. Len(sdEvents[b]) : sdEvents'[b][k] = sdEvents[b][k]
        /\ sdEvents'[b][Len(sdEvents[b]) + 1] = e
    BY <1>1, <1>3, RaiseSteps
  <2>2. CASE i \in 1 .. Len(sdEvents[b])
    BY <2>1, <2>2 DEF FirstInLine
  <2>3. CASE i = Len(sdEvents[b]) + 1
    <3>1. sdEvents[b] = <<>>
      BY <1>3, <2>1, <2>3
    <3> QED BY <2>3, <3>1
  <2> QED BY <2>1, <2>2, <2>3
<1> QED BY <1>2, <1>3

LEMMA TimesOutStep ==
    ASSUME IInv, TypeOK', NEW p \in Boards, ConnectingTimesOut(p)
    PROVE  IInv'
<1> DEFINE e == [type |-> "TIMEOUT"]
<1>1. e \in Event /\ e.type # "CONNECTED" /\ \A l : e # Conn(l) /\ e # Disc(l)
  BY Events
<1>2. /\ Raise({p}, e)
      /\ UNCHANGED <<links, closing, advertising, sched, connState, losses>>
  BY DEF ConnectingTimesOut
<1> HIDE DEF e
<1>3. \A b \in Boards : /\ Among(sdEvents'[b]) \in {Among(sdEvents[b]), Among(sdEvents[b]) \union {e}}
                        /\ sdEvents'[b] \in {sdEvents[b], Append(sdEvents[b], e)}
  BY <1>1, <1>2, RaiseSteps DEF IInv
<1>4. \A b \in Boards : \A l :
          /\ Conn(l) \in Among(sdEvents'[b]) <=> Conn(l) \in Among(sdEvents[b])
          /\ Disc(l) \in Among(sdEvents'[b]) <=> Disc(l) \in Among(sdEvents[b])
  BY <1>1, <1>3
<1>5. \A b \in Boards : None(ParentLoss(b), sdEvents'[b]) <=> None(ParentLoss(b), sdEvents[b])
  BY <1>4 DEF None, ParentLoss
<1>6. \A b \in Boards : Once(ParentLoss(b), sdEvents[b]) => Once(ParentLoss(b), sdEvents'[b])
  <2> SUFFICES ASSUME NEW b \in Boards, Once(ParentLoss(b), sdEvents[b])
               PROVE  Once(ParentLoss(b), sdEvents'[b])
    OBVIOUS
  <2>1. e \notin ParentLoss(b) /\ sdEvents[b] \in Seq(Event)
    BY <1>1 DEF ParentLoss, IInv, TypeOK
  <2>2. Once(ParentLoss(b), Append(sdEvents[b], e))
    BY <1>1, <2>1, OnceAppended
  <2> QED BY <1>3, <2>2
<1>7. OwnEvents'
  BY <1>2, <1>4 DEF IInv, OwnEvents
<1>8. Listed' /\ Honest' /\ Gone' /\ OneParentLink' /\ Shedding'
  <2>1. Listed'
    BY <1>2, <1>4 DEF IInv, Listed
  <2>2. Honest'
    BY <1>2, <1>4 DEF IInv, Honest
  <2>3. Gone'
    BY <1>2, <1>4 DEF IInv, Gone
  <2>4. OneParentLink'
    BY <1>2 DEF IInv, OneParentLink
  <2>5. Shedding'
    BY <1>2, <1>4 DEF IInv, Shedding, TypeOK
  <2> QED BY <2>1, <2>2, <2>3, <2>4, <2>5
<1>9. FirstInLine'
  BY <1>1, <1>2, FirstRaised DEF IInv
<1>10. Orphans'
  BY <1>2, <1>5, <1>6 DEF IInv, Orphans, NoLoss, HasParent
<1> QED BY <1>7, <1>8, <1>9, <1>10 DEF IInv

LEMMA DispatchStep ==
    ASSUME IInv, TypeOK', NEW b \in Boards, ble_evt_dispatch(b)
    PROVE  IInv'
<1> DEFINE e == Head(sdEvents[b])
<1>1. sdEvents[b] \in Seq(Event) /\ sched[b] \in Seq(Event) /\ sdEvents[b] # <<>>
  BY DEF IInv, TypeOK, ble_evt_dispatch
<1>2. /\ e \in Event /\ Tail(sdEvents[b]) \in Seq(Event)
      /\ Among(sdEvents[b]) = {e} \union Among(Tail(sdEvents[b]))
  BY <1>1, AmongTail
<1>3. /\ sdEvents' = [sdEvents EXCEPT ![b] = Tail(@)]
      /\ sched' = [sched EXCEPT ![b] = Append(@, e)]
      /\ connState' = [connState EXCEPT ![b] =
            IF e.type = "CONNECTED" THEN @ \union {e.link}
            ELSE IF e.type = "DISCONNECTED" THEN @ \ {e.link} ELSE @]
      /\ UNCHANGED <<links, closing, advertising, gap, losses>>
  BY DEF ble_evt_dispatch, softdevice
<1> HIDE DEF e
<1>4. /\ sdEvents'[b] = Tail(sdEvents[b]) /\ sched'[b] = Append(sched[b], e)
      /\ Among(sched'[b]) = Among(sched[b]) \union {e}
      /\ \A x \in Boards \ {b} : /\ sdEvents'[x] = sdEvents[x]
                                 /\ sched'[x] = sched[x]
                                 /\ connState'[x] = connState[x]
  BY <1>1, <1>2, <1>3, AmongAppended DEF IInv, TypeOK
<1>5. /\ \A l : l \in connState'[b] <=> \/ l \in connState[b] /\ e # Disc(l)
                                        \/ e = Conn(l)
  BY <1>2, <1>3, Events DEF IInv, TypeOK
<1>6. \A l : Conn(l) \notin Among(sdEvents'[b])
  <2> SUFFICES ASSUME NEW l, NEW i \in 1 .. Len(Tail(sdEvents[b])),
                      Tail(sdEvents[b])[i] = Conn(l)
               PROVE  FALSE
    BY <1>4 DEF Among
  <2>1. i + 1 \in 1 .. Len(sdEvents[b]) /\ sdEvents[b][i + 1] = Conn(l) /\ i + 1 # 1
    BY <1>1
  <2> QED BY <2>1, Events DEF IInv, FirstInLine
<1>7. OwnEvents'
  <2> SUFFICES ASSUME NEW x \in Boards
               PROVE  /\ \A l \in connState'[x] : x \in Ends(l)
                      /\ \A l \in Links : \/ Conn(l) \in Among(sdEvents'[x])
                                          \/ Disc(l) \in Among(sdEvents'[x])
                                          => x \in Ends(l)
    BY DEF OwnEvents
  <2>1. CASE x # b
    BY <1>4, <2>1 DEF IInv, OwnEvents
  <2>2. CASE x = b
    BY <1>2, <1>4, <1>5, <2>2, Events DEF IInv, OwnEvents
  <2> QED BY <2>1, <2>2
<1>8. Listed'
  <2> SUFFICES ASSUME NEW x \in Boards, NEW l \in links, x \in Ends(l)
               PROVE  l \in connState'[x] \/ Conn(l) \in Among(sdEvents'[x])
    BY <1>3 DEF Listed
  <2>1. CASE x # b
    BY <1>4, <2>1 DEF IInv, Listed
  <2>2. CASE x = b
    <3>1. l \in connState[b] \/ Conn(l) = e \/ Conn(l) \in Among(sdEvents'[b])
      BY <1>2, <1>4, <2>2 DEF IInv, Listed
    <3>2. e # Disc(l)
      BY <1>2 DEF IInv, Gone, TypeOK
    <3> QED BY <1>5, <2>2, <3>1, <3>2
  <2> QED BY <2>1, <2>2
<1>9. Honest'
  <2> SUFFICES ASSUME NEW x \in Boards, NEW l \in Links,
                      l \in connState'[x] \/ Conn(l) \in Among(sdEvents'[x])
               PROVE  l \in links \/ Disc(l) \in Among(sdEvents'[x])
    BY <1>3 DEF Honest
  <2>1. CASE x # b
    BY <1>4, <2>1 DEF IInv, Honest
  <2>2. CASE x = b
    <3>1. e # Disc(l) /\ (l \in connState[b] \/ e = Conn(l))
      BY <1>5, <1>6, <2>2, Events
    <3>2. l \in links \/ Disc(l) \in Among(sdEvents[b])
      BY <1>2, <3>1 DEF IInv, Honest
    <3> QED BY <1>2, <1>4, <2>2, <3>1, <3>2
  <2> QED BY <2>1, <2>2
<1>10. Gone'
  BY <1>2, <1>3, <1>4 DEF IInv, Gone
<1>11. FirstInLine'
  <2> SUFFICES ASSUME NEW x \in Boards, NEW i \in 1 .. Len(sdEvents'[x]),
                      sdEvents'[x][i].type = "CONNECTED"
               PROVE  i = 1
    BY DEF FirstInLine
  <2>1. CASE x # b
    BY <1>4, <2>1 DEF IInv, FirstInLine
  <2>2. CASE x = b
    <3>1. i \in 1 .. Len(Tail(sdEvents[b])) /\ Tail(sdEvents[b])[i].type = "CONNECTED"
      BY <1>4, <2>2
    <3>2. i + 1 \in 1 .. Len(sdEvents[b]) /\ sdEvents[b][i + 1] = Tail(sdEvents[b])[i] /\ i + 1 # 1
      BY <1>1, <3>1
    <3> QED BY <3>1, <3>2 DEF IInv, FirstInLine
  <2> QED BY <2>1, <2>2
<1>12. OneParentLink'
  BY <1>3 DEF IInv, OneParentLink
<1>13. Orphans'
  <2>1. \A x \in Boards \ {b} : /\ None(ParentLoss(x), sdEvents'[x]) <=> None(ParentLoss(x), sdEvents[x])
                                /\ None(ParentLoss(x), sched'[x]) <=> None(ParentLoss(x), sched[x])
                                /\ Once(ParentLoss(x), sdEvents'[x]) <=> Once(ParentLoss(x), sdEvents[x])
                                /\ Once(ParentLoss(x), sched'[x]) <=> Once(ParentLoss(x), sched[x])
    BY <1>4
  <2> DEFINE D == ParentLoss(b)
  <2>2. /\ Once(D, sdEvents[b]) /\ Once(D, sched[b])
        /\ None(D, sdEvents[b]) \/ None(D, sched[b])
    BY DEF IInv, Orphans
  <2> HIDE DEF D
  <2>3. /\ None(D, sdEvents[b]) <=> e \notin D /\ None(D, sdEvents'[b])
        /\ None(D, sched'[b]) <=> e \notin D /\ None(D, sched[b])
    BY <1>2, <1>4 DEF None
  <2>4. Once(D, sdEvents'[b]) /\ (e \in D => None(D, sdEvents'[b]))
    BY <1>1, <1>4, <2>2, OnceTail DEF e
  <2>5. Once(D, sched'[b])
    BY <1>1, <1>2, <1>4, <2>2, <2>3, OnceAppended
  <2>6. /\ Once(D, sdEvents'[b]) /\ Once(D, sched'[b])
        /\ None(D, sdEvents'[b]) \/ None(D, sched'[b])
        /\ None(D, sdEvents'[b]) /\ None(D, sched'[b]) <=> None(D, sdEvents[b]) /\ None(D, sched[b])
    BY <2>2, <2>3, <2>4, <2>5
  <2>7. \A x \in Boards : NoLoss(x)' <=> NoLoss(x)
    BY <2>1, <2>6 DEF NoLoss, D
  <2>8. \A x \in Boards : HasParent(x)' <=> HasParent(x)
    BY <1>3 DEF HasParent
  <2>9. \A x \in Boards :
          /\ Once(ParentLoss(x), sdEvents'[x]) /\ Once(ParentLoss(x), sched'[x])
          /\ None(ParentLoss(x), sdEvents'[x]) \/ None(ParentLoss(x), sched'[x])
    BY <2>1, <2>6 DEF D, IInv, Orphans
  <2> QED BY <1>3, <2>7, <2>8, <2>9 DEF IInv, Orphans
<1>14. Shedding'
  <2> SUFFICES ASSUME NEW c \in advertising, NEW l \in links \ closing, l[1] = c
               PROVE  Conn(l) \in Among(sdEvents'[c]) \union Among(sched'[c])
    BY <1>3 DEF Shedding
  <2>1. Conn(l) \in Among(sdEvents[c]) \union Among(sched[c]) /\ c \in Boards
    BY DEF IInv, Shedding, TypeOK
  <2> QED BY <1>2, <1>4, <2>1
<1> QED BY <1>7, <1>8, <1>9, <1>10, <1>11, <1>12, <1>13, <1>14 DEF IInv

\* Whether a handler leaves the board in advertising as it was, or has handled the
\* loss of a parent, the orphans and their children stay accounted for.
LEMMA OrphansHandled ==
    ASSUME IInv, NEW b \in Boards, HandlerEffect(b),
           \A x \in Boards \ {b} : x \in advertising' <=> x \in advertising,
           \/ Head(sched[b]) \notin ParentLoss(b) /\ (b \in advertising' <=> b \in advertising)
           \/ Head(sched[b]) \in ParentLoss(b) /\ start_advertising(b)
    PROVE  Orphans'
<1> DEFINE e == Head(sched[b])
           D == ParentLoss(b)
<1>1. sched[b] \in Seq(Event) /\ sched[b] # <<>>
  BY DEF IInv, TypeOK, HandlerEffect
<1>2. /\ sched'[b] = Tail(sched[b]) /\ \A x \in Boards \ {b} : sched'[x] = sched[x]
      /\ UNCHANGED <<links, sdEvents>>
  BY DEF IInv, TypeOK, HandlerEffect
<1>3. Among(sched[b]) = {e} \union Among(sched'[b])
  BY <1>1, <1>2, AmongTail
<1>4. Once(D, sdEvents[b]) /\ Once(D, sched[b]) /\ (None(D, sdEvents[b]) \/ None(D, sched[b]))
  BY DEF IInv, Orphans
<1> HIDE DEF D, e
<1>5. None(D, sched[b]) <=> e \notin D /\ None(D, sched'[b])
  BY <1>3 DEF None
<1>6. Once(D, sched'[b]) /\ (e \in D => None(D, sched'[b]))
  BY <1>1, <1>2, <1>4, OnceTail DEF e
<1>7. \A x \in Boards : HasParent(x)' <=> HasParent(x)
  BY <1>2 DEF HasParent
<1> DEFINE Fine(x) ==
        /\ x \in advertising' => x # Gateway /\ ~HasParent(x) /\ NoLoss(x)'
        /\ ~NoLoss(x)' => ~HasParent(x)
        /\ Once(ParentLoss(x), sdEvents'[x]) /\ Once(ParentLoss(x), sched'[x])
        /\ None(ParentLoss(x), sdEvents'[x]) \/ None(ParentLoss(x), sched'[x])
        /\ x # Gateway => x \in advertising' \/ HasParent(x) \/ ~NoLoss(x)'
<1>8. ASSUME NEW x \in Boards, x # b PROVE Fine(x)
  BY <1>2, <1>8 DEF IInv, Orphans, NoLoss
<1>9. ASSUME e \notin D, b \in advertising' <=> b \in advertising PROVE Fine(b)
  <2>1. NoLoss(b)' <=> NoLoss(b)
    BY <1>2, <1>5, <1>9 DEF NoLoss, D
  <2> QED BY <1>2, <1>4, <1>5, <1>6, <1>9, <2>1 DEF IInv, Orphans, D
<1>10. ASSUME e \in D, start_advertising(b) PROVE Fine(b)
  <2>1. ~NoLoss(b) /\ None(D, sdEvents[b]) /\ None(D, sched'[b])
    BY <1>4, <1>5, <1>6, <1>10 DEF NoLoss, D
  <2>2. ~HasParent(b) /\ b \notin advertising
    BY <2>1 DEF IInv, Orphans
  <2>3. b \in advertising' <=> b # Gateway
    BY <1>10, <2>2 DEF start_advertising
  <2>4. NoLoss(b)'
    BY <1>2, <2>1 DEF NoLoss, D
  <2> QED BY <1>2, <1>4, <1>6, <2>1, <2>2, <2>3, <2>4 DEF D
<1>11. Fine(b)
  BY <1>9, <1>10 DEF e, D
<1>12. \A x \in Boards : Fine(x)
  BY <1>8, <1>11
<1> QED BY <1>7, <1>12 DEF Orphans

\* A board that advertises finds no parent in ble_conn_state.
LEMMA NoParentListed ==
    ASSUME IInv, NEW b \in advertising
    PROVE  b # Gateway /\ ~central_connection_active(b)
<1>1. b \in Boards
  BY DEF IInv, TypeOK
<1>2. b # Gateway /\ ~HasParent(b) /\ None(ParentLoss(b), sdEvents[b])
  BY <1>1 DEF IInv, Orphans, NoLoss
<1>3. ASSUME NEW m \in connState[b], m[2] = b PROVE FALSE
  <2>1. m \in Links
    BY <1>1 DEF IInv, TypeOK
  <2>2. m \in links \/ Disc(m) \in Among(sdEvents[b])
    BY <1>1, <2>1 DEF IInv, Honest
  <2>3. Disc(m) \in ParentLoss(b)
    BY <1>3, <2>1 DEF ParentLoss
  <2> QED BY <1>2, <1>3, <2>2, <2>3 DEF HasParent, None
<1> QED BY <1>2, <1>3 DEF central_connection_active

LEMMA HandlerStep ==
    ASSUME IInv, TypeOK', NEW b \in Boards,
           \/ handle_connection_timeout_event(b) \/ child_connected(b) \/ parent_connected(b)
           \/ parent_lost(b) \/ child_lost(b)
    PROVE  IInv'
<1> DEFINE e == Head(sched[b])
<1>1. HandlerEffect(b)
  BY HandlerSteps DEF IInv
<1>2. sched[b] \in Seq(Event) /\ sched[b] # <<>>
  BY <1>1 DEF IInv, TypeOK, HandlerEffect
<1>3. e \in Event /\ Among(sched[b]) = {e} \union Among(Tail(sched[b]))
  BY <1>2, AmongTail
<1>4. /\ sched'[b] = Tail(sched[b]) /\ \A x \in Boards \ {b} : sched'[x] = sched[x]
      /\ UNCHANGED <<links, sdEvents, connState>> /\ closing \subseteq closing'
  BY <1>1 DEF IInv, TypeOK, HandlerEffect
<1> HIDE DEF e
<1>5. CASE parent_lost(b)
  <2>1. e \in ParentLoss(b) /\ start_advertising(b) /\ closing' = closing \union (connState[b] \cap links)
    BY <1>3, <1>5, Events DEF parent_lost, Handling, ParentLoss, e
  <2>2. \A x \in Boards \ {b} : x \in advertising' <=> x \in advertising
    BY <2>1 DEF start_advertising
  <2>3. Orphans'
    BY <1>1, <2>1, <2>2, OrphansHandled DEF e
  <2>4. Shedding'
    <3> SUFFICES ASSUME NEW c \in advertising', NEW l \in links \ closing', l[1] = c
                 PROVE  Conn(l) \in Among(sdEvents[c]) \union Among(sched'[c])
      BY <1>4 DEF Shedding
    <3>1. c \in Boards
      BY DEF TypeOK
    <3>2. CASE c = b
      BY <2>1, <3>2 DEF IInv, Listed, Ends
    <3>3. CASE c # b
      BY <1>4, <2>2, <3>1, <3>3 DEF IInv, Shedding
    <3> QED BY <3>2, <3>3
  <2> QED BY <1>4, <2>3, <2>4 DEF IInv, OwnEvents, Listed, Honest, Gone, FirstInLine, OneParentLink
<1>6. CASE \/ handle_connection_timeout_event(b) \/ child_connected(b) \/ parent_connected(b)
           \/ child_lost(b)
  <2>1. advertising' = advertising
    BY <1>6 DEF handle_connection_timeout_event, child_connected, parent_connected, child_lost
  <2>2. e \notin ParentLoss(b)
    <3> SUFFICES ASSUME NEW m \in Links, m[2] = b, e = Disc(m) PROVE FALSE
      BY DEF ParentLoss
    <3>1. e.type = "DISCONNECTED" /\ e.link = m /\ m[1] # b
      BY Events, LinkHasTwoEnds
    <3> QED BY <1>6, <3>1 DEF handle_connection_timeout_event, child_connected, parent_connected,
                              child_lost, Handling, e
  <2>3. Orphans'
    BY <1>1, <2>1, <2>2, OrphansHandled DEF e
  <2>4. Shedding'
    <3> SUFFICES ASSUME NEW c \in advertising, NEW l \in links \ closing', l[1] = c
                 PROVE  Conn(l) \in Among(sdEvents[c]) \union Among(sched'[c])
      BY <1>4, <2>1 DEF Shedding
    <3>1. c \in Boards /\ l \in Links /\ Conn(l) \in Among(sdEvents[c]) \union Among(sched[c])
      BY <1>4 DEF IInv, TypeOK, Shedding
    <3>2. CASE c # b \/ Conn(l) # e
      BY <1>3, <1>4, <3>1, <3>2
    <3>3. CASE c = b /\ Conn(l) = e
      <4>1. e.type = "CONNECTED" /\ e.link = l /\ l[1] = b /\ l[2] # b
        BY <3>1, <3>3, Events, LinkHasTwoEnds
      <4>2. child_connected(b)
        BY <1>6, <4>1 DEF handle_connection_timeout_event, parent_connected, child_lost, Handling, e
      <4>3. b # Gateway /\ ~central_connection_active(b)
        BY <3>3, NoParentListed
      <4>4. closing' = closing \union ({l} \cap links)
        BY <4>1, <4>2, <4>3 DEF child_connected, e
      <4> QED BY <4>4
    <3> QED BY <3>2, <3>3
  <2> QED BY <1>4, <2>3, <2>4 DEF IInv, OwnEvents, Listed, Honest, Gone, FirstInLine, OneParentLink
<1> QED BY <1>5, <1>6

LEMMA HearsStep ==
    ASSUME IInv, TypeOK', NEW p \in Boards, NEW c \in Boards, hears_advertiser(p, c)
    PROVE  IInv'
<1>1. UNCHANGED <<links, closing, advertising, sdEvents, sched, connState, losses>>
  BY DEF hears_advertiser
<1> QED BY <1>1 DEF IInv, OwnEvents, Listed, Honest, Gone, FirstInLine, OneParentLink,
                    Orphans, Shedding, NoLoss, HasParent

LEMMA ConnectsStep ==
    ASSUME Prompt, IInv, TypeOK', NEW p \in Boards, NEW c \in Boards, Connects(p, c)
    PROVE  IInv'
<1> DEFINE k == <<p, c>>
           e == Conn(k)
<1>1. k \in Links /\ k[1] = p /\ k[2] = c /\ p # c /\ e \in Event
  BY LinkHasTwoEnds, Events DEF Connects
<1>2. /\ sdEvents[p] = <<>> /\ sdEvents[c] = <<>>
      /\ c \in advertising /\ k \notin links
      /\ links' = links \union {k} /\ advertising' = advertising \ {c}
      /\ Raise({p, c}, e)
      /\ UNCHANGED <<closing, sched, connState, losses>>
  BY DEF Connects, Ready, Conn, Unlinked
<1> HIDE DEF k, e
<1>3. \A l : e # Disc(l) /\ (e = Conn(l) <=> l = k)
  BY Events DEF e
<1>4. \A x \in Boards :
        /\ x \in Ends(k) => Among(sdEvents'[x]) = {e} /\ Among(sdEvents[x]) = {}
        /\ x \in Ends(k) => sdEvents'[x] = Append(sdEvents[x], e)
        /\ x \notin Ends(k) => sdEvents'[x] = sdEvents[x]
  <2>1. TypeOK
    BY DEF IInv
  <2>2. Ends(k) = {p, c} /\ Raise(Ends(k), e)
    BY <1>1, <1>2 DEF Ends
  <2>3. \A x \in Boards :
          /\ x \in Ends(k) => sdEvents'[x] = Append(sdEvents[x], e)
          /\ x \in Ends(k) => Among(sdEvents'[x]) = Among(sdEvents[x]) \union {e}
          /\ x \notin Ends(k) => sdEvents'[x] = sdEvents[x]
    BY <1>1, <2>1, <2>2, RaiseSteps
  <2>4. \A x \in Ends(k) : Among(sdEvents[x]) = {}
    BY <1>2, <2>2, AmongNothing
  <2> QED BY <2>3, <2>4
<1>5. OwnEvents'
  BY <1>2, <1>3, <1>4 DEF IInv, OwnEvents
<1>6. Listed'
  <2> SUFFICES ASSUME NEW x \in Boards, NEW l \in links', x \in Ends(l)
               PROVE  l \in connState[x] \/ Conn(l) \in Among(sdEvents'[x])
    BY <1>2 DEF Listed
  <2>1. CASE l = k
    BY <1>3, <1>4, <2>1
  <2>2. CASE l # k
    <3>1. l \in connState[x] \/ Conn(l) \in Among(sdEvents[x])
      BY <1>2, <2>2 DEF IInv, Listed
    <3> QED BY <1>4, <3>1
  <2> QED BY <2>1, <2>2
<1>7. Honest'
  BY <1>2, <1>3, <1>4 DEF IInv, Honest, TypeOK
<1>8. Gone'
  BY <1>2, <1>3, <1>4 DEF IInv, Gone, OwnEvents
<1>9. FirstInLine'
  BY <1>1, <1>2, FirstRaised DEF IInv
<1>10. ~HasParent(c) /\ NoLoss(c)
  BY <1>2 DEF IInv, Orphans
<1>11. OneParentLink'
  BY <1>1, <1>2, <1>10 DEF IInv, OneParentLink, HasParent
<1>12. Orphans'
  <2>1. \A x \in Boards : e \notin ParentLoss(x) /\ sdEvents[x] \in Seq(Event)
    BY <1>3 DEF ParentLoss, IInv, TypeOK
  <2>2. \A x \in Boards : None(ParentLoss(x), sdEvents'[x]) <=> None(ParentLoss(x), sdEvents[x])
    BY <1>4, <2>1 DEF None
  <2>3. ASSUME NEW x \in Boards PROVE Once(ParentLoss(x), sdEvents'[x])
    <3>1. Once(ParentLoss(x), sdEvents[x])
      BY DEF IInv, Orphans
    <3>2. Once(ParentLoss(x), Append(sdEvents[x], e))
      BY <1>1, <2>1, <3>1, OnceAppended
    <3> QED BY <1>4, <3>1, <3>2
  <2>4. \A x \in Boards : NoLoss(x)' <=> NoLoss(x)
    BY <1>2, <2>2 DEF NoLoss
  <2>5. HasParent(c)' /\ \A x \in Boards \ {c} : HasParent(x)' <=> HasParent(x)
    BY <1>1, <1>2 DEF HasParent
  <2> QED BY <1>2, <1>10, <2>2, <2>3, <2>4, <2>5 DEF IInv, Orphans
<1>13. Shedding'
  <2> SUFFICES ASSUME NEW x \in advertising', NEW l \in links' \ closing', l[1] = x
               PROVE  Conn(l) \in Among(sdEvents'[x]) \union Among(sched'[x])
    BY DEF Shedding
  <2>1. x \in Boards /\ x \in advertising
    BY <1>2 DEF IInv, TypeOK
  <2>2. CASE l = k
    <3>1. x \in Ends(k) /\ Conn(l) = e
      BY <1>3, <2>2 DEF Ends
    <3> QED BY <1>4, <2>1, <3>1
  <2>3. CASE l # k
    <3>1. Conn(l) \in Among(sdEvents[x]) \union Among(sched[x])
      BY <1>2, <2>1, <2>3 DEF IInv, Shedding
    <3> QED BY <1>2, <1>4, <2>1, <3>1
  <2> QED BY <2>2, <2>3
<1> QED BY <1>5, <1>6, <1>7, <1>8, <1>9, <1>11, <1>12, <1>13 DEF IInv

LEMMA EndsStep ==
    ASSUME IInv, TypeOK', NEW k \in links, LinkEnds(k)
    PROVE  IInv'
<1> DEFINE e == Disc(k)
           c == k[2]
<1>1. k \in Links /\ c \in Boards /\ k[1] # c /\ e \in Event
  BY LinkHasTwoEnds, Events DEF IInv, TypeOK
<1>2. /\ links' = links \ {k} /\ closing' = closing \ {k}
      /\ Raise(Ends(k), e)
      /\ UNCHANGED <<advertising, gap, sched, connState>>
  BY DEF LinkEnds, Disc, Ends
<1>3. c \in Ends(k)
  BY DEF Ends
<1> HIDE DEF e, c
<1>4. \A l : e # Conn(l) /\ (e = Disc(l) <=> l = k) /\ e.type # "CONNECTED"
  BY Events DEF e
<1>5. \A x \in Boards :
        /\ x \in Ends(k) => Among(sdEvents'[x]) = Among(sdEvents[x]) \union {e}
        /\ x \notin Ends(k) => sdEvents'[x] = sdEvents[x]
        /\ x \in Ends(k) => sdEvents'[x] = Append(sdEvents[x], e)
  <2>1. TypeOK /\ Raise(Ends(k), e) /\ e \in Event
    BY <1>1, <1>2 DEF IInv
  <2>2. \A x \in Boards :
          /\ x \in Ends(k) => sdEvents'[x] = Append(sdEvents[x], e)
          /\ x \in Ends(k) => Among(sdEvents'[x]) = Among(sdEvents[x]) \union {e}
          /\ x \notin Ends(k) => sdEvents'[x] = sdEvents[x]
    BY <2>1, RaiseSteps
  <2> QED BY <2>2
<1>6. OwnEvents'
  BY <1>2, <1>4, <1>5 DEF IInv, OwnEvents
<1>7. Listed'
  BY <1>2, <1>4, <1>5 DEF IInv, Listed, TypeOK
<1>8. Honest'
  <2> SUFFICES ASSUME NEW x \in Boards, NEW l \in Links,
                      l \in connState[x] \/ Conn(l) \in Among(sdEvents'[x])
               PROVE  l \in links' \/ Disc(l) \in Among(sdEvents'[x])
    BY <1>2 DEF Honest
  <2>1. l \in connState[x] \/ Conn(l) \in Among(sdEvents[x])
    BY <1>4, <1>5
  <2>2. CASE l = k
    <3>1. x \in Ends(k)
      BY <2>1, <2>2 DEF IInv, OwnEvents
    <3> QED BY <1>4, <1>5, <2>2, <3>1
  <2>3. CASE l # k
    BY <1>2, <1>5, <2>1, <2>3 DEF IInv, Honest
  <2> QED BY <2>2, <2>3
<1>9. Gone'
  BY <1>2, <1>4, <1>5 DEF IInv, Gone
<1>10. FirstInLine'
  BY <1>1, <1>2, <1>4, FirstRaised DEF IInv
<1>11. OneParentLink'
  BY <1>2 DEF IInv, OneParentLink
<1>12. Orphans'
  <2>1. \A x \in Boards : (e \in ParentLoss(x) <=> x = c) /\ sdEvents[x] \in Seq(Event)
    BY <1>1, <1>4 DEF ParentLoss, IInv, TypeOK, c
  <2>2. HasParent(c) /\ ~HasParent(c)' /\ \A x \in Boards \ {c} : HasParent(x)' <=> HasParent(x)
    BY <1>2 DEF HasParent, c, IInv, OneParentLink
  <2>3. NoLoss(c) /\ c \notin advertising
    BY <1>1, <2>2 DEF IInv, Orphans
  <2>4. ASSUME NEW x \in Boards PROVE Once(ParentLoss(x), sdEvents'[x])
    <3>1. Once(ParentLoss(x), sdEvents[x]) /\ (None(ParentLoss(x), sdEvents[x]) \/ e \notin ParentLoss(x))
      BY <2>1, <2>3 DEF IInv, Orphans, NoLoss
    <3>2. Once(ParentLoss(x), Append(sdEvents[x], e))
      BY <1>1, <2>1, <3>1, OnceAppended
    <3> QED BY <1>5, <3>1, <3>2
  <2>5. \A x \in Boards \ {c} :
            None(ParentLoss(x), sdEvents'[x]) <=> None(ParentLoss(x), sdEvents[x])
    BY <1>5, <2>1 DEF None
  <2>6. ~None(ParentLoss(c), sdEvents'[c])
    BY <1>1, <1>3, <1>5, <2>1 DEF None
  <2>7. ~NoLoss(c)' /\ \A x \in Boards \ {c} : NoLoss(x)' <=> NoLoss(x)
    BY <1>2, <2>5, <2>6 DEF NoLoss
  <2>8. None(ParentLoss(c), sched'[c])
    BY <1>2, <2>3 DEF NoLoss
  <2> QED BY <1>2, <2>2, <2>3, <2>4, <2>5, <2>7, <2>8 DEF IInv, Orphans
<1>13. Shedding'
  <2> SUFFICES ASSUME NEW x \in advertising, NEW l \in links \ closing, l[1] = x
               PROVE  Conn(l) \in Among(sdEvents'[x]) \union Among(sched'[x])
    BY <1>2 DEF Shedding
  <2>1. x \in Boards /\ Conn(l) \in Among(sdEvents[x]) \union Among(sched[x])
    BY DEF IInv, TypeOK, Shedding
  <2> QED BY <1>2, <1>5, <2>1
<1> QED BY <1>6, <1>7, <1>8, <1>9, <1>10, <1>11, <1>12, <1>13 DEF IInv

LEMMA IInvStep ==
    ASSUME Prompt, IInv, [Next]_vars
    PROVE  IInv'
<1>1. TypeOK'
  BY TypeStep DEF IInv
<1>2. CASE UNCHANGED vars
  BY <1>2, <1>1 DEF vars, softdevice, IInv, OwnEvents, Listed, Honest, Gone, FirstInLine,
                    OneParentLink, Orphans, Shedding, NoLoss, HasParent
<1>3. ASSUME NEW b \in Boards, MainLoop(b) PROVE IInv'
  BY <1>1, <1>3, DispatchStep, HandlerStep DEF MainLoop
<1>4. ASSUME NEW b \in Boards, ConnectingTimesOut(b) PROVE IInv'
  BY <1>1, <1>4, TimesOutStep
<1>5. ASSUME NEW p \in Boards, NEW c \in Boards, hears_advertiser(p, c) PROVE IInv'
  BY <1>1, <1>5, HearsStep
<1>6. ASSUME NEW p \in Boards, NEW c \in Boards, Connects(p, c) PROVE IInv'
  BY <1>1, <1>6, ConnectsStep
<1>7. ASSUME NEW l \in links, LinkClosed(l) \/ LinkLost(l) PROVE IInv'
  BY <1>1, <1>7, EndsStep DEF LinkClosed, LinkLost
<1> QED BY <1>2, <1>3, <1>4, <1>5, <1>6, <1>7 DEF Next

LEMMA IInvInit == Init => IInv
<1> SUFFICES ASSUME Init PROVE IInv
  OBVIOUS
<1>1. TypeOK
  BY TypeInit
<1>2. links = {} /\ \A b \in Boards : sdEvents[b] = <<>> /\ sched[b] = <<>> /\ connState[b] = {}
  BY DEF Init
<1>3. \A b \in Boards : Among(sdEvents[b]) = {} /\ Among(sched[b]) = {} /\ Len(sdEvents[b]) = 0
                        /\ Len(sched[b]) = 0
  BY <1>2, AmongNothing
<1>4. OwnEvents /\ Listed /\ Honest /\ Gone /\ FirstInLine /\ OneParentLink
  <2>1. OwnEvents /\ Listed
    BY <1>2, <1>3 DEF OwnEvents, Listed
  <2>2. Honest /\ Gone
    BY <1>2, <1>3 DEF Honest, Gone
  <2>3. FirstInLine /\ OneParentLink
    BY <1>2, <1>3 DEF FirstInLine, OneParentLink
  <2> QED BY <2>1, <2>2, <2>3
<1>5. Orphans
  BY <1>2, <1>3 DEF Orphans, NoLoss, HasParent, None, Once, Init
<1>6. Shedding
  BY <1>2 DEF Shedding
<1> QED BY <1>1, <1>4, <1>5, <1>6 DEF IInv

--------------------------------------------------------------------------------
(* The theorems. *)

\* The types of the boards' state, with handlers that run late as well.
THEOREM TypeCorrect == Spec => []TypeOK
<1>1. TypeOK /\ [Next]_vars => TypeOK'
  BY TypeStep
<1> QED BY <1>1, TypeInit, PTL DEF Spec

LEMMA Invariant ==
    ASSUME Prompt
    PROVE  Spec => []IInv
<1>1. IInv /\ [Next]_vars => IInv'
  BY IInvStep
<1> QED BY <1>1, IInvInit, PTL DEF Spec

\* A step that makes a link attaches a board without parent and children, any
\* other step keeps the links that are not on their way out or removes some.
LEMMA StepsOfForest ==
    ASSUME Prompt, IInv, [Next]_vars
    PROVE  [F!Next]_tree
<1>1. ASSUME NEW p \in Boards, NEW c \in Boards, Connects(p, c) PROVE F!Next
  <2>1. /\ p # c /\ <<p, c>> \notin links /\ c \in advertising
        /\ links' = links \union {<<p, c>>} /\ closing' = closing
        /\ sdEvents[c] = <<>> /\ sched[c] = <<>>
    BY <1>1 DEF Connects, Unlinked, Ready
  <2>2. tree' = tree \union {<<p, c>>}
    BY <2>1 DEF tree, IInv, TypeOK
  <2>3. F!ParentsOf(c) = {}
    BY <2>1 DEF F!ParentsOf, tree, IInv, Orphans, HasParent
  <2>4. \A d \in Boards : <<c, d>> \notin tree
    <3>1. Among(sdEvents[c]) \union Among(sched[c]) = {}
      BY <2>1, AmongNothing
    <3> QED BY <2>1, <3>1 DEF tree, IInv, Shedding
  <2>5. F!ChildrenOf(c) = {}
    BY <2>4 DEF F!ChildrenOf
  <2>6. <<p, c>> \in F!Links
    BY <2>1 DEF F!Links
  <2> QED BY <2>2, <2>3, <2>5, <2>6 DEF F!Next, F!Attach
<1>2. ASSUME tree' \subseteq tree PROVE F!Next
  <2>1. F!Detach(tree \ tree')
    BY <1>2 DEF F!Detach
  <2> QED BY <2>1 DEF F!Next
<1>3. ASSUME NEW b \in Boards, MainLoop(b) PROVE tree' \subseteq tree
  <2>1. CASE ble_evt_dispatch(b)
    BY <2>1 DEF ble_evt_dispatch, softdevice, tree
  <2>2. CASE HandlerEffect(b)
    BY <2>2 DEF HandlerEffect, tree
  <2> QED BY <1>3, <2>1, <2>2, HandlerSteps DEF MainLoop, IInv
<1>4. ASSUME NEW l \in links, LinkClosed(l) \/ LinkLost(l) PROVE tree' \subseteq tree
  BY <1>4 DEF LinkClosed, LinkLost, LinkEnds, tree
<1>5. ASSUME NEW b \in Boards, ConnectingTimesOut(b) PROVE tree' \subseteq tree
  BY <1>5 DEF ConnectingTimesOut, tree
<1>6. ASSUME NEW p \in Boards, NEW c \in Boards, hears_advertiser(p, c) PROVE tree' \subseteq tree
  BY <1>6 DEF hears_advertiser, tree
<1>7. CASE UNCHANGED vars
  BY <1>7 DEF vars, softdevice, tree
<1> QED BY <1>1, <1>2, <1>3, <1>4, <1>5, <1>6, <1>7 DEF Next

\* Any number of boards implements a forest: the decisions that each of them takes
\* on what it has heard so far never close a cycle or give a board two parents.
THEOREM BoardsFormForest ==
    ASSUME Prompt
    PROVE  Spec => ImplementsForest
<1>1. Init => F!Init
  BY DEF Init, F!Init, tree
<1>2. IInv /\ [Next]_vars => [F!Next]_tree
  BY StepsOfForest
<1> QED BY <1>1, <1>2, Invariant, PTL DEF Spec, ImplementsForest, F!Spec

\* In a forest no boards have their parents all among themselves: a board that is
\* attached has no children, so a cycle through it would have been one before.
LEMMA NoCycleStep ==
    ASSUME tree \subseteq Links, F!NoCycle, [F!Next]_tree
    PROVE  F!NoCycle'
<1> SUFFICES ASSUME NEW some \in SUBSET Boards, some # {}
             PROVE  \E b \in some : F!ParentsOf(b)' \cap some = {}
  BY DEF F!NoCycle
<1>1. ASSUME tree' \subseteq tree PROVE \E b \in some : F!ParentsOf(b)' \cap some = {}
  <2>1. \A b \in Boards : F!ParentsOf(b)' \subseteq F!ParentsOf(b)
    BY <1>1 DEF F!ParentsOf
  <2> QED BY <2>1 DEF F!NoCycle
<1>2. ASSUME NEW p \in Boards, NEW c \in Boards, F!Attach(p, c)
      PROVE  \E b \in some : F!ParentsOf(b)' \cap some = {}
  <2>1. /\ p # c /\ F!ChildrenOf(c) = {} /\ F!ParentsOf(c) = {}
        /\ tree' = tree \union {<<p, c>>}
    BY <1>2 DEF F!Attach, F!Links
  <2>2. \A b \in Boards \ {c} : F!ParentsOf(b)' = F!ParentsOf(b) /\ c \notin F!ParentsOf(b)
    BY <2>1 DEF F!ParentsOf, F!ChildrenOf
  <2>3. F!ParentsOf(c)' = {p}
    BY <2>1 DEF F!ParentsOf
  <2>4. CASE some \ {c} = {}
    BY <2>1, <2>3, <2>4
  <2>5. CASE some \ {c} # {}
    <3>1. PICK b \in some \ {c} : F!ParentsOf(b) \cap (some \ {c}) = {}
      BY <2>5 DEF F!NoCycle
    <3> QED BY <2>2, <3>1
  <2> QED BY <2>4, <2>5
<1>3. CASE tree' = tree
  BY <1>1, <1>3
<1>4. ASSUME NEW gone \in SUBSET tree, F!Detach(gone) PROVE tree' \subseteq tree
  BY <1>4 DEF F!Detach
<1> QED BY <1>1, <1>2, <1>3, <1>4 DEF F!Next

LEMMA NoCycleInvariant ==
    ASSUME Prompt
    PROVE  Spec => []F!NoCycle
<1>1. Init => F!NoCycle
  BY DEF Init, F!NoCycle, F!ParentsOf, tree
<1>2. IInv /\ F!NoCycle /\ [Next]_vars => F!NoCycle'
  <2>1. IInv => tree \subseteq Links
    BY DEF IInv, TypeOK, tree
  <2> QED BY <2>1, StepsOfForest, NoCycleStep
<1> QED BY <1>1, <1>2, Invariant, PTL DEF Spec

\* Once everything is settled, a board with children has a parent.
LEMMA SettledParents ==
    ASSUME IInv, Settled, NEW l \in links, l[1] # Gateway
    PROVE  HasParent(l[1])
<1>1. l \in Links /\ l[1] \in Boards /\ l \in links \ closing
  BY LinkHasTwoEnds DEF IInv, TypeOK, Settled
<1>2. Among(sdEvents[l[1]]) = {} /\ Among(sched[l[1]]) = {}
  BY <1>1, AmongNothing DEF Settled, Ready
<1>3. l[1] \notin advertising
  BY <1>1, <1>2 DEF IInv, Shedding
<1>4. NoLoss(l[1])
  BY <1>2 DEF NoLoss, None
<1> QED BY <1>1, <1>3, <1>4 DEF IInv, Orphans

\* Any tree that has settled hangs under the gateway: of the boards of a settled
\* tree without it, those with children would all have their parents among
\* themselves.
THEOREM TreesHangUnderGateway ==
    ASSUME Prompt
    PROVE  Spec => []HangsUnderGateway
<1>1. ASSUME IInv, F!NoCycle PROVE HangsUnderGateway
  <2> SUFFICES ASSUME Settled, NEW some \in SUBSET (Boards \ {Gateway}),
                      NEW l \in links, l[1] \in some,
                      \A m \in links : m[2] \in some => m[1] \in some
               PROVE  FALSE
    BY DEF HangsUnderGateway
  <2> DEFINE Parents == {b \in some : \E m \in links : m[1] = b}
  <2>1. l[1] \in Parents /\ Parents \subseteq Boards
    OBVIOUS
  <2>2. PICK b \in Parents : F!ParentsOf(b) \cap Parents = {}
    BY <1>1, <2>1 DEF F!NoCycle
  <2>3. HasParent(b)
    BY <1>1, SettledParents
  <2>4. PICK m \in links : m[2] = b
    BY <2>3 DEF HasParent
  <2>5. m \in Links /\ m = <<m[1], m[2]>> /\ m[1] \in Boards /\ m \in tree
    BY <1>1, LinkHasTwoEnds DEF IInv, TypeOK, tree, Settled
  <2>6. m[1] \in Parents /\ m[1] \in F!ParentsOf(b)
    BY <2>4, <2>5 DEF F!ParentsOf
  <2> QED BY <2>2, <2>6
<1> QED BY <1>1, Invariant, NoCycleInvariant, PTL
--------------------------------------------------------------------------------
(* The mesh stays open. *)

Timeout == [type |-> "TIMEOUT"]

\* The events that wait for the handlers of a board.
Waits(b) == Among(sdEvents[b]) \union Among(sched[b])

\* Nobody was ever connected to the gateway as its parent.
GatewayIsRoot ==
    \A l \in Links : l[2] = Gateway =>
        l \notin links /\ Conn(l) \notin Waits(Gateway) /\ Disc(l) \notin Waits(Gateway)

\* The events whose handlers make a board look for children.
Revives(b) == {Timeout} \union {Conn(l) : l \in Links} \union {Disc(l) : l \in {m \in Links : m[1] = b}}

Attached(b) == b = Gateway \/ HasParent(b)

\* A board of the mesh looks for children, or is about to, or has no room.
Seeks ==
    \A b \in Boards : Attached(b) /\ gap[b] = "idle" =>
        Waits(b) \cap Revives(b) # {} \/ (b # Gateway /\ ~HasRoom(b))

LEMMA LinksFinite ==
    ASSUME TypeOK, NEW ls \in SUBSET Links
    PROVE  IsFiniteSet(ls) /\ Cardinality(ls) \in Nat
<1>1. IsFiniteSet(Boards \X Boards)
  BY MeshAssumption, FS_Product
<1>2. ls \in SUBSET (Boards \X Boards)
  BY DEF Links
<1> QED BY <1>1, <1>2, FS_Subset, FS_CardinalityType

\* A board whose ble_conn_state lists as many children as it may have has them, or
\* is about to learn that it lost one.
LEMMA FullOrLosing ==
    ASSUME IInv, NEW b \in Boards, all_peripheral_connections_active(b), HasRoom(b)
    PROVE  Among(sdEvents[b]) \cap Revives(b) # {}
<1> SUFFICES ASSUME Among(sdEvents[b]) \cap Revives(b) = {} PROVE FALSE
  OBVIOUS
<1> DEFINE known == {l \in connState[b] : l[1] = b}
           real == {l \in links : l[1] = b}
<1>1. known \subseteq Links /\ real \subseteq Links
  BY DEF IInv, TypeOK
<1>2. known \subseteq real
  <2> SUFFICES ASSUME NEW l \in connState[b], l[1] = b PROVE l \in links
    OBVIOUS
  <2>1. l \in Links
    BY <1>1
  <2>2. Disc(l) \in Revives(b)
    BY <2>1 DEF Revives
  <2> QED BY <2>1, <2>2 DEF IInv, Honest
<1>3. Cardinality(known) <= Cardinality(real)
  BY <1>1, <1>2, LinksFinite, FS_Subset DEF IInv
<1>4. Cardinality(known) \in Nat /\ Cardinality(real) \in Nat
  BY <1>1, LinksFinite DEF IInv
<1>5. Cardinality(known) >= MAX_PERIPHERAL_CONNECTIONS /\ Cardinality(real) < MAX_PERIPHERAL_CONNECTIONS
  BY DEF all_peripheral_connections_active, HasRoom
<1> QED BY <1>3, <1>4, <1>5, MeshAssumption

\* What the steps do to the events that wait.
LEMMA WaitsDispatched ==
    ASSUME IInv, NEW b \in Boards, ble_evt_dispatch(b)
    PROVE  \A x \in Boards : Waits(x)' = Waits(x)
<1>1. sdEvents[b] \in Seq(Event) /\ sched[b] \in Seq(Event) /\ sdEvents[b] # <<>>
  BY DEF IInv, TypeOK, ble_evt_dispatch
<1>2. /\ Head(sdEvents[b]) \in Event
      /\ Among(sdEvents[b]) = {Head(sdEvents[b])} \union Among(Tail(sdEvents[b]))
  BY <1>1, AmongTail
<1>3. Among(Append(sched[b], Head(sdEvents[b]))) = Among(sched[b]) \union {Head(sdEvents[b])}
  BY <1>1, <1>2, AmongAppended
<1>4. /\ sdEvents'[b] = Tail(sdEvents[b]) /\ sched'[b] = Append(sched[b], Head(sdEvents[b]))
      /\ \A x \in Boards \ {b} : sdEvents'[x] = sdEvents[x] /\ sched'[x] = sched[x]
  BY DEF IInv, TypeOK, ble_evt_dispatch
<1> QED BY <1>2, <1>3, <1>4 DEF Waits

LEMMA WaitsHandled ==
    ASSUME IInv, NEW b \in Boards, HandlerEffect(b)
    PROVE  /\ Head(sched[b]) \in Waits(b) /\ Head(sched[b]) \in Event
           /\ Waits(b) = {Head(sched[b])} \union Waits(b)'
           /\ \A x \in Boards \ {b} : Waits(x)' = Waits(x) /\ gap'[x] = gap[x]
<1>1. sched[b] \in Seq(Event) /\ sched[b] # <<>>
  BY DEF IInv, TypeOK, HandlerEffect
<1>2. Head(sched[b]) \in Event /\ Among(sched[b]) = {Head(sched[b])} \union Among(Tail(sched[b]))
  BY <1>1, AmongTail
<1>3. /\ sched'[b] = Tail(sched[b]) /\ sdEvents' = sdEvents
      /\ \A x \in Boards \ {b} : sched'[x] = sched[x] /\ gap'[x] = gap[x]
  BY DEF IInv, TypeOK, HandlerEffect
<1> QED BY <1>2, <1>3 DEF Waits

LEMMA WaitsRaised ==
    ASSUME IInv, NEW bs, NEW e \in Event, Raise(bs, e), sched' = sched
    PROVE  \A x \in Boards : Waits(x)' = IF x \in bs THEN Waits(x) \union {e} ELSE Waits(x)
<1>1. TypeOK
  BY DEF IInv
<1>2. \A x \in Boards :
          /\ x \in bs => Among(sdEvents'[x]) = Among(sdEvents[x]) \union {e}
          /\ x \notin bs => sdEvents'[x] = sdEvents[x]
  <2>1. ASSUME NEW x \in Boards, x \in bs
        PROVE  Among(sdEvents'[x]) = Among(sdEvents[x]) \union {e}
    BY <1>1, <2>1, RaiseSteps
  <2>2. ASSUME NEW x \in Boards, x \notin bs PROVE sdEvents'[x] = sdEvents[x]
    BY <1>1, <2>2, RaiseSteps
  <2> QED BY <2>1, <2>2
<1> QED BY <1>2 DEF Waits

LEMMA RootStep ==
    ASSUME IInv, GatewayIsRoot, [Next]_vars
    PROVE  GatewayIsRoot'
<1> SUFFICES ASSUME NEW l \in Links, l[2] = Gateway
             PROVE  l \notin links' /\ Conn(l) \notin Waits(Gateway)' /\ Disc(l) \notin Waits(Gateway)'
  BY DEF GatewayIsRoot
<1>0. /\ Gateway \in Boards
      /\ l \notin links /\ Conn(l) \notin Waits(Gateway) /\ Disc(l) \notin Waits(Gateway)
  BY LinkHasTwoEnds DEF GatewayIsRoot
<1>1. CASE UNCHANGED vars
  BY <1>0, <1>1 DEF vars, softdevice, Waits
<1>2. ASSUME NEW b \in Boards, ble_evt_dispatch(b)
      PROVE  l \notin links' /\ Conn(l) \notin Waits(Gateway)' /\ Disc(l) \notin Waits(Gateway)'
  BY <1>0, <1>2, WaitsDispatched DEF ble_evt_dispatch, softdevice
<1>3. ASSUME NEW b \in Boards, HandlerEffect(b)
      PROVE  l \notin links' /\ Conn(l) \notin Waits(Gateway)' /\ Disc(l) \notin Waits(Gateway)'
  <2>1. Waits(Gateway)' \subseteq Waits(Gateway) /\ links' = links
    BY <1>0, <1>3, WaitsHandled DEF HandlerEffect
  <2> QED BY <1>0, <2>1
<1>4. ASSUME NEW b \in Boards, MainLoop(b)
      PROVE  l \notin links' /\ Conn(l) \notin Waits(Gateway)' /\ Disc(l) \notin Waits(Gateway)'
  <2>1. ble_evt_dispatch(b) \/ HandlerEffect(b)
    BY <1>4, HandlerSteps DEF MainLoop, IInv
  <2> QED BY <1>2, <1>3, <2>1
<1>5. ASSUME NEW p \in Boards, ConnectingTimesOut(p)
      PROVE  l \notin links' /\ Conn(l) \notin Waits(Gateway)' /\ Disc(l) \notin Waits(Gateway)'
  <2>1. Waits(Gateway)' \subseteq Waits(Gateway) \union {Timeout} /\ links' = links
    BY <1>0, <1>5, WaitsRaised, Events DEF ConnectingTimesOut, Timeout
  <2>2. Conn(l) # Timeout /\ Disc(l) # Timeout
    BY Events DEF Timeout
  <2> QED BY <1>0, <2>1, <2>2
<1>6. ASSUME NEW p \in Boards, NEW c \in Boards, hears_advertiser(p, c)
      PROVE  l \notin links' /\ Conn(l) \notin Waits(Gateway)' /\ Disc(l) \notin Waits(Gateway)'
  BY <1>0, <1>6 DEF hears_advertiser, Waits
<1>7. ASSUME NEW p \in Boards, NEW c \in Boards, Connects(p, c)
      PROVE  l \notin links' /\ Conn(l) \notin Waits(Gateway)' /\ Disc(l) \notin Waits(Gateway)'
  <2> DEFINE k == <<p, c>>
  <2>1. k \in Links /\ k[2] = c /\ c # Gateway /\ links' = links \union {k}
    BY <1>7, LinkHasTwoEnds DEF Connects, IInv, Orphans
  <2>2. Raise({p, c}, Conn(k)) /\ sched' = sched
    BY <1>7 DEF Connects, Conn
  <2> HIDE DEF k
  <2>3. Waits(Gateway)' \subseteq Waits(Gateway) \union {Conn(k)}
    BY <1>0, <2>1, <2>2, WaitsRaised, Events
  <2>4. l # k /\ Conn(l) # Conn(k) /\ Disc(l) # Conn(k)
    BY <2>1, Events
  <2> QED BY <1>0, <2>1, <2>3, <2>4
<1>8. ASSUME NEW k \in links, LinkEnds(k)
      PROVE  l \notin links' /\ Conn(l) \notin Waits(Gateway)' /\ Disc(l) \notin Waits(Gateway)'
  <2>1. k \in Links /\ k[2] # Gateway /\ links' \subseteq links
    BY <1>8 DEF LinkEnds, IInv, TypeOK, GatewayIsRoot
  <2>2. Raise({k[1], k[2]}, Disc(k)) /\ sched' = sched
    BY <1>8 DEF LinkEnds, Disc
  <2>3. Waits(Gateway)' \subseteq Waits(Gateway) \union {Disc(k)}
    BY <1>0, <2>1, <2>2, WaitsRaised, Events
  <2>4. l # k /\ Conn(l) # Disc(k) /\ Disc(l) # Disc(k)
    BY <2>1, Events
  <2> QED BY <1>0, <2>1, <2>3, <2>4
<1> QED BY <1>1, <1>4, <1>5, <1>6, <1>7, <1>8 DEF Next, LinkClosed, LinkLost

\* After each handler a board of the mesh looks for children, or has no room, or
\* has an event coming that makes it look.
LEMMA SeeksHandled ==
    ASSUME IInv, GatewayIsRoot, Seeks, NEW b \in Boards,
           \/ handle_connection_timeout_event(b) \/ child_connected(b) \/ parent_connected(b)
           \/ parent_lost(b) \/ child_lost(b)
    PROVE  Seeks'
<1>1. HandlerEffect(b)
  BY HandlerSteps DEF IInv
<1>2. /\ UNCHANGED <<links, sdEvents, connState>>
      /\ Head(sched[b]) \in Waits(b) /\ Head(sched[b]) \in Event
      /\ \A x \in Boards \ {b} : Waits(x)' = Waits(x) /\ gap'[x] = gap[x]
  BY <1>1, WaitsHandled DEF HandlerEffect
<1>3. Among(sdEvents[b]) \subseteq Waits(b)'
  BY <1>2 DEF Waits
<1>4. \A x \in Boards : (HasParent(x)' <=> HasParent(x)) /\ (HasRoom(x)' <=> HasRoom(x))
  BY <1>2 DEF HasParent, HasRoom
<1>5. ASSUME NEW x \in Boards \ {b}, Attached(x), gap'[x] = "idle"
      PROVE  Waits(x)' \cap Revives(x) # {} \/ (x # Gateway /\ ~HasRoom(x))
  BY <1>2, <1>5 DEF Seeks
<1>6. ASSUME Attached(b), gap'[b] = "idle"
      PROVE  Waits(b)' \cap Revives(b) # {} \/ (b # Gateway /\ ~HasRoom(b))
  <2>1. scan_started(b) # "idle" /\ (\A g : gap' = [gap EXCEPT ![b] = g] => gap'[b] = g)
    BY DEF scan_started, IInv, TypeOK
  <2>2. ~(SetGap(b, scan_started(b)))
    BY <1>6, <2>1 DEF SetGap
  <2>3. ASSUME all_peripheral_connections_active(b), b # Gateway
        PROVE  Waits(b)' \cap Revives(b) # {} \/ (b # Gateway /\ ~HasRoom(b))
    BY <1>3, <2>3, FullOrLosing
  <2>4. CASE handle_connection_timeout_event(b)
    BY <2>2, <2>4 DEF handle_connection_timeout_event
  <2>5. CASE child_lost(b)
    BY <2>2, <2>5 DEF child_lost
  <2>6. CASE child_connected(b)
    <3>1. CASE b # Gateway /\ ~central_connection_active(b)
      <4>1. PICK l \in links : l[2] = b
        BY <1>6, <3>1 DEF Attached, HasParent
      <4>2. l \in Links /\ b \in Ends(l) /\ l \notin connState[b]
        BY <3>1, <4>1 DEF IInv, TypeOK, Ends, central_connection_active
      <4>3. Conn(l) \in Among(sdEvents[b])
        BY <4>2 DEF IInv, Listed
      <4> QED BY <1>3, <4>2, <4>3 DEF Revives
    <3>2. CASE b # Gateway /\ all_peripheral_connections_active(b)
      BY <2>3, <3>2
    <3> QED BY <2>2, <2>6, <3>1, <3>2 DEF child_connected
  <2>7. CASE parent_connected(b)
    <3>1. Head(sched[b]).type = "CONNECTED" /\ Head(sched[b]).link[2] = b
      BY <2>7 DEF parent_connected, Handling
    <3>2. b # Gateway
      BY <1>2, <3>1, Events DEF GatewayIsRoot
    <3> QED BY <2>2, <2>3, <2>7, <3>2 DEF parent_connected
  <2>8. CASE parent_lost(b)
    <3>1. Head(sched[b]).type = "DISCONNECTED" /\ Head(sched[b]).link[2] = b /\ sched[b] # <<>>
      BY <2>8 DEF parent_lost, Handling
    <3>2. b # Gateway
      BY <1>2, <3>1, Events DEF GatewayIsRoot
    <3>3. Head(sched[b]) \in ParentLoss(b)
      BY <1>2, <3>1, Events DEF ParentLoss
    <3>4. Head(sched[b]) \in Among(sched[b])
      BY <3>1, AmongTail DEF IInv, TypeOK
    <3>5. ~HasParent(b)
      BY <3>3, <3>4 DEF IInv, Orphans, NoLoss, None
    <3> QED BY <1>6, <3>2, <3>5 DEF Attached
  <2> QED BY <2>4, <2>5, <2>6, <2>7, <2>8
<1>7. ASSUME NEW x \in Boards, Attached(x), gap'[x] = "idle"
      PROVE  Waits(x)' \cap Revives(x) # {} \/ (x # Gateway /\ ~HasRoom(x))
  BY <1>5, <1>6, <1>7
<1>8. \A x \in Boards : (Attached(x)' <=> Attached(x)) /\ Revives(x)' = Revives(x)
  BY <1>4 DEF Attached, Revives, Timeout, Conn, Disc
<1> QED BY <1>4, <1>7, <1>8 DEF Seeks

\* A step that adds events only, and leaves a board its links to children and what
\* it does, leaves it looking for children.
LEMMA SeeksKept ==
    ASSUME Seeks, NEW x \in Boards, Waits(x) \subseteq Waits(x)',
           Attached(x)' => Attached(x), HasRoom(x) <=> HasRoom(x)', gap'[x] = gap[x]
    PROVE  Attached(x)' /\ gap'[x] = "idle" =>
               (Waits(x) \cap Revives(x) # {})' \/ (x # Gateway /\ ~HasRoom(x)')
<1>1. Revives(x)' = Revives(x)
  BY DEF Revives, Timeout, Conn, Disc
<1> QED BY <1>1 DEF Seeks

LEMMA SeeksStep ==
    ASSUME IInv, GatewayIsRoot, Seeks, [Next]_vars
    PROVE  Seeks'
<1>0. \A x : Timeout \in Revives(x)' /\ \A l \in Links : Conn(l) \in Revives(x)' /\
                                            (l[1] = x => Disc(l) \in Revives(x)')
  BY DEF Revives, Timeout, Conn, Disc
<1>1. CASE UNCHANGED vars
  <2>1. \A x \in Boards : /\ Waits(x)' = Waits(x) /\ gap'[x] = gap[x]
                          /\ Attached(x)' <=> Attached(x)
                          /\ HasRoom(x)' <=> HasRoom(x)
    BY <1>1 DEF vars, softdevice, Waits, Attached, HasParent, HasRoom
  <2> QED BY <2>1, SeeksKept DEF Seeks
<1>2. ASSUME NEW b \in Boards, ble_evt_dispatch(b) PROVE Seeks'
  <2>1. \A x \in Boards : /\ Waits(x)' = Waits(x) /\ gap'[x] = gap[x]
                          /\ Attached(x)' <=> Attached(x)
                          /\ HasRoom(x)' <=> HasRoom(x)
    BY <1>2, WaitsDispatched DEF ble_evt_dispatch, softdevice, Attached, HasParent, HasRoom
  <2> QED BY <2>1, SeeksKept DEF Seeks
<1>3. ASSUME NEW b \in Boards, MainLoop(b) PROVE Seeks'
  BY <1>2, <1>3, SeeksHandled DEF MainLoop
<1>4. ASSUME NEW p \in Boards, ConnectingTimesOut(p) PROVE Seeks'
  <2>1. \A x \in Boards : /\ Waits(x)' = IF x = p THEN Waits(x) \union {Timeout} ELSE Waits(x)
                          /\ x # p => gap'[x] = gap[x]
                          /\ Attached(x)' <=> Attached(x)
                          /\ HasRoom(x)' <=> HasRoom(x)
    <3>1. /\ Raise({p}, Timeout) /\ Timeout \in Event /\ sched' = sched /\ links' = links
          /\ \A x \in Boards \ {p} : gap'[x] = gap[x]
      BY <1>4, Events DEF ConnectingTimesOut, Timeout, SetGap, IInv, TypeOK
    <3>2. \A x \in Boards : Waits(x)' = IF x \in {p} THEN Waits(x) \union {Timeout} ELSE Waits(x)
      BY <3>1, WaitsRaised
    <3> QED BY <3>1, <3>2 DEF Attached, HasParent, HasRoom
  <2>2. Waits(p)' \cap Revives(p)' # {}
    BY <1>0, <2>1
  <2>3. \A x \in Boards \ {p} : Attached(x)' /\ gap'[x] = "idle" =>
               (Waits(x) \cap Revives(x) # {})' \/ (x # Gateway /\ ~HasRoom(x)')
    BY <2>1, SeeksKept
  <2> QED BY <2>2, <2>3 DEF Seeks
<1>5. ASSUME NEW p \in Boards, NEW c \in Boards, hears_advertiser(p, c) PROVE Seeks'
  <2>1. /\ gap'[p] = c /\ c # "idle"
        /\ \A x \in Boards \ {p} : gap'[x] = gap[x]
    BY <1>5, MeshAssumption DEF hears_advertiser, SetGap, IInv, TypeOK
  <2>2. \A x \in Boards : /\ Waits(x)' = Waits(x)
                          /\ Attached(x)' <=> Attached(x)
                          /\ HasRoom(x)' <=> HasRoom(x)
    BY <1>5 DEF hears_advertiser, Waits, Attached, HasParent, HasRoom
  <2>3. \A x \in Boards \ {p} : Attached(x)' /\ gap'[x] = "idle" =>
               (Waits(x) \cap Revives(x) # {})' \/ (x # Gateway /\ ~HasRoom(x)')
    BY <2>1, <2>2, SeeksKept
  <2> QED BY <2>1, <2>3 DEF Seeks
<1>6. ASSUME NEW p \in Boards, NEW c \in Boards, Connects(p, c) PROVE Seeks'
  <2> DEFINE k == <<p, c>>
  <2>1. /\ k \in Links /\ k[1] = p /\ k[2] = c /\ Conn(k) \in Event
        /\ Raise({p, c}, Conn(k)) /\ sched' = sched /\ links' = links \union {k}
        /\ \A x \in Boards \ {p} : gap'[x] = gap[x]
    BY <1>6, LinkHasTwoEnds, Events DEF Connects, Conn, SetGap, IInv, TypeOK
  <2> HIDE DEF k
  <2>2. \A x \in Boards :
            Waits(x)' = IF x \in {p, c} THEN Waits(x) \union {Conn(k)} ELSE Waits(x)
    BY <2>1, WaitsRaised
  <2>3. ASSUME NEW x \in {p, c} PROVE Waits(x)' \cap Revives(x)' # {}
    BY <1>0, <2>1, <2>2
  <2>4. ASSUME NEW x \in Boards \ {p, c}
        PROVE  Attached(x)' /\ gap'[x] = "idle" =>
                   (Waits(x) \cap Revives(x) # {})' \/ (x # Gateway /\ ~HasRoom(x)')
    <3>1. Attached(x)' <=> Attached(x)
      BY <2>1, <2>4 DEF Attached, HasParent
    <3>2. {l \in links' : l[1] = x} = {l \in links : l[1] = x}
      BY <2>1, <2>4
    <3>3. HasRoom(x)' <=> HasRoom(x)
      BY <3>2 DEF HasRoom
    <3> QED BY <2>1, <2>2, <2>4, <3>1, <3>3, SeeksKept
  <2> QED BY <2>3, <2>4 DEF Seeks
<1>7. ASSUME NEW k \in links, LinkEnds(k) PROVE Seeks'
  <2>1. /\ k \in Links /\ Disc(k) \in Event
        /\ Raise({k[1], k[2]}, Disc(k)) /\ sched' = sched /\ links' = links \ {k} /\ gap' = gap
    BY <1>7, Events DEF LinkEnds, Disc, IInv, TypeOK
  <2>2. \A x \in Boards :
            Waits(x)' = IF x \in {k[1], k[2]} THEN Waits(x) \union {Disc(k)} ELSE Waits(x)
    BY <2>1, WaitsRaised
  <2>3. k[1] \in Boards => Waits(k[1])' \cap Revives(k[1])' # {}
    BY <1>0, <2>1, <2>2
  <2>4. ASSUME NEW x \in Boards \ {k[1]}
        PROVE  Attached(x)' /\ gap'[x] = "idle" =>
                   (Waits(x) \cap Revives(x) # {})' \/ (x # Gateway /\ ~HasRoom(x)')
    <3>1. Attached(x)' => Attached(x)
      BY <2>1, <2>4 DEF Attached, HasParent
    <3>2. {l \in links' : l[1] = x} = {l \in links : l[1] = x}
      BY <2>1, <2>4
    <3>3. HasRoom(x)' <=> HasRoom(x)
      BY <3>2 DEF HasRoom
    <3> QED BY <2>1, <2>2, <2>4, <3>1, <3>3, SeeksKept
  <2> QED BY <2>3, <2>4 DEF Seeks
<1> QED BY <1>1, <1>3, <1>4, <1>5, <1>6, <1>7 DEF Next, LinkClosed, LinkLost

LEMMA SeeksInit == Init => GatewayIsRoot /\ Seeks
<1> SUFFICES ASSUME Init PROVE GatewayIsRoot /\ Seeks
  OBVIOUS
<1>1. links = {} /\ \A b \in Boards : Waits(b) = {}
  BY AmongNothing DEF Init, Waits
<1>2. GatewayIsRoot
  BY <1>1, LinkHasTwoEnds DEF GatewayIsRoot
<1>3. \A b \in Boards : ~(Attached(b) /\ gap[b] = "idle")
  BY <1>1 DEF Init, Attached, HasParent
<1> QED BY <1>2, <1>3 DEF Seeks

\* In a settled mesh not every board can be full: each child has one parent, so
\* fewer boards are parents than are attached.
LEMMA SomeoneHasRoom ==
    ASSUME IInv, GatewayIsRoot, Settled, Gateway \in Boards
    PROVE  \E b \in Boards : Attached(b) /\ HasRoom(b)
<1> SUFFICES ASSUME \A b \in Boards : Attached(b) => ~HasRoom(b) PROVE FALSE
  OBVIOUS
<1> DEFINE A == {b \in Boards : Attached(b)}
           f == [c \in A \ {Gateway} |-> (CHOOSE l \in links : l[2] = c)[1]]
<1>1. links \subseteq Links /\ \A l \in links : l[2] # Gateway
  BY DEF IInv, TypeOK, GatewayIsRoot
<1>2. ASSUME NEW l \in links
      PROVE  /\ l[1] \in A /\ l[2] \in A \ {Gateway}
             /\ (CHOOSE m \in links : m[2] = l[2]) = l
  <2>1. l[1] \in Boards /\ l[2] \in Boards /\ l[2] # Gateway
    BY <1>1, LinkHasTwoEnds
  <2>2. Attached(l[1])
    BY SettledParents DEF Attached
  <2>3. Attached(l[2])
    BY DEF Attached, HasParent
  <2>4. \A m \in links : m[2] = l[2] => m = l
    BY DEF IInv, OneParentLink
  <2> QED BY <2>1, <2>2, <2>3, <2>4
<1>3. f \in [A \ {Gateway} -> A]
  <2> SUFFICES ASSUME NEW c \in A \ {Gateway} PROVE (CHOOSE l \in links : l[2] = c)[1] \in A
    OBVIOUS
  <2>1. PICK l \in links : l[2] = c
    BY DEF Attached, HasParent
  <2> QED BY <1>2, <2>1
<1>4. ASSUME NEW b \in A PROVE \E c \in A \ {Gateway} : f[c] = b
  <2> DEFINE ls == {l \in links : l[1] = b}
  <2>1. IsFiniteSet(ls) /\ Cardinality(ls) \in Nat
    BY <1>1, LinksFinite DEF IInv
  <2>2. ~(Cardinality(ls) < MAX_PERIPHERAL_CONNECTIONS)
    BY DEF HasRoom
  <2>3. Cardinality(ls) # 0
    BY <2>1, <2>2, MeshAssumption
  <2>4. PICK l \in ls : TRUE
    BY <2>3, FS_EmptySet
  <2>5. l \in links /\ l[1] = b
    BY <2>4
  <2> QED BY <1>2, <2>5
<1>5. f \in Surjection(A \ {Gateway}, A)
  BY <1>3, <1>4 DEF Surjection
<1>6. /\ IsFiniteSet(A) /\ IsFiniteSet(A \ {Gateway}) /\ Cardinality(A) \in Nat
      /\ Cardinality(A \ {Gateway}) = Cardinality(A) - 1
  <2>1. IsFiniteSet(A) /\ Gateway \in A
    BY MeshAssumption, FS_Subset DEF Attached
  <2> QED BY <2>1, FS_RemoveElement, FS_CardinalityType
<1> HIDE DEF A, f
<1>7. Cardinality(A) <= Cardinality(A \ {Gateway})
  BY <1>5, <1>6, FS_Surjection
<1> QED BY <1>6, <1>7

\* A mesh of any number of boards stays open: who has no parent advertises, and some
\* board of the mesh has room and looks for children.
THEOREM MeshStaysOpen ==
    ASSUME Prompt, Gateway \in Boards
    PROVE  Spec => []StaysOpen
<1>1. Init => GatewayIsRoot /\ Seeks
  BY SeeksInit
<1>2. IInv /\ GatewayIsRoot /\ Seeks /\ [Next]_vars => (GatewayIsRoot /\ Seeks)'
  BY RootStep, SeeksStep
<1>3. ASSUME IInv, GatewayIsRoot, Seeks PROVE StaysOpen
  <2> SUFFICES ASSUME Settled
               PROVE  /\ \A c \in Boards \ {Gateway} : HasParent(c) \/ c \in advertising
                      /\ \E b \in Boards : Attached(b) /\ HasRoom(b) /\ gap[b] # "idle"
    BY DEF StaysOpen, Attached
  <2>1. \A b \in Boards : Among(sdEvents[b]) = {} /\ Among(sched[b]) = {}
    BY AmongNothing DEF Settled, Ready
  <2>2. \A c \in Boards \ {Gateway} : HasParent(c) \/ c \in advertising
    BY <1>3, <2>1 DEF IInv, Orphans, NoLoss, None
  <2>3. \A b \in Boards : Attached(b) => gap[b] # "idle" \/ (b # Gateway /\ ~HasRoom(b))
    BY <1>3, <2>1 DEF Seeks, Waits
  <2> QED BY <1>3, <2>2, <2>3, SomeoneHasRoom
<1> QED BY <1>1, <1>2, <1>3, Invariant, PTL DEF Spec

================================================================================
