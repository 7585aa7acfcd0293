------------------------------ MODULE DeviceProofs ------------------------------
(***************************************************************************)
(* Theorems about Device, for every number of handles, connections and     *)
(* queue entries, on a mesh board and on the gateway.                      *)
(***************************************************************************)
EXTENDS Device, FiniteSetTheorems, TLAPS

(* What can be read off an event, and off the queue it comes from. *)

LEMMA Fields ==
    ASSUME NEW e \in BleEvent
    PROVE  /\ e \in Entry
           /\ e.type \in {"CONNECTED", "DISCONNECTED", "WRITE"} => e.handle \in Handles
           /\ e.type = "CONNECTED" => e.role \in Roles
           /\ RoleAfter(e) \in Roles \union {"none"} \/ e.type # "CONNECTED"
BY DEF BleEvent, Entry, RoleAfter

LEMMA EntryIsEvent ==
    ASSUME NEW e \in Entry, e.type \in {"CONNECTED", "DISCONNECTED", "WRITE"}
    PROVE  e \in BleEvent
BY DEF BleEvent, Entry

LEMMA HeadTail ==
    ASSUME NEW S, NEW q \in Seq(S), q # <<>>
    PROVE  /\ Head(q) \in S
           /\ Tail(q) \in Seq(S)
           /\ Len(q) \in Nat \ {0}
           /\ Len(Tail(q)) = Len(q) - 1
           /\ \A i \in 1 .. Len(q) - 1 : Tail(q)[i] = q[i + 1]
           /\ Head(q) = q[1]
OBVIOUS

LEMMA Appended ==
    ASSUME NEW S, NEW q \in Seq(S), NEW e \in S
    PROVE  /\ Append(q, e) \in Seq(S)
           /\ Len(Append(q, e)) = Len(q) + 1
           /\ \A i \in 1 .. Len(q) : Append(q, e)[i] = q[i]
           /\ Append(q, e)[Len(q) + 1] = e
OBVIOUS

LEMMA Nothing ==
    ASSUME NEW S
    PROVE  <<>> \in Seq(S) /\ Len(<<>>) = 0
OBVIOUS

LEMMA AppendIsConcat ==
    ASSUME NEW S, NEW q \in Seq(S), NEW e \in S
    PROVE  q \o <<e>> = Append(q, e)
OBVIOUS

LEMMA Raised ==
    ASSUME TypeOK, NEW e \in BleEvent, Raise(e)
    PROVE  /\ sdEvents' \in Seq(BleEvent)
           /\ sched' \in Seq(Entry) /\ Len(sched') <= SCHED_QUEUE_SIZE
           /\ lost' \in BOOLEAN
<1>1. [type |-> "FETCH"] \in Entry
  BY DEF Entry
<1>2. sdEvents' \in Seq(BleEvent)
  BY Appended DEF Raise, TypeOK
<1>3. lost' \in BOOLEAN
  BY DEF Raise, TypeOK
<1>4. sched' \in Seq(Entry) /\ Len(sched') <= SCHED_QUEUE_SIZE
  <2>1. CASE sched' = sched
    BY <2>1 DEF TypeOK
  <2>2. CASE /\ Len(sched) < SCHED_QUEUE_SIZE
             /\ sched' = Append(sched, [type |-> "FETCH"])
    BY <2>2, <1>1, Appended, DeviceAssumption DEF TypeOK, DeviceAssumption
  <2>3. QED
    BY <2>1, <2>2 DEF Raise
<1>5. QED
  BY <1>2, <1>3, <1>4

LEMMA Returned ==
    ASSUME TypeOK, sched # <<>>, Return
    PROVE  sched' \in Seq(Entry) /\ Len(sched') <= SCHED_QUEUE_SIZE
BY HeadTail, DeviceAssumption DEF TypeOK, Return, DeviceAssumption

(* The table and the calls into the softdevice keep their types. *)

LEMMA TableTyped ==
    ASSUME TypeOK, NEW h \in Handles, NEW type \in {"CENTRAL", "PERIPHERAL"},
           set_connection(h, type) \/ unset_connection(h)
    PROVE  activeConnections' \in [TableSlots -> connection]
<1>1. NoConnection \in connection
  BY DEF NoConnection, connection
<1>2. [active |-> TRUE, handle |-> h, type |-> type] \in connection
  BY DeviceAssumption DEF connection, DeviceAssumption
<1>3. QED
  BY <1>1, <1>2 DEF TypeOK, set_connection, unset_connection

LEMMA ClosingTyped ==
    ASSUME TypeOK, NEW hs \in SUBSET Handles, disconnect_from_peers(hs)
    PROVE  closing' \in SUBSET Handles
BY DEF TypeOK, disconnect_from_peers

LEMMA GapTyped ==
    ASSUME NEW g \in {"idle", "scanning", "initiating"}
    PROVE  {scan_started(g), scan_stopped(g)} \subseteq {"idle", "scanning", "initiating"}
BY DEF scan_started, scan_stopped

LEMMA SentTyped ==
    ASSUME TypeOK, NEW hs \in SUBSET Handles, SendTo(hs)
    PROVE  closing' \in SUBSET Handles /\ hung' \in BOOLEAN
<1>1. PICK full \in SUBSET {h \in hs : SlotsOf(h) # {}} : disconnect_from_peers(full)
  BY DEF SendTo
<1>2. closing' \in SUBSET Handles
  BY <1>1, ClosingTyped
<1>3. hung' \in BOOLEAN
  BY DEF SendTo, UseNull, TypeOK
<1>4. QED
  BY <1>2, <1>3

LEMMA PrintTyped ==
    ASSUME TypeOK, print_connections
    PROVE  hung' \in BOOLEAN
BY DEF print_connections, UseNull, TypeOK

LEMMA RecipientsTyped ==
    ASSUME NEW m, NEW origin
    PROVE  Recipients(m, origin) \subseteq Handles
BY DEF Recipients, Connected

LEMMA HeadEvent ==
    ASSUME TypeOK, NEW type \in {"CONNECTED", "DISCONNECTED", "WRITE"}, Running(type)
    PROVE  /\ sched # <<>>
           /\ Head(sched) \in BleEvent
           /\ Head(sched).handle \in Handles
<1>1. sched # <<>> /\ Head(sched) \in Entry /\ Head(sched).type = type
  BY HeadTail DEF Running, TypeOK
<1>2. QED
  BY <1>1, EntryIsEvent, Fields

--------------------------------------------------------------------------------
(* Type correctness: one lemma per group of actions. *)

LEMMA HandlersTyped ==
    ASSUME TypeOK,
           \/ handle_advertising_report_event \/ ignore_advertising_report_event
           \/ reject_connection_event \/ handle_connection_event
           \/ lose_parent \/ lose_child \/ lose_unknown
           \/ handle_connection_timeout_event
    PROVE  TypeOK'
<1>1. CASE handle_advertising_report_event
  <2>1. sched # <<>>
    BY <1>1 DEF handle_advertising_report_event, Running
  <2>2. sched' \in Seq(Entry) /\ Len(sched') <= SCHED_QUEUE_SIZE
    BY <1>1, <2>1, Returned DEF handle_advertising_report_event
  <2>3. gap' \in {"idle", "scanning", "initiating"}
    BY <1>1 DEF handle_advertising_report_event, connect_to_peer, scan_started,
                scan_stopped, TypeOK
  <2>4. QED
    BY <1>1, <2>2, <2>3 DEF handle_advertising_report_event, TypeOK
<1>2. CASE ignore_advertising_report_event
  <2>1. sched # <<>>
    BY <1>2 DEF ignore_advertising_report_event, Running
  <2>2. sched' \in Seq(Entry) /\ Len(sched') <= SCHED_QUEUE_SIZE
    BY <1>2, <2>1, Returned DEF ignore_advertising_report_event
  <2>3. QED
    BY <1>2, <2>2 DEF ignore_advertising_report_event, TypeOK, softdevice
<1>3. CASE reject_connection_event
  <2>1. sched # <<>> /\ Head(sched).handle \in Handles
    BY <1>3, HeadEvent DEF reject_connection_event
  <2>2. sched' \in Seq(Entry) /\ Len(sched') <= SCHED_QUEUE_SIZE
    BY <1>3, <2>1, Returned DEF reject_connection_event
  <2>3. activeConnections' \in [TableSlots -> connection]
    BY <1>3, <2>1, TableTyped DEF reject_connection_event
  <2>4. closing' \in SUBSET Handles
    BY <1>3, <2>1, ClosingTyped DEF reject_connection_event
  <2>5. QED
    BY <1>3, <2>2, <2>3, <2>4 DEF reject_connection_event, TypeOK
<1>4. CASE handle_connection_event
  <2>1. sched # <<>> /\ Head(sched).handle \in Handles
    BY <1>4, HeadEvent DEF handle_connection_event
  <2>2. sched' \in Seq(Entry) /\ Len(sched') <= SCHED_QUEUE_SIZE
    BY <1>4, <2>1, Returned DEF handle_connection_event
  <2>3. activeConnections' \in [TableSlots -> connection]
    BY <1>4, <2>1, TableTyped DEF handle_connection_event
  <2>4. gap' \in {"idle", "scanning", "initiating"}
    BY <1>4 DEF handle_connection_event, scan_started, TypeOK
  <2>5. hung' \in BOOLEAN
    BY <1>4 DEF handle_connection_event, print_connections, UseNull, TypeOK
  <2>6. QED
    BY <1>4, <2>2, <2>3, <2>4, <2>5 DEF handle_connection_event, TypeOK
<1>5. CASE lose_parent
  <2>1. sched # <<>> /\ Head(sched).handle \in Handles
    BY <1>5, HeadEvent DEF lose_parent
  <2>2. sched' \in Seq(Entry) /\ Len(sched') <= SCHED_QUEUE_SIZE
    BY <1>5, <2>1, Returned DEF lose_parent
  <2>3. activeConnections' \in [TableSlots -> connection]
    BY <1>5, <2>1, TableTyped DEF lose_parent
  <2>4. closing' \in SUBSET Handles
    <3>1. Connected(Roles) \in SUBSET Handles
      BY DEF Connected
    <3>2. QED
      BY <1>5, <3>1, ClosingTyped DEF lose_parent
  <2>5. gap' \in {"idle", "scanning", "initiating"}
    BY <1>5 DEF lose_parent, scan_stopped, TypeOK
  <2>6. advertising' \in BOOLEAN
    BY <1>5 DEF lose_parent, adv_started, TypeOK
  <2>7. hung' \in BOOLEAN
    BY <1>5, PrintTyped DEF lose_parent
  <2>8. QED
    BY <1>5, <2>2, <2>3, <2>4, <2>5, <2>6, <2>7 DEF lose_parent, TypeOK
<1>6. CASE lose_child
  <2>1. sched # <<>> /\ Head(sched).handle \in Handles
    BY <1>6, HeadEvent DEF lose_child
  <2>2. sched' \in Seq(Entry) /\ Len(sched') <= SCHED_QUEUE_SIZE
    BY <1>6, <2>1, Returned DEF lose_child
  <2>3. activeConnections' \in [TableSlots -> connection]
    BY <1>6, <2>1, TableTyped DEF lose_child
  <2>4. gap' \in {"idle", "scanning", "initiating"}
    BY <1>6 DEF lose_child, scan_started, TypeOK
  <2>5. hung' \in BOOLEAN
    BY <1>6, PrintTyped DEF lose_child
  <2>6. QED
    BY <1>6, <2>2, <2>3, <2>4, <2>5 DEF lose_child, TypeOK
<1>7. CASE lose_unknown
  <2>1. sched # <<>>
    BY <1>7 DEF lose_unknown, Running
  <2>2. sched' \in Seq(Entry) /\ Len(sched') <= SCHED_QUEUE_SIZE
    BY <1>7, <2>1, Returned DEF lose_unknown
  <2>3. hung' \in BOOLEAN
    BY <1>7, PrintTyped DEF lose_unknown
  <2>4. QED
    BY <1>7, <2>2, <2>3 DEF lose_unknown, TypeOK, softdevice
<1>8. CASE handle_connection_timeout_event
  <2>1. sched # <<>>
    BY <1>8 DEF handle_connection_timeout_event, Running
  <2>2. sched' \in Seq(Entry) /\ Len(sched') <= SCHED_QUEUE_SIZE
    BY <1>8, <2>1, Returned DEF handle_connection_timeout_event
  <2>3. gap' \in {"idle", "scanning", "initiating"}
    BY <1>8 DEF handle_connection_timeout_event, scan_started, TypeOK
  <2>4. QED
    BY <1>8, <2>2, <2>3 DEF handle_connection_timeout_event, TypeOK
<1>9. QED
  BY <1>1, <1>2, <1>3, <1>4, <1>5, <1>6, <1>7, <1>8

LEMMA SendersTyped ==
    ASSUME TypeOK,
           \/ handle_write_event \/ send_heartbeat_message
           \/ send_broadcast_message \/ print_all_connections
    PROVE  TypeOK'
<1>1. CASE handle_write_event
  <2>1. sched # <<>>
    BY <1>1 DEF handle_write_event, Running
  <2>2. sched' \in Seq(Entry) /\ Len(sched') <= SCHED_QUEUE_SIZE
    BY <1>1, <2>1, Returned DEF handle_write_event
  <2>3. closing' \in SUBSET Handles /\ hung' \in BOOLEAN
    BY <1>1, RecipientsTyped, SentTyped DEF handle_write_event
  <2>4. QED
    BY <1>1, <2>2, <2>3 DEF handle_write_event, TypeOK
<1>2. CASE send_heartbeat_message
  <2>1. sched # <<>>
    BY <1>2 DEF send_heartbeat_message, Running
  <2>2. sched' \in Seq(Entry) /\ Len(sched') <= SCHED_QUEUE_SIZE
    BY <1>2, <2>1, Returned DEF send_heartbeat_message
  <2>3. closing' \in SUBSET Handles /\ hung' \in BOOLEAN
    BY <1>2, RecipientsTyped, SentTyped DEF send_heartbeat_message
  <2>4. QED
    BY <1>2, <2>2, <2>3 DEF send_heartbeat_message, TypeOK
<1>3. CASE send_broadcast_message
  <2>1. closing' \in SUBSET Handles /\ hung' \in BOOLEAN
    BY <1>3, RecipientsTyped, SentTyped DEF send_broadcast_message
  <2>2. QED
    BY <1>3, <2>1 DEF send_broadcast_message, Input, TypeOK
<1>4. CASE print_all_connections
  <2>1. hung' \in BOOLEAN
    BY <1>4, PrintTyped DEF print_all_connections
  <2>2. QED
    BY <1>4, <2>1 DEF print_all_connections, Input, softdevice, TypeOK
<1>5. QED
  BY <1>1, <1>2, <1>3, <1>4

LEMMA LoopTyped ==
    ASSUME TypeOK,
           \/ generic_timer_handler \/ ble_evt_dispatch \/ fetch_done
           \/ no_input \/ app_sched_execute_returns
           \/ check_advertising_status \/ check_scanning_status \/ TimerExpires
    PROVE  TypeOK'
<1>1. CASE generic_timer_handler
  <2>1. [type |-> "HEARTBEAT"] \in Entry
    BY DEF Entry
  <2>2. /\ Tail(sched) \in Seq(Entry)
        /\ Len(sched) \in Nat \ {0} /\ Len(Tail(sched)) = Len(sched) - 1
    BY <1>1, HeadTail DEF generic_timer_handler, Running, TypeOK
  <2>3. sched' \in Seq(Entry) /\ Len(sched') <= SCHED_QUEUE_SIZE
    <3>1. CASE Len(sched) < SCHED_QUEUE_SIZE
      <4>1. sched' = Tail(sched) \o <<[type |-> "HEARTBEAT"]>>
        BY <1>1, <3>1 DEF generic_timer_handler
      <4>2. sched' = Append(Tail(sched), [type |-> "HEARTBEAT"])
        BY <4>1, <2>1, <2>2, AppendIsConcat
      <4>3. QED
        BY <4>2, <2>1, <2>2, <3>1, Appended, DeviceAssumption DEF DeviceAssumption
    <3>2. CASE ~(Len(sched) < SCHED_QUEUE_SIZE)
      <4>1. sched' = Tail(sched) \o <<>>
        BY <1>1, <3>2 DEF generic_timer_handler
      <4>2. sched' = Tail(sched)
        BY <4>1, <2>2
      <4>3. QED
        BY <4>2, <2>2, DeviceAssumption DEF TypeOK, DeviceAssumption
    <3>3. QED
      BY <3>1, <3>2
  <2>4. QED
    BY <1>1, <2>3 DEF generic_timer_handler, TypeOK, softdevice
<1>2. CASE ble_evt_dispatch
  <2>1. /\ Head(sdEvents) \in BleEvent
        /\ sdEvents' \in Seq(BleEvent)
    BY <1>2, HeadTail DEF ble_evt_dispatch, TypeOK
  <2>2. Head(sdEvents) \in Entry
    BY <2>1, Fields
  <2>3. sched' \in Seq(Entry) /\ Len(sched') <= SCHED_QUEUE_SIZE
    <3>1. CASE Len(sched) < SCHED_QUEUE_SIZE
      <4>1. sched' = Append(sched, Head(sdEvents))
        BY <1>2, <3>1 DEF ble_evt_dispatch
      <4>2. QED
        BY <4>1, <2>2, <3>1, Appended, DeviceAssumption DEF TypeOK, DeviceAssumption
    <3>2. CASE ~(Len(sched) < SCHED_QUEUE_SIZE)
      BY <1>2, <3>2 DEF ble_evt_dispatch, TypeOK
    <3>3. QED
      BY <3>1, <3>2
  <2>4. connState' \in [Handles -> Roles \union {"none"}]
    <3>1. CASE Head(sdEvents).type = "CONNECTED"
      <4>1. Head(sdEvents).role \in Roles
        BY <2>1, <3>1, Fields
      <4>2. connState' = [connState EXCEPT ![Head(sdEvents).handle] = Head(sdEvents).role]
        BY <1>2, <3>1 DEF ble_evt_dispatch
      <4>3. QED
        BY <4>1, <4>2 DEF TypeOK
    <3>2. CASE Head(sdEvents).type = "DISCONNECTED"
      <4>1. connState' = [connState EXCEPT ![Head(sdEvents).handle] = "none"]
        BY <1>2, <3>2 DEF ble_evt_dispatch
      <4>2. QED
        BY <4>1 DEF TypeOK
    <3>3. CASE Head(sdEvents).type \notin {"CONNECTED", "DISCONNECTED"}
      BY <1>2, <3>3 DEF ble_evt_dispatch, TypeOK
    <3>4. QED
      BY <3>1, <3>2, <3>3
  <2>5. lost' \in BOOLEAN
    BY <1>2 DEF ble_evt_dispatch, TypeOK
  <2>6. QED
    BY <1>2, <2>1, <2>3, <2>4, <2>5 DEF ble_evt_dispatch, TypeOK, softdevice
<1>3. CASE fetch_done
  <2>1. sched # <<>>
    BY <1>3 DEF fetch_done, Running
  <2>2. sched' \in Seq(Entry) /\ Len(sched') <= SCHED_QUEUE_SIZE
    BY <1>3, <2>1, Returned DEF fetch_done
  <2>3. QED
    BY <1>3, <2>2 DEF fetch_done, TypeOK, softdevice
<1>4. CASE no_input
  BY <1>4 DEF no_input, TypeOK, softdevice
<1>5. CASE app_sched_execute_returns
  BY <1>5 DEF app_sched_execute_returns, TypeOK, softdevice
<1>6. CASE check_advertising_status
  BY <1>6 DEF check_advertising_status, Input, adv_started, TypeOK
<1>7. CASE check_scanning_status
  BY <1>7 DEF check_scanning_status, Input, scan_started, TypeOK
<1>8. CASE TimerExpires
  <2>1. [type |-> "TIMER"] \in Entry
    BY DEF Entry
  <2>2. sched' \in Seq(Entry) /\ Len(sched') <= SCHED_QUEUE_SIZE
    BY <1>8, <2>1, Appended, DeviceAssumption DEF TimerExpires, TypeOK, DeviceAssumption
  <2>3. QED
    BY <1>8, <2>2 DEF TimerExpires, TypeOK, softdevice
<1>9. QED
  BY <1>1, <1>2, <1>3, <1>4, <1>5, <1>6, <1>7, <1>8

(* Each step of the radio raises one event; this is what it does to the links. *)

LEMMA RadioRaises ==
    ASSUME TypeOK, Radio
    PROVE  \E e \in BleEvent :
               /\ Raise(e)
               /\ links' = IF e.type \in {"CONNECTED", "DISCONNECTED"}
                           THEN [links EXCEPT ![e.handle] = RoleAfter(e)] ELSE links
               /\ advertising' \in BOOLEAN
               /\ gap' \in {"idle", "scanning", "initiating"}
               /\ closing' \in SUBSET Handles
<1>1. ASSUME NEW h \in Handles, ParentConnects(h)
      PROVE  \E e \in BleEvent :
               /\ Raise(e)
               /\ links' = IF e.type \in {"CONNECTED", "DISCONNECTED"}
                           THEN [links EXCEPT ![e.handle] = RoleAfter(e)] ELSE links
               /\ advertising' \in BOOLEAN
               /\ gap' \in {"idle", "scanning", "initiating"}
               /\ closing' \in SUBSET Handles
  <2> DEFINE e == [type |-> "CONNECTED", handle |-> h, role |-> "periph"]
  <2>1. e \in BleEvent
    BY DEF BleEvent, Roles
  <2>2. QED
    BY <1>1, <2>1 DEF ParentConnects, RoleAfter, TypeOK
<1>2. ASSUME NEW h \in Handles, ChildConnects(h)
      PROVE  \E e \in BleEvent :
               /\ Raise(e)
               /\ links' = IF e.type \in {"CONNECTED", "DISCONNECTED"}
                           THEN [links EXCEPT ![e.handle] = RoleAfter(e)] ELSE links
               /\ advertising' \in BOOLEAN
               /\ gap' \in {"idle", "scanning", "initiating"}
               /\ closing' \in SUBSET Handles
  <2> DEFINE e == [type |-> "CONNECTED", handle |-> h, role |-> "central"]
  <2>1. e \in BleEvent
    BY DEF BleEvent, Roles
  <2>2. QED
    BY <1>2, <2>1 DEF ChildConnects, RoleAfter, TypeOK
<1>3. ASSUME NEW h \in Handles, LinkEnds(h)
      PROVE  \E e \in BleEvent :
               /\ Raise(e)
               /\ links' = IF e.type \in {"CONNECTED", "DISCONNECTED"}
                           THEN [links EXCEPT ![e.handle] = RoleAfter(e)] ELSE links
               /\ advertising' \in BOOLEAN
               /\ gap' \in {"idle", "scanning", "initiating"}
               /\ closing' \in SUBSET Handles
  <2> DEFINE e == [type |-> "DISCONNECTED", handle |-> h]
  <2>1. e \in BleEvent
    BY DEF BleEvent
  <2>2. QED
    BY <1>3, <2>1 DEF LinkEnds, RoleAfter, TypeOK
<1>4. ASSUME NEW h \in Handles, PeerWrites(h)
      PROVE  \E e \in BleEvent :
               /\ Raise(e)
               /\ links' = IF e.type \in {"CONNECTED", "DISCONNECTED"}
                           THEN [links EXCEPT ![e.handle] = RoleAfter(e)] ELSE links
               /\ advertising' \in BOOLEAN
               /\ gap' \in {"idle", "scanning", "initiating"}
               /\ closing' \in SUBSET Handles
  <2>1. PICK m \in Writes : Raise([type |-> "WRITE", handle |-> h, message |-> m])
    BY <1>4 DEF PeerWrites
  <2> DEFINE e == [type |-> "WRITE", handle |-> h, message |-> m]
  <2>2. e \in BleEvent
    BY DEF BleEvent
  <2>3. e.type \notin {"CONNECTED", "DISCONNECTED"}
    OBVIOUS
  <2>4. UNCHANGED softdevice
    BY <1>4 DEF PeerWrites
  <2>5. QED
    BY <2>1, <2>2, <2>3, <2>4 DEF softdevice, TypeOK
<1>5. CASE ChildAdvertises
  <2> DEFINE e == [type |-> "ADV_REPORT"]
  <2>1. e \in BleEvent
    BY DEF BleEvent
  <2>2. QED
    BY <1>5, <2>1 DEF ChildAdvertises, softdevice, TypeOK
<1>6. CASE ConnectingTimesOut
  <2> DEFINE e == [type |-> "TIMEOUT"]
  <2>1. e \in BleEvent
    BY DEF BleEvent
  <2>2. QED
    BY <1>6, <2>1 DEF ConnectingTimesOut, TypeOK
<1>7. QED
  BY <1>1, <1>2, <1>3, <1>4, <1>5, <1>6 DEF Radio

LEMMA RadioTyped ==
    ASSUME TypeOK, Radio
    PROVE  TypeOK'
<1>1. PICK e \in BleEvent :
          /\ Raise(e)
          /\ links' = IF e.type \in {"CONNECTED", "DISCONNECTED"}
                      THEN [links EXCEPT ![e.handle] = RoleAfter(e)] ELSE links
          /\ advertising' \in BOOLEAN
          /\ gap' \in {"idle", "scanning", "initiating"}
          /\ closing' \in SUBSET Handles
  BY RadioRaises
<1>2. RoleAfter(e) \in Roles \union {"none"}
  BY Fields DEF RoleAfter
<1>3. links' \in [Handles -> Roles \union {"none"}]
  BY <1>1, <1>2 DEF TypeOK
<1>4. QED
  BY <1>1, <1>3, Raised DEF Raise, TypeOK

LEMMA TypeInitially == Init => TypeOK
<1> SUFFICES ASSUME Init PROVE TypeOK
  OBVIOUS
<1>1. sdEvents \in Seq(BleEvent)
  BY Nothing DEF Init
<1>2. sched \in Seq(Entry) /\ Len(sched) = 0
  BY Nothing DEF Init
<1>3. activeConnections \in [TableSlots -> connection]
  <2>1. NoConnection \in connection
    BY DEF NoConnection, connection
  <2>2. QED
    BY <2>1 DEF Init
<1>4. /\ links \in [Handles -> Roles \union {"none"}]
      /\ connState \in [Handles -> Roles \union {"none"}]
  BY DEF Init
<1>5. /\ closing \in SUBSET Handles
      /\ {advertising, hung, lost} \subseteq BOOLEAN
      /\ gap \in {"idle", "scanning", "initiating"}
      /\ loop \in {"input", "scheduler"}
  BY DeviceAssumption DEF Init, DeviceAssumption
<1>6. QED
  BY <1>1, <1>2, <1>3, <1>4, <1>5, DeviceAssumption DEF TypeOK, DeviceAssumption

\* Every variable keeps the type its declaration gives it; the scheduler queue
\* never holds more than SCHED_QUEUE_SIZE entries.
THEOREM TypeCorrect == Spec => []TypeOK
<1>1. Init => TypeOK
  BY TypeInitially
<1>2. TypeOK /\ [Next]_vars => TypeOK'
  <2>1. TypeOK /\ Next => TypeOK'
    BY HandlersTyped, SendersTyped, LoopTyped, RadioTyped DEF Next, MainLoop, Terminal
  <2>2. TypeOK /\ UNCHANGED vars => TypeOK'
    BY DEF TypeOK, vars, softdevice
  <2>3. QED
    BY <2>1, <2>2
<1>3. QED
  BY <1>1, <1>2, PTL DEF Spec

--------------------------------------------------------------------------------
(* ble_conn_state follows the softdevice. *)

Changes(h, e) == e.type \in {"CONNECTED", "DISCONNECTED"} /\ e.handle = h

LEMMA LeadsAppend ==
    ASSUME NEW S, NEW h \in Handles, NEW q \in Seq(S), NEW e \in S,
           NEW before, NEW after, NEW next, Leads(h, q, before, after),
           next = IF Changes(h, e) THEN RoleAfter(e) ELSE after
    PROVE  Leads(h, Append(q, e), before, next)
<1> DEFINE r == Append(q, e)
<1>1. /\ Len(q) \in Nat /\ Len(r) = Len(q) + 1
      /\ \A i \in 1 .. Len(q) : r[i] = q[i]
      /\ r[Len(q) + 1] = e
  BY Appended
<1>2. ASSUME Changes(h, e)
      PROVE  Leads(h, r, before, next)
  <2>1. Len(q) + 1 \in ChangesOf(h, r)
    BY <1>1, <1>2 DEF ChangesOf, Changes
  <2>2. \A j \in ChangesOf(h, r) : j <= Len(q) + 1
    BY <1>1 DEF ChangesOf
  <2>3. next = RoleAfter(r[Len(q) + 1])
    BY <1>1, <1>2
  <2>4. QED
    BY <2>1, <2>2, <2>3 DEF Leads
<1>3. ASSUME ~Changes(h, e)
      PROVE  Leads(h, r, before, next)
  <2>1. ChangesOf(h, r) = ChangesOf(h, q)
    BY <1>1, <1>3 DEF ChangesOf, Changes
  <2>2. \A i \in ChangesOf(h, q) : r[i] = q[i]
    BY <1>1 DEF ChangesOf
  <2>3. QED
    BY <1>3, <2>1, <2>2 DEF Leads
<1>4. QED
  BY <1>2, <1>3

LEMMA LeadsTail ==
    ASSUME NEW S, NEW h \in Handles, NEW q \in Seq(S), q # <<>>,
           NEW before, NEW after, NEW next, Leads(h, q, before, after),
           next = IF Changes(h, Head(q)) THEN RoleAfter(Head(q)) ELSE before
    PROVE  Leads(h, Tail(q), next, after)
<1> DEFINE r == Tail(q)
<1>1. /\ Len(q) \in Nat \ {0} /\ Len(r) = Len(q) - 1
      /\ \A i \in 1 .. Len(q) - 1 : r[i] = q[i + 1]
      /\ Head(q) = q[1]
  BY HeadTail
<1>2. \A i \in ChangesOf(h, r) : i \in 1 .. Len(q) - 1 /\ i + 1 \in ChangesOf(h, q)
  BY <1>1 DEF ChangesOf
<1>3. \A j \in ChangesOf(h, q) : j \in Nat /\ (j = 1 \/ j - 1 \in ChangesOf(h, r))
  BY <1>1 DEF ChangesOf
<1>4. CASE ChangesOf(h, q) = {} /\ after = before
  <2>1. ChangesOf(h, r) = {}
    BY <1>2, <1>4
  <2>2. ~Changes(h, Head(q))
    BY <1>1, <1>4 DEF ChangesOf, Changes
  <2> QED BY <1>4, <2>1, <2>2 DEF Leads
<1>5. ASSUME NEW i \in ChangesOf(h, q), \A j \in ChangesOf(h, q) : j <= i,
             after = RoleAfter(q[i])
      PROVE  Leads(h, r, next, after)
  <2>1. CASE i = 1
    <3>1. ChangesOf(h, r) = {}
      <4>1. \A j \in ChangesOf(h, r) : j \in Nat \ {0} /\ j + 1 <= 1
        BY <1>2, <1>5, <2>1
      <4> QED BY <4>1
    <3>2. Changes(h, Head(q))
      BY <1>1, <2>1 DEF ChangesOf, Changes
    <3> QED BY <1>1, <1>5, <2>1, <3>1, <3>2 DEF Leads
  <2>2. CASE i # 1
    <3>1. i \in Nat /\ i - 1 \in ChangesOf(h, r)
      BY <1>3, <2>2
    <3>2. \A j \in ChangesOf(h, r) : j <= i - 1
      BY <1>2, <1>5, <3>1
    <3>3. r[i - 1] = q[i]
      <4>1. i - 1 \in 1 .. Len(q) - 1 /\ (i - 1) + 1 = i
        BY <1>2, <3>1
      <4> QED BY <1>1, <4>1
    <3> QED BY <1>5, <3>1, <3>2, <3>3 DEF Leads
  <2> QED BY <2>1, <2>2
<1>6. QED
  BY <1>4, <1>5 DEF Leads

LEMMA RadioFollows ==
    ASSUME TypeOK, ConnStateFollows, Radio
    PROVE  ConnStateFollows'
<1>1. PICK e \in BleEvent :
          /\ Raise(e)
          /\ links' = IF e.type \in {"CONNECTED", "DISCONNECTED"}
                      THEN [links EXCEPT ![e.handle] = RoleAfter(e)] ELSE links
  BY RadioRaises
<1>2. sdEvents' = Append(sdEvents, e) /\ connState' = connState
  BY <1>1 DEF Raise
<1>3. ASSUME NEW h \in Handles
      PROVE  Leads(h, sdEvents', connState'[h], links'[h])
  <2>1. links'[h] = IF Changes(h, e) THEN RoleAfter(e) ELSE links[h]
    BY <1>1 DEF Changes, TypeOK
  <2>2. Leads(h, sdEvents, connState[h], links[h]) /\ sdEvents \in Seq(BleEvent)
    BY DEF ConnStateFollows, TypeOK
  <2>3. Leads(h, Append(sdEvents, e), connState[h], links'[h])
    BY <2>1, <2>2, LeadsAppend
  <2>4. QED
    BY <1>2, <2>3
<1>4. QED
  BY <1>3 DEF ConnStateFollows, Leads, ChangesOf

LEMMA DispatchFollows ==
    ASSUME TypeOK, ConnStateFollows, ble_evt_dispatch
    PROVE  ConnStateFollows'
<1> DEFINE e == Head(sdEvents)
<1>1. sdEvents # <<>> /\ sdEvents' = Tail(sdEvents) /\ links' = links
  BY DEF ble_evt_dispatch, softdevice
<1>2. ASSUME NEW h \in Handles
      PROVE  Leads(h, sdEvents', connState'[h], links'[h])
  <2>1. connState'[h] = IF Changes(h, e) THEN RoleAfter(e) ELSE connState[h]
    BY DEF ble_evt_dispatch, Changes, RoleAfter, TypeOK
  <2>2. Leads(h, sdEvents, connState[h], links[h]) /\ sdEvents \in Seq(BleEvent)
    BY DEF ConnStateFollows, TypeOK
  <2>3. Leads(h, Tail(sdEvents), connState'[h], links[h])
    BY <1>1, <2>1, <2>2, LeadsTail
  <2>4. QED
    BY <1>1, <2>3
<1>3. QED
  BY <1>2 DEF ConnStateFollows, Leads, ChangesOf

\* Every step but the radio's and ble_evt_dispatch leaves all three alone.
LEMMA OthersFollow ==
    ASSUME ConnStateFollows, UNCHANGED <<sdEvents, connState, links>>
    PROVE  ConnStateFollows'
BY DEF ConnStateFollows, Leads, ChangesOf

\* Whatever the scheduler queue drops, ble_conn_state agrees with the softdevice
\* once the events the softdevice holds are fetched.
THEOREM ConnStateNeverMisses == Spec => []ConnStateFollows
<1>1. Init => ConnStateFollows
  <2>1. \A h \in Handles : Init => ChangesOf(h, sdEvents) = {}
    BY DEF Init, ChangesOf
  <2>2. QED
    BY <2>1 DEF Init, ConnStateFollows, Leads
<1>2. TypeOK /\ ConnStateFollows /\ [Next]_vars => ConnStateFollows'
  <2> SUFFICES ASSUME TypeOK, ConnStateFollows, [Next]_vars
               PROVE  ConnStateFollows'
    OBVIOUS
  <2>1. CASE Radio
    BY <2>1, RadioFollows
  <2>2. CASE ble_evt_dispatch
    BY <2>2, DispatchFollows
  <2>3. ASSUME ~Radio, ~ble_evt_dispatch
        PROVE  UNCHANGED <<sdEvents, connState, links>>
    BY <2>3 DEF Next, MainLoop, Terminal, vars, softdevice, TimerExpires,
        handle_advertising_report_event, ignore_advertising_report_event,
        reject_connection_event, handle_connection_event, lose_parent, lose_child,
        lose_unknown, handle_connection_timeout_event, handle_write_event,
        send_heartbeat_message, generic_timer_handler, fetch_done, no_input,
        app_sched_execute_returns, check_advertising_status, check_scanning_status,
        send_broadcast_message, print_all_connections
  <2>4. QED
    BY <2>1, <2>2, <2>3, OthersFollow
<1>3. QED
  BY <1>1, <1>2, TypeCorrect, PTL DEF Spec
--------------------------------------------------------------------------------
(* The connection table follows ble_conn_state.  The waiting events lead from   *)
(* one view of the links to the next, one connection at a time, and at no point *)
(* of the way are there more connections than the softdevice allows.            *)

Views == [Handles -> Roles \union {"none"}]
WithRole(view, role) == {h \in Handles : view[h] = role}

Fits(view) ==
    /\ view \in Views
    /\ Cardinality(WithRole(view, "central")) <= MAX_PERIPHERAL_CONNECTIONS
    /\ \A g, h \in WithRole(view, "periph") : g = h

IsChange(e) == e.type \in {"CONNECTED", "DISCONNECTED"}

\* An event connects a handle that is not connected, or disconnects one that is.
StepOf(from, e, to) ==
    /\ Fits(to)
    /\ IF IsChange(e)
       THEN /\ e.handle \in Handles
            /\ e.type = "CONNECTED" <=> from[e.handle] = "none"
            /\ to = [from EXCEPT ![e.handle] = RoleAfter(e)]
       ELSE to = from

PathOver(q, from, to, via) ==
    /\ via \in [0 .. Len(q) -> Views]
    /\ Fits(via[0]) /\ via[0] = from /\ via[Len(q)] = to
    /\ \A n \in 1 .. Len(q) : StepOf(via[n - 1], q[n], via[n])

Path(q, from, to) == \E via \in [0 .. Len(q) -> Views] : PathOver(q, from, to, via)

LEMMA PathNothing ==
    ASSUME NEW from, Fits(from)
    PROVE  Path(<<>>, from, from)
<1> DEFINE via == [n \in 0 .. 0 |-> from]
<1>1. Len(<<>>) = 0 /\ via \in [0 .. 0 -> Views] /\ via[0] = from
  BY DEF Fits
<1> HIDE DEF via
<1>2. 1 .. 0 = {}
  OBVIOUS
<1>3. PathOver(<<>>, from, from, via)
  BY <1>1, <1>2 DEF PathOver
<1> QED BY <1>1, <1>3 DEF Path

LEMMA PathFits ==
    ASSUME NEW S, NEW q \in Seq(S), NEW from, NEW to, Path(q, from, to)
    PROVE  Fits(from) /\ Fits(to)
<1>1. PICK via \in [0 .. Len(q) -> Views] : PathOver(q, from, to, via)
  BY DEF Path
<1>2. Len(q) \in Nat
  OBVIOUS
<1>3. CASE Len(q) = 0
  BY <1>1, <1>3 DEF PathOver
<1>4. CASE Len(q) # 0
  <2>1. Len(q) \in 1 .. Len(q)
    BY <1>2, <1>4
  <2> QED BY <1>1, <2>1 DEF PathOver, StepOf
<1> QED BY <1>3, <1>4

LEMMA PathAppend ==
    ASSUME NEW S, NEW q \in Seq(S), NEW e \in S, NEW from, NEW mid, NEW to,
           Path(q, from, mid), StepOf(mid, e, to)
    PROVE  Path(Append(q, e), from, to)
<1>1. PICK via \in [0 .. Len(q) -> Views] : PathOver(q, from, mid, via)
  BY DEF Path
<1> DEFINE r == Append(q, e)
           on == [n \in 0 .. Len(q) + 1 |-> IF n = Len(q) + 1 THEN to ELSE via[n]]
<1>2. /\ Len(q) \in Nat /\ Len(r) = Len(q) + 1
      /\ \A i \in 1 .. Len(q) : r[i] = q[i]
      /\ r[Len(q) + 1] = e
  BY Appended
<1>3. to \in Views
  BY DEF StepOf, Fits
<1>4. /\ on \in [0 .. Len(q) + 1 -> Views]
      /\ on[Len(q) + 1] = to
      /\ \A n \in 0 .. Len(q) : on[n] = via[n]
  BY <1>1, <1>2, <1>3
<1> HIDE DEF on, r
<1>5. ASSUME NEW n \in 1 .. Len(q) + 1
      PROVE  StepOf(on[n - 1], r[n], on[n])
  <2>1. CASE n = Len(q) + 1
    <3>1. on[n - 1] = mid
      BY <1>1, <1>2, <1>4, <2>1 DEF PathOver
    <3> QED BY <1>2, <1>4, <2>1, <3>1
  <2>2. CASE n # Len(q) + 1
    <3>1. n \in 1 .. Len(q) /\ n \in 0 .. Len(q) /\ n - 1 \in 0 .. Len(q)
      BY <1>2, <2>2
    <3> QED BY <1>1, <1>2, <1>4, <3>1 DEF PathOver
  <2> QED BY <2>1, <2>2
<1>6. on[0] = from /\ Fits(on[0])
  BY <1>1, <1>2, <1>4 DEF PathOver
<1>7. PathOver(r, from, to, on)
  BY <1>2, <1>4, <1>5, <1>6 DEF PathOver
<1> QED BY <1>2, <1>4, <1>7 DEF Path, r

LEMMA PathTail ==
    ASSUME NEW S, NEW q \in Seq(S), q # <<>>, NEW from, NEW to, Path(q, from, to)
    PROVE  \E mid \in Views : StepOf(from, Head(q), mid) /\ Path(Tail(q), mid, to)
<1>1. PICK via \in [0 .. Len(q) -> Views] : PathOver(q, from, to, via)
  BY DEF Path
<1> DEFINE r == Tail(q)
           on == [n \in 0 .. Len(q) - 1 |-> via[n + 1]]
<1>2. /\ Len(q) \in Nat \ {0} /\ Len(r) = Len(q) - 1
      /\ \A i \in 1 .. Len(q) - 1 : r[i] = q[i + 1]
      /\ Head(q) = q[1]
  BY HeadTail
<1>3. /\ on \in [0 .. Len(q) - 1 -> Views]
      /\ \A n \in 0 .. Len(q) - 1 : on[n] = via[n + 1]
  BY <1>1, <1>2
<1> HIDE DEF on, r
<1>4. StepOf(from, Head(q), via[1]) /\ via[1] \in Views /\ Fits(via[1])
  <2>1. 1 \in 1 .. Len(q) /\ 1 \in 0 .. Len(q) /\ 1 - 1 = 0
    BY <1>2
  <2>2. StepOf(via[0], q[1], via[1])
    BY <1>1, <2>1 DEF PathOver
  <2> QED BY <1>1, <1>2, <2>1, <2>2 DEF PathOver, StepOf
<1>5. ASSUME NEW n \in 1 .. Len(q) - 1
      PROVE  StepOf(on[n - 1], r[n], on[n])
  <2>1. /\ n + 1 \in 1 .. Len(q) /\ n - 1 \in 0 .. Len(q) - 1 /\ n \in 0 .. Len(q) - 1
        /\ (n - 1) + 1 = n /\ (n + 1) - 1 = n
    BY <1>2
  <2>2. StepOf(via[n], q[n + 1], via[n + 1])
    BY <1>1, <2>1 DEF PathOver
  <2>3. on[n - 1] = via[n] /\ on[n] = via[n + 1] /\ r[n] = q[n + 1]
    BY <1>2, <1>3, <2>1
  <2> QED BY <2>2, <2>3
<1>6. on[0] = via[1] /\ on[Len(q) - 1] = to
  <2>1. 0 \in 0 .. Len(q) - 1 /\ Len(q) - 1 \in 0 .. Len(q) - 1 /\ (Len(q) - 1) + 1 = Len(q)
        /\ 0 + 1 = 1
    BY <1>2
  <2>2. on[0] = via[1] /\ on[Len(q) - 1] = via[Len(q)]
    BY <1>3, <2>1
  <2> QED BY <1>1, <2>2 DEF PathOver
<1>7. PathOver(r, via[1], to, on)
  BY <1>2, <1>3, <1>4, <1>5, <1>6 DEF PathOver
<1> QED BY <1>2, <1>3, <1>4, <1>7 DEF Path, r

(* What the table says of each handle. *)

TableView == [h \in Handles |-> TableRole(h)]

TableOK ==
    /\ \A i \in TableSlots : activeConnections[i].active =>
           /\ activeConnections[i].handle \in Handles
           /\ activeConnections[i].type \in {"CENTRAL", "PERIPHERAL"}
    /\ \A i, j \in TableSlots :
           /\ activeConnections[i].active /\ activeConnections[j].active
           /\ activeConnections[i].handle = activeConnections[j].handle
           => i = j

RoleOf(entry) == IF entry.type = "CENTRAL" THEN "periph" ELSE "central"

LEMMA OneSlot ==
    ASSUME TableOK, NEW h \in Handles, NEW i \in SlotsOf(h)
    PROVE  /\ SlotsOf(h) = {i} /\ Min(SlotsOf(h)) = i
           /\ TypeOf(h) = activeConnections[i].type
           /\ TypeOf(h) \in {"CENTRAL", "PERIPHERAL"}
           /\ TableRole(h) = RoleOf(activeConnections[i]) /\ TableRole(h) \in Roles
<1>1. i \in TableSlots /\ activeConnections[i].active /\ activeConnections[i].handle = h
  BY DEF SlotsOf
<1>2. SlotsOf(h) = {i}
  BY <1>1 DEF SlotsOf, TableOK
<1>3. i \in Nat
  BY <1>1 DEF TableSlots
<1>4. Min({i}) = i
  BY <1>3 DEF Min
<1>5. TypeOf(h) = activeConnections[i].type /\ TypeOf(h) \in {"CENTRAL", "PERIPHERAL"}
  BY <1>1, <1>2, <1>4 DEF TypeOf, TableOK
<1> QED BY <1>2, <1>4, <1>5 DEF TableRole, RoleOf, Roles

LEMMA NoSlot ==
    ASSUME NEW h \in Handles, SlotsOf(h) = {}
    PROVE  TypeOf(h) = "INVALID" /\ TableRole(h) = "none"
BY DEF TypeOf, TableRole

\* A connection whose event comes up finds room: with it there are no more than the
\* softdevice allows, and each of the others has one entry.
LEMMA RoomForOne ==
    ASSUME TypeOK, TableOK, NEW e, NEW to, StepOf(TableView, e, to), e.type = "CONNECTED",
           e.role \in Roles
    PROVE  FreeSlots # {}
<1> SUFFICES ASSUME FreeSlots = {}
             PROVE  FALSE
  OBVIOUS
<1> USE DeviceAssumption DEF DeviceAssumption
<1>1. \A i \in TableSlots : activeConnections[i].active
  BY DEF FreeSlots
<1> DEFINE h == e.handle
           Listed == {g \in Handles : TableRole(g) # "none"}
           C == WithRole(to, "central")
           P == WithRole(to, "periph")
           f == [i \in TableSlots |-> activeConnections[i].handle]
<1>2. /\ h \in Handles /\ TableRole(h) = "none" /\ to \in Views /\ to[h] # "none"
      /\ \A g \in Handles \ {h} : to[g] = TableRole(g)
      /\ Fits(to)
  <2>1. h \in Handles /\ TableView[h] = "none" /\ Fits(to)
        /\ to = [TableView EXCEPT ![h] = RoleAfter(e)]
    BY DEF StepOf, IsChange
  <2>2. RoleAfter(e) = to[h]
    BY <2>1 DEF TableView
  <2>3. to[h] \in Roles
    BY <2>2 DEF RoleAfter
  <2> QED BY <2>1, <2>3 DEF TableView, Fits, Roles
<1>3. /\ IsFiniteSet(C) /\ IsFiniteSet(P) /\ IsFiniteSet(Listed)
      /\ Cardinality(C) \in Nat /\ Cardinality(P) \in Nat /\ Cardinality(Listed) \in Nat
  BY FS_Subset, FS_CardinalityType DEF WithRole
<1>4. Listed \union {h} \subseteq C \union P
  <2>1. \A g \in Handles : to[g] \in {"central", "periph", "none"}
    BY <1>2 DEF Views, Roles
  <2>2. \A g \in Listed \union {h} : g \in Handles /\ to[g] # "none"
    BY <1>2
  <2>3. \A g \in Listed \union {h} : to[g] = "central" \/ to[g] = "periph"
    BY <2>1, <2>2
  <2> HIDE DEF Listed
  <2> QED BY <2>2, <2>3 DEF WithRole
<1>5. Cardinality(C \union P) <= MAX_TOTAL_CONNECTIONS /\ IsFiniteSet(C \union P)
  <2>1. /\ Cardinality(C \union P) = Cardinality(C) + Cardinality(P) - Cardinality(C \cap P)
        /\ IsFiniteSet(C \union P)
    BY <1>3, FS_Union
  <2>2. Cardinality(C \cap P) \in Nat
    BY <1>3, FS_Subset, FS_CardinalityType
  <2>3. /\ Cardinality(C) <= MAX_PERIPHERAL_CONNECTIONS
        /\ Cardinality(P) <= MAX_CENTRAL_CONNECTIONS
    <3>1. CASE P = {}
      <4>1. Cardinality(P) = 0
        BY <3>1, FS_EmptySet
      <4> QED BY <1>2, <4>1 DEF Fits
    <3>2. CASE P # {}
      <4>1. PICK g \in P : TRUE
        BY <3>2
      <4>2. P = {g}
        BY <1>2, <4>1 DEF Fits
      <4>3. Cardinality(P) = 1
        BY <4>2, FS_Singleton
      <4> QED BY <1>2, <4>3 DEF Fits
    <3> QED BY <3>1, <3>2
  <2> QED BY <1>3, <2>1, <2>2, <2>3 DEF MAX_TOTAL_CONNECTIONS
<1>6. Cardinality(Listed) + 1 <= MAX_TOTAL_CONNECTIONS
  <2>1. h \notin Listed
    BY <1>2
  <2>2. Cardinality(Listed \union {h}) = Cardinality(Listed) + 1
    BY <1>3, <2>1, FS_AddElement
  <2>3. Cardinality(Listed \union {h}) <= Cardinality(C \union P)
    BY <1>4, <1>5, FS_Subset
  <2>4. Cardinality(C \union P) \in Nat
    BY <1>5, FS_CardinalityType
  <2> QED BY <1>3, <1>5, <2>2, <2>3, <2>4 DEF MAX_TOTAL_CONNECTIONS
<1>7. IsFiniteSet(TableSlots) /\ Cardinality(TableSlots) = MAX_TOTAL_CONNECTIONS
      /\ MAX_TOTAL_CONNECTIONS \in Nat
  <2>1. MAX_TOTAL_CONNECTIONS \in Nat /\ MAX_TOTAL_CONNECTIONS >= 1
    BY DEF MAX_TOTAL_CONNECTIONS
  <2> QED BY <2>1, FS_Interval DEF TableSlots
<1>8. f \in [TableSlots -> Listed]
  <2> SUFFICES ASSUME NEW i \in TableSlots
               PROVE  activeConnections[i].handle \in Listed
    OBVIOUS
  <2>1. activeConnections[i].handle \in Handles
    BY <1>1 DEF TableOK
  <2>2. i \in SlotsOf(activeConnections[i].handle)
    BY <1>1 DEF SlotsOf
  <2>3. TableRole(activeConnections[i].handle) \in Roles
    BY <2>1, <2>2, OneSlot
  <2> QED BY <2>1, <2>3 DEF Roles
<1> HIDE DEF f, Listed
<1>9. \E i, j \in TableSlots : i # j /\ f[i] = f[j]
  BY <1>3, <1>6, <1>7, <1>8, FS_PigeonHole
<1> QED BY <1>1, <1>9 DEF f, TableOK

LEMMA Entered ==
    ASSUME TypeOK, TableOK, NEW h \in Handles, NEW type \in {"CENTRAL", "PERIPHERAL"},
           NEW role, role = (IF type = "CENTRAL" THEN "periph" ELSE "central"),
           TableRole(h) = "none", FreeSlots # {}, set_connection(h, type)
    PROVE  TableOK' /\ TableView' = [TableView EXCEPT ![h] = role]
<1> DEFINE entry == [active |-> TRUE, handle |-> h, type |-> type]
<1>1. PICK i \in FreeSlots : activeConnections' = [activeConnections EXCEPT ![i] = entry]
  BY DEF set_connection
<1>2. /\ entry.active /\ entry.handle = h /\ entry.type = type
      /\ i \in TableSlots /\ ~activeConnections[i].active
  BY DEF FreeSlots
<1>3. /\ activeConnections'[i] = entry
      /\ \A j \in TableSlots \ {i} : activeConnections'[j] = activeConnections[j]
  BY <1>1, <1>2 DEF TypeOK
<1> HIDE DEF entry
<1>4. SlotsOf(h) = {}
  BY OneSlot DEF Roles
<1>5. TableOK'
  <2>1. \A j \in TableSlots : activeConnections[j].active => activeConnections[j].handle # h
    BY <1>4 DEF SlotsOf
  <2> QED BY <1>2, <1>3, <2>1 DEF TableOK
<1>6. SlotsOf(h)' = {i}
  BY <1>2, <1>3, <1>4 DEF SlotsOf
<1>7. TableRole(h)' = role
  <2>1. Min({i}) = i
    BY <1>2 DEF Min, TableSlots
  <2>2. TypeOf(h)' = type
    BY <1>2, <1>3, <1>6, <2>1 DEF TypeOf
  <2> QED BY <2>2 DEF TableRole
<1>8. ASSUME NEW g \in Handles \ {h}
      PROVE  TableRole(g)' = TableRole(g)
  <2>1. SlotsOf(g)' = SlotsOf(g) /\ i \notin SlotsOf(g) /\ SlotsOf(g) \subseteq TableSlots
    BY <1>2, <1>3 DEF SlotsOf
  <2>2. CASE SlotsOf(g) = {}
    BY <2>1, <2>2 DEF TableRole, TypeOf
  <2>3. CASE SlotsOf(g) # {}
    <3>1. PICK j \in SlotsOf(g) : TRUE
      BY <2>3
    <3>2. Min(SlotsOf(g)) = j
      BY <3>1, OneSlot
    <3>3. activeConnections'[j] = activeConnections[j]
      BY <1>3, <2>1, <3>1
    <3>4. TypeOf(g)' = TypeOf(g)
      BY <2>1, <2>3, <3>2, <3>3 DEF TypeOf
    <3> QED BY <3>4 DEF TableRole
  <2> QED BY <2>2, <2>3
<1> QED BY <1>5, <1>7, <1>8 DEF TableView

LEMMA Removed ==
    ASSUME TypeOK, TableOK, NEW h \in Handles, TypeOf(h) # "INVALID", unset_connection(h)
    PROVE  TableOK' /\ TableView' = [TableView EXCEPT ![h] = "none"]
<1>1. PICK i \in SlotsOf(h) : TRUE
  BY NoSlot
<1>2. SlotsOf(h) = {i} /\ Min(SlotsOf(h)) = i /\ i \in TableSlots
  BY OneSlot DEF SlotsOf
<1>3. activeConnections' = [activeConnections EXCEPT ![i] = NoConnection]
  BY <1>2 DEF unset_connection
<1>4. /\ activeConnections'[i].active = FALSE
      /\ \A j \in TableSlots \ {i} : activeConnections'[j] = activeConnections[j]
  BY <1>2, <1>3 DEF TypeOK, NoConnection
<1>5. TableOK'
  BY <1>4 DEF TableOK
<1>6. TableRole(h)' = "none"
  <2>1. SlotsOf(h)' = {}
    BY <1>2, <1>4 DEF SlotsOf
  <2> QED BY <2>1 DEF TypeOf, TableRole
<1>7. ASSUME NEW g \in Handles \ {h}
      PROVE  TableRole(g)' = TableRole(g)
  <2>1. SlotsOf(g)' = SlotsOf(g) /\ i \notin SlotsOf(g) /\ SlotsOf(g) \subseteq TableSlots
    BY <1>1, <1>4 DEF SlotsOf
  <2>2. CASE SlotsOf(g) = {}
    BY <2>1, <2>2 DEF TableRole, TypeOf
  <2>3. CASE SlotsOf(g) # {}
    <3>1. PICK j \in SlotsOf(g) : TRUE
      BY <2>3
    <3>2. Min(SlotsOf(g)) = j
      BY <3>1, OneSlot
    <3>3. activeConnections'[j] = activeConnections[j]
      BY <1>4, <2>1, <3>1
    <3>4. TypeOf(g)' = TypeOf(g)
      BY <2>1, <2>3, <3>2, <3>3 DEF TypeOf
    <3> QED BY <3>4 DEF TableRole
  <2> QED BY <2>2, <2>3
<1> QED BY <1>5, <1>6, <1>7 DEF TableView

(* The invariant. *)

\* What waits in q takes the table to ble_conn_state.
LeadsFromTable(q) ==
    /\ Path(q, TableView, connState)
    /\ \A h \in Handles : Leads(h, q, TableRole(h), connState[h])

Tables ==
    /\ TableOK
    /\ LeadsFromTable(sched)
    /\ loop = "input" => \A i \in 1 .. Len(sched) : ~IsChange(sched[i])

RadioLimits ==
    /\ gap = "initiating" => Cardinality(Established("central")) < MAX_PERIPHERAL_CONNECTIONS
    /\ advertising => Established("periph") = {}

Follows == TypeOK /\ Path(sdEvents, connState, links) /\ RadioLimits /\ (~lost => Tables)

\* A queue that takes on an entry which says nothing of connections.
LEMMA TakesOn ==
    ASSUME TypeOK, NEW q \in Seq(Entry), NEW e \in Entry, ~IsChange(e), LeadsFromTable(q)
    PROVE  LeadsFromTable(Append(q, e))
<1>1. Fits(connState)
  BY PathFits DEF LeadsFromTable
<1>2. StepOf(connState, e, connState)
  BY <1>1 DEF StepOf
<1>3. Path(q, TableView, connState)
  BY DEF LeadsFromTable
<1>4. Path(Append(q, e), TableView, connState)
  BY <1>2, <1>3, PathAppend
<1>5. ASSUME NEW h \in Handles
      PROVE  Leads(h, Append(q, e), TableRole(h), connState[h])
  <2>1. Leads(h, q, TableRole(h), connState[h]) /\ ~Changes(h, e)
    BY DEF LeadsFromTable, Changes, IsChange
  <2> QED BY <2>1, LeadsAppend
<1> QED BY <1>4, <1>5 DEF LeadsFromTable

\* The entry at the head of the queue is handled as the table ought to.
LEMMA TakesOff ==
    ASSUME TypeOK, LeadsFromTable(sched), sched # <<>>, UNCHANGED connState,
           TableView' = IF IsChange(Head(sched))
                        THEN [TableView EXCEPT ![Head(sched).handle] = RoleAfter(Head(sched))]
                        ELSE TableView
    PROVE  /\ Path(Tail(sched), TableView', connState')
           /\ \A h \in Handles : Leads(h, Tail(sched), TableRole(h)', connState'[h])
<1> DEFINE e == Head(sched)
           r == Tail(sched)
<1>1. sched \in Seq(Entry)
  BY DEF TypeOK
<1>2. PICK mid \in Views : StepOf(TableView, e, mid) /\ Path(r, mid, connState)
  BY <1>1, PathTail DEF LeadsFromTable
<1>3. mid = TableView'
  BY <1>2 DEF StepOf
<1>4. ASSUME NEW h \in Handles
      PROVE  Leads(h, r, TableRole(h)', connState[h])
  <2>1. TableRole(h)' = IF Changes(h, e) THEN RoleAfter(e) ELSE TableRole(h)
    <3>1. TableView'[h] = TableRole(h)' /\ TableView[h] = TableRole(h)
      BY DEF TableView
    <3>2. TableView \in [Handles -> {TableView[g] : g \in Handles}]
      BY DEF TableView
    <3> QED BY <3>1, <3>2 DEF Changes, IsChange
  <2>2. Leads(h, sched, TableRole(h), connState[h])
    BY DEF LeadsFromTable
  <2> QED BY <1>1, <2>1, <2>2, LeadsTail
<1>5. Path(r, TableView', connState')
  BY <1>2, <1>3
<1> QED BY <1>4, <1>5

LEMMA TablePrimed ==
    ASSUME Path(sched', TableView', connState'),
           \A h \in Handles : Leads(h, sched', TableRole(h)', connState'[h])
    PROVE  LeadsFromTable(sched)'
BY DEF LeadsFromTable, Leads, ChangesOf, Path, PathOver

\* The steps that leave the table alone, and what they leave alone.
LEMMA SameTable ==
    ASSUME UNCHANGED activeConnections
    PROVE  /\ TableView' = TableView
           /\ \A h \in Handles : TableRole(h)' = TableRole(h)
           /\ TableOK => TableOK'
BY DEF TableView, TableRole, TypeOf, SlotsOf, TableOK

LEMMA NothingHappens ==
    ASSUME Tables, UNCHANGED <<sched, connState, activeConnections>>,
           loop' = loop \/ loop' = "scheduler" \/ sched = <<>>
    PROVE  Tables'
<1>1. LeadsFromTable(sched)'
  BY SameTable, TablePrimed DEF Tables, LeadsFromTable
<1>2. sched = <<>> => \A i \in 1 .. Len(sched) : ~IsChange(sched[i])
  OBVIOUS
<1> QED BY <1>1, <1>2, SameTable DEF Tables

LEMMA EntryAdded ==
    ASSUME TypeOK, Tables, NEW e \in Entry, ~IsChange(e), sched' = Append(sched, e),
           UNCHANGED <<connState, activeConnections, loop>>
    PROVE  Tables'
<1>1. sched \in Seq(Entry)
  BY DEF TypeOK
<1>2. LeadsFromTable(Append(sched, e))
  BY <1>1, TakesOn DEF Tables
<1>3. LeadsFromTable(sched)'
  BY <1>2, SameTable, TablePrimed DEF LeadsFromTable
<1>4. \A i \in 1 .. Len(sched') : i \in 1 .. Len(sched) \/ sched'[i] = e
  BY <1>1, Appended
<1>5. \A i \in 1 .. Len(sched) : sched'[i] = sched[i]
  BY <1>1, Appended
<1> QED BY <1>3, <1>4, <1>5, SameTable DEF Tables

\* A handler that returns to the loop, with the table as its event says.
LEMMA EntryHandled ==
    ASSUME TypeOK, Tables, sched # <<>>, loop' = "scheduler", Return, TableOK',
           UNCHANGED connState,
           TableView' = IF IsChange(Head(sched))
                        THEN [TableView EXCEPT ![Head(sched).handle] = RoleAfter(Head(sched))]
                        ELSE TableView
    PROVE  Tables'
<1>1. /\ Path(Tail(sched), TableView', connState')
      /\ \A h \in Handles : Leads(h, Tail(sched), TableRole(h)', connState'[h])
  BY TakesOff DEF Tables
<1>2. LeadsFromTable(sched)'
  BY <1>1, TablePrimed DEF Return
<1> QED BY <1>2 DEF Tables

LEMMA OthersHandled ==
    ASSUME TypeOK, Tables, NEW type, Running(type), type \notin {"CONNECTED", "DISCONNECTED"},
           Return, UNCHANGED <<connState, activeConnections, loop>>
    PROVE  Tables'
<1>1. sched # <<>> /\ loop' = "scheduler" /\ ~IsChange(Head(sched))
  BY DEF Running, IsChange
<1>2. TableOK' /\ TableView' = TableView
  BY SameTable DEF Tables
<1> QED BY <1>1, <1>2, EntryHandled

\* The event at the head says what the table does not say yet.
LEMMA HeadChanges ==
    ASSUME TypeOK, Tables, NEW type \in {"CONNECTED", "DISCONNECTED"}, Running(type)
    PROVE  /\ Head(sched) \in BleEvent /\ Head(sched).type = type /\ IsChange(Head(sched))
           /\ Head(sched).handle \in Handles
           /\ type = "CONNECTED" => Head(sched).role \in Roles
           /\ type = "CONNECTED" <=> TableRole(Head(sched).handle) = "none"
           /\ \E mid \in Views : StepOf(TableView, Head(sched), mid)
<1>1. Head(sched) \in BleEvent /\ Head(sched).handle \in Handles /\ sched # <<>>
  BY HeadEvent
<1>2. Head(sched).type = type
  BY DEF Running
<1>3. PICK mid \in Views : StepOf(TableView, Head(sched), mid)
  BY <1>1, PathTail DEF Tables, LeadsFromTable, TypeOK
<1>4. type = "CONNECTED" <=> TableView[Head(sched).handle] = "none"
  BY <1>2, <1>3 DEF StepOf, IsChange
<1> QED BY <1>1, <1>2, <1>3, <1>4, Fields DEF IsChange, TableView

\* A connection is entered, for which there is room.
LEMMA ConnectionEntered ==
    ASSUME TypeOK, Tables, reject_connection_event \/ handle_connection_event
    PROVE  /\ Head(sched) \in BleEvent /\ Head(sched).type = "CONNECTED"
           /\ Head(sched).handle \in Handles /\ Head(sched).role \in Roles
           /\ TableRole(Head(sched).handle) = "none"
           /\ FreeSlots # {}
           /\ TableOK'
           /\ TableView' = [TableView EXCEPT ![Head(sched).handle] = Head(sched).role]
<1> DEFINE e == Head(sched)
           type == IF e.role = "periph" THEN "CENTRAL" ELSE "PERIPHERAL"
<1>1. Running("CONNECTED") /\ set_connection(e.handle, type)
  BY DEF reject_connection_event, handle_connection_event
<1>2. /\ e \in BleEvent /\ e.type = "CONNECTED" /\ e.handle \in Handles
      /\ e.role \in Roles /\ TableRole(e.handle) = "none"
      /\ \E mid \in Views : StepOf(TableView, e, mid)
  BY <1>1, HeadChanges
<1> HIDE DEF e
<1>3. FreeSlots # {}
  BY <1>2, RoomForOne DEF Tables
<1>4. /\ type \in {"CENTRAL", "PERIPHERAL"}
      /\ e.role = IF type = "CENTRAL" THEN "periph" ELSE "central"
  BY <1>2 DEF Roles
<1> HIDE DEF type
<1>5. TableOK' /\ TableView' = [TableView EXCEPT ![e.handle] = e.role]
  BY <1>1, <1>2, <1>3, <1>4, Entered DEF Tables
<1> QED BY <1>2, <1>3, <1>5 DEF e

LEMMA ConnectionHandled ==
    ASSUME TypeOK, Tables, reject_connection_event \/ handle_connection_event
    PROVE  Tables'
<1> DEFINE e == Head(sched)
<1>1. /\ Return /\ sched # <<>> /\ UNCHANGED connState /\ loop' = "scheduler"
  BY DEF reject_connection_event, handle_connection_event, Running
<1>2. /\ e.type = "CONNECTED" /\ TableOK'
      /\ TableView' = [TableView EXCEPT ![e.handle] = e.role]
  BY ConnectionEntered
<1>3. IsChange(e) /\ RoleAfter(e) = e.role
  BY <1>2 DEF IsChange, RoleAfter
<1> QED BY <1>1, <1>2, <1>3, EntryHandled

\* A connection is removed, for which there is an entry.
LEMMA ConnectionRemoved ==
    ASSUME TypeOK, Tables, lose_parent \/ lose_child \/ lose_unknown
    PROVE  /\ Head(sched) \in BleEvent /\ Head(sched).type = "DISCONNECTED"
           /\ Head(sched).handle \in Handles /\ ~lose_unknown
           /\ lose_parent => TableRole(Head(sched).handle) = "periph"
           /\ lose_child => TableRole(Head(sched).handle) = "central"
           /\ TableOK'
           /\ TableView' = [TableView EXCEPT ![Head(sched).handle] = "none"]
<1> DEFINE e == Head(sched)
<1>1. Running("DISCONNECTED")
  BY DEF lose_parent, lose_child, lose_unknown
<1>2. /\ e \in BleEvent /\ e.type = "DISCONNECTED" /\ e.handle \in Handles
      /\ TableRole(e.handle) # "none"
  BY <1>1, HeadChanges
<1>3. TypeOf(e.handle) \in {"CENTRAL", "PERIPHERAL"}
  <2>1. SlotsOf(e.handle) # {}
    BY <1>2, NoSlot
  <2> QED BY <1>2, <2>1, OneSlot DEF Tables
<1>4. unset_connection(e.handle) /\ ~lose_unknown
  BY <1>3 DEF lose_parent, lose_child, lose_unknown
<1>5. /\ lose_parent => TableRole(e.handle) = "periph"
      /\ lose_child => TableRole(e.handle) = "central"
  BY DEF lose_parent, lose_child, TableRole
<1> HIDE DEF e
<1>6. TableOK' /\ TableView' = [TableView EXCEPT ![e.handle] = "none"]
  BY <1>2, <1>3, <1>4, Removed DEF Tables
<1> QED BY <1>2, <1>4, <1>5, <1>6 DEF e

LEMMA DisconnectionHandled ==
    ASSUME TypeOK, Tables, lose_parent \/ lose_child \/ lose_unknown
    PROVE  Tables'
<1> DEFINE e == Head(sched)
<1>1. /\ Return /\ sched # <<>> /\ UNCHANGED connState /\ loop' = "scheduler"
  BY DEF lose_parent, lose_child, lose_unknown, Running
<1>2. /\ e.type = "DISCONNECTED" /\ TableOK'
      /\ TableView' = [TableView EXCEPT ![e.handle] = "none"]
  BY ConnectionRemoved
<1>3. IsChange(e) /\ RoleAfter(e) = "none"
  BY <1>2 DEF IsChange, RoleAfter
<1> QED BY <1>1, <1>2, <1>3, EntryHandled

LEMMA TimerHandled ==
    ASSUME TypeOK, Tables, generic_timer_handler
    PROVE  Tables'
<1> DEFINE heartbeat == [type |-> "HEARTBEAT"]
           r == Tail(sched)
<1>1. /\ Running("TIMER") /\ sched # <<>> /\ loop = "scheduler"
      /\ UNCHANGED <<connState, activeConnections, loop>>
      /\ ~IsChange(Head(sched))
  BY DEF generic_timer_handler, Running, IsChange
<1>2. /\ heartbeat \in Entry /\ ~IsChange(heartbeat)
      /\ r \in Seq(Entry)
  BY <1>1, HeadTail DEF Entry, IsChange, TypeOK
<1>3. sched' = r \/ sched' = Append(r, heartbeat)
  BY <1>2, AppendIsConcat DEF generic_timer_handler
<1>4. LeadsFromTable(r)
  <2>1. TableView' = TableView /\ \A h \in Handles : TableRole(h)' = TableRole(h)
    BY <1>1, SameTable
  <2>2. /\ Path(r, TableView', connState')
        /\ \A h \in Handles : Leads(h, r, TableRole(h)', connState'[h])
    BY <1>1, <2>1, TakesOff DEF Tables
  <2> QED BY <1>1, <2>1, <2>2 DEF LeadsFromTable
<1>5. LeadsFromTable(Append(r, heartbeat))
  BY <1>2, <1>4, TakesOn
<1> HIDE DEF heartbeat, r
<1>6. LeadsFromTable(sched)'
  BY <1>1, <1>3, <1>4, <1>5, SameTable, TablePrimed DEF LeadsFromTable
<1> QED BY <1>1, <1>6, SameTable DEF Tables

\* ble_conn_state takes an event over; the table is due to follow.
LEMMA EventDispatched ==
    ASSUME Follows, ble_evt_dispatch
    PROVE  Path(sdEvents', connState', links') /\ (~lost' => Tables')
<1> DEFINE e == Head(sdEvents)
<1>1. /\ sdEvents # <<>> /\ sdEvents' = Tail(sdEvents) /\ loop = "scheduler"
      /\ UNCHANGED <<links, activeConnections, loop>>
      /\ ~lost' => sched' = Append(sched, e) /\ ~lost
  BY DEF ble_evt_dispatch, softdevice, Running
<1>2. sdEvents \in Seq(BleEvent) /\ sched \in Seq(Entry) /\ TypeOK
  BY DEF Follows, TypeOK
<1>3. e \in BleEvent /\ e \in Entry
  BY <1>1, <1>2, HeadTail, Fields
<1>4. PICK mid \in Views : StepOf(connState, e, mid) /\ Path(Tail(sdEvents), mid, links)
  BY <1>1, <1>2, PathTail DEF Follows
<1>5. connState' = mid
  BY <1>4 DEF ble_evt_dispatch, StepOf, IsChange, RoleAfter
<1>6. ASSUME ~lost'
      PROVE  Tables'
  <2>1. Path(sched, TableView, connState) /\ TableOK
        /\ \A h \in Handles : Leads(h, sched, TableRole(h), connState[h])
    BY <1>1, <1>6 DEF Follows, Tables, LeadsFromTable
  <2>2. Path(Append(sched, e), TableView, mid)
    BY <1>2, <1>3, <1>4, <2>1, PathAppend
  <2>3. ASSUME NEW h \in Handles
        PROVE  Leads(h, Append(sched, e), TableRole(h), mid[h])
    <3>1. mid[h] = IF Changes(h, e) THEN RoleAfter(e) ELSE connState[h]
      BY <1>2, <1>4 DEF StepOf, IsChange, Changes, TypeOK
    <3> QED BY <1>2, <1>3, <2>1, <3>1, LeadsAppend
  <2> HIDE DEF e
  <2>4. LeadsFromTable(sched)'
    BY <1>1, <1>5, <1>6, <2>2, <2>3, SameTable, TablePrimed
  <2> QED BY <1>1, <2>1, <2>4, SameTable DEF Tables
<1> QED BY <1>1, <1>4, <1>5, <1>6

--------------------------------------------------------------------------------
(* The radio. *)

\* A link less, or one that is not to be counted, leaves the others as they are.
LEMMA FewerLinks ==
    ASSUME NEW view, Fits(view), NEW h \in Handles
    PROVE  /\ Fits([view EXCEPT ![h] = "none"])
           /\ \A role \in Roles :
                 /\ WithRole([view EXCEPT ![h] = "none"], role) \subseteq WithRole(view, role)
                 /\ Cardinality(WithRole([view EXCEPT ![h] = "none"], role))
                        <= Cardinality(WithRole(view, role))
                 /\ Cardinality(WithRole([view EXCEPT ![h] = "none"], role)) \in Nat
                 /\ Cardinality(WithRole(view, role)) \in Nat
<1> DEFINE less == [view EXCEPT ![h] = "none"]
<1>1. ASSUME NEW role \in Roles
      PROVE  /\ WithRole(less, role) \subseteq WithRole(view, role)
             /\ Cardinality(WithRole(less, role)) <= Cardinality(WithRole(view, role))
             /\ Cardinality(WithRole(less, role)) \in Nat
             /\ Cardinality(WithRole(view, role)) \in Nat
  <2>1. WithRole(less, role) \subseteq WithRole(view, role)
    BY DEF WithRole, Fits, Views, Roles
  <2>2. WithRole(view, role) \subseteq Handles /\ IsFiniteSet(Handles)
    BY DeviceAssumption DEF WithRole, DeviceAssumption
  <2>3. IsFiniteSet(WithRole(view, role))
    BY <2>2, FS_Subset
  <2> QED BY <2>1, <2>3, FS_Subset, FS_CardinalityType
<1>2. less \in Views
  BY DEF Fits, Views
<1> HIDE DEF less
<1>3. Fits(less)
  BY <1>1, <1>2, DeviceAssumption DEF Fits, Roles, DeviceAssumption
<1> QED BY <1>1, <1>3 DEF less

\* One link more, where there is room for it.
LEMMA MoreLinks ==
    ASSUME NEW view, Fits(view), NEW h \in Handles, view[h] = "none", NEW role \in Roles,
           role = "central" => Cardinality(WithRole(view, role)) < MAX_PERIPHERAL_CONNECTIONS,
           role = "periph" => WithRole(view, role) = {}
    PROVE  Fits([view EXCEPT ![h] = role])
<1> DEFINE more == [view EXCEPT ![h] = role]
<1>1. more \in Views /\ view \in Views
  BY DEF Fits, Views
<1>2. WithRole(more, role) = WithRole(view, role) \union {h}
      /\ \A other \in Roles \ {role} : WithRole(more, other) = WithRole(view, other)
  BY <1>1 DEF WithRole, Views, Roles
<1>3. IsFiniteSet(WithRole(view, role)) /\ Cardinality(WithRole(view, role)) \in Nat
  BY FS_Subset, FS_CardinalityType, DeviceAssumption DEF WithRole, DeviceAssumption
<1> HIDE DEF more
<1>a. /\ IsFiniteSet(WithRole(view, role) \union {h})
      /\ Cardinality(WithRole(view, role) \union {h}) =
            IF h \in WithRole(view, role) THEN Cardinality(WithRole(view, role))
            ELSE Cardinality(WithRole(view, role)) + 1
  BY <1>3, FS_AddElement
<1>4. Cardinality(WithRole(more, role)) <= Cardinality(WithRole(view, role)) + 1
  BY <1>2, <1>3, <1>a
<1>5. Cardinality(WithRole(more, role)) \in Nat
  BY <1>2, <1>3, <1>a
<1>6. CASE role = "central"
  <2>1. WithRole(more, "periph") = WithRole(view, "periph")
    BY <1>2, <1>6 DEF Roles
  <2>2. Cardinality(WithRole(more, "central")) <= MAX_PERIPHERAL_CONNECTIONS
    BY <1>3, <1>4, <1>5, <1>6, DeviceAssumption DEF DeviceAssumption
  <2> QED BY <1>1, <2>1, <2>2 DEF Fits, more
<1>7. CASE role = "periph"
  <2>1. WithRole(more, "central") = WithRole(view, "central")
    BY <1>2, <1>7 DEF Roles
  <2>2. WithRole(more, "periph") = {h}
    BY <1>2, <1>7
  <2> QED BY <1>1, <2>1, <2>2 DEF Fits, more
<1> QED BY <1>6, <1>7 DEF Roles

\* An event that the softdevice raises is the next step of its links.
LEMMA EventRaised ==
    ASSUME Follows, NEW e \in BleEvent, Raise(e), StepOf(links, e, links')
    PROVE  Path(sdEvents', connState', links') /\ (~lost' => Tables')
<1>1. /\ sdEvents' = Append(sdEvents, e)
      /\ UNCHANGED <<connState, activeConnections, loop>>
      /\ ~lost' => ~lost
      /\ ~lost' => sched' = sched \/ sched' = Append(sched, [type |-> "FETCH"])
  BY DEF Raise, Follows, TypeOK
<1>2. sdEvents \in Seq(BleEvent) /\ TypeOK
  BY DEF Follows, TypeOK
<1>3. Path(Append(sdEvents, e), connState, links')
  BY <1>2, PathAppend DEF Follows
<1>4. ASSUME ~lost'
      PROVE  Tables'
  <2>1. Tables
    BY <1>1, <1>4 DEF Follows
  <2>2. CASE sched' = sched
    BY <1>1, <2>1, <2>2, NothingHappens
  <2>3. CASE sched' = Append(sched, [type |-> "FETCH"])
    <3>1. [type |-> "FETCH"] \in Entry /\ ~IsChange([type |-> "FETCH"])
      BY DEF Entry, IsChange
    <3> QED BY <1>1, <1>2, <2>1, <2>3, <3>1, EntryAdded
  <2> QED BY <1>1, <1>4, <2>2, <2>3
<1> QED BY <1>1, <1>3, <1>4

\* The links themselves: one as a peripheral, and as a central no more than the
\* program asks for, one attempt at a time.
LEMMA RadioSteps ==
    ASSUME Follows, Radio
    PROVE  RadioLimits' /\ \E e \in BleEvent : Raise(e) /\ StepOf(links, e, links')
<1> USE DeviceAssumption DEF DeviceAssumption
<1>1. Fits(links) /\ links \in Views /\ TypeOK /\ RadioLimits
  <2>1. sdEvents \in Seq(BleEvent) /\ Path(sdEvents, connState, links)
    BY DEF Follows, TypeOK
  <2> QED BY <2>1, PathFits DEF Follows, Fits
<1>2. /\ Established("central") = WithRole(links, "central")
      /\ Established("periph") = WithRole(links, "periph")
      /\ Established("central")' = WithRole(links', "central")
      /\ Established("periph")' = WithRole(links', "periph")
  BY DEF Established, WithRole
<1>3. \A role \in Roles : Cardinality(WithRole(links, role)) \in Nat
  BY FS_Subset, FS_CardinalityType DEF WithRole
<1>4. ASSUME NEW h \in Handles, ParentConnects(h)
      PROVE  RadioLimits' /\ \E e \in BleEvent : Raise(e) /\ StepOf(links, e, links')
  <2> DEFINE e == [type |-> "CONNECTED", handle |-> h, role |-> "periph"]
  <2>1. /\ e \in BleEvent /\ Raise(e) /\ links[h] = "none" /\ advertising /\ ~advertising'
        /\ links' = [links EXCEPT ![h] = "periph"] /\ gap' = gap
    BY <1>4 DEF ParentConnects, BleEvent, Roles, TypeOK
  <2>2. WithRole(links, "periph") = {}
    BY <1>1, <1>2, <2>1 DEF RadioLimits
  <2>3. Fits(links')
    <3>1. "periph" \in Roles /\ "periph" # "central"
      BY DEF Roles
    <3>2. Fits([links EXCEPT ![h] = "periph"])
      BY <1>1, <2>1, <2>2, <3>1, MoreLinks
    <3> QED BY <2>1, <3>2
  <2>4. StepOf(links, e, links')
    BY <2>1, <2>3 DEF StepOf, IsChange, RoleAfter
  <2>5. WithRole(links', "central") = WithRole(links, "central")
    BY <1>1, <2>1 DEF WithRole, Views
  <2>6. RadioLimits'
    BY <1>1, <1>2, <2>1, <2>5 DEF RadioLimits
  <2> QED BY <2>1, <2>4, <2>6
<1>5. ASSUME NEW h \in Handles, ChildConnects(h)
      PROVE  RadioLimits' /\ \E e \in BleEvent : Raise(e) /\ StepOf(links, e, links')
  <2> DEFINE e == [type |-> "CONNECTED", handle |-> h, role |-> "central"]
  <2>1. /\ e \in BleEvent /\ Raise(e) /\ links[h] = "none" /\ advertising' = advertising
        /\ links' = [links EXCEPT ![h] = "central"] /\ gap = "initiating" /\ gap' = "idle"
    BY <1>5 DEF ChildConnects, BleEvent, Roles
  <2>2. Cardinality(WithRole(links, "central")) < MAX_PERIPHERAL_CONNECTIONS
    BY <1>1, <1>2, <2>1 DEF RadioLimits, Roles
  <2>3. Fits(links')
    BY <1>1, <2>1, <2>2, MoreLinks DEF Roles
  <2>4. StepOf(links, e, links')
    BY <2>1, <2>3 DEF StepOf, IsChange, RoleAfter
  <2>5. WithRole(links', "periph") = WithRole(links, "periph")
    BY <1>1, <2>1 DEF WithRole, Views
  <2>6. RadioLimits'
    BY <1>1, <1>2, <2>1, <2>5 DEF RadioLimits
  <2> QED BY <2>1, <2>4, <2>6
<1>6. ASSUME NEW h \in Handles, LinkEnds(h)
      PROVE  RadioLimits' /\ \E e \in BleEvent : Raise(e) /\ StepOf(links, e, links')
  <2> DEFINE e == [type |-> "DISCONNECTED", handle |-> h]
  <2>1. /\ e \in BleEvent /\ Raise(e) /\ links[h] # "none"
        /\ links' = [links EXCEPT ![h] = "none"] /\ gap' = gap /\ advertising' = advertising
    BY <1>6 DEF LinkEnds, BleEvent
  <2>2. /\ Fits(links')
        /\ WithRole(links', "periph") \subseteq WithRole(links, "periph")
        /\ Cardinality(WithRole(links', "central")) <= Cardinality(WithRole(links, "central"))
        /\ Cardinality(WithRole(links', "central")) \in Nat
    BY <1>1, <2>1, FewerLinks DEF Roles
  <2>3. StepOf(links, e, links')
    BY <2>1, <2>2 DEF StepOf, IsChange, RoleAfter
  <2>4. RadioLimits'
    <3> DEFINE now == Cardinality(WithRole(links, "central"))
               then == Cardinality(WithRole(links', "central"))
    <3>1. now \in Nat /\ then \in Nat /\ then <= now
      BY <1>3, <2>2 DEF Roles
    <3>2. gap' = "initiating" => now < MAX_PERIPHERAL_CONNECTIONS
      BY <1>1, <1>2, <2>1 DEF RadioLimits
    <3> HIDE DEF now, then
    <3>3. gap' = "initiating" => then < MAX_PERIPHERAL_CONNECTIONS
      BY <3>1, <3>2
    <3>4. ASSUME advertising'
          PROVE  Established("periph")' = {}
      <4>1. advertising' = advertising
        BY <2>1
      <4>2. Established("periph") = {}
        BY <1>1, <3>4, <4>1 DEF RadioLimits
      <4> QED BY <1>2, <2>2, <4>2
    <3> QED BY <1>2, <3>3, <3>4 DEF RadioLimits, then
  <2> QED BY <2>1, <2>3, <2>4
<1>7. ASSUME NEW e \in BleEvent, Raise(e), ~IsChange(e), UNCHANGED links,
             advertising' = advertising, gap' = gap \/ gap' = "idle"
      PROVE  RadioLimits' /\ \E x \in BleEvent : Raise(x) /\ StepOf(links, x, links')
  <2>1. StepOf(links, e, links')
    BY <1>1, <1>7 DEF StepOf
  <2>2. RadioLimits'
    BY <1>1, <1>2, <1>7 DEF RadioLimits, Roles
  <2> QED BY <1>7, <2>1, <2>2
<1>8. ASSUME NEW h \in Handles, PeerWrites(h)
      PROVE  RadioLimits' /\ \E e \in BleEvent : Raise(e) /\ StepOf(links, e, links')
  <2>1. PICK m \in Writes : Raise([type |-> "WRITE", handle |-> h, message |-> m])
    BY <1>8 DEF PeerWrites
  <2> DEFINE e == [type |-> "WRITE", handle |-> h, message |-> m]
  <2>2. e \in BleEvent /\ ~IsChange(e)
    BY DEF BleEvent, IsChange
  <2>3. UNCHANGED <<links, advertising, gap>>
    BY <1>8 DEF PeerWrites, softdevice
  <2> QED BY <1>7, <2>1, <2>2, <2>3
<1>9. CASE ChildAdvertises
  <2> DEFINE e == [type |-> "ADV_REPORT"]
  <2>1. e \in BleEvent /\ ~IsChange(e) /\ Raise(e) /\ UNCHANGED <<links, advertising, gap>>
    BY <1>9 DEF BleEvent, IsChange, ChildAdvertises, softdevice
  <2> QED BY <1>7, <2>1
<1>10. CASE ConnectingTimesOut
  <2> DEFINE e == [type |-> "TIMEOUT"]
  <2>1. e \in BleEvent /\ ~IsChange(e) /\ Raise(e) /\ UNCHANGED <<links, advertising>>
        /\ gap' = "idle"
    BY <1>10 DEF BleEvent, IsChange, ConnectingTimesOut
  <2> QED BY <1>7, <2>1
<1> QED BY <1>4, <1>5, <1>6, <1>8, <1>9, <1>10 DEF Radio

\* No other step changes a link, and none starts what would make one too many.
LEMMA LimitsKept ==
    ASSUME Follows, [Next]_vars, ~Radio
    PROVE  RadioLimits' /\ UNCHANGED links
<1>1. UNCHANGED links
  BY DEF Next, MainLoop, Terminal, vars, softdevice, TimerExpires,
      handle_advertising_report_event, ignore_advertising_report_event,
      reject_connection_event, handle_connection_event, lose_parent, lose_child,
      lose_unknown, handle_connection_timeout_event, handle_write_event,
      send_heartbeat_message, generic_timer_handler, ble_evt_dispatch, fetch_done, no_input,
      app_sched_execute_returns, check_advertising_status, check_scanning_status,
      send_broadcast_message, print_all_connections
<1>2. gap' = "initiating" =>
          gap = "initiating" \/ Cardinality(Established("central")) < MAX_PERIPHERAL_CONNECTIONS
  BY DEF Next, MainLoop, Terminal, vars, softdevice, TimerExpires, connect_to_peer,
      handle_advertising_report_event, ignore_advertising_report_event,
      reject_connection_event, handle_connection_event, lose_parent, lose_child,
      lose_unknown, handle_connection_timeout_event, handle_write_event,
      send_heartbeat_message, generic_timer_handler, ble_evt_dispatch, fetch_done, no_input,
      app_sched_execute_returns, check_advertising_status, check_scanning_status,
      send_broadcast_message, print_all_connections, scan_started, scan_stopped
<1>3. advertising' => advertising \/ Established("periph") = {}
  BY DEF Next, MainLoop, Terminal, vars, softdevice, TimerExpires, adv_started,
      handle_advertising_report_event, ignore_advertising_report_event,
      reject_connection_event, handle_connection_event, lose_parent, lose_child,
      lose_unknown, handle_connection_timeout_event, handle_write_event,
      send_heartbeat_message, generic_timer_handler, ble_evt_dispatch, fetch_done, no_input,
      app_sched_execute_returns, check_advertising_status, check_scanning_status,
      send_broadcast_message, print_all_connections
<1>4. \A role : Established(role)' = Established(role)
  BY <1>1 DEF Established
<1> QED BY <1>1, <1>2, <1>3, <1>4 DEF Follows, RadioLimits

\* The steps that are not the radio's, as the table sees them.
LEMMA TablesKept ==
    ASSUME Follows, [Next]_vars, ~Radio, ~ble_evt_dispatch, ~lost'
    PROVE  Tables'
<1>1. TypeOK /\ Tables
  <2>1. ~lost
    BY DEF Next, MainLoop, Terminal, vars, TimerExpires,
      handle_advertising_report_event, ignore_advertising_report_event,
      reject_connection_event, handle_connection_event, lose_parent, lose_child,
      lose_unknown, handle_connection_timeout_event, handle_write_event,
      send_heartbeat_message, generic_timer_handler, fetch_done, no_input,
      app_sched_execute_returns, check_advertising_status, check_scanning_status,
      send_broadcast_message, print_all_connections
  <2> QED BY <2>1 DEF Follows
<1>2. CASE reject_connection_event \/ handle_connection_event
  BY <1>1, <1>2, ConnectionHandled
<1>3. CASE lose_parent \/ lose_child \/ lose_unknown
  BY <1>1, <1>3, DisconnectionHandled
<1>4. CASE generic_timer_handler
  BY <1>1, <1>4, TimerHandled
<1>5. CASE handle_advertising_report_event \/ ignore_advertising_report_event
  <2>1. Running("ADV_REPORT") /\ Return /\ UNCHANGED <<connState, activeConnections, loop>>
    BY <1>5 DEF handle_advertising_report_event, ignore_advertising_report_event
  <2> QED BY <1>1, <2>1, OthersHandled
<1>6. CASE handle_connection_timeout_event
  <2>1. Running("TIMEOUT") /\ Return /\ UNCHANGED <<connState, activeConnections, loop>>
    BY <1>6 DEF handle_connection_timeout_event
  <2> QED BY <1>1, <2>1, OthersHandled
<1>7. CASE handle_write_event
  <2>1. Running("WRITE") /\ Return /\ UNCHANGED <<connState, activeConnections, loop>>
    BY <1>7 DEF handle_write_event
  <2> QED BY <1>1, <2>1, OthersHandled
<1>8. CASE send_heartbeat_message
  <2>1. Running("HEARTBEAT") /\ Return /\ UNCHANGED <<connState, activeConnections, loop>>
    BY <1>8 DEF send_heartbeat_message
  <2> QED BY <1>1, <2>1, OthersHandled
<1>9. CASE fetch_done
  <2>1. Running("FETCH") /\ Return /\ UNCHANGED <<connState, activeConnections, loop>>
    BY <1>9 DEF fetch_done
  <2> QED BY <1>1, <2>1, OthersHandled
<1>10. CASE TimerExpires
  <2>1. /\ sched' = Append(sched, [type |-> "TIMER"])
        /\ UNCHANGED <<connState, activeConnections, loop>>
    BY <1>10 DEF TimerExpires
  <2>2. [type |-> "TIMER"] \in Entry /\ ~IsChange([type |-> "TIMER"])
    BY DEF Entry, IsChange
  <2> QED BY <1>1, <2>1, <2>2, EntryAdded
<1>11. CASE Terminal \/ no_input \/ app_sched_execute_returns \/ UNCHANGED vars
  <2>1. /\ UNCHANGED <<sched, connState, activeConnections>>
        /\ loop' = loop \/ loop' = "scheduler" \/ sched = <<>>
    BY <1>11 DEF Terminal, Input, no_input, app_sched_execute_returns, vars, softdevice,
        check_advertising_status, check_scanning_status, send_broadcast_message,
        print_all_connections
  <2> QED BY <1>1, <2>1, NothingHappens
<1> QED BY <1>2, <1>3, <1>4, <1>5, <1>6, <1>7, <1>8, <1>9, <1>10, <1>11 DEF Next, MainLoop

LEMMA FollowsInductive ==
    ASSUME Follows, [Next]_vars
    PROVE  Follows'
<1>1. TypeOK'
  <2>1. CASE Next
    BY <2>1, HandlersTyped, SendersTyped, LoopTyped, RadioTyped
       DEF Follows, Next, MainLoop, Terminal
  <2>2. CASE UNCHANGED vars
    BY <2>2 DEF Follows, TypeOK, vars, softdevice
  <2> QED BY <2>1, <2>2
<1>2. CASE Radio
  <2>1. RadioLimits' /\ \E e \in BleEvent : Raise(e) /\ StepOf(links, e, links')
    BY <1>2, RadioSteps
  <2>2. Path(sdEvents', connState', links') /\ (~lost' => Tables')
    BY <2>1, EventRaised
  <2>3. Path(sdEvents, connState, links)'
    BY <2>2 DEF Path, PathOver
  <2> QED BY <1>1, <2>1, <2>2, <2>3 DEF Follows
<1>3. CASE ble_evt_dispatch
  <2>1. ~Radio \/ Radio
    OBVIOUS
  <2>2. RadioLimits'
    BY <1>2, <2>1, LimitsKept DEF Follows
  <2>3. Path(sdEvents', connState', links') /\ (~lost' => Tables')
    BY <1>3, EventDispatched
  <2>4. Path(sdEvents, connState, links)'
    BY <2>3 DEF Path, PathOver
  <2> QED BY <1>1, <2>2, <2>3, <2>4 DEF Follows
<1>4. CASE ~Radio /\ ~ble_evt_dispatch
  <2>1. RadioLimits' /\ UNCHANGED links
    BY <1>4, LimitsKept
  <2>2. UNCHANGED <<sdEvents, connState>>
    BY <1>4 DEF Next, MainLoop, Terminal, vars, TimerExpires, softdevice,
      handle_advertising_report_event, ignore_advertising_report_event,
      reject_connection_event, handle_connection_event, lose_parent, lose_child,
      lose_unknown, handle_connection_timeout_event, handle_write_event,
      send_heartbeat_message, generic_timer_handler, fetch_done, no_input,
      app_sched_execute_returns, check_advertising_status, check_scanning_status,
      send_broadcast_message, print_all_connections
  <2>3. Path(sdEvents, connState, links)'
    BY <2>1, <2>2 DEF Follows, Path, PathOver
  <2>4. ~lost' => Tables'
    BY <1>4, TablesKept
  <2> QED BY <1>1, <2>1, <2>3, <2>4 DEF Follows
<1> QED BY <1>2, <1>3, <1>4

LEMMA FollowsInitially ==
    ASSUME Init, TypeOK
    PROVE  Follows
<1> DEFINE nobody == [h \in Handles |-> "none"]
<1>1. /\ links = nobody /\ connState = nobody /\ sched = <<>> /\ sdEvents = <<>>
      /\ activeConnections = [i \in TableSlots |-> NoConnection]
      /\ gap # "initiating"
  BY DEF Init
<1>2. \A i \in TableSlots : ~activeConnections[i].active
  BY <1>1 DEF NoConnection
<1>3. \A h \in Handles : SlotsOf(h) = {} /\ TableRole(h) = "none"
  BY <1>2, NoSlot DEF SlotsOf
<1>4. TableView = nobody /\ TableOK
  BY <1>2, <1>3 DEF TableView, TableOK
<1>5. nobody \in Views /\ \A role \in Roles : WithRole(nobody, role) = {}
  BY DEF Views, WithRole, Roles
<1> HIDE DEF nobody
<1>6. Fits(nobody)
  <2>1. Cardinality({}) = 0
    BY FS_EmptySet
  <2>2. WithRole(nobody, "central") = {} /\ WithRole(nobody, "periph") = {}
    BY <1>5 DEF Roles
  <2> QED BY <1>5, <2>1, <2>2, DeviceAssumption DEF Fits, DeviceAssumption
<1>7. Path(<<>>, nobody, nobody)
  BY <1>6, PathNothing
<1>8. 1 .. Len(<<>>) = {}
  OBVIOUS
<1>9. \A h \in Handles : ChangesOf(h, sched) = {}
  BY <1>1, <1>8 DEF ChangesOf
<1>10. \A h \in Handles : Leads(h, sched, TableRole(h), connState[h])
  BY <1>1, <1>3, <1>9 DEF Leads, nobody
<1>11. Tables
  BY <1>1, <1>4, <1>7, <1>8, <1>10 DEF Tables, LeadsFromTable
<1>12. RadioLimits
  BY <1>1, <1>5 DEF RadioLimits, Established, WithRole, Roles
<1> QED BY <1>1, <1>7, <1>11, <1>12 DEF Follows

LEMMA OneEntry ==
    ASSUME TableOK, NEW h \in Handles
    PROVE  Cardinality(SlotsOf(h)) <= 1
<1>1. CASE SlotsOf(h) = {}
  BY <1>1, FS_EmptySet
<1>2. CASE SlotsOf(h) # {}
  <2>1. PICK i \in SlotsOf(h) : SlotsOf(h) = {i}
    BY <1>2, OneSlot
  <2> QED BY <2>1, FS_Singleton
<1> QED BY <1>1, <1>2

LEMMA FollowsTables ==
    ASSUME Follows
    PROVE  TableFollows
<1> SUFFICES ASSUME ~lost
             PROVE  /\ \A h \in Handles : /\ Leads(h, sched, TableRole(h), connState[h])
                                          /\ Cardinality(SlotsOf(h)) <= 1
                    /\ Running("CONNECTED") => FreeSlots # {}
  BY DEF TableFollows
<1>1. TypeOK /\ Tables /\ TableOK
  BY DEF Follows, Tables
<1>2. \A h \in Handles : Leads(h, sched, TableRole(h), connState[h])
  BY <1>1 DEF Tables, LeadsFromTable
<1>3. \A h \in Handles : Cardinality(SlotsOf(h)) <= 1
  BY <1>1, OneEntry
<1>4. ASSUME Running("CONNECTED")
      PROVE  FreeSlots # {}
  <2> DEFINE e == Head(sched)
  <2>1. /\ e.type = "CONNECTED" /\ e.role \in Roles
        /\ \E mid \in Views : StepOf(TableView, e, mid)
    BY <1>1, <1>4, HeadChanges
  <2> QED BY <1>1, <2>1, RoomForOne
<1> QED BY <1>2, <1>3, <1>4

LEMMA FollowsLists ==
    ASSUME Follows
    PROVE  ListsEveryConnection
<1> SUFFICES ASSUME ~lost, loop = "input", NEW h \in Handles
             PROVE  is_connection_active(h) <=> SlotsOf(h) # {}
  BY DEF ListsEveryConnection
<1>1. TableOK /\ LeadsFromTable(sched) /\ \A i \in 1 .. Len(sched) : ~IsChange(sched[i])
  BY DEF Follows, Tables
<1>2. ChangesOf(h, sched) = {}
  BY <1>1 DEF ChangesOf, IsChange
<1>3. connState[h] = TableRole(h)
  BY <1>1, <1>2 DEF LeadsFromTable, Leads
<1>4. CASE SlotsOf(h) = {}
  BY <1>3, <1>4, NoSlot DEF is_connection_active
<1>5. CASE SlotsOf(h) # {}
  <2>1. TableRole(h) \in Roles
    BY <1>1, <1>5, OneSlot
  <2> QED BY <1>3, <1>5, <2>1 DEF is_connection_active, Roles
<1> QED BY <1>4, <1>5

LEMMA FollowsAlways == Spec => []Follows
<1>1. Init => TypeOK
  BY TypeInitially
<1>2. Init => Follows
  BY <1>1, FollowsInitially
<1>3. Follows /\ [Next]_vars => Follows'
  BY FollowsInductive
<1> QED BY <1>2, <1>3, PTL DEF Spec

\* As long as no event is lost, the connection table is what ble_conn_state was before
\* the events whose handlers wait: it never lists a connection twice or on the wrong
\* side, and set_connection always finds a free entry.
THEOREM TableNeverAstray == Spec => []TableFollows
<1>1. Follows => TableFollows
  BY FollowsTables
<1> QED BY <1>1, FollowsAlways, PTL

\* As long as no event is lost, a command finds an entry for each connection that
\* ble_conn_state knows and for no other.
THEOREM ConnectionsListed == Spec => []ListsEveryConnection
<1>1. Follows => ListsEveryConnection
  BY FollowsLists
<1> QED BY <1>1, FollowsAlways, PTL

--------------------------------------------------------------------------------
(* What an idle board does.  It may rest in a state only if nothing that waits   *)
(* and nothing that is listed asks for more.                                     *)

In(q, X) == \E i \in 1 .. Len(q) : q[i] \in X
Coming(X) == In(sched, X) \/ In(sdEvents, X)

Connections == {e \in BleEvent : e.type = "CONNECTED"}
Disconnections == {e \in BleEvent : e.type = "DISCONNECTED"}
Timeouts == {e \in BleEvent : e.type = "TIMEOUT"}
ToParent == {e \in Connections : e.role = "periph"}
To(h) == {e \in Connections : e.handle = h}

HasParent == \E g \in Handles : TableRole(g) = "periph"

\* A mesh board advertises unless a parent is listed or on its way into the table.
Offers == advertising \/ HasParent \/ Coming(ToParent)

\* It keeps a child only while its own handler waits, or next to a parent.
Sheds ==
    \A h \in Handles : links[h] = "central" =>
        h \in closing \/ Coming(To(h)) \/ HasParent \/ In(sched, ToParent)

\* It rests from scanning only until a handler scans again, or without a parent, or
\* with all the children it can have.
Searches ==
    gap = "idle" =>
        \/ Coming(Connections) \/ Coming(Timeouts) \/ In(sched, Disconnections)
        \/ ~HasParent
        \/ all_peripheral_connections_active

\* A gateway nobody told to advertise has no parent, and never rests from scanning.
NoParent ==
    /\ ~advertising
    /\ \A h \in Handles : links[h] # "periph" /\ connState[h] # "periph" /\ TableRole(h) # "periph"
    /\ ~Coming(ToParent)

Listens == NoParent /\ (gap = "idle" => Coming(Connections) \/ Coming(Timeouts))

LEMMA InAppended ==
    ASSUME NEW S, NEW q \in Seq(S), NEW e \in S
    PROVE  \A X : In(Append(q, e), X) <=> In(q, X) \/ e \in X
<1> SUFFICES ASSUME NEW X
             PROVE  In(Append(q, e), X) <=> In(q, X) \/ e \in X
  OBVIOUS
<1> DEFINE r == Append(q, e)
<1>1. /\ Len(q) \in Nat /\ Len(r) = Len(q) + 1
      /\ \A i \in 1 .. Len(q) : r[i] = q[i]
      /\ r[Len(q) + 1] = e
  BY Appended
<1> HIDE DEF r
<1>2. \A i \in 1 .. Len(r) : i = Len(q) + 1 \/ i \in 1 .. Len(q)
  BY <1>1
<1>3. Len(q) + 1 \in 1 .. Len(r) /\ \A i \in 1 .. Len(q) : i \in 1 .. Len(r)
  BY <1>1
<1>4. In(r, X) <=> In(q, X) \/ e \in X
  BY <1>1, <1>2, <1>3 DEF In
<1> QED BY <1>4 DEF r

LEMMA InTail ==
    ASSUME NEW S, NEW q \in Seq(S), q # <<>>
    PROVE  \A X : In(q, X) <=> Head(q) \in X \/ In(Tail(q), X)
<1> SUFFICES ASSUME NEW X
             PROVE  In(q, X) <=> Head(q) \in X \/ In(Tail(q), X)
  OBVIOUS
<1> DEFINE r == Tail(q)
<1>1. /\ Len(q) \in Nat \ {0} /\ Len(r) = Len(q) - 1
      /\ \A i \in 1 .. Len(q) - 1 : r[i] = q[i + 1]
      /\ Head(q) = q[1]
  BY HeadTail
<1> HIDE DEF r
<1>2. \A i \in 1 .. Len(q) : i = 1 \/ (i - 1 \in 1 .. Len(r) /\ r[i - 1] = q[i])
  <2> SUFFICES ASSUME NEW i \in 1 .. Len(q), i # 1
               PROVE  i - 1 \in 1 .. Len(r) /\ r[i - 1] = q[i]
    OBVIOUS
  <2>1. i - 1 \in 1 .. Len(q) - 1 /\ (i - 1) + 1 = i
    BY <1>1
  <2> QED BY <1>1, <2>1
<1>3. 1 \in 1 .. Len(q) /\ \A i \in 1 .. Len(r) : i + 1 \in 1 .. Len(q) /\ r[i] = q[i + 1]
  BY <1>1
<1>4. In(q, X) <=> Head(q) \in X \/ In(r, X)
  BY <1>1, <1>2, <1>3 DEF In
<1> QED BY <1>4 DEF r

LEMMA InNothing == \A X : ~In(<<>>, X)
<1>1. 1 .. Len(<<>>) = {}
  OBVIOUS
<1> QED BY <1>1 DEF In

LEMMA ComingNext == \A X : Coming(X)' <=> In(sched', X) \/ In(sdEvents', X)
BY DEF Coming, In

LEMMA InNext == \A X : In(sched, X)' <=> In(sched', X)
BY DEF In

\* A role that a queue brings about is brought by one of its events.
LEMMA RoleComes ==
    ASSUME NEW h \in Handles, NEW q \in Seq(Entry), NEW before, NEW after,
           Leads(h, q, before, after), after # before
    PROVE  /\ after \in Roles => In(q, To(h)) /\ In(q, Connections)
           /\ after = "periph" => In(q, ToParent)
           /\ In(q, Connections) \/ In(q, Disconnections)
<1>1. PICK i \in 1 .. Len(q) : /\ q[i].type \in {"CONNECTED", "DISCONNECTED"}
                               /\ q[i].handle = h /\ after = RoleAfter(q[i])
  BY DEF Leads, ChangesOf
<1>2. q[i] \in BleEvent
  <2>1. q[i] \in Entry
    OBVIOUS
  <2> QED BY <1>1, <2>1, EntryIsEvent
<1>3. after \in Roles => q[i].type = "CONNECTED" /\ q[i].role = after
  BY <1>1 DEF RoleAfter, Roles
<1> QED BY <1>1, <1>2, <1>3 DEF In, To, ToParent, Connections, Disconnections, Roles

\* The view of a link that is ahead of the next one has an event on the way.
Seen ==
    /\ \A g \in Handles : connState[g] = "periph" => HasParent \/ In(sched, ToParent)
    /\ \A g \in Handles : links[g] = "periph" => HasParent \/ Coming(ToParent)
    /\ \A h \in Handles : links[h] = "central" /\ connState[h] = "none" => In(sdEvents, To(h))
    /\ HasParent =>
          \/ \E g \in Handles : connState[g] = "periph"
          \/ In(sched, Connections) \/ In(sched, Disconnections)

LEMMA SeenNow == Follows /\ ConnStateFollows /\ ~lost => Seen
<1> SUFFICES ASSUME Follows, ConnStateFollows, ~lost
             PROVE  Seen
  OBVIOUS
<1>1. /\ sched \in Seq(Entry) /\ sdEvents \in Seq(BleEvent)
      /\ \A h \in Handles : Leads(h, sched, TableRole(h), connState[h])
      /\ \A h \in Handles : Leads(h, sdEvents, connState[h], links[h])
  BY DEF Follows, TypeOK, Tables, LeadsFromTable, ConnStateFollows
<1>2. sdEvents \in Seq(Entry)
  <2>1. \A i \in 1 .. Len(sdEvents) : sdEvents[i] \in Entry
    BY <1>1, Fields
  <2> QED BY <1>1, <2>1
<1>3. \A g \in Handles : connState[g] = "periph" => HasParent \/ In(sched, ToParent)
  BY <1>1, RoleComes DEF HasParent
<1>4. \A g \in Handles : links[g] = "periph" => HasParent \/ Coming(ToParent)
  <2> SUFFICES ASSUME NEW g \in Handles, links[g] = "periph"
               PROVE  HasParent \/ Coming(ToParent)
    OBVIOUS
  <2>1. connState[g] = "periph" \/ In(sdEvents, ToParent)
    BY <1>1, <1>2, RoleComes
  <2> QED BY <1>3, <2>1 DEF Coming
<1>5. \A h \in Handles : links[h] = "central" /\ connState[h] = "none" => In(sdEvents, To(h))
  BY <1>1, <1>2, RoleComes DEF Roles
<1>6. ASSUME HasParent, \A g \in Handles : connState[g] # "periph"
      PROVE  In(sched, Connections) \/ In(sched, Disconnections)
  <2>1. PICK g \in Handles : TableRole(g) = "periph"
    BY <1>6 DEF HasParent
  <2> QED BY <1>1, <1>6, <2>1, RoleComes
<1> QED BY <1>3, <1>4, <1>5, <1>6 DEF Seen

LEMMA SeenNext == Follows' /\ ConnStateFollows' /\ (~lost)' => Seen'
<1>1. Follows /\ ConnStateFollows /\ ~lost => Seen
  BY SeenNow
<1> QED BY <1>1, PTL

\* The steps that neither receive an event nor handle a connection or its loss.
LEMMA QuietSteps ==
    ASSUME TypeOK, [Next]_vars, ~Radio, ~ble_evt_dispatch, ~reject_connection_event,
           ~handle_connection_event, ~lose_parent, ~lose_child, ~lose_unknown
    PROVE  /\ UNCHANGED <<links, connState, activeConnections, sdEvents>>
           /\ closing \subseteq closing'
           /\ advertising => advertising'
           /\ advertising' => advertising \/ "adv" \in Commands
           /\ \A X : (\A e \in X : IsChange(e)) => (In(sched, X) <=> In(sched', X))
           /\ gap' = "idle" => gap = "idle" /\ (In(sched, Timeouts) => In(sched', Timeouts))
<1>1. UNCHANGED <<links, connState, activeConnections, sdEvents>>
  BY DEF Next, MainLoop, Terminal, vars, softdevice, TimerExpires,
      handle_advertising_report_event, ignore_advertising_report_event,
      handle_connection_timeout_event, handle_write_event, send_heartbeat_message,
      generic_timer_handler, fetch_done, no_input, app_sched_execute_returns,
      check_advertising_status, check_scanning_status, send_broadcast_message,
      print_all_connections
<1>2. closing \subseteq closing'
  BY DEF Next, MainLoop, Terminal, vars, softdevice, TimerExpires, SendTo,
      disconnect_from_peers,
      handle_advertising_report_event, ignore_advertising_report_event,
      handle_connection_timeout_event, handle_write_event, send_heartbeat_message,
      generic_timer_handler, fetch_done, no_input, app_sched_execute_returns,
      check_advertising_status, check_scanning_status, send_broadcast_message,
      print_all_connections
<1>3. \/ advertising' = advertising
      \/ "adv" \in Commands /\ advertising' = adv_started
  BY DEF Next, MainLoop, Terminal, vars, softdevice, TimerExpires, Input,
      handle_advertising_report_event, ignore_advertising_report_event,
      handle_connection_timeout_event, handle_write_event, send_heartbeat_message,
      generic_timer_handler, fetch_done, no_input, app_sched_execute_returns,
      check_advertising_status, check_scanning_status, send_broadcast_message,
      print_all_connections
<1>4. /\ advertising => advertising'
      /\ advertising' => advertising \/ "adv" \in Commands
  <2>1. advertising \in BOOLEAN
    BY DEF TypeOK
  <2>2. CASE advertising' = advertising
    BY <2>1, <2>2
  <2>3. CASE "adv" \in Commands /\ advertising' = adv_started
    BY <2>1, <2>3 DEF adv_started
  <2> QED BY <1>3, <2>2, <2>3
<1> DEFINE OffHead == /\ sched # <<>> /\ ~IsChange(Head(sched))
                      /\ gap' = "idle" => gap = "idle" /\ Head(sched) \notin Timeouts
           heartbeat == [type |-> "HEARTBEAT"]
           timer == [type |-> "TIMER"]
<1>5. \/ OffHead /\ sched' = Tail(sched)
      \/ OffHead /\ sched' = Append(Tail(sched), heartbeat)
      \/ (gap' = "idle" => gap = "idle") /\ sched' = Append(sched, timer)
      \/ (gap' = "idle" => gap = "idle") /\ sched' = sched
  <2>1. CASE \/ handle_advertising_report_event \/ ignore_advertising_report_event
             \/ handle_connection_timeout_event \/ handle_write_event
             \/ send_heartbeat_message \/ fetch_done
    BY <2>1 DEF handle_advertising_report_event, ignore_advertising_report_event,
        handle_connection_timeout_event, handle_write_event, send_heartbeat_message,
        fetch_done, Running, Return, softdevice, connect_to_peer, scan_started, scan_stopped,
        IsChange, Timeouts
  <2>2. CASE generic_timer_handler
    <3>1. /\ sched # <<>> /\ Head(sched).type = "TIMER" /\ gap' = gap
          /\ \/ sched' = Tail(sched) \o <<heartbeat>>
             \/ sched' = Tail(sched) \o <<>>
      BY <2>2 DEF generic_timer_handler, Running, softdevice
    <3>2. Tail(sched) \in Seq(Entry) /\ heartbeat \in Entry
      BY <3>1, HeadTail DEF TypeOK, Entry
    <3>3. sched' = Append(Tail(sched), heartbeat) \/ sched' = Tail(sched)
      BY <3>1, <3>2, AppendIsConcat
    <3> QED BY <3>1, <3>3 DEF IsChange, Timeouts
  <2>3. CASE TimerExpires
    BY <2>3 DEF TimerExpires, softdevice
  <2>4. CASE Terminal \/ no_input \/ app_sched_execute_returns \/ UNCHANGED vars
    BY <2>4 DEF Terminal, no_input, app_sched_execute_returns, vars, softdevice,
        check_advertising_status, check_scanning_status, send_broadcast_message,
        print_all_connections, scan_started
  <2> QED BY <2>1, <2>2, <2>3, <2>4 DEF Next, MainLoop
<1>6. /\ sched \in Seq(Entry) /\ heartbeat \in Entry /\ timer \in Entry
      /\ ~IsChange(heartbeat) /\ ~IsChange(timer)
      /\ sched # <<>> => Tail(sched) \in Seq(Entry)
  BY HeadTail DEF TypeOK, Entry, IsChange
<1> HIDE DEF heartbeat, timer
<1>7. /\ \A X : In(Append(sched, timer), X) <=> In(sched, X) \/ timer \in X
      /\ sched # <<>> => \A X : /\ In(sched, X) <=> Head(sched) \in X \/ In(Tail(sched), X)
                                /\ In(Append(Tail(sched), heartbeat), X)
                                      <=> In(Tail(sched), X) \/ heartbeat \in X
  BY <1>6, InAppended, InTail
<1>8. ASSUME NEW X, \A e \in X : IsChange(e)
      PROVE  In(sched, X) <=> In(sched', X)
  <2>1. timer \notin X /\ heartbeat \notin X /\ (OffHead => Head(sched) \notin X)
    BY <1>6, <1>8
  <2> QED BY <1>5, <1>7, <2>1
<1>9. gap' = "idle" => gap = "idle" /\ (In(sched, Timeouts) => In(sched', Timeouts))
  BY <1>5, <1>7
<1> QED BY <1>1, <1>2, <1>4, <1>8, <1>9

\* The same of the next state, written out.
LEMMA SeenThen ==
    ASSUME Seen'
    PROVE  /\ \A g \in Handles : connState'[g] = "periph" => HasParent' \/ In(sched', ToParent)
           /\ \A g \in Handles : links'[g] = "periph" =>
                 HasParent' \/ In(sched', ToParent) \/ In(sdEvents', ToParent)
           /\ \A h \in Handles : links'[h] = "central" /\ connState'[h] = "none" =>
                 In(sdEvents', To(h))
           /\ HasParent' => \/ \E g \in Handles : connState'[g] = "periph"
                            \/ In(sched', Connections) \/ In(sched', Disconnections)
BY DEF Seen, Coming, In

LEMMA OffersThen ==
    ASSUME advertising' \/ HasParent' \/ In(sched', ToParent) \/ In(sdEvents', ToParent)
    PROVE  Offers'
BY DEF Offers, Coming, In

LEMMA ShedsThen ==
    ASSUME \A h \in Handles : links'[h] = "central" =>
               \/ h \in closing' \/ HasParent' \/ In(sched', ToParent)
               \/ In(sched', To(h)) \/ In(sdEvents', To(h))
    PROVE  Sheds'
BY DEF Sheds, Coming, In

LEMMA SearchesThen ==
    ASSUME gap' = "idle" =>
               \/ In(sched', Connections) \/ In(sdEvents', Connections)
               \/ In(sched', Timeouts) \/ In(sdEvents', Timeouts)
               \/ In(sched', Disconnections) \/ ~HasParent'
               \/ Cardinality({h \in Handles : connState'[h] \in {"central"}})
                      >= MAX_PERIPHERAL_CONNECTIONS
    PROVE  Searches'
BY DEF Searches, Coming, In, all_peripheral_connections_active, Connected

LEMMA SameParent ==
    ASSUME UNCHANGED activeConnections
    PROVE  HasParent' = HasParent
BY DEF HasParent, TableRole, TypeOf, SlotsOf

LEMMA AllChanges ==
    /\ \A e \in Connections \union Disconnections : IsChange(e) /\ e \in BleEvent
    /\ ToParent \subseteq Connections
    /\ \A h : To(h) \subseteq Connections
    /\ \A e \in Connections : e.type = "CONNECTED"
BY DEF Connections, Disconnections, ToParent, To, IsChange

\* A mesh board between two steps.
Minds == Follows /\ ConnStateFollows /\ ~lost /\ IS_PROD_BOARD /\ Offers /\ Sheds /\ Searches

LEMMA QuietMinds ==
    ASSUME Minds, [Next]_vars, ~Radio, ~ble_evt_dispatch, ~reject_connection_event,
           ~handle_connection_event, ~lose_parent, ~lose_child, ~lose_unknown
    PROVE  Offers' /\ Sheds' /\ Searches'
<1>1. /\ UNCHANGED <<links, connState, activeConnections, sdEvents>>
      /\ closing \subseteq closing'
      /\ advertising => advertising'
      /\ \A X : (\A e \in X : IsChange(e)) => (In(sched, X) <=> In(sched', X))
      /\ gap' = "idle" => gap = "idle" /\ (In(sched, Timeouts) => In(sched', Timeouts))
  BY QuietSteps DEF Minds, Follows
<1>2. HasParent' = HasParent
  BY <1>1, SameParent
<1>3. /\ In(sched, ToParent) <=> In(sched', ToParent)
      /\ In(sched, Connections) <=> In(sched', Connections)
      /\ In(sched, Disconnections) <=> In(sched', Disconnections)
      /\ \A h : In(sched, To(h)) <=> In(sched', To(h))
  BY <1>1, AllChanges
<1>4. Offers'
  BY <1>1, <1>2, <1>3, OffersThen DEF Minds, Offers, Coming
<1>5. Sheds'
  BY <1>1, <1>2, <1>3, ShedsThen DEF Minds, Sheds, Coming
<1>6. Searches'
  BY <1>1, <1>2, <1>3, SearchesThen
     DEF Minds, Searches, Coming, all_peripheral_connections_active, Connected
<1> QED BY <1>4, <1>5, <1>6

\* ble_evt_dispatch moves an event from one queue to the other.
LEMMA DispatchMinds ==
    ASSUME Minds, ble_evt_dispatch, ~lost'
    PROVE  Offers' /\ Sheds' /\ Searches'
<1> DEFINE e == Head(sdEvents)
<1>1. /\ sdEvents # <<>> /\ sdEvents' = Tail(sdEvents) /\ sched' = Append(sched, e)
      /\ UNCHANGED <<links, closing, advertising, gap, activeConnections>>
      /\ ~IsChange(e) => connState' = connState
  BY DEF ble_evt_dispatch, softdevice, IsChange
<1>2. sdEvents \in Seq(BleEvent) /\ sched \in Seq(Entry)
  BY DEF Minds, Follows, TypeOK
<1>3. e \in BleEvent /\ e \in Entry
  BY <1>1, <1>2, HeadTail, Fields
<1>4. /\ \A X : In(sdEvents, X) <=> e \in X \/ In(sdEvents', X)
      /\ \A X : In(sched', X) <=> In(sched, X) \/ e \in X
  BY <1>1, <1>2, <1>3, InAppended, InTail
<1> HIDE DEF e
<1>5. HasParent' = HasParent
  BY <1>1, SameParent
<1>6. Offers'
  BY <1>1, <1>4, <1>5, OffersThen DEF Minds, Offers, Coming
<1>7. Sheds'
  BY <1>1, <1>4, <1>5, ShedsThen DEF Minds, Sheds, Coming
<1>8. Searches'
  <2>1. CASE IsChange(e)
    <3>1. In(sched', Connections) \/ In(sched', Disconnections)
      BY <1>3, <1>4, <2>1 DEF IsChange, Connections, Disconnections
    <3> QED BY <3>1, SearchesThen
  <2>2. CASE ~IsChange(e)
    BY <1>1, <1>4, <1>5, <2>2, SearchesThen
       DEF Minds, Searches, Coming, all_peripheral_connections_active, Connected
  <2> QED BY <2>1, <2>2
<1> QED BY <1>6, <1>7, <1>8

\* The parents listed after an entry came or went.
LEMMA ParentsThen ==
    ASSUME NEW h \in Handles, NEW role, TableView' = [TableView EXCEPT ![h] = role]
    PROVE  /\ role = "periph" => HasParent'
           /\ TableRole(h) # "periph" => (HasParent => HasParent')
           /\ role # "periph" => (HasParent' => \E g \in Handles \ {h} : TableRole(g) = "periph")
<1>1. \A g \in Handles : TableRole(g)' = IF g = h THEN role ELSE TableRole(g)
  <2>1. \A g \in Handles : TableView[g] = TableRole(g) /\ TableView'[g] = TableRole(g)'
    BY DEF TableView
  <2>2. TableView \in [Handles -> {TableView[g] : g \in Handles}]
    BY DEF TableView
  <2> QED BY <2>1, <2>2
<1>2. HasParent' <=> \E g \in Handles : TableRole(g)' = "periph"
  BY DEF HasParent
<1> QED BY <1>1, <1>2 DEF HasParent

\* The handler at the head is done.
LEMMA ReturnedFrom ==
    ASSUME TypeOK, sched # <<>>, Return
    PROVE  \A X : In(sched, X) <=> Head(sched) \in X \/ In(sched', X)
BY InTail DEF Return, TypeOK

LEMMA RejectMinds ==
    ASSUME Minds, Seen', reject_connection_event
    PROVE  Offers' /\ Sheds' /\ Searches'
<1> DEFINE e == Head(sched)
<1>1. /\ sched # <<>> /\ Return /\ e.role = "central"
      /\ disconnect_from_peers({e.handle}) /\ \A g \in Handles : connState[g] # "periph"
      /\ UNCHANGED <<links, advertising, gap, sdEvents, connState>>
  BY DEF reject_connection_event, Running, central_connection_active, Connected
<1>2. /\ e.type = "CONNECTED" /\ e.handle \in Handles /\ TableRole(e.handle) = "none"
      /\ TableView' = [TableView EXCEPT ![e.handle] = e.role]
  BY ConnectionEntered DEF Minds, Follows
<1>3. HasParent => HasParent'
  BY <1>2, ParentsThen
<1>4. \A X : In(sched, X) => e \in X \/ In(sched', X)
  BY <1>1, ReturnedFrom DEF Minds, Follows
<1> HIDE DEF e
<1>5. In(sched, ToParent) => In(sched', ToParent)
  <2>1. e \notin ToParent
    BY <1>1 DEF ToParent
  <2> QED BY <1>4, <2>1
<1>6. Offers'
  BY <1>1, <1>3, <1>5, OffersThen DEF Minds, Offers, Coming
<1>7. Sheds'
  <2> SUFFICES ASSUME NEW h \in Handles, links'[h] = "central"
               PROVE  \/ h \in closing' \/ HasParent' \/ In(sched', ToParent)
                      \/ In(sched', To(h)) \/ In(sdEvents', To(h))
    BY ShedsThen
  <2>1. \/ h \in closing \/ In(sched, To(h)) \/ In(sdEvents, To(h)) \/ HasParent
        \/ In(sched, ToParent)
    BY <1>1 DEF Minds, Sheds, Coming
  <2>2. e \in To(h) => h \in closing'
    BY <1>1 DEF To, disconnect_from_peers
  <2>3. h \in closing => h \in closing'
    BY <1>1 DEF disconnect_from_peers
  <2> QED BY <1>1, <1>3, <1>4, <1>5, <2>1, <2>2, <2>3
<1>8. Searches'
  <2>1. HasParent' => In(sched', Connections) \/ In(sched', Disconnections)
    BY <1>1, SeenThen
  <2> QED BY <2>1, SearchesThen
<1> QED BY <1>6, <1>7, <1>8

LEMMA ConnectionMinds ==
    ASSUME Minds, Seen', handle_connection_event, ~hung'
    PROVE  Offers' /\ Sheds' /\ Searches'
<1> DEFINE e == Head(sched)
<1>1. /\ e.handle \in Handles /\ FreeSlots # {}
      /\ TableView' = [TableView EXCEPT ![e.handle] = e.role]
  BY ConnectionEntered DEF Minds, Follows
<1>2. /\ e.role = "periph" \/ \E g \in Handles : connState'[g] = "periph"
      /\ connState' = connState
      /\ gap' = IF all_peripheral_connections_active THEN gap ELSE scan_started(gap)
  BY <1>1 DEF handle_connection_event, Minds, Running, central_connection_active, Connected,
              Follows, TypeOK
<1> HIDE DEF e
<1>3. HasParent' \/ In(sched', ToParent)
  BY <1>1, <1>2, ParentsThen, SeenThen
<1>4. Offers' /\ Sheds'
  BY <1>3, OffersThen, ShedsThen
<1>5. Searches'
  BY <1>2, SearchesThen DEF scan_started, all_peripheral_connections_active, Connected
<1> QED BY <1>4, <1>5

\* The softdevice keeps one parent, so there is one in the table.
LEMMA OneParent ==
    ASSUME TypeOK, Tables, NEW g \in Handles, NEW h \in Handles,
           TableRole(g) = "periph", TableRole(h) = "periph"
    PROVE  g = h
<1>1. Fits(TableView)
  BY PathFits DEF Tables, LeadsFromTable, TypeOK
<1>2. g \in WithRole(TableView, "periph") /\ h \in WithRole(TableView, "periph")
  BY DEF WithRole, TableView
<1> QED BY <1>1, <1>2 DEF Fits

LEMMA LoseParentMinds ==
    ASSUME Minds, Seen', lose_parent
    PROVE  Offers' /\ Sheds' /\ Searches'
<1> DEFINE e == Head(sched)
<1>1. /\ disconnect_from_peers(Connected(Roles)) /\ advertising' = adv_started
      /\ UNCHANGED <<links, sdEvents, connState>>
  BY DEF lose_parent, Minds
<1>2. /\ e.handle \in Handles /\ TableRole(e.handle) = "periph"
      /\ TableView' = [TableView EXCEPT ![e.handle] = "none"]
  BY ConnectionRemoved DEF Minds, Follows
<1> HIDE DEF e
<1>3. ~HasParent'
  <2> SUFFICES ASSUME HasParent'
               PROVE  FALSE
    OBVIOUS
  <2>1. \E g \in Handles \ {e.handle} : TableRole(g) = "periph"
    <3> DEFINE role == "none"
    <3>1. TableView' = [TableView EXCEPT ![e.handle] = role] /\ role # "periph"
      BY <1>2
    <3> HIDE DEF role
    <3> QED BY <1>2, <3>1, ParentsThen
  <2>2. TypeOK /\ Tables
    BY DEF Minds, Follows
  <2>3. PICK g \in Handles \ {e.handle} : TableRole(g) = "periph"
    BY <2>1
  <2> QED BY <1>2, <2>2, <2>3, OneParent
<1>4. Offers'
  <2>1. CASE Established("periph") = {}
    BY <1>1, <2>1, OffersThen DEF adv_started
  <2>2. CASE Established("periph") # {}
    <3>1. PICK g \in Handles : links'[g] = "periph"
      BY <1>1, <2>2 DEF Established
    <3> QED BY <3>1, SeenThen, OffersThen
  <2> QED BY <2>1, <2>2
<1>5. Sheds'
  <2> SUFFICES ASSUME NEW h \in Handles, links'[h] = "central"
               PROVE  h \in closing' \/ In(sdEvents', To(h))
    BY ShedsThen
  <2>1. CASE connState[h] = "none"
    BY <1>1, <2>1, SeenThen
  <2>2. CASE connState[h] # "none"
    <3>1. connState[h] \in Roles /\ links[h] # "none"
      BY <1>1, <2>2 DEF Minds, Follows, TypeOK
    <3> QED BY <1>1, <3>1 DEF disconnect_from_peers, Connected
  <2> QED BY <2>1, <2>2
<1>6. Searches'
  BY <1>3, SearchesThen
<1> QED BY <1>4, <1>5, <1>6

LEMMA LoseChildMinds ==
    ASSUME Minds, lose_child
    PROVE  Offers' /\ Sheds' /\ Searches'
<1> DEFINE e == Head(sched)
<1>1. /\ sched # <<>> /\ Return /\ gap' = scan_started(gap)
      /\ UNCHANGED <<links, closing, advertising, sdEvents>>
  BY DEF lose_child, Running
<1>2. /\ e.handle \in Handles /\ TableRole(e.handle) = "central" /\ e.type = "DISCONNECTED"
      /\ TableView' = [TableView EXCEPT ![e.handle] = "none"]
  BY ConnectionRemoved DEF Minds, Follows
<1>3. \A X : In(sched, X) => e \in X \/ In(sched', X)
  BY <1>1, ReturnedFrom DEF Minds, Follows
<1> HIDE DEF e
<1>4. HasParent => HasParent'
  BY <1>2, ParentsThen
<1>5. e \notin ToParent /\ \A h : e \notin To(h)
  BY <1>2, AllChanges
<1>6. Offers'
  BY <1>1, <1>3, <1>4, <1>5, OffersThen DEF Minds, Offers, Coming
<1>7. Sheds'
  BY <1>1, <1>3, <1>4, <1>5, ShedsThen DEF Minds, Sheds, Coming
<1>8. Searches'
  BY <1>1, SearchesThen DEF scan_started
<1> QED BY <1>6, <1>7, <1>8

\* What the radio raises waits, and so does whatever waited before.
LEMMA RaisedIn ==
    ASSUME TypeOK, NEW e \in BleEvent, Raise(e)
    PROVE  /\ \A X : In(sdEvents', X) <=> In(sdEvents, X) \/ e \in X
           /\ \A X : In(sched, X) => In(sched', X)
           /\ \A X : (\A x \in X : x \in BleEvent) => (In(sched', X) => In(sched, X))
           /\ UNCHANGED <<connState, activeConnections>>
<1> DEFINE fetch == [type |-> "FETCH"]
<1>1. /\ sdEvents' = Append(sdEvents, e) /\ UNCHANGED <<connState, activeConnections>>
      /\ sched' = sched \/ sched' = Append(sched, fetch)
  BY DEF Raise
<1>2. sdEvents \in Seq(BleEvent) /\ sched \in Seq(Entry) /\ fetch \in Entry /\ fetch \notin BleEvent
  BY DEF TypeOK, Entry, BleEvent
<1> HIDE DEF fetch
<1>3. \A X : In(sdEvents', X) <=> In(sdEvents, X) \/ e \in X
  BY <1>1, <1>2, InAppended
<1>4. \A X : In(Append(sched, fetch), X) <=> In(sched, X) \/ fetch \in X
  BY <1>2, InAppended
<1> QED BY <1>1, <1>2, <1>3, <1>4

LEMMA RadioMinds ==
    ASSUME Minds, Radio
    PROVE  Offers' /\ Sheds' /\ Searches'
<1>1. ASSUME NEW e \in BleEvent, Raise(e)
      PROVE  /\ HasParent' = HasParent
             /\ \A X : In(sdEvents, X) \/ e \in X => In(sdEvents', X)
             /\ \A X : In(sched, X) => In(sched', X)
             /\ connState' = connState
             /\ advertising' = advertising => Offers'
             /\ gap' = gap => Searches'
             /\ (\A h \in Handles : links'[h] = "central" =>
                     links[h] = "central" /\ (h \in closing => h \in closing')) => Sheds'
  <2>1. /\ \A X : In(sdEvents, X) \/ e \in X => In(sdEvents', X)
        /\ \A X : In(sched, X) => In(sched', X)
        /\ connState' = connState /\ activeConnections' = activeConnections
    BY <1>1, RaisedIn DEF Minds, Follows
  <2>2. HasParent' = HasParent
    BY <2>1, SameParent
  <2>3. advertising' = advertising => Offers'
    BY <2>1, <2>2, OffersThen DEF Minds, Offers, Coming
  <2>4. gap' = gap => Searches'
    BY <2>1, <2>2, SearchesThen
       DEF Minds, Searches, Coming, all_peripheral_connections_active, Connected
  <2>5. (\A h \in Handles : links'[h] = "central" =>
             links[h] = "central" /\ (h \in closing => h \in closing')) => Sheds'
    BY <2>1, <2>2, ShedsThen DEF Minds, Sheds, Coming
  <2> QED BY <2>1, <2>2, <2>3, <2>4, <2>5
<1>2. links \in [Handles -> Roles \union {"none"}]
  BY DEF Minds, Follows, TypeOK
<1>3. ASSUME NEW h \in Handles, ParentConnects(h)
      PROVE  Offers' /\ Sheds' /\ Searches'
  <2> DEFINE e == [type |-> "CONNECTED", handle |-> h, role |-> "periph"]
  <2>1. /\ e \in BleEvent /\ e \in ToParent /\ Raise(e) /\ gap' = gap /\ closing' = closing
        /\ links' = [links EXCEPT ![h] = "periph"]
    BY <1>3 DEF ParentConnects, BleEvent, Roles, ToParent, Connections
  <2> HIDE DEF e
  <2>2. In(sdEvents', ToParent)
    BY <1>1, <2>1
  <2> QED BY <1>1, <1>2, <2>1, <2>2, OffersThen
<1>4. ASSUME NEW h \in Handles, ChildConnects(h)
      PROVE  Offers' /\ Sheds' /\ Searches'
  <2> DEFINE e == [type |-> "CONNECTED", handle |-> h, role |-> "central"]
  <2>1. /\ e \in BleEvent /\ e \in To(h) /\ e \in Connections /\ Raise(e)
        /\ UNCHANGED <<closing, advertising>> /\ links' = [links EXCEPT ![h] = "central"]
    BY <1>4 DEF ChildConnects, BleEvent, Roles, To, Connections
  <2> HIDE DEF e
  <2>2. In(sdEvents', To(h)) /\ In(sdEvents', Connections)
    BY <1>1, <2>1
  <2>3. Sheds'
    <3>1. \A g \in Handles : g # h /\ links'[g] = "central" => links[g] = "central"
      BY <1>2, <2>1
    <3> QED BY <1>1, <2>1, <2>2, <3>1, ShedsThen DEF Minds, Sheds, Coming
  <2> QED BY <1>1, <2>1, <2>2, <2>3, SearchesThen
<1>5. ASSUME NEW h \in Handles, LinkEnds(h)
      PROVE  Offers' /\ Sheds' /\ Searches'
  <2> DEFINE e == [type |-> "DISCONNECTED", handle |-> h]
  <2>1. /\ e \in BleEvent /\ Raise(e) /\ UNCHANGED <<gap, advertising>>
        /\ links' = [links EXCEPT ![h] = "none"] /\ closing' = closing \ {h}
    BY <1>5 DEF LinkEnds, BleEvent
  <2> HIDE DEF e
  <2>2. \A g \in Handles : links'[g] = "central" =>
            links[g] = "central" /\ (g \in closing => g \in closing')
    BY <1>2, <2>1
  <2> QED BY <1>1, <2>1, <2>2
<1>6. ASSUME NEW e \in BleEvent, Raise(e), UNCHANGED <<links, closing, advertising>>,
             gap' = gap \/ e \in Timeouts
      PROVE  Offers' /\ Sheds' /\ Searches'
  <2>1. e \in Timeouts => In(sdEvents', Timeouts)
    BY <1>1, <1>6
  <2> QED BY <1>1, <1>6, <2>1, SearchesThen
<1>7. ASSUME NEW h \in Handles, PeerWrites(h)
      PROVE  Offers' /\ Sheds' /\ Searches'
  <2>1. PICK m \in Writes : Raise([type |-> "WRITE", handle |-> h, message |-> m])
    BY <1>7 DEF PeerWrites
  <2>2. [type |-> "WRITE", handle |-> h, message |-> m] \in BleEvent
    BY DEF BleEvent
  <2>3. UNCHANGED <<links, closing, advertising, gap>>
    BY <1>7 DEF PeerWrites, softdevice
  <2> QED BY <1>6, <2>1, <2>2, <2>3
<1>8. CASE ChildAdvertises
  <2>1. /\ [type |-> "ADV_REPORT"] \in BleEvent /\ Raise([type |-> "ADV_REPORT"])
        /\ UNCHANGED <<links, closing, advertising, gap>>
    BY <1>8 DEF BleEvent, ChildAdvertises, softdevice
  <2> QED BY <1>6, <2>1
<1>9. CASE ConnectingTimesOut
  <2>1. /\ [type |-> "TIMEOUT"] \in Timeouts /\ Raise([type |-> "TIMEOUT"])
        /\ [type |-> "TIMEOUT"] \in BleEvent
        /\ UNCHANGED <<links, closing, advertising>>
    BY <1>9 DEF BleEvent, ConnectingTimesOut, Timeouts
  <2> QED BY <1>6, <2>1
<1> QED BY <1>3, <1>4, <1>5, <1>7, <1>8, <1>9 DEF Radio

(* A gateway on which nobody types adv. *)

GatewayMinds == Follows /\ ConnStateFollows /\ ~lost /\ ~IS_PROD_BOARD /\ Listens

LEMMA ListensThen ==
    ASSUME ~advertising',
           \A h \in Handles :
               links'[h] # "periph" /\ connState'[h] # "periph" /\ TableRole(h)' # "periph",
           ~In(sched', ToParent), ~In(sdEvents', ToParent),
           gap' = "idle" => \/ In(sched', Connections) \/ In(sdEvents', Connections)
                            \/ In(sched', Timeouts) \/ In(sdEvents', Timeouts)
    PROVE  Listens'
BY DEF Listens, NoParent, Coming, In

LEMMA QuietListens ==
    ASSUME GatewayMinds, "adv" \notin Commands,
           [Next]_vars, ~Radio, ~ble_evt_dispatch, ~reject_connection_event,
           ~handle_connection_event, ~lose_parent, ~lose_child, ~lose_unknown
    PROVE  Listens'
<1>1. /\ UNCHANGED <<links, connState, activeConnections, sdEvents>>
      /\ advertising' => advertising
      /\ \A X : (\A e \in X : IsChange(e)) => (In(sched, X) <=> In(sched', X))
      /\ gap' = "idle" => gap = "idle" /\ (In(sched, Timeouts) => In(sched', Timeouts))
  BY QuietSteps DEF GatewayMinds, Follows
<1>2. \A h \in Handles : TableRole(h)' = TableRole(h)
  BY <1>1, SameTable
<1>3. /\ In(sched, ToParent) <=> In(sched', ToParent)
      /\ In(sched, Connections) <=> In(sched', Connections)
  BY <1>1, AllChanges
<1> QED BY <1>1, <1>2, <1>3, ListensThen DEF GatewayMinds, Listens, NoParent, Coming

LEMMA DispatchListens ==
    ASSUME GatewayMinds, ble_evt_dispatch, ~lost'
    PROVE  Listens'
<1> DEFINE e == Head(sdEvents)
<1>1. /\ sdEvents # <<>> /\ sdEvents' = Tail(sdEvents) /\ sched' = Append(sched, e)
      /\ UNCHANGED <<links, advertising, gap, activeConnections>>
      /\ connState' = IF IsChange(e) THEN [connState EXCEPT ![e.handle] = RoleAfter(e)]
                      ELSE connState
  BY DEF ble_evt_dispatch, softdevice, IsChange, RoleAfter
<1>2. sdEvents \in Seq(BleEvent) /\ sched \in Seq(Entry)
      /\ connState \in [Handles -> Roles \union {"none"}]
  BY DEF GatewayMinds, Follows, TypeOK
<1>3. e \in BleEvent /\ e \in Entry
  BY <1>1, <1>2, HeadTail, Fields
<1>4. /\ \A X : In(sdEvents, X) <=> e \in X \/ In(sdEvents', X)
      /\ \A X : In(sched', X) <=> In(sched, X) \/ e \in X
  BY <1>1, <1>2, <1>3, InAppended, InTail
<1> HIDE DEF e
<1>5. \A h \in Handles : TableRole(h)' = TableRole(h)
  BY <1>1, SameTable
<1>6. e \notin ToParent /\ ~In(sched, ToParent) /\ ~In(sdEvents', ToParent)
  BY <1>4 DEF GatewayMinds, Listens, NoParent, Coming
<1>7. IsChange(e) => RoleAfter(e) # "periph"
  BY <1>3, <1>6 DEF ToParent, Connections, RoleAfter
<1>8. \A h \in Handles : connState'[h] # "periph"
  BY <1>1, <1>2, <1>7 DEF GatewayMinds, Listens, NoParent
<1> QED BY <1>1, <1>4, <1>5, <1>6, <1>8, ListensThen
        DEF GatewayMinds, Listens, NoParent, Coming

LEMMA HandlersListen ==
    ASSUME GatewayMinds, ~hung',
           \/ reject_connection_event \/ handle_connection_event
           \/ lose_parent \/ lose_child \/ lose_unknown
    PROVE  Listens'
<1> DEFINE e == Head(sched)
<1>1. /\ TypeOK /\ Tables /\ ~IS_PROD_BOARD /\ NoParent
  BY DEF GatewayMinds, Follows, Listens
<1>2. ~reject_connection_event
  BY <1>1 DEF reject_connection_event
<1>3. ~lose_unknown /\ ~lose_parent
  <2>1. /\ lose_unknown => FALSE
        /\ lose_parent => TableRole(e.handle) = "periph" /\ e.handle \in Handles
    BY <1>1, ConnectionRemoved
  <2> QED BY <1>1, <2>1 DEF NoParent
<1>4. /\ sched # <<>> /\ Return /\ UNCHANGED <<links, advertising, sdEvents, connState>>
  BY <1>2, <1>3 DEF handle_connection_event, lose_child, Running
<1>5. gap' # "idle"
  <2>1. CASE handle_connection_event
    <3>1. FreeSlots # {}
      BY <1>1, <2>1, ConnectionEntered
    <3> QED BY <1>1, <2>1, <3>1
            DEF handle_connection_event, Running, TypeOK, scan_started
  <2>2. CASE lose_child
    BY <2>2 DEF lose_child, scan_started
  <2> QED BY <1>2, <1>3, <2>1, <2>2
<1>6. \A X : In(sched, X) <=> e \in X \/ In(sched', X)
  BY <1>1, <1>4, ReturnedFrom
<1>7. e \notin ToParent /\ ~In(sched', ToParent)
  BY <1>1, <1>6 DEF NoParent, Coming
<1>8. \E role : /\ role # "periph" /\ e.handle \in Handles
                /\ TableView' = [TableView EXCEPT ![e.handle] = role]
  <2>1. CASE handle_connection_event
    <3>1. /\ e \in BleEvent /\ e.type = "CONNECTED" /\ e.handle \in Handles
          /\ TableView' = [TableView EXCEPT ![e.handle] = e.role]
      BY <1>1, <2>1, ConnectionEntered
    <3> QED BY <1>7, <3>1 DEF ToParent, Connections
  <2>2. CASE lose_child
    <3>1. e.handle \in Handles /\ TableView' = [TableView EXCEPT ![e.handle] = "none"]
      BY <1>1, <2>2, ConnectionRemoved
    <3> QED BY <3>1
  <2> QED BY <1>2, <1>3, <2>1, <2>2
<1> HIDE DEF e
<1>9. ASSUME NEW h \in Handles
      PROVE  TableRole(h)' # "periph"
  <2>1. TableView'[h] = TableRole(h)' /\ TableView[h] = TableRole(h)
    BY DEF TableView
  <2>2. TableView \in [Handles -> {TableView[g] : g \in Handles}]
    BY DEF TableView
  <2> QED BY <1>1, <1>8, <2>1, <2>2 DEF NoParent
<1> QED BY <1>1, <1>4, <1>5, <1>7, <1>9, ListensThen DEF NoParent, Coming

LEMMA RadioListens ==
    ASSUME GatewayMinds, Radio
    PROVE  Listens'
<1>1. TypeOK /\ NoParent /\ links \in [Handles -> Roles \union {"none"}]
  BY DEF GatewayMinds, Follows, TypeOK, Listens
<1>2. \A h \in Handles : ~ParentConnects(h)
  BY <1>1 DEF ParentConnects, NoParent
<1>3. ASSUME NEW e \in BleEvent, Raise(e), e \notin ToParent, advertising' = advertising,
             gap' = gap \/ e \in Timeouts \/ e \in Connections,
             \A h \in Handles : links'[h] # "periph"
      PROVE  Listens'
  <2>1. /\ \A X : In(sdEvents', X) <=> In(sdEvents, X) \/ e \in X
        /\ \A X : In(sched, X) => In(sched', X)
        /\ \A X : (\A x \in X : x \in BleEvent) => (In(sched', X) => In(sched, X))
        /\ connState' = connState /\ activeConnections' = activeConnections
    BY <1>1, <1>3, RaisedIn
  <2>2. \A h \in Handles : TableRole(h)' = TableRole(h)
    BY <2>1, SameTable
  <2>3. ~In(sched', ToParent) /\ ~In(sdEvents', ToParent)
    BY <1>1, <1>3, <2>1, AllChanges DEF NoParent, Coming
  <2> QED BY <1>1, <1>3, <2>1, <2>2, <2>3, ListensThen
          DEF GatewayMinds, Listens, NoParent, Coming
<1>4. ASSUME NEW h \in Handles, ChildConnects(h)
      PROVE  Listens'
  <2> DEFINE e == [type |-> "CONNECTED", handle |-> h, role |-> "central"]
  <2>1. /\ e \in BleEvent /\ e \in Connections /\ e \notin ToParent /\ Raise(e)
        /\ advertising' = advertising /\ links' = [links EXCEPT ![h] = "central"]
    BY <1>4 DEF ChildConnects, BleEvent, Roles, ToParent, Connections
  <2> HIDE DEF e
  <2>2. \A g \in Handles : links'[g] # "periph"
    BY <1>1, <2>1 DEF NoParent
  <2> QED BY <1>3, <2>1, <2>2
<1>5. ASSUME NEW h \in Handles, LinkEnds(h)
      PROVE  Listens'
  <2> DEFINE e == [type |-> "DISCONNECTED", handle |-> h]
  <2>1. /\ e \in BleEvent /\ e \notin ToParent /\ Raise(e)
        /\ UNCHANGED <<gap, advertising>> /\ links' = [links EXCEPT ![h] = "none"]
    BY <1>5 DEF LinkEnds, BleEvent, ToParent, Connections
  <2> HIDE DEF e
  <2>2. \A g \in Handles : links'[g] # "periph"
    BY <1>1, <2>1 DEF NoParent
  <2> QED BY <1>3, <2>1, <2>2
<1>6. ASSUME NEW h \in Handles, PeerWrites(h)
      PROVE  Listens'
  <2>1. PICK m \in Writes : Raise([type |-> "WRITE", handle |-> h, message |-> m])
    BY <1>6 DEF PeerWrites
  <2>2. /\ [type |-> "WRITE", handle |-> h, message |-> m] \in BleEvent
        /\ [type |-> "WRITE", handle |-> h, message |-> m] \notin ToParent
    BY DEF BleEvent, ToParent, Connections
  <2>3. UNCHANGED <<links, advertising, gap>>
    BY <1>6 DEF PeerWrites, softdevice
  <2> QED BY <1>1, <1>3, <2>1, <2>2, <2>3 DEF NoParent
<1>7. CASE ChildAdvertises
  <2>1. /\ [type |-> "ADV_REPORT"] \in BleEvent /\ Raise([type |-> "ADV_REPORT"])
        /\ [type |-> "ADV_REPORT"] \notin ToParent
        /\ UNCHANGED <<links, advertising, gap>>
    BY <1>7 DEF BleEvent, ChildAdvertises, softdevice, ToParent, Connections
  <2> QED BY <1>1, <1>3, <2>1 DEF NoParent
<1>8. CASE ConnectingTimesOut
  <2>1. /\ [type |-> "TIMEOUT"] \in Timeouts /\ Raise([type |-> "TIMEOUT"])
        /\ [type |-> "TIMEOUT"] \in BleEvent /\ [type |-> "TIMEOUT"] \notin ToParent
        /\ UNCHANGED <<links, advertising>>
    BY <1>8 DEF BleEvent, ConnectingTimesOut, Timeouts, ToParent, Connections
  <2> QED BY <1>1, <1>3, <2>1 DEF NoParent
<1> QED BY <1>2, <1>4, <1>5, <1>6, <1>7, <1>8 DEF Radio

(* Both kinds of board. *)

LEMMA LostForGood ==
    ASSUME TypeOK, [Next]_vars, ~lost'
    PROVE  ~lost
<1>1. ASSUME NEW e, Raise(e)
      PROVE  ~lost
  BY <1>1 DEF Raise, TypeOK
<1>2. CASE Radio
  BY <1>1, <1>2 DEF Radio, ParentConnects, ChildConnects, LinkEnds, PeerWrites,
      ChildAdvertises, ConnectingTimesOut
<1>3. CASE ~Radio
  BY <1>3 DEF TypeOK, Next, MainLoop, Terminal, vars, TimerExpires, ble_evt_dispatch,
      handle_advertising_report_event, ignore_advertising_report_event,
      reject_connection_event, handle_connection_event, lose_parent, lose_child,
      lose_unknown, handle_connection_timeout_event, handle_write_event,
      send_heartbeat_message, generic_timer_handler, fetch_done, no_input,
      app_sched_execute_returns, check_advertising_status, check_scanning_status,
      send_broadcast_message, print_all_connections
<1> QED BY <1>2, <1>3

\* A fault ends everything, in whatever state.
LEMMA HungForGood ==
    ASSUME [Next]_vars, ~hung'
    PROVE  ~hung
<1>1. ASSUME NEW e, Raise(e)
      PROVE  ~hung
  BY <1>1 DEF Raise
<1>2. CASE Radio
  BY <1>1, <1>2 DEF Radio, ParentConnects, ChildConnects, LinkEnds, PeerWrites,
      ChildAdvertises, ConnectingTimesOut
<1>3. CASE ~Radio
  BY <1>3 DEF Next, MainLoop, Terminal, vars, Running, Input, TimerExpires, ble_evt_dispatch,
      handle_advertising_report_event, ignore_advertising_report_event,
      reject_connection_event, handle_connection_event, lose_parent, lose_child,
      lose_unknown, handle_connection_timeout_event, handle_write_event,
      send_heartbeat_message, generic_timer_handler, fetch_done, no_input,
      app_sched_execute_returns, check_advertising_status, check_scanning_status,
      send_broadcast_message, print_all_connections
<1> QED BY <1>2, <1>3

MeshBoard == IS_PROD_BOARD /\ ~lost /\ ~hung => Offers /\ Sheds /\ Searches
Gateway == "adv" \notin Commands /\ ~IS_PROD_BOARD /\ ~lost /\ ~hung => Listens

LEMMA BoardsGoOn ==
    /\ Follows /\ ConnStateFollows /\ MeshBoard /\ Gateway
    /\ Follows' /\ ConnStateFollows' /\ [Next]_vars
    => MeshBoard' /\ Gateway'
<1> SUFFICES ASSUME Follows, ConnStateFollows, MeshBoard, Gateway,
                    Follows', ConnStateFollows', [Next]_vars
             PROVE  MeshBoard' /\ Gateway'
  OBVIOUS
<1>1. ASSUME ~lost', ~hung'
      PROVE  ~lost /\ ~hung /\ Seen'
  BY <1>1, LostForGood, HungForGood, SeenNext DEF Follows
<1>2. ASSUME IS_PROD_BOARD, ~lost', ~hung'
      PROVE  Offers' /\ Sheds' /\ Searches'
  <2>1. Minds /\ Seen'
    BY <1>1, <1>2 DEF Minds, MeshBoard
  <2>2. ~lose_unknown
    BY <2>1, ConnectionRemoved DEF Minds, Follows
  <2> QED BY <1>2, <2>1, <2>2, QuietMinds, DispatchMinds, RejectMinds, ConnectionMinds,
             LoseParentMinds, LoseChildMinds, RadioMinds
<1>3. ASSUME "adv" \notin Commands, ~IS_PROD_BOARD, ~lost', ~hung'
      PROVE  Listens'
  <2>1. GatewayMinds
    BY <1>1, <1>3 DEF GatewayMinds, Gateway
  <2> QED BY <1>3, <2>1, QuietListens, DispatchListens, HandlersListen, RadioListens
<1> QED BY <1>2, <1>3 DEF MeshBoard, Gateway

LEMMA BoardsStart == Init => MeshBoard /\ Gateway
<1> SUFFICES ASSUME Init
             PROVE  MeshBoard /\ Gateway
  OBVIOUS
<1>1. \A h \in Handles : TableRole(h) = "none"
  <2>1. \A h \in Handles : SlotsOf(h) = {}
    BY DEF Init, NoConnection, SlotsOf
  <2> QED BY <2>1, NoSlot
<1>2. /\ \A h \in Handles : links[h] = "none" /\ connState[h] = "none"
      /\ sched = <<>> /\ sdEvents = <<>> /\ advertising = IS_PROD_BOARD
      /\ ~IS_PROD_BOARD => gap # "idle"
  BY DEF Init
<1>3. MeshBoard
  BY <1>1, <1>2 DEF MeshBoard, Offers, Sheds, Searches, HasParent
<1>4. Gateway
  BY <1>1, <1>2, InNothing DEF Gateway, Listens, NoParent, Coming
<1> QED BY <1>3, <1>4

LEMMA BoardsAlways == Spec => [](Follows /\ ConnStateFollows /\ MeshBoard /\ Gateway)
<1>1. Init => MeshBoard /\ Gateway
  BY BoardsStart
<1>2. /\ Follows /\ ConnStateFollows /\ MeshBoard /\ Gateway
      /\ Follows' /\ ConnStateFollows' /\ [Next]_vars
      => MeshBoard' /\ Gateway'
  BY BoardsGoOn
<1> QED BY <1>1, <1>2, FollowsAlways, ConnStateNeverMisses, PTL DEF Spec

\* When nothing waits the three views of the links are one.
LEMMA IdleViews ==
    ASSUME Follows, ConnStateFollows, Idle
    PROVE  /\ \A h \in Handles : links[h] = connState[h] /\ connState[h] = TableRole(h)
           /\ \A X : ~In(sched, X) /\ ~In(sdEvents, X)
<1>1. sched = <<>> /\ sdEvents = <<>> /\ ~lost
  BY DEF Idle
<1>2. \A h \in Handles : ChangesOf(h, <<>>) = {}
  <2>1. 1 .. Len(<<>>) = {}
    OBVIOUS
  <2> QED BY <2>1 DEF ChangesOf
<1>3. \A h \in Handles : /\ Leads(h, sched, TableRole(h), connState[h])
                         /\ Leads(h, sdEvents, connState[h], links[h])
  BY <1>1 DEF Follows, Tables, LeadsFromTable, ConnStateFollows
<1>4. \A h \in Handles : links[h] = connState[h] /\ connState[h] = TableRole(h)
  BY <1>1, <1>2, <1>3 DEF Leads
<1> QED BY <1>1, <1>4, InNothing

\* A mesh board that stays without a parent keeps no child: when nothing waits, every
\* child link is on its way out.
THEOREM OrphanKeepsNobody == Spec => []OrphanShedsChildren
<1>1. Follows /\ ConnStateFollows /\ MeshBoard => OrphanShedsChildren
  <2> SUFFICES ASSUME Follows, ConnStateFollows, MeshBoard, IS_PROD_BOARD, Idle,
                      Established("periph") = {}, NEW h \in Established("central")
               PROVE  h \in closing
    BY DEF OrphanShedsChildren
  <2>1. h \in Handles /\ links[h] = "central" /\ Sheds
    BY DEF Established, MeshBoard, Idle
  <2>2. ~HasParent
    BY IdleViews DEF HasParent, Established
  <2> QED BY <2>1, <2>2, IdleViews DEF Sheds, Coming
<1> QED BY <1>1, BoardsAlways, PTL

\* A mesh board that is idle without a parent advertises, however it lost the last one.
THEOREM OrphanAdvertises == Spec => []KeepsAdvertising
<1>1. Follows /\ ConnStateFollows /\ MeshBoard => KeepsAdvertising
  <2> SUFFICES ASSUME Follows, ConnStateFollows, MeshBoard, IS_PROD_BOARD, Idle,
                      Established("periph") = {}
               PROVE  advertising
    BY DEF KeepsAdvertising
  <2>1. Offers
    BY DEF MeshBoard, Idle
  <2>2. ~HasParent
    BY IdleViews DEF HasParent, Established
  <2> QED BY <2>1, <2>2, IdleViews DEF Offers, Coming
<1> QED BY <1>1, BoardsAlways, PTL

\* A mesh board that is idle under a parent and has room for children scans for them or
\* connects to one.
THEOREM RoomIsSearchedFor == Spec => []KeepsSearching
<1>1. Follows /\ ConnStateFollows /\ MeshBoard => KeepsSearching
  <2> SUFFICES ASSUME Follows, ConnStateFollows, MeshBoard, IS_PROD_BOARD, Idle,
                      Established("periph") # {}, gap = "idle",
                      Cardinality(Established("central")) < MAX_PERIPHERAL_CONNECTIONS
               PROVE  FALSE
    BY DEF KeepsSearching
  <2>1. Searches
    BY DEF MeshBoard, Idle
  <2>2. HasParent
    BY IdleViews DEF HasParent, Established
  <2>3. Connected({"central"}) = Established("central")
    BY IdleViews DEF Connected, Established
  <2>4. all_peripheral_connections_active
    BY <2>1, <2>2, IdleViews DEF Searches, Coming
  <2>5. Cardinality(Established("central")) \in Nat
    BY FS_Subset, FS_CardinalityType, DeviceAssumption DEF Established, DeviceAssumption
  <2> QED BY <2>3, <2>4, <2>5, DeviceAssumption
          DEF all_peripheral_connections_active, DeviceAssumption
<1> QED BY <1>1, BoardsAlways, PTL

\* A gateway on which nobody types adv scans or connects whenever it is idle.
THEOREM GatewayNeverRests == Spec => []("adv" \notin Commands => GatewayKeepsScanning)
<1>1. Follows /\ ConnStateFollows /\ Gateway => ("adv" \notin Commands => GatewayKeepsScanning)
  <2> SUFFICES ASSUME Follows, ConnStateFollows, Gateway, "adv" \notin Commands,
                      ~IS_PROD_BOARD, Idle
               PROVE  gap # "idle"
    BY DEF GatewayKeepsScanning
  <2>1. Listens
    BY DEF Gateway, Idle
  <2> QED BY <2>1, IdleViews DEF Listens, Coming
<1> QED BY <1>1, BoardsAlways, PTL
================================================================================
