------------------------------- MODULE BootProofs -------------------------------
(***************************************************************************)
(* Theorems about Boot, for any number of boards and gateways, whatever    *)
(* fails and whatever the users type.                                      *)
(***************************************************************************)
EXTENDS Boot, TLAPS

LEMMA ModulesAre ==
    /\ Len(Modules) = 11 /\ MainLoop = 12
    /\ DOMAIN Modules = 1 .. 11
    /\ Modules[1] = "softdevice" /\ Modules[2] = "timer" /\ Modules[3] = "terminal"
    /\ Modules[4] = "commands" /\ Modules[5] = "connections" /\ Modules[6] = "GATT"
    /\ Modules[7] = "GAP" /\ Modules[8] = "broadcast" /\ Modules[9] = "handshake"
    /\ Modules[10] = "heartbeat" /\ Modules[11] = "blinky"
BY DEF Modules, MainLoop

LEMMA NamesAre ==
    ModuleNames = {"softdevice", "timer", "terminal", "commands", "connections", "GATT", "GAP",
                   "broadcast", "handshake", "heartbeat", "blinky"}
BY ModulesAre DEF ModuleNames

LEMMA Nothing ==
    ASSUME NEW S
    PROVE  <<>> \in Seq(S) /\ Len(<<>>) = 0
OBVIOUS

LEMMA HeadTail ==
    ASSUME NEW S, NEW q \in Seq(S), q # <<>>
    PROVE  /\ Head(q) \in S /\ Tail(q) \in Seq(S)
           /\ Len(Tail(q)) = Len(q) - 1 /\ Len(q) \in Nat \ {0}
           /\ Head(q) = q[1]
           /\ \A i \in 1 .. Len(q) - 1 : Tail(q)[i] = q[i + 1]
OBVIOUS

LEMMA Appended ==
    ASSUME NEW S, NEW q \in Seq(S), NEW e \in S
    PROVE  /\ Append(q, e) \in Seq(S)
           /\ Len(Append(q, e)) = Len(q) + 1 /\ Len(q) \in Nat
           /\ Append(q, e)[Len(q) + 1] = e
           /\ \A i \in 1 .. Len(q) : Append(q, e)[i] = q[i]
OBVIOUS

--------------------------------------------------------------------------------
(* The service is there before the board can be found. *)

ServiceFirst ==
    /\ step \in [Boards -> 1 .. MainLoop]
    /\ done \in [Boards -> SUBSET ModuleNames]
    /\ \A b \in Boards \ init_failed : step[b] > 6 => "GATT" \in done[b]
    /\ \A b \in advData : b \in Boards /\ "GATT" \in done[b]
    /\ PeersFindService

LEMMA AdvanceKeeps ==
    ASSUME NEW b \in Boards, step \in [Boards -> 1 .. MainLoop], step[b] < MainLoop,
           Advance(b)
    PROVE  /\ step' \in [Boards -> 1 .. MainLoop]
           /\ step'[b] = step[b] + 1
           /\ \A c \in Boards \ {b} : step'[c] = step[c]
BY ModulesAre DEF Advance

\* Whoever connects to a board finds the service to write to: main.c initialises
\* GATT before GAP and nothing after a failure, and no command sets the
\* advertising data.
THEOREM ServiceFound == Spec => []PeersFindService
<1>1. Init => ServiceFirst
  BY ModulesAre DEF Init, ServiceFirst, PeersFindService
<1>2. ServiceFirst /\ [Next]_vars => ServiceFirst'
  <2> SUFFICES ASSUME ServiceFirst, [Next]_vars
               PROVE  ServiceFirst'
    OBVIOUS
  <2>1. ASSUME NEW b \in Boards, skip_module(b)
        PROVE  ServiceFirst'
    BY <2>1, AdvanceKeeps DEF skip_module, ServiceFirst, PeersFindService, radio
  <2>2. ASSUME NEW b \in Boards, NEW name \in ModuleNames \ {"GAP"},
               Initializing(b, name), Succeed(b, name) \/ Fail(b), UNCHANGED radio
        PROVE  ServiceFirst'
    <3>1. step[b] = 6 => name = "GATT"
      BY <2>2, ModulesAre DEF Initializing, ServiceFirst
    <3>2. Advance(b) /\ step[b] < MainLoop /\ b \notin init_failed
      BY <2>2 DEF Succeed, Fail, Initializing
    <3>3. step[b] \in 1 .. 11 /\ MainLoop = 12
      BY <3>2, ModulesAre DEF ServiceFirst
    <3>4. CASE Succeed(b, name)
      BY <2>2, <3>1, <3>2, <3>3, <3>4, AdvanceKeeps
         DEF Succeed, ServiceFirst, PeersFindService, radio
    <3>5. CASE Fail(b)
      BY <2>2, <3>2, <3>3, <3>5, AdvanceKeeps
         DEF Fail, ServiceFirst, PeersFindService, radio
    <3>6. QED
      BY <2>2, <3>4, <3>5
  <2>3. ASSUME NEW b \in Boards, gap_initialize(b)
        PROVE  ServiceFirst'
    <3>1. step[b] = 7
      BY <2>3, ModulesAre DEF gap_initialize, Initializing, ServiceFirst
    <3>2. Advance(b) /\ step[b] < MainLoop /\ b \notin init_failed /\ links' = links
      BY <2>3, <3>1, ModulesAre DEF gap_initialize, Succeed, Fail, Initializing
    <3>3. "GATT" \in done[b]
      BY <3>1, <3>2 DEF ServiceFirst
    <3>4. advData' \subseteq advData \union {b}
      BY <2>3 DEF gap_initialize
    <3>5. CASE Succeed(b, "GAP")
      BY <3>2, <3>3, <3>4, <3>5, AdvanceKeeps, NamesAre
         DEF Succeed, ServiceFirst, PeersFindService
    <3>6. CASE Fail(b)
      BY <3>2, <3>3, <3>4, <3>6, AdvanceKeeps DEF Fail, ServiceFirst, PeersFindService
    <3>7. QED
      BY <2>3, <3>5, <3>6 DEF gap_initialize
  <2>4. ASSUME NEW c \in Boards, NEW p \in Boards, connect_to_peer(c, p)
        PROVE  ServiceFirst'
    BY <2>4 DEF connect_to_peer, ServiceFirst, PeersFindService
  <2>5. ASSUME NEW b \in Boards, run(b)
        PROVE  ServiceFirst'
    <3>1. UNCHANGED <<step, init_failed, done, advData>> /\ links' \subseteq links
      BY <2>5 DEF run, handle_connection_event, reject_connection_event, handle_write_event,
         send_heartbeat_message, check_advertising_status, check_scanning_status,
         send_broadcast_message, radio
    <3>2. QED
      BY <3>1 DEF ServiceFirst, PeersFindService
  <2>6. CASE UNCHANGED vars
    BY <2>6 DEF vars, radio, ServiceFirst, PeersFindService
  <2>7. ASSUME NEW b \in Boards, \/ silent_initialize(b)
                                 \/ broadcast_message_initialize(b)
                                 \/ handshake_message_initialize(b)
                                 \/ heartbeat_message_initialize(b)
        PROVE  ServiceFirst'
    <3>1. PICK name \in ModuleNames \ {"GAP"} :
              Initializing(b, name) /\ (Succeed(b, name) \/ Fail(b)) /\ UNCHANGED radio
      BY <2>7, NamesAre DEF silent_initialize, softdevice_initialize, gatt_initialize,
         blinky_initialize, timer_initialize, terminal_initialize, command_initialize,
         connections_initialize,
         broadcast_message_initialize, handshake_message_initialize,
         heartbeat_message_initialize
    <3>2. QED
      BY <2>2, <3>1
  <2>8. QED
    BY <2>1, <2>3, <2>4, <2>5, <2>6, <2>7 DEF Next, init_module
<1>3. ServiceFirst => PeersFindService
  BY DEF ServiceFirst
<1>4. QED
  BY <1>1, <1>2, <1>3, PTL DEF Spec

--------------------------------------------------------------------------------
(* The numbers of the message types. *)

NumberOf(message) ==
    IF message = "broadcast" THEN 1 ELSE IF message = "handshake" THEN 2 ELSE 3

\* How many messages a board has registered that has got that far without failure.
RegisteredBy(s) == IF s <= 8 THEN 0 ELSE IF s = 9 THEN 1 ELSE IF s = 10 THEN 2 ELSE 3

\* A message on its way has its own number, or none.
NumberedEvent ==
    {e \in Event : e.type = "WRITE" => e.messageType \in {0, NumberOf(e.message)}}

RegistryNumbered ==
    /\ writeEvents \in [Boards -> Seq(Messages)]
    /\ messageType \in [Boards -> [Messages -> Nat]]
    /\ \A b \in Boards : \A i \in 1 .. Len(writeEvents[b]) : i = NumberOf(writeEvents[b][i])
    /\ \A b \in Boards \ init_failed : Len(writeEvents[b]) = RegisteredBy(step[b])
    /\ \A b \in Boards, m \in Messages : messageType[b][m] \in {0, NumberOf(m)}

Progress ==
    /\ step \in [Boards -> 1 .. MainLoop]
    /\ init_failed \in SUBSET Boards
    /\ done \in [Boards -> SUBSET ModuleNames]

OnAir ==
    /\ advertising \in SUBSET Boards
    /\ scanning \in SUBSET Boards
    /\ advData \in SUBSET ProdBoards
    /\ ticking \in SUBSET Boards
    /\ links \in SUBSET (Boards \X Boards)
    /\ unknown \in SUBSET (Boards \X Boards \X Nat)

EventsNumbered == events \in [Boards -> Seq(NumberedEvent)]

Agreement == Progress /\ RegistryNumbered /\ OnAir /\ EventsNumbered

LEMMA SubsetSeq ==
    ASSUME NEW S, NEW T, S \subseteq T, NEW q \in Seq(S)
    PROVE  q \in Seq(T)
OBVIOUS

LEMMA Element ==
    ASSUME NEW S, NEW q \in Seq(S), NEW i \in 1 .. Len(q)
    PROVE  q[i] \in S
OBVIOUS

LEMMA SeqDomain ==
    ASSUME NEW S, NEW q \in Seq(S)
    PROVE  DOMAIN q = 1 .. Len(q) /\ Len(q) \in Nat
OBVIOUS

LEMMA AgreementTypes == Agreement => TypeOK
<1> SUFFICES ASSUME Agreement
             PROVE  TypeOK
  OBVIOUS
<1>1. events \in [Boards -> Seq(Event)]
  <2>1. NumberedEvent \subseteq Event
    BY DEF NumberedEvent
  <2>2. \A b \in Boards : events[b] \in Seq(Event)
    BY <2>1, SubsetSeq DEF Agreement, EventsNumbered
  <2>3. QED
    BY <2>2 DEF Agreement, EventsNumbered
<1>2. QED
  BY <1>1 DEF Agreement, Progress, RegistryNumbered, OnAir, TypeOK

LEMMA AgreementAgrees == Agreement => TypesAgree
<1> SUFFICES ASSUME Agreement, NEW b \in Boards, NEW i \in DOMAIN events[b],
                    events[b][i].type = "WRITE",
                    events[b][i].messageType \in DOMAIN writeEvents[b]
             PROVE  writeEvents[b][events[b][i].messageType] = events[b][i].message
  BY DEF TypesAgree
<1> DEFINE e == events[b][i]
           n == e.messageType
<1>1. e \in NumberedEvent
  BY Element, SeqDomain DEF Agreement, EventsNumbered
<1>2. e.message \in Messages /\ n \in {0, NumberOf(e.message)}
  BY <1>1 DEF NumberedEvent, Event
<1>3. n \in 1 .. Len(writeEvents[b])
  BY SeqDomain DEF Agreement, RegistryNumbered
<1>4. n = NumberOf(writeEvents[b][n]) /\ writeEvents[b][n] \in Messages
  BY <1>3, Element DEF Agreement, RegistryNumbered
<1>5. NumberOf(writeEvents[b][n]) = NumberOf(e.message)
  BY <1>2, <1>3, <1>4
<1>6. QED
  BY <1>2, <1>4, <1>5 DEF NumberOf, Messages

LEMMA QueuesNumbered ==
    ASSUME EventsNumbered, NEW b \in Boards, NEW targets, NEW message \in Messages,
           NEW type \in {0, NumberOf(message)}, NEW sender \in Boards,
           NEW rest \in Seq(NumberedEvent)
    PROVE  Queues(b, targets, message, type, sender, rest) \in [Boards -> Seq(NumberedEvent)]
<1> DEFINE e == [type |-> "WRITE", peer |-> b, from |-> sender,
                 messageType |-> type, message |-> message]
<1>1. e \in NumberedEvent
  BY DEF NumberedEvent, Event, NumberOf
<1>2. \A p \in Boards : events[p] \in Seq(NumberedEvent)
                       /\ Append(events[p], e) \in Seq(NumberedEvent)
  BY <1>1, Appended DEF EventsNumbered
<1> HIDE DEF e
<1>3. Queues(b, targets, message, type, sender, rest) =
          [p \in Boards |->
              IF p = b THEN rest
              ELSE IF p \in targets \intersect Neighbours(b) /\ "GATT" \in done[b] \intersect done[p]
                   THEN Append(events[p], e) ELSE events[p]]
  BY DEF Queues, e
<1>4. QED
  BY <1>2, <1>3

LEMMA MessagesAre ==
    ASSUME Agreement, NEW b \in Boards, NEW m \in Messages
    PROVE  messageType[b][m] \in {0, NumberOf(m)} /\ messageType[b][m] \in Nat
BY DEF Agreement, RegistryNumbered

LEMMA RegistersNext ==
    ASSUME Agreement, NEW b \in Boards \ init_failed,
           NEW message \in Messages, step[b] = NumberOf(message) + 7,
           register_message_type(b, message), Advance(b), init_failed \subseteq init_failed'
    PROVE  RegistryNumbered'
<1> DEFINE q == writeEvents[b]
           r == Append(q, message)
<1>1. step[b] \in 8 .. 10 /\ NumberOf(message) \in 1 .. 3 /\ step[b] < MainLoop
  BY ModulesAre DEF NumberOf
<1>2. Len(q) + 1 = NumberOf(message) /\ q \in Seq(Messages)
  <2>1. Len(q) = RegisteredBy(step[b]) /\ q \in Seq(Messages)
    BY DEF Agreement, RegistryNumbered
  <2>2. RegisteredBy(step[b]) + 1 = NumberOf(message)
    BY <1>1 DEF RegisteredBy
  <2>3. QED
    BY <2>1, <2>2
<1>3. /\ r \in Seq(Messages) /\ Len(r) = NumberOf(message) /\ r[NumberOf(message)] = message
      /\ Len(q) \in Nat /\ \A i \in 1 .. Len(q) : r[i] = q[i]
  BY <1>2, Appended
<1>4. writeEvents' = [writeEvents EXCEPT ![b] = r]
  BY DEF register_message_type
<1>5. messageType' = [messageType EXCEPT ![b][message] = NumberOf(message)]
  BY <1>2 DEF register_message_type
<1>6. \A i \in 1 .. Len(r) : i = NumberOf(r[i])
  <2> SUFFICES ASSUME NEW i \in 1 .. Len(r)
               PROVE  i = NumberOf(r[i])
    OBVIOUS
  <2>1. CASE i = NumberOf(message)
    BY <2>1, <1>3
  <2>2. CASE i # NumberOf(message)
    <3>1. i \in 1 .. Len(q)
      BY <2>2, <1>1, <1>2, <1>3
    <3>2. QED
      BY <3>1, <1>3 DEF Agreement, RegistryNumbered
  <2>3. QED
    BY <2>1, <2>2
<1>7. /\ step'[b] = NumberOf(message) + 8
      /\ \A c \in Boards \ {b} : step'[c] = step[c]
  BY <1>1, AdvanceKeeps DEF Agreement, Progress
<1>8. Len(r) = RegisteredBy(step'[b])
  BY <1>1, <1>3, <1>7 DEF RegisteredBy
<1> HIDE DEF r, q
<1>9. writeEvents' \in [Boards -> Seq(Messages)] /\ writeEvents'[b] = r
      /\ \A c \in Boards \ {b} : writeEvents'[c] = writeEvents[c]
  BY <1>3, <1>4 DEF Agreement, RegistryNumbered
<1>10. messageType' \in [Boards -> [Messages -> Nat]]
       /\ \A c \in Boards, m \in Messages : messageType'[c][m] \in {0, NumberOf(m)}
  BY <1>1, <1>5 DEF Agreement, RegistryNumbered
<1>11. \A c \in Boards : \A i \in 1 .. Len(writeEvents'[c]) : i = NumberOf(writeEvents'[c][i])
  BY <1>6, <1>9 DEF Agreement, RegistryNumbered
<1>12. \A c \in Boards \ init_failed' : Len(writeEvents'[c]) = RegisteredBy(step'[c])
  BY <1>7, <1>8, <1>9 DEF Agreement, RegistryNumbered
<1>13. QED
  BY <1>9, <1>10, <1>11, <1>12 DEF RegistryNumbered

LEMMA AdvancesElsewhere ==
    ASSUME Agreement, NEW b \in Boards, step[b] < MainLoop, Advance(b), UNCHANGED registry,
           b \in init_failed' \/ (b \notin init_failed /\ step[b] \notin 8 .. 10),
           init_failed \subseteq init_failed'
    PROVE  RegistryNumbered'
<1>1. /\ step[b] \in 1 .. 11
      /\ step'[b] = step[b] + 1
      /\ \A c \in Boards \ {b} : step'[c] = step[c]
  BY AdvanceKeeps, ModulesAre DEF Agreement, Progress
<1>2. step[b] \notin 8 .. 10 => RegisteredBy(step'[b]) = RegisteredBy(step[b])
  BY <1>1 DEF RegisteredBy
<1>3. \A c \in Boards \ init_failed' : Len(writeEvents'[c]) = RegisteredBy(step'[c])
  BY <1>1, <1>2 DEF Agreement, RegistryNumbered, registry
<1>4. QED
  BY <1>3 DEF Agreement, RegistryNumbered, registry

LEMMA InitializeKeeps ==
    ASSUME Agreement, NEW b \in Boards, NEW name \in ModuleNames,
           Initializing(b, name), Succeed(b, name) \/ Fail(b)
    PROVE  /\ Progress' /\ Advance(b) /\ step[b] \in 1 .. 11 /\ step[b] < MainLoop
           /\ Modules[step[b]] = name
           /\ b \notin init_failed /\ init_failed \subseteq init_failed'
<1>1. Advance(b) /\ step[b] < MainLoop /\ b \notin init_failed
  BY DEF Succeed, Fail, Initializing
<1>2. step' \in [Boards -> 1 .. MainLoop]
  BY <1>1, AdvanceKeeps DEF Agreement, Progress
<1>3. step[b] \in 1 .. 11 /\ Modules[step[b]] = name
  BY <1>1, ModulesAre DEF Agreement, Progress, Initializing
<1>4. /\ init_failed' \in SUBSET Boards /\ init_failed \subseteq init_failed'
      /\ done' \in [Boards -> SUBSET ModuleNames]
  BY DEF Succeed, Fail, Agreement, Progress
<1>5. QED
  BY <1>1, <1>2, <1>3, <1>4 DEF Progress

LEMMA OthersKeep ==
    ASSUME Agreement, UNCHANGED <<step, init_failed, done, registry>>
    PROVE  Progress' /\ RegistryNumbered'
BY DEF Agreement, Progress, RegistryNumbered, registry

LEMMA HeadEvent ==
    ASSUME Agreement, NEW b \in Boards, events[b] # <<>>
    PROVE  /\ Head(events[b]) \in NumberedEvent
           /\ Tail(events[b]) \in Seq(NumberedEvent)
BY HeadTail DEF Agreement, EventsNumbered

\* One step of Boot keeps the numbers.
LEMMA AgreementInductive == Agreement /\ [Next]_vars => Agreement'
<1> SUFFICES ASSUME Agreement, [Next]_vars
             PROVE  Agreement'
  OBVIOUS
<1>1. ASSUME NEW b \in Boards, skip_module(b)
      PROVE  Agreement'
  <2>1. /\ step[b] < MainLoop /\ Advance(b) /\ b \in init_failed
        /\ UNCHANGED <<init_failed, done, radio, registry, ticking, events, unknown>>
    BY <1>1 DEF skip_module
  <2>2. RegistryNumbered'
    BY <2>1, AdvancesElsewhere
  <2>3. Progress'
    BY <2>1, AdvanceKeeps DEF Agreement, Progress
  <2>4. QED
    BY <2>1, <2>2, <2>3 DEF Agreement, OnAir, EventsNumbered, radio
<1>2. ASSUME NEW b \in Boards, silent_initialize(b)
      PROVE  Agreement'
  <2>1. PICK name \in ModuleNames \ Messages :
            Initializing(b, name) /\ (Succeed(b, name) \/ Fail(b))
    BY <1>2, NamesAre DEF Messages, silent_initialize, softdevice_initialize, gatt_initialize,
         blinky_initialize, timer_initialize, terminal_initialize, command_initialize,
         connections_initialize
  <2>2. UNCHANGED <<radio, registry, ticking, events, unknown>>
    BY <1>2 DEF silent_initialize
  <2>3. step[b] \notin 8 .. 10
    BY <2>1, InitializeKeeps, ModulesAre DEF Messages
  <2>4. Progress' /\ RegistryNumbered'
    BY <2>1, <2>2, <2>3, InitializeKeeps, AdvancesElsewhere
  <2>5. QED
    BY <2>2, <2>4 DEF Agreement, OnAir, EventsNumbered, radio
<1>3. ASSUME NEW b \in Boards, gap_initialize(b)
      PROVE  Agreement'
  <2>1. Initializing(b, "GAP") /\ (Succeed(b, "GAP") \/ Fail(b))
    BY <1>3 DEF gap_initialize
  <2>2. UNCHANGED <<registry, ticking, links, events, unknown>>
    BY <1>3 DEF gap_initialize
  <2>3. step[b] \notin 8 .. 10 /\ "GAP" \in ModuleNames
    BY <2>1, InitializeKeeps, ModulesAre, NamesAre
  <2>4. Progress' /\ RegistryNumbered'
    BY <2>1, <2>2, <2>3, InitializeKeeps, AdvancesElsewhere
  <2>5. OnAir'
    BY <1>3, <2>2 DEF gap_initialize, Agreement, OnAir
  <2>6. QED
    BY <2>2, <2>4, <2>5 DEF Agreement, EventsNumbered
<1>4. ASSUME NEW b \in Boards, \/ broadcast_message_initialize(b)
                               \/ handshake_message_initialize(b)
                               \/ heartbeat_message_initialize(b)
      PROVE  Agreement'
  <2>1. PICK message \in Messages :
            /\ Initializing(b, message) /\ (Succeed(b, message) \/ Fail(b))
            /\ register_message_type(b, message)
    BY <1>4 DEF broadcast_message_initialize, handshake_message_initialize,
          heartbeat_message_initialize, Messages
  <2>2. UNCHANGED <<radio, events, unknown>> /\ ticking' \subseteq ticking \union {b}
    BY <1>4 DEF broadcast_message_initialize, handshake_message_initialize,
          heartbeat_message_initialize
  <2>3. /\ Progress' /\ Advance(b) /\ step[b] \in 1 .. 11 /\ Modules[step[b]] = message
        /\ b \notin init_failed /\ init_failed \subseteq init_failed'
    BY <2>1, InitializeKeeps, NamesAre DEF Messages
  <2>4. step[b] = NumberOf(message) + 7
    BY <2>3, ModulesAre DEF Messages, NumberOf
  <2>5. RegistryNumbered'
    BY <2>1, <2>3, <2>4, RegistersNext
  <2>6. QED
    BY <2>2, <2>3, <2>5 DEF Agreement, OnAir, EventsNumbered, radio
<1>5. ASSUME NEW c \in Boards, NEW p \in Boards, connect_to_peer(c, p)
      PROVE  Agreement'
  <2> DEFINE atC == [type |-> "CONNECTED", peer |-> p, role |-> "central"]
             atP == [type |-> "CONNECTED", peer |-> c, role |-> "periph"]
  <2>1. atC \in NumberedEvent /\ atP \in NumberedEvent
    BY DEF NumberedEvent, Event
  <2>2. events' = [events EXCEPT ![c] = Append(@, atC), ![p] = Append(@, atP)]
    BY <1>5 DEF connect_to_peer
  <2> HIDE DEF atC, atP
  <2>3. \A q \in Seq(NumberedEvent) : Append(q, atC) \in Seq(NumberedEvent)
                                    /\ Append(q, atP) \in Seq(NumberedEvent)
    BY <2>1, Appended
  <2>4. EventsNumbered'
    BY <2>2, <2>3 DEF Agreement, EventsNumbered
  <2>5. UNCHANGED <<step, init_failed, done, advData, registry, ticking, unknown>>
        /\ links' = links \union {<<c, p>>}
        /\ scanning' \subseteq scanning /\ advertising' \subseteq advertising
    BY <1>5 DEF connect_to_peer
  <2>6. QED
    BY <2>4, <2>5, OthersKeep DEF Agreement, OnAir
<1>6. ASSUME NEW b \in Boards, handle_connection_event(b)
      PROVE  Agreement'
  <2>1. events[b] # <<>>
    BY <1>6 DEF handle_connection_event, Handling
  <2>2. events' = Queues(b, {Head(events[b]).peer}, "handshake", messageType[b]["handshake"],
                         b, Tail(events[b]))
    BY <1>6 DEF handle_connection_event
  <2>3. EventsNumbered'
    BY <2>1, <2>2, HeadEvent, MessagesAre, QueuesNumbered
       DEF Agreement, EventsNumbered, Messages
  <2>4. QED
    BY <1>6, <2>3, OthersKeep DEF handle_connection_event, Agreement, OnAir
<1>7. ASSUME NEW b \in Boards, reject_connection_event(b)
      PROVE  Agreement'
  <2>1. events[b] # <<>> /\ events' = [events EXCEPT ![b] = Tail(@)]
    BY <1>7 DEF reject_connection_event, Handling
  <2>2. EventsNumbered'
    BY <2>1, HeadEvent DEF Agreement, EventsNumbered
  <2>3. QED
    BY <1>7, <2>2, OthersKeep DEF reject_connection_event, Agreement, OnAir
<1>8. ASSUME NEW b \in Boards, handle_write_event(b)
      PROVE  Agreement'
  <2> DEFINE e == Head(events[b])
  <2>1. events[b] # <<>> /\ e.type = "WRITE"
    BY <1>8 DEF handle_write_event, Handling
  <2>2. /\ e.message \in Messages /\ e.messageType \in {0, NumberOf(e.message)}
        /\ e.messageType \in Nat /\ e.from \in Boards
    BY <2>1, HeadEvent DEF NumberedEvent, Event
  <2>3. Tail(events[b]) \in Seq(NumberedEvent) /\ EventsNumbered
    BY <2>1, HeadEvent DEF Agreement
  <2>4. /\ UNCHANGED <<step, init_failed, done, radio, registry, ticking>>
        /\ \/ /\ \E targets : events' = Queues(b, targets, e.message, e.messageType, e.from,
                                              Tail(events[b]))
              /\ UNCHANGED unknown
           \/ /\ events' = [events EXCEPT ![b] = Tail(@)]
              /\ unknown' = unknown \union {<<b, e.from, e.messageType>>}
    BY <1>8 DEF handle_write_event
  <2> HIDE DEF e
  <2>5. EventsNumbered'
    <3>1. ASSUME NEW targets,
                 events' = Queues(b, targets, e.message, e.messageType, e.from, Tail(events[b]))
          PROVE  EventsNumbered'
      <4>1. Queues(b, targets, e.message, e.messageType, e.from, Tail(events[b]))
                \in [Boards -> Seq(NumberedEvent)]
        BY <2>2, <2>3, QueuesNumbered
      <4>2. QED
        BY <3>1, <4>1 DEF EventsNumbered
    <3>2. CASE events' = [events EXCEPT ![b] = Tail(@)]
      BY <2>3, <3>2 DEF EventsNumbered
    <3>3. QED
      BY <2>4, <3>1, <3>2
  <2>6. OnAir'
    BY <2>2, <2>4 DEF Agreement, OnAir, radio
  <2>7. QED
    BY <2>4, <2>5, <2>6, OthersKeep DEF Agreement
<1>9. ASSUME NEW b \in Boards, send_heartbeat_message(b) \/ send_broadcast_message(b)
      PROVE  Agreement'
  <2>1. PICK m \in Messages, targets \in SUBSET Boards : Send(b, targets, m)
    BY <1>9 DEF send_heartbeat_message, send_broadcast_message, Messages, Parents, Neighbours
  <2>2. EventsNumbered'
    <3>1. events[b] \in Seq(NumberedEvent)
      BY DEF Agreement, EventsNumbered
    <3>2. messageType[b][m] \in {0, NumberOf(m)} /\ EventsNumbered
      BY MessagesAre DEF Agreement
    <3>3. Queues(b, targets, m, messageType[b][m], b, events[b])
              \in [Boards -> Seq(NumberedEvent)]
      BY <3>1, <3>2, QueuesNumbered
    <3>4. QED
      BY <2>1, <3>3 DEF Send, EventsNumbered
  <2>3. UNCHANGED <<step, init_failed, done, radio, registry, ticking, unknown>>
    BY <1>9 DEF send_heartbeat_message, send_broadcast_message
  <2>4. QED
    BY <2>2, <2>3, OthersKeep DEF Agreement, OnAir, radio
<1>10. ASSUME NEW b \in Boards, check_advertising_status(b) \/ check_scanning_status(b)
       PROVE  Agreement'
  <2>1. /\ UNCHANGED <<step, init_failed, done, registry, advData, links, ticking, events, unknown>>
        /\ advertising' \subseteq advertising \union {b}
        /\ scanning' \subseteq scanning \union {b}
    BY <1>10 DEF check_advertising_status, check_scanning_status
  <2>2. QED
    BY <2>1, OthersKeep DEF Agreement, OnAir, EventsNumbered
<1>11. CASE UNCHANGED vars
  BY <1>11, OthersKeep DEF vars, radio, Agreement, OnAir, EventsNumbered
<1>12. QED
  BY <1>1, <1>2, <1>3, <1>4, <1>5, <1>6, <1>7, <1>8, <1>9, <1>10, <1>11
     DEF Next, init_module, run

LEMMA AgreementInitial == Init => Agreement
<1> SUFFICES ASSUME Init
             PROVE  Agreement
  OBVIOUS
<1>1. Progress /\ OnAir
  BY ModulesAre DEF Init, Progress, OnAir
<1>2. EventsNumbered
  BY Nothing DEF Init, EventsNumbered
<1>3. RegistryNumbered
  <2>1. writeEvents \in [Boards -> Seq(Messages)] /\ \A b \in Boards : Len(writeEvents[b]) = 0
    BY Nothing DEF Init
  <2>2. \A b \in Boards : step[b] = 1
    BY DEF Init
  <2>3. messageType = [b \in Boards |-> [m \in Messages |-> 0]]
    BY DEF Init
  <2>4. QED
    BY <2>1, <2>2, <2>3 DEF RegistryNumbered, RegisteredBy
<1>4. QED
  BY <1>1, <1>2, <1>3 DEF Agreement

\* The types of everything, however many boards there are.
THEOREM TypeCorrect == Spec => []TypeOK
BY AgreementInitial, AgreementInductive, AgreementTypes, PTL DEF Spec

\* No board takes a message for another one: register_message_type is called in the
\* same order on every board, and after a failure not at all.
THEOREM NumbersAgree == Spec => []TypesAgree
BY AgreementInitial, AgreementInductive, AgreementAgrees, PTL DEF Spec
--------------------------------------------------------------------------------
(* A type nobody knows comes from a board without GAP. *)

\* A board whose GAP initialised goes on to register every message: only the timer
\* of the last one and the LED can still fail.
RegistersAll ==
    \A b \in Boards : "GAP" \in done[b] =>
        /\ step[b] > 7
        /\ b \in init_failed => step[b] > 10
        /\ Len(writeEvents[b]) = RegisteredBy(step[b])
        /\ \A m \in Messages : NumberOf(m) <= Len(writeEvents[b]) => messageType[b][m] # 0

\* Boards that got to the main loop without GAP; no later step changes that.
Mute == {b \in Boards : step[b] = MainLoop /\ "GAP" \notin done[b]}

\* A message without a number was sent by such a board.
SpokenEvent ==
    {e \in NumberedEvent : e.type = "WRITE" /\ e.messageType = 0 => e.from \in Mute}

EventsSpoken == events \in [Boards -> Seq(SpokenEvent)]

UnknownExplained == \A u \in unknown : u[1] \in Mute \/ u[2] \in Mute

Reach == Agreement /\ RegistersAll /\ EventsSpoken /\ UnknownExplained

LEMMA AllRegistered == RegisteredBy(11) = 3 /\ RegisteredBy(12) = 3
BY DEF RegisteredBy

LEMMA ReachKnows == Reach => KnowsMessages
<1> SUFFICES ASSUME Reach, NEW u \in unknown, "GAP" \in done[u[1]]
             PROVE  "GAP" \notin done[u[2]]
  BY DEF KnowsMessages
<1> QED BY DEF Reach, UnknownExplained, Mute

\* What a board does in initialize() to its registry.
LEMMA RegistersOn ==
    ASSUME Reach, NEW b \in Boards, init_module(b)
    PROVE  RegistersAll' /\ step[b] < MainLoop /\ UNCHANGED <<events, unknown>>
           /\ \A c \in Boards \ {b} : step'[c] = step[c] /\ done'[c] = done[c]
<1> DEFINE Kept == /\ step[b] < MainLoop /\ Advance(b) /\ UNCHANGED <<events, unknown>>
                   /\ \A c \in Boards \ {b} :
                        /\ done'[c] = done[c] /\ (c \in init_failed' => c \in init_failed)
                        /\ writeEvents'[c] = writeEvents[c] /\ messageType'[c] = messageType[c]
           Fits == "GAP" \in done'[b] =>
                     /\ step[b] > 6
                     /\ b \in init_failed' => step[b] > 9
                     /\ Len(writeEvents'[b]) = RegisteredBy(step[b] + 1)
                     /\ \A m \in Messages :
                          NumberOf(m) <= Len(writeEvents'[b]) => messageType'[b][m] # 0
<1>1. ASSUME skip_module(b)
      PROVE  Kept /\ Fits
  <2>1. /\ step[b] < MainLoop /\ Advance(b) /\ b \in init_failed
        /\ UNCHANGED <<init_failed, done, writeEvents, messageType, events, unknown>>
    BY <1>1 DEF skip_module, registry
  <2>2. step[b] \in 1 .. 11
    BY <2>1, ModulesAre DEF Reach, Agreement, Progress
  <2>3. ASSUME "GAP" \in done[b]
        PROVE  /\ step[b] = 11 /\ Len(writeEvents[b]) = 3
               /\ \A m \in Messages : NumberOf(m) <= Len(writeEvents[b]) => messageType[b][m] # 0
    <3>1. step[b] = 11
      BY <2>1, <2>2, <2>3 DEF Reach, RegistersAll
    <3> QED BY <2>3, <3>1, AllRegistered DEF Reach, RegistersAll
  <2>4. "GAP" \in done[b] => RegisteredBy(step[b] + 1) = 3
    <3>1. 11 + 1 = 12
      OBVIOUS
    <3> QED BY <2>3, <3>1, AllRegistered
  <2>5. Fits
    <3>1. UNCHANGED <<init_failed, done, writeEvents, messageType>>
      BY <2>1
    <3>2. 11 > 9 /\ 11 > 6
      OBVIOUS
    <3> QED BY <2>3, <2>4, <3>1, <3>2
  <2> HIDE DEF Fits
  <2> QED BY <2>1, <2>5
<1>2. ASSUME silent_initialize(b)
      PROVE  Kept /\ Fits
  <2>1. PICK name \in ModuleNames \ (Messages \union {"GAP"}) :
            Initializing(b, name) /\ (Succeed(b, name) \/ Fail(b))
    BY <1>2, NamesAre DEF Messages, silent_initialize, softdevice_initialize, gatt_initialize,
         blinky_initialize, timer_initialize, terminal_initialize, command_initialize,
         connections_initialize
  <2>2. UNCHANGED <<writeEvents, messageType, events, unknown>>
    BY <1>2 DEF silent_initialize, registry
  <2>3. step[b] \in 1 .. 11 /\ step[b] \notin 7 .. 10 /\ step[b] < MainLoop /\ Advance(b)
    BY <2>1, InitializeKeeps, ModulesAre DEF Reach, Messages
  <2>4. /\ "GAP" \in done'[b] => "GAP" \in done[b]
        /\ \A c \in Boards \ {b} :
              done'[c] = done[c] /\ (c \in init_failed' => c \in init_failed)
    BY <2>1 DEF Succeed, Fail, Reach, Agreement, Progress
  <2>5. ASSUME "GAP" \in done[b]
        PROVE  /\ step[b] = 11 /\ Len(writeEvents[b]) = 3
               /\ \A m \in Messages : NumberOf(m) <= Len(writeEvents[b]) => messageType[b][m] # 0
    <3>1. step[b] = 11
      BY <2>3, <2>5 DEF Reach, RegistersAll
    <3> QED BY <2>5, <3>1, AllRegistered DEF Reach, RegistersAll
  <2>6. "GAP" \in done[b] => RegisteredBy(step[b] + 1) = 3
    <3>1. 11 + 1 = 12
      OBVIOUS
    <3> QED BY <2>5, <3>1, AllRegistered
  <2>7. Fits
    <3>1. 11 > 9 /\ 11 > 6
      OBVIOUS
    <3> QED BY <2>2, <2>4, <2>5, <2>6, <3>1
  <2> QED BY <2>2, <2>3, <2>4, <2>7
<1>3. ASSUME gap_initialize(b)
      PROVE  Kept /\ Fits
  <2>1. Initializing(b, "GAP") /\ (Succeed(b, "GAP") \/ Fail(b))
    BY <1>3 DEF gap_initialize
  <2>2. UNCHANGED <<writeEvents, messageType, events, unknown>>
    BY <1>3 DEF gap_initialize, registry
  <2>3. step[b] = 7 /\ step[b] < MainLoop /\ Advance(b) /\ b \notin init_failed
    BY <2>1, InitializeKeeps, ModulesAre, NamesAre DEF Reach
  <2>4. "GAP" \notin done[b] /\ Len(writeEvents[b]) = 0
    BY <2>3 DEF Reach, RegistersAll, Agreement, RegistryNumbered, RegisteredBy
  <2>5. /\ "GAP" \in done'[b] => b \notin init_failed'
        /\ \A c \in Boards \ {b} :
              done'[c] = done[c] /\ (c \in init_failed' => c \in init_failed)
    BY <2>1, <2>3, <2>4 DEF Succeed, Fail, Reach, Agreement, Progress
  <2>6. \A m \in Messages : ~(NumberOf(m) <= 0)
    BY DEF NumberOf
  <2> QED BY <2>2, <2>3, <2>4, <2>5, <2>6 DEF RegisteredBy
<1>4. ASSUME \/ broadcast_message_initialize(b)
             \/ handshake_message_initialize(b)
             \/ heartbeat_message_initialize(b)
      PROVE  Kept /\ Fits
  <2>1. PICK message \in Messages :
            /\ Initializing(b, message)
            /\ Succeed(b, message) \/ (Fail(b) /\ message = "heartbeat")
            /\ register_message_type(b, message)
            /\ UNCHANGED <<events, unknown>>
    BY <1>4 DEF broadcast_message_initialize, handshake_message_initialize,
          heartbeat_message_initialize, Messages
  <2>2. /\ Advance(b) /\ step[b] \in 1 .. 11 /\ step[b] < MainLoop /\ Modules[step[b]] = message
        /\ b \notin init_failed
    BY <2>1, InitializeKeeps, NamesAre DEF Reach, Messages
  <2>3. step[b] = NumberOf(message) + 7 /\ (message = "heartbeat" => step[b] = 10)
    BY <2>2, ModulesAre DEF Messages, NumberOf
  <2>4. /\ b \in init_failed' => message = "heartbeat"
        /\ "GAP" \in done'[b] => "GAP" \in done[b]
        /\ \A c \in Boards \ {b} :
              done'[c] = done[c] /\ (c \in init_failed' => c \in init_failed)
    BY <2>1, <2>2 DEF Succeed, Fail, Reach, Agreement, Progress, Messages
  <2>5. /\ writeEvents[b] \in Seq(Messages) /\ Len(writeEvents[b]) = NumberOf(message) - 1
        /\ NumberOf(message) \in 1 .. 3
    <3>1. NumberOf(message) \in 1 .. 3
      BY DEF NumberOf
    <3>2. RegisteredBy(step[b]) = NumberOf(message) - 1
      BY <2>3, <3>1 DEF RegisteredBy
    <3> QED BY <2>2, <3>1, <3>2 DEF Reach, Agreement, RegistryNumbered
  <2>6. /\ Len(writeEvents'[b]) = NumberOf(message)
        /\ \A c \in Boards \ {b} :
              writeEvents'[c] = writeEvents[c] /\ messageType'[c] = messageType[c]
        /\ messageType'[b][message] = NumberOf(message)
        /\ \A m \in Messages \ {message} : messageType'[b][m] = messageType[b][m]
    <3>1. /\ writeEvents' = [writeEvents EXCEPT ![b] = Append(@, message)]
          /\ messageType' = [messageType EXCEPT ![b][message] = NumberOf(message)]
      <4>1. Len(writeEvents[b]) + 1 = NumberOf(message)
        BY <2>5
      <4> QED BY <2>1, <4>1 DEF register_message_type
    <3>2. Len(Append(writeEvents[b], message)) = NumberOf(message)
      BY <2>5, Appended
    <3> QED BY <3>1, <3>2 DEF Reach, Agreement, RegistryNumbered
  <2>7. NumberOf(message) = RegisteredBy(step[b] + 1)
    BY <2>3, <2>5 DEF RegisteredBy
  <2>8. \A m \in Messages \ {message} :
            NumberOf(m) <= NumberOf(message) => NumberOf(m) <= Len(writeEvents[b])
    BY <2>5 DEF NumberOf, Messages
  <2>9. "GAP" \in done[b] => step[b] > 6
             /\ \A m \in Messages : NumberOf(m) <= Len(writeEvents[b]) => messageType[b][m] # 0
    BY <2>3, <2>5 DEF Reach, RegistersAll
  <2>10. Fits
    BY <2>3, <2>4, <2>5, <2>6, <2>7, <2>8, <2>9
  <2> QED BY <2>1, <2>2, <2>4, <2>6, <2>10
<1>5. Kept /\ Fits
  BY <1>1, <1>2, <1>3, <1>4 DEF init_module
<1>6. /\ step'[b] = step[b] + 1 /\ step[b] \in 1 .. 11
      /\ \A c \in Boards \ {b} : step'[c] = step[c]
  BY <1>5, AdvanceKeeps, ModulesAre DEF Reach, Agreement, Progress
<1>7. RegistersAll'
  <2> SUFFICES ASSUME NEW c \in Boards, "GAP" \in done'[c]
               PROVE  /\ step'[c] > 7
                      /\ c \in init_failed' => step'[c] > 10
                      /\ Len(writeEvents'[c]) = RegisteredBy(step'[c])
                      /\ \A m \in Messages :
                            NumberOf(m) <= Len(writeEvents'[c]) => messageType'[c][m] # 0
    BY DEF RegistersAll
  <2>1. CASE c = b
    BY <1>5, <1>6, <2>1
  <2>2. CASE c # b
    BY <1>5, <1>6, <2>2 DEF Reach, RegistersAll
  <2> QED BY <2>1, <2>2
<1> QED BY <1>5, <1>6, <1>7

\* Once in the main loop a board initialises nothing, so the mute remain mute.
LEMMA MuteStays ==
    ASSUME Reach, [Next]_vars
    PROVE  Mute \subseteq Mute' /\ RegistersAll'
<1>1. ASSUME NEW b \in Boards, init_module(b)
      PROVE  Mute \subseteq Mute' /\ RegistersAll'
  <2>1. \A c \in Mute : c # b
    BY <1>1, RegistersOn, ModulesAre DEF Mute
  <2> QED BY <1>1, <2>1, RegistersOn DEF Mute
<1>2. CASE UNCHANGED <<step, init_failed, done, registry>>
  BY <1>2 DEF Mute, Reach, RegistersAll, registry
<1>3. ASSUME NEW b \in Boards, run(b)
      PROVE  UNCHANGED <<step, init_failed, done, registry>>
  BY <1>3 DEF run, handle_connection_event, reject_connection_event, handle_write_event,
        send_heartbeat_message, check_advertising_status, check_scanning_status,
        send_broadcast_message
<1>4. ASSUME NEW c \in Boards, NEW p \in Boards, connect_to_peer(c, p)
      PROVE  UNCHANGED <<step, init_failed, done, registry>>
  BY <1>4 DEF connect_to_peer
<1> QED BY <1>1, <1>2, <1>3, <1>4 DEF Next, vars

\* A message that may be sent from here: it has a number or its sender is mute.
LEMMA QueuesSpoken ==
    ASSUME NEW S, events \in [Boards -> Seq(S)], NEW b \in Boards, NEW targets, NEW message,
           NEW type, NEW sender, NEW rest \in Seq(S),
           [type |-> "WRITE", peer |-> b, from |-> sender, messageType |-> type,
            message |-> message] \in S
    PROVE  Queues(b, targets, message, type, sender, rest) \in [Boards -> Seq(S)]
<1> DEFINE e == [type |-> "WRITE", peer |-> b, from |-> sender,
                 messageType |-> type, message |-> message]
<1>1. \A p \in Boards : events[p] \in Seq(S) /\ Append(events[p], e) \in Seq(S)
  BY Appended
<1>2. Queues(b, targets, message, type, sender, rest) =
          [p \in Boards |->
              IF p = b THEN rest
              ELSE IF p \in targets \intersect Neighbours(b) /\ "GATT" \in done[b] \intersect done[p]
                   THEN Append(events[p], e) ELSE events[p]]
  BY DEF Queues
<1> HIDE DEF e
<1> QED BY <1>1, <1>2

\* A board of the main loop either knows its own types or is mute.
LEMMA KnowsOrMute ==
    ASSUME Reach, NEW b \in Boards, Looping(b)
    PROVE  b \in Mute \/ (Len(writeEvents[b]) = 3 /\ \A m \in Messages : messageType[b][m] # 0)
<1> SUFFICES ASSUME b \notin Mute
             PROVE  Len(writeEvents[b]) = 3 /\ \A m \in Messages : messageType[b][m] # 0
  OBVIOUS
<1>1. step[b] = 12 /\ "GAP" \in done[b]
  BY ModulesAre DEF Looping, Mute
<1>2. Len(writeEvents[b]) = 3
  BY <1>1, AllRegistered DEF Reach, RegistersAll
<1>3. \A m \in Messages : NumberOf(m) <= 3
  BY DEF NumberOf
<1> QED BY <1>1, <1>2, <1>3 DEF Reach, RegistersAll

LEMMA SpokenFrom ==
    ASSUME Reach, NEW b \in Boards, Looping(b), NEW m \in Messages
    PROVE  [type |-> "WRITE", peer |-> b, from |-> b, messageType |-> messageType[b][m],
            message |-> m] \in SpokenEvent
<1> DEFINE e == [type |-> "WRITE", peer |-> b, from |-> b, messageType |-> messageType[b][m],
                 message |-> m]
<1>1. messageType[b][m] \in {0, NumberOf(m)} /\ messageType[b][m] \in Nat
  BY MessagesAre DEF Reach
<1>2. e \in NumberedEvent
  BY <1>1 DEF NumberedEvent, Event
<1>3. messageType[b][m] = 0 => b \in Mute
  BY KnowsOrMute
<1> QED BY <1>2, <1>3 DEF SpokenEvent

LEMMA ReachHead ==
    ASSUME Reach, NEW b \in Boards, events[b] # <<>>
    PROVE  Head(events[b]) \in SpokenEvent /\ Tail(events[b]) \in Seq(SpokenEvent)
BY HeadTail DEF Reach, EventsSpoken

\* One step of Boot keeps it: what is queued has a number or comes from a mute
\* board, and the number of a message is known wherever all are registered.
LEMMA ReachInductive == Reach /\ [Next]_vars => Reach'
<1> SUFFICES ASSUME Reach, [Next]_vars
             PROVE  Reach'
  OBVIOUS
<1>1. Agreement' /\ RegistersAll' /\ Mute \subseteq Mute'
  BY AgreementInductive, MuteStays DEF Reach
<1>2. UnknownExplained /\ unknown' \subseteq unknown => UnknownExplained'
  BY <1>1 DEF UnknownExplained
<1>3. ASSUME events' \in [Boards -> Seq(SpokenEvent)]
      PROVE  EventsSpoken'
  <2>1. SpokenEvent \subseteq SpokenEvent'
    BY <1>1 DEF SpokenEvent, NumberedEvent
  <2>2. \A c \in Boards : events'[c] \in Seq(SpokenEvent')
    BY <1>3, <2>1, SubsetSeq
  <2> QED BY <1>3, <2>2 DEF EventsSpoken
<1>4. ASSUME UNCHANGED <<events, unknown>>
      PROVE  EventsSpoken' /\ UnknownExplained'
  BY <1>2, <1>3, <1>4 DEF Reach, EventsSpoken
<1>5. ASSUME NEW b \in Boards, init_module(b)
      PROVE  EventsSpoken' /\ UnknownExplained'
  BY <1>4, <1>5, RegistersOn
<1>6. ASSUME NEW c \in Boards, NEW p \in Boards, connect_to_peer(c, p)
      PROVE  EventsSpoken' /\ UnknownExplained'
  <2> DEFINE atC == [type |-> "CONNECTED", peer |-> p, role |-> "central"]
             atP == [type |-> "CONNECTED", peer |-> c, role |-> "periph"]
  <2>1. atC \in SpokenEvent /\ atP \in SpokenEvent
    BY DEF SpokenEvent, NumberedEvent, Event
  <2>2. /\ events' = [events EXCEPT ![c] = Append(@, atC), ![p] = Append(@, atP)]
        /\ UNCHANGED unknown
    BY <1>6 DEF connect_to_peer
  <2> HIDE DEF atC, atP
  <2>3. \A q \in Seq(SpokenEvent) : Append(q, atC) \in Seq(SpokenEvent)
                                  /\ Append(q, atP) \in Seq(SpokenEvent)
    BY <2>1, Appended
  <2>4. events' \in [Boards -> Seq(SpokenEvent)]
    BY <2>2, <2>3 DEF Reach, EventsSpoken
  <2> QED BY <1>2, <1>3, <2>2, <2>4 DEF Reach
<1>7. ASSUME NEW b \in Boards, handle_connection_event(b)
      PROVE  EventsSpoken' /\ UnknownExplained'
  <2>1. Looping(b) /\ events[b] # <<>> /\ UNCHANGED unknown
    BY <1>7 DEF handle_connection_event, Handling
  <2>2. events' = Queues(b, {Head(events[b]).peer}, "handshake", messageType[b]["handshake"],
                         b, Tail(events[b]))
    BY <1>7 DEF handle_connection_event
  <2>3. /\ "handshake" \in Messages /\ Tail(events[b]) \in Seq(SpokenEvent)
        /\ events \in [Boards -> Seq(SpokenEvent)]
    BY <2>1, ReachHead DEF Messages, Reach, EventsSpoken
  <2>4. events' \in [Boards -> Seq(SpokenEvent)]
    BY <2>1, <2>2, <2>3, SpokenFrom, QueuesSpoken
  <2> QED BY <1>2, <1>3, <2>1, <2>4 DEF Reach
<1>8. ASSUME NEW b \in Boards, reject_connection_event(b)
      PROVE  EventsSpoken' /\ UnknownExplained'
  <2>1. events[b] # <<>> /\ events' = [events EXCEPT ![b] = Tail(@)] /\ UNCHANGED unknown
    BY <1>8 DEF reject_connection_event, Handling
  <2>2. events' \in [Boards -> Seq(SpokenEvent)]
    BY <2>1, ReachHead DEF Reach, EventsSpoken
  <2> QED BY <1>2, <1>3, <2>1, <2>2 DEF Reach
<1>9. ASSUME NEW b \in Boards, handle_write_event(b)
      PROVE  EventsSpoken' /\ UnknownExplained'
  <2> DEFINE e == Head(events[b])
  <2>1. events[b] # <<>> /\ e.type = "WRITE" /\ Looping(b)
    BY <1>9 DEF handle_write_event, Handling
  <2>2. e \in SpokenEvent /\ Tail(events[b]) \in Seq(SpokenEvent)
    BY <2>1, ReachHead
  <2>3. /\ e.message \in Messages /\ e.messageType \in {0, NumberOf(e.message)}
        /\ e.from \in Boards /\ e.messageType \in Nat
        /\ e.messageType = 0 => e.from \in Mute
    BY <2>1, <2>2 DEF SpokenEvent, NumberedEvent, Event
  <2>4. /\ [type |-> "WRITE", peer |-> b, from |-> e.from, messageType |-> e.messageType,
            message |-> e.message] \in SpokenEvent
        /\ events \in [Boards -> Seq(SpokenEvent)]
    BY <2>3 DEF SpokenEvent, NumberedEvent, Event, Reach, EventsSpoken
  <2>5. \/ /\ \E targets : events' = Queues(b, targets, e.message, e.messageType, e.from,
                                            Tail(events[b]))
           /\ UNCHANGED unknown
        \/ /\ events' = [events EXCEPT ![b] = Tail(@)]
           /\ e.messageType \notin DOMAIN writeEvents[b]
           /\ unknown' = unknown \union {<<b, e.from, e.messageType>>}
    BY <1>9 DEF handle_write_event
  <2> HIDE DEF e
  <2>6. ASSUME NEW targets, UNCHANGED unknown,
               events' = Queues(b, targets, e.message, e.messageType, e.from, Tail(events[b]))
        PROVE  EventsSpoken' /\ UnknownExplained'
    <3>1. Queues(b, targets, e.message, e.messageType, e.from, Tail(events[b]))
              \in [Boards -> Seq(SpokenEvent)]
      BY <2>2, <2>4, QueuesSpoken
    <3> QED BY <1>2, <1>3, <2>6, <3>1 DEF Reach
  <2>7. ASSUME events' = [events EXCEPT ![b] = Tail(@)],
               e.messageType \notin DOMAIN writeEvents[b],
               unknown' = unknown \union {<<b, e.from, e.messageType>>}
        PROVE  EventsSpoken' /\ UnknownExplained'
    <3>1. events' \in [Boards -> Seq(SpokenEvent)]
      BY <2>2, <2>4, <2>7
    <3>2. DOMAIN writeEvents[b] = 1 .. Len(writeEvents[b])
      BY SeqDomain DEF Reach, Agreement, RegistryNumbered
    <3>3. NumberOf(e.message) \in 1 .. 3
      BY DEF NumberOf
    <3>4. b \in Mute \/ e.from \in Mute
      BY <2>1, <2>3, <2>7, <3>2, <3>3, KnowsOrMute
    <3>5. UnknownExplained'
      BY <1>1, <2>7, <3>4 DEF Reach, UnknownExplained
    <3> QED BY <1>3, <3>1, <3>5
  <2> QED BY <2>5, <2>6, <2>7
<1>10. ASSUME NEW b \in Boards, send_heartbeat_message(b) \/ send_broadcast_message(b)
       PROVE  EventsSpoken' /\ UnknownExplained'
  <2>1. PICK m \in Messages, targets \in SUBSET Boards : Send(b, targets, m)
    BY <1>10 DEF send_heartbeat_message, send_broadcast_message, Messages, Parents, Neighbours
  <2>2. Looping(b) /\ UNCHANGED unknown
    BY <1>10 DEF send_heartbeat_message, send_broadcast_message
  <2>3. events \in [Boards -> Seq(SpokenEvent)] /\ events[b] \in Seq(SpokenEvent)
    BY DEF Reach, EventsSpoken
  <2>4. Queues(b, targets, m, messageType[b][m], b, events[b]) \in [Boards -> Seq(SpokenEvent)]
    BY <2>2, <2>3, SpokenFrom, QueuesSpoken
  <2> QED BY <1>2, <1>3, <2>1, <2>2, <2>4 DEF Reach, Send
<1>11. ASSUME NEW b \in Boards, check_advertising_status(b) \/ check_scanning_status(b)
       PROVE  UNCHANGED <<events, unknown>>
  BY <1>11 DEF check_advertising_status, check_scanning_status
<1>12. CASE UNCHANGED vars
  BY <1>1, <1>4, <1>12 DEF vars, Reach
<1>13. ASSUME Next PROVE EventsSpoken' /\ UnknownExplained'
  BY <1>4, <1>5, <1>6, <1>7, <1>8, <1>9, <1>10, <1>11, <1>13 DEF Next, run
<1> QED BY <1>1, <1>12, <1>13 DEF Reach

LEMMA ReachInitial == Init => Reach
<1> SUFFICES ASSUME Init
             PROVE  Reach
  OBVIOUS
<1>1. RegistersAll /\ UnknownExplained
  BY DEF Init, RegistersAll, UnknownExplained
<1>2. EventsSpoken
  BY Nothing DEF Init, EventsSpoken
<1> QED BY <1>1, <1>2, AgreementInitial DEF Reach

\* No board on the air misses a message that arrived while it still booted: its
\* events wait for the main loop (softdevice.c: ble_evt_dispatch) and nothing that
\* main.c initialises after GAP fails before the last type is registered.
THEOREM MessagesKnown == Spec => []KnowsMessages
BY ReachInitial, ReachInductive, ReachKnows, PTL DEF Spec
================================================================================
