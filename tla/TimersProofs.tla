---------------------------- MODULE TimersProofs ----------------------------
(***************************************************************************)
(* The processor never sleeps on an entry of the scheduler queue, whatever *)
(* interrupt comes between which steps of the main loop, for every size of *)
(* the queue and every number of expirations in a turn.                    *)
(***************************************************************************)
EXTENDS Timers, TLAPS

IInv == TypeOK /\ NeverSleepsOnWork

LEMMA EntryTail ==
    ASSUME NEW s \in Seq(Entry), s # <<>>
    PROVE  Tail(s) \in Seq(Entry) /\ Head(s) \in Entry /\ Len(Tail(s)) = Len(s) - 1
           /\ Len(s) \in Nat
  OBVIOUS

LEMMA EntryAppended ==
    ASSUME NEW s \in Seq(Entry), NEW e \in Entry
    PROVE  Append(s, e) \in Seq(Entry) /\ Len(Append(s, e)) = Len(s) + 1 /\ Len(s) \in Nat
  OBVIOUS

\* A queue with an entry that an interrupt put there belongs to a woken board.
LEMMA PutStep ==
    ASSUME IInv, NEW e \in Entry, Put(e)
    PROVE  /\ sched' \in Seq(Entry) /\ Len(sched') <= SCHED_QUEUE_SIZE
           /\ loop' = loop /\ woken' = TRUE
<1>1. sched \in Seq(Entry) /\ Len(sched) <= SCHED_QUEUE_SIZE /\ SCHED_QUEUE_SIZE \in Nat
  BY TimersAssumption DEF IInv, TypeOK
<1>2. Append(sched, e) \in Seq(Entry) /\ Len(Append(sched, e)) = Len(sched) + 1 /\ Len(sched) \in Nat
  BY <1>1, EntryAppended
<1> QED BY <1>1, <1>2 DEF Put, app_error_fault_handler

LEMMA InitializationStep ==
    ASSUME IInv, heartbeat_message_initialize \/ blinky_initialize \/ skip_module
    PROVE  IInv'
<1>1. /\ loop' \in {"blinky", "terminal"}
      /\ UNCHANGED <<sched, woken, key, LED_IS_ON, beat, events, expired>>
  BY DEF heartbeat_message_initialize, blinky_initialize, skip_module, led
<1>2. ASSUME NEW t \in Timer, Started(t)
      PROVE  /\ timers' \in [Timer -> [mode : {"none", "repeated", "single"}, running : BOOLEAN]]
             /\ init_failed' \in BOOLEAN
  <2>1. create_repeated_timer(t) \in [Timer -> [mode : {"none", "repeated", "single"}, running : BOOLEAN]]
    BY DEF IInv, TypeOK, create_repeated_timer
  <2>2. start_timer(create_repeated_timer(t), t)
            \in [Timer -> [mode : {"none", "repeated", "single"}, running : BOOLEAN]]
    BY <2>1 DEF start_timer
  <2>3. timers' \in [Timer -> [mode : {"none", "repeated", "single"}, running : BOOLEAN]]
    BY <1>2, <2>1, <2>2 DEF Started, IInv, TypeOK
  <2>4. init_failed' = ~timers'[t].running
    BY <1>2 DEF Started
  <2> QED BY <2>3, <2>4
<1>3. /\ timers' \in [Timer -> [mode : {"none", "repeated", "single"}, running : BOOLEAN]]
      /\ init_failed' \in BOOLEAN
  <2>1. CASE heartbeat_message_initialize
    BY <1>2, <2>1 DEF heartbeat_message_initialize, Timer
  <2>2. CASE blinky_initialize
    BY <1>2, <2>2 DEF blinky_initialize, Timer
  <2>3. CASE skip_module
    BY <2>3 DEF skip_module, IInv, TypeOK
  <2> QED BY <2>1, <2>2, <2>3
<1>4. outputs' \subseteq LEDS_MASK /\ high' \subseteq LEDS_MASK
  <2>1. LED_TO_BLINK \in LEDS_MASK
    BY DEF LED_TO_BLINK, BSP_LED_0, LEDS_MASK
  <2> QED BY <2>1 DEF heartbeat_message_initialize, blinky_initialize, skip_module, led,
                      sys_gpio_cfg_output, sys_gpio_pin_clear, IInv, TypeOK
<1> QED BY <1>1, <1>3, <1>4 DEF IInv, TypeOK, Stages, NeverSleepsOnWork

LEMMA MainLoopStep ==
    ASSUME IInv,
           \/ terminal_process_input \/ generic_timer_handler \/ send_heartbeat_message
           \/ blinky_update_handler \/ handle_event \/ app_sched_execute_returns
           \/ sd_app_evt_wait
    PROVE  IInv'
<1>1. CASE terminal_process_input
  BY <1>1 DEF terminal_process_input, IInv, TypeOK, Stages, NeverSleepsOnWork, led
<1>2. CASE app_sched_execute_returns
  BY <1>2 DEF app_sched_execute_returns, IInv, TypeOK, Stages, NeverSleepsOnWork, led
<1>3. CASE sd_app_evt_wait
  <2>1. [t \in Timer |-> 0] \in [Timer -> 0 .. MaxLate]
    BY TimersAssumption
  <2> QED BY <1>3, <2>1 DEF sd_app_evt_wait, IInv, TypeOK, Stages, NeverSleepsOnWork, led
<1>4. CASE generic_timer_handler \/ send_heartbeat_message \/ blinky_update_handler \/ handle_event
  <2>1. /\ sched \in Seq(Entry) /\ sched # <<>> /\ Len(sched) <= SCHED_QUEUE_SIZE
        /\ SCHED_QUEUE_SIZE \in Nat
    BY <1>4, TimersAssumption
       DEF generic_timer_handler, send_heartbeat_message, blinky_update_handler, handle_event,
           Executing, IInv, TypeOK
  <2>2. /\ Tail(sched) \in Seq(Entry) /\ Head(sched) \in Entry
        /\ Len(Tail(sched)) = Len(sched) - 1 /\ Len(sched) \in Nat
    BY <2>1, EntryTail
  <2>3. loop = "scheduler" /\ loop' = loop
    BY <1>4 DEF generic_timer_handler, send_heartbeat_message, blinky_update_handler, handle_event,
                Executing, app_error_fault_handler
  <2>4. sched' \in Seq(Entry) /\ Len(sched') <= SCHED_QUEUE_SIZE
    <3>1. CASE generic_timer_handler
      <4> DEFINE e == [handler |-> "callback", timer |-> Head(sched).timer]
      <4>1. e \in Entry
        BY <2>2, <3>1 DEF generic_timer_handler, Executing, Entry
      <4>2. sched' = Append(Tail(sched), e) \/ sched' = Tail(sched)
        BY <3>1 DEF generic_timer_handler
      <4> HIDE DEF e
      <4>3. Append(Tail(sched), e) \in Seq(Entry) /\ Len(Append(Tail(sched), e)) = Len(sched)
        BY <2>2, <4>1, EntryAppended
      <4> QED BY <2>1, <2>2, <4>2, <4>3
    <3>2. CASE send_heartbeat_message \/ blinky_update_handler \/ handle_event
      <4>1. sched' = Tail(sched)
        BY <3>2 DEF send_heartbeat_message, blinky_update_handler, handle_event
      <4> QED BY <2>1, <2>2, <4>1
    <3> QED BY <1>4, <3>1, <3>2
  <2>5. /\ UNCHANGED <<timers, init_failed, woken, key, outputs, events, expired>>
        /\ LED_IS_ON' = LED_IS_ON \/ LED_IS_ON' = ~LED_IS_ON
        /\ beat' = beat \/ beat' = ~beat
        /\ high' = high \/ high' = high \union {LED_TO_BLINK} \/ high' = high \ {LED_TO_BLINK}
    <3>1. CASE generic_timer_handler
      BY <3>1 DEF generic_timer_handler, led
    <3>2. CASE send_heartbeat_message
      BY <3>2 DEF send_heartbeat_message, led
    <3>3. CASE blinky_update_handler
      BY <3>3 DEF blinky_update_handler, sys_gpio_pin_set, sys_gpio_pin_clear
    <3>4. CASE handle_event
      BY <3>4 DEF handle_event, led
    <3> QED BY <1>4, <3>1, <3>2, <3>3, <3>4
  <2>6. LED_IS_ON' \in BOOLEAN /\ beat' \in BOOLEAN
    <3>1. LED_IS_ON \in BOOLEAN /\ beat \in BOOLEAN
      BY DEF IInv, TypeOK
    <3> QED BY <2>5, <3>1, Zenon
  <2>7. high' \subseteq LEDS_MASK
    <3>1. LED_TO_BLINK \in LEDS_MASK
      BY DEF LED_TO_BLINK, BSP_LED_0, LEDS_MASK
    <3>2. high \subseteq LEDS_MASK
      BY DEF IInv, TypeOK
    <3> QED BY <2>5, <3>1, <3>2
  <2> QED BY <2>3, <2>4, <2>5, <2>6, <2>7 DEF IInv, TypeOK, NeverSleepsOnWork
<1> QED BY <1>1, <1>2, <1>3, <1>4

LEMMA InterruptStep ==
    ASSUME IInv, (\E t \in Timer : TimerExpires(t)) \/ SoftdeviceEvent \/ KeyTyped
    PROVE  IInv'
<1>1. ASSUME NEW t \in Timer, TimerExpires(t) PROVE IInv'
  <2>1. [handler |-> "generic", timer |-> t] \in Entry
    BY DEF Entry
  <2>2. /\ sched' \in Seq(Entry) /\ Len(sched') <= SCHED_QUEUE_SIZE
        /\ loop' = loop /\ woken' = TRUE
    BY <1>1, <2>1, PutStep DEF TimerExpires
  <2>3. timers' \in [Timer -> [mode : {"none", "repeated", "single"}, running : BOOLEAN]]
    BY <1>1 DEF TimerExpires, IInv, TypeOK
  <2>4. expired[t] + 1 \in 0 .. MaxLate /\ expired' = [expired EXCEPT ![t] = expired[t] + 1]
    BY <1>1, TimersAssumption DEF TimerExpires, IInv, TypeOK
  <2>5. expired' \in [Timer -> 0 .. MaxLate]
    BY <2>4 DEF IInv, TypeOK
  <2>6. UNCHANGED <<init_failed, key, led, beat, events>>
    BY <1>1 DEF TimerExpires
  <2> QED BY <2>2, <2>3, <2>5, <2>6 DEF IInv, TypeOK, NeverSleepsOnWork, led
<1>2. CASE SoftdeviceEvent
  <2>1. [handler |-> "event"] \in Entry
    BY DEF Entry
  <2>2. /\ sched' \in Seq(Entry) /\ Len(sched') <= SCHED_QUEUE_SIZE
        /\ loop' = loop /\ woken' = TRUE
    BY <1>2, <2>1, PutStep DEF SoftdeviceEvent
  <2>3. events' \in 0 .. MaxEvents
    BY <1>2, TimersAssumption DEF SoftdeviceEvent, IInv, TypeOK
  <2> QED BY <1>2, <2>2, <2>3 DEF SoftdeviceEvent, IInv, TypeOK, NeverSleepsOnWork, led
<1>3. CASE KeyTyped
  BY <1>3 DEF KeyTyped, IInv, TypeOK, NeverSleepsOnWork, led
<1> QED BY <1>1, <1>2, <1>3

LEMMA IInvInit == Init => IInv
<1> SUFFICES ASSUME Init PROVE IInv
  OBVIOUS
<1>1. sched \in Seq(Entry) /\ Len(sched) <= SCHED_QUEUE_SIZE
  BY TimersAssumption DEF Init
<1>2. /\ timers \in [Timer -> [mode : {"none", "repeated", "single"}, running : BOOLEAN]]
      /\ expired \in [Timer -> 0 .. MaxLate] /\ events \in 0 .. MaxEvents
  BY TimersAssumption DEF Init
<1> QED BY <1>1, <1>2 DEF Init, IInv, TypeOK, Stages, NeverSleepsOnWork

LEMMA Invariant == FairSpec => []IInv
<1>1. IInv /\ [Next]_vars => IInv'
  <2> SUFFICES ASSUME IInv, [Next]_vars PROVE IInv'
    OBVIOUS
  <2>1. CASE UNCHANGED vars
    BY <2>1 DEF vars, led, IInv, TypeOK, NeverSleepsOnWork
  <2>2. CASE Next
    BY <2>2, InitializationStep, MainLoopStep, InterruptStep DEF Next, main
  <2> QED BY <2>1, <2>2
<1> QED BY <1>1, IInvInit, PTL DEF FairSpec

--------------------------------------------------------------------------------
(* The theorems. *)

\* Types of the timers, the scheduler queue and the LED, and the bound of the queue.
THEOREM TypeCorrect == FairSpec => []TypeOK
  BY Invariant, PTL DEF IInv

\* An entry that is queued between the last look at the queue and the sleep does
\* not wait for the next interrupt (main.c: run, timer.c).
THEOREM WorkWakes == FairSpec => []NeverSleepsOnWork
  BY Invariant, PTL DEF IInv
===============================================================================
