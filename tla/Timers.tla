--------------------------------- MODULE Timers ---------------------------------
(***************************************************************************)
(* What drives a board when nobody talks to it: the two repeated timers    *)
(* (src/system/timer.c) of the heartbeat and of the blinking LED           *)
(* (src/app/blinky_app.c), the scheduler queue their expirations go        *)
(* through twice, and the main loop, which sleeps between interrupts and   *)
(* reads the terminal once each time it wakes.                             *)
(*                                                                         *)
(* A timer expires at any time, but at most MaxLate times in one turn of   *)
(* the main loop: the periods are 200 and 3000 ms.  Other entries of the   *)
(* scheduler queue are Device's; here they only take up room.              *)
(***************************************************************************)
EXTENDS Integers, Sequences

CONSTANTS SCHED_QUEUE_SIZE,   \* 50 in inc/main.h
          MaxEvents,          \* bound: events of the softdevice
          MaxLate             \* bound: expirations of a timer in one turn

ASSUME TimersAssumption ==
    /\ MaxEvents \in Nat
    /\ MaxLate \in Nat \ {0}
    /\ SCHED_QUEUE_SIZE \in Nat \ {0}
    \* What two turns leave of the two timers does not fill the queue.
    /\ SCHED_QUEUE_SIZE > 4 * MaxLate

VARIABLES timers,      \* app_timer's state of each timer
          sched,       \* the scheduler queue; its head is executing
          loop,        \* where main() is
          init_failed,
          woken,       \* an interrupt came since the last sd_app_evt_wait
          key,         \* a key waits to be read; no interrupt says so
          LED_IS_ON,
          outputs,     \* the pins configured as outputs
          high,        \* the pins that are high
          beat,        \* history: toggles with each heartbeat sent
          events,      \* events raised so far
          expired      \* expirations of each timer in this turn

led == <<LED_IS_ON, outputs, high>>
vars == <<timers, sched, loop, init_failed, woken, key, led, beat, events, expired>>

\* The board (config/pca10028.h): the pins of its LEDs, which are lit when low.
LEDS_MASK == 21 .. 24
LEDS_INV_MASK == LEDS_MASK
BSP_LED_0 == 21
LED_TO_BLINK == BSP_LED_0

Lit(led_pin) == led_pin \in outputs /\ (led_pin \in high) # (led_pin \in LEDS_INV_MASK)

Timer == {"heartbeat", "blinky"}
Entry == [handler : {"generic", "callback"}, timer : Timer] \union [handler : {"event"}]
Stages == {"heartbeat", "blinky", "terminal", "scheduler", "wait", "halted"}

TypeOK ==
    /\ timers \in [Timer -> [mode : {"none", "repeated", "single"}, running : BOOLEAN]]
    /\ sched \in Seq(Entry) /\ Len(sched) <= SCHED_QUEUE_SIZE
    /\ loop \in Stages
    /\ init_failed \in BOOLEAN /\ woken \in BOOLEAN /\ key \in BOOLEAN
    /\ LED_IS_ON \in BOOLEAN /\ beat \in BOOLEAN
    /\ outputs \subseteq LEDS_MASK /\ high \subseteq LEDS_MASK
    /\ events \in 0 .. MaxEvents
    /\ expired \in [Timer -> 0 .. MaxLate]

\* An earlier module may have failed already.
Init ==
    /\ timers = [t \in Timer |-> [mode |-> "none", running |-> FALSE]]
    /\ sched = <<>>
    /\ loop = "heartbeat"
    /\ init_failed \in BOOLEAN
    /\ woken = FALSE /\ key = FALSE
    /\ LED_IS_ON = FALSE /\ beat = FALSE
    /\ outputs = {} /\ high = {}
    /\ events = 0
    /\ expired = [t \in Timer |-> 0]

--------------------------------------------------------------------------------
(* error.c: an error is logged, and the caller goes on where it was. *)

\* Slip: an error stops the board, as the SDK's own handler does.
app_error_fault_handler_halts(at) == "halted"

app_error_fault_handler(at) == at

\* app_sched_event_put from an interrupt.
Put(entry) ==
    /\ woken' = TRUE
    /\ IF Len(sched) < SCHED_QUEUE_SIZE
       THEN sched' = Append(sched, entry) /\ UNCHANGED loop
       ELSE loop' = app_error_fault_handler(loop) /\ UNCHANGED sched

--------------------------------------------------------------------------------
(* gpio.c. *)

sys_gpio_cfg_output(p) == outputs' = outputs \union {p}
sys_gpio_pin_set(p) == high' = high \union {p}
sys_gpio_pin_clear(p) == high' = high \ {p}

--------------------------------------------------------------------------------
(* main.c: the initialisation of the two modules that have timers. *)

\* Slip: the timer is made for one expiration only.
create_repeated_timer_once(t) == [timers EXCEPT ![t].mode = "single"]

create_repeated_timer(t) == [timers EXCEPT ![t].mode = "repeated"]

start_timer(created, t) == [created EXCEPT ![t].running = TRUE]

\* Creating the timer may fail, and so may starting it.
Started(t) ==
    /\ timers' \in {timers, create_repeated_timer(t), start_timer(create_repeated_timer(t), t)}
    /\ init_failed' = ~timers'[t].running

heartbeat_message_initialize ==
    /\ loop = "heartbeat" /\ ~init_failed
    /\ Started("heartbeat")
    /\ loop' = "blinky"
    /\ UNCHANGED <<sched, woken, key, led, beat, events, expired>>

blinky_initialize ==
    /\ loop = "blinky" /\ ~init_failed
    /\ sys_gpio_cfg_output(LED_TO_BLINK)
    /\ sys_gpio_pin_clear(LED_TO_BLINK)
    /\ Started("blinky")
    /\ loop' = "terminal"
    /\ UNCHANGED <<sched, woken, key, LED_IS_ON, beat, events, expired>>

skip_module ==
    /\ loop \in {"heartbeat", "blinky"} /\ init_failed
    /\ loop' = "terminal"
    /\ UNCHANGED <<timers, sched, init_failed, woken, key, led, beat, events, expired>>

--------------------------------------------------------------------------------
(* main.c: run(). *)

terminal_process_input ==
    /\ loop = "terminal"
    /\ key' = FALSE
    /\ loop' = "scheduler"
    /\ UNCHANGED <<timers, sched, init_failed, woken, led, beat, events, expired>>

Executing(handler) ==
    /\ loop = "scheduler"
    /\ sched # <<>> /\ Head(sched).handler = handler

\* The entry that executes still takes its place in the queue.
generic_timer_handler ==
    /\ Executing("generic")
    /\ IF Len(sched) < SCHED_QUEUE_SIZE
       THEN /\ sched' = Append(Tail(sched), [handler |-> "callback", timer |-> Head(sched).timer])
            /\ UNCHANGED loop
       ELSE sched' = Tail(sched) /\ loop' = app_error_fault_handler(loop)
    /\ UNCHANGED <<timers, init_failed, woken, key, led, beat, events, expired>>

send_heartbeat_message ==
    /\ Executing("callback") /\ Head(sched).timer = "heartbeat"
    /\ beat' = ~beat
    /\ sched' = Tail(sched)
    /\ UNCHANGED <<timers, loop, init_failed, woken, key, led, events, expired>>

\* Slip: the state is set, not toggled.
blinky_update_handler_sets ==
    /\ Executing("callback") /\ Head(sched).timer = "blinky"
    /\ LED_IS_ON' = TRUE
    /\ IF LED_IS_ON' THEN sys_gpio_pin_set(LED_TO_BLINK) ELSE sys_gpio_pin_clear(LED_TO_BLINK)
    /\ sched' = Tail(sched)
    /\ UNCHANGED <<timers, loop, init_failed, woken, key, outputs, beat, events, expired>>

blinky_update_handler ==
    /\ Executing("callback") /\ Head(sched).timer = "blinky"
    /\ LED_IS_ON' = ~LED_IS_ON
    /\ IF LED_IS_ON' THEN sys_gpio_pin_set(LED_TO_BLINK) ELSE sys_gpio_pin_clear(LED_TO_BLINK)
    /\ sched' = Tail(sched)
    /\ UNCHANGED <<timers, loop, init_failed, woken, key, outputs, beat, events, expired>>

handle_event ==
    /\ Executing("event")
    /\ sched' = Tail(sched)
    /\ UNCHANGED <<timers, loop, init_failed, woken, key, led, beat, events, expired>>

\* Slip: one entry is executed for each time the board wakes.
app_sched_execute_returns_early ==
    /\ loop = "scheduler"
    /\ loop' = "wait"
    /\ UNCHANGED <<timers, sched, init_failed, woken, key, led, beat, events, expired>>

app_sched_execute_returns ==
    /\ loop = "scheduler" /\ sched = <<>>
    /\ loop' = "wait"
    /\ UNCHANGED <<timers, sched, init_failed, woken, key, led, beat, events, expired>>

\* Returns at once if an interrupt came since it returned last.
sd_app_evt_wait ==
    /\ loop = "wait" /\ woken
    /\ woken' = FALSE
    /\ expired' = [t \in Timer |-> 0]
    /\ loop' = "terminal"
    /\ UNCHANGED <<timers, sched, init_failed, key, led, beat, events>>

main ==
    \/ heartbeat_message_initialize \/ blinky_initialize \/ skip_module
    \/ terminal_process_input
    \/ generic_timer_handler \/ send_heartbeat_message \/ blinky_update_handler
    \/ handle_event \/ app_sched_execute_returns
    \/ sd_app_evt_wait

--------------------------------------------------------------------------------
(* Interrupts, which come between any two steps of main(), and the user. *)

TimerExpires(t) ==
    /\ timers[t].running /\ expired[t] < MaxLate
    /\ expired' = [expired EXCEPT ![t] = expired[t] + 1]
    /\ timers' = [timers EXCEPT ![t].running = timers[t].mode = "repeated"]
    /\ Put([handler |-> "generic", timer |-> t])
    /\ UNCHANGED <<init_failed, key, led, beat, events>>

SoftdeviceEvent ==
    /\ events < MaxEvents
    /\ events' = events + 1
    /\ Put([handler |-> "event"])
    /\ UNCHANGED <<timers, init_failed, key, led, beat, expired>>

KeyTyped ==
    /\ ~key
    /\ key' = TRUE
    /\ UNCHANGED <<timers, sched, loop, init_failed, woken, led, beat, events, expired>>

Next == main \/ (\E t \in Timer : TimerExpires(t)) \/ SoftdeviceEvent \/ KeyTyped

\* The processor goes on, and a timer that was started expires.
Fairness == WF_vars(main) /\ \A t \in Timer : WF_vars(TimerExpires(t))

FairSpec == Init /\ [][Next]_vars /\ Fairness

--------------------------------------------------------------------------------
Ready == loop \notin {"heartbeat", "blinky"} /\ ~init_failed

\* The board never goes to sleep on work: when it waits while an entry is queued,
\* the interrupt that queued it will end the wait, also when it came between the
\* last look at the queue and the wait.
NeverSleepsOnWork == loop = "wait" /\ sched # <<>> => woken

\* On a board that came up the LED goes on and off for ever, also when the
\* scheduler queue was full and expirations of its timer were lost.
BlinksForever == [](Ready => <>Lit(LED_TO_BLINK) /\ <>~Lit(LED_TO_BLINK))

\* "heartbeat messages (continuously sent to the root of the mesh ...)"
\* (README.md): no burst of events ends them.
HeartbeatsGoOn == [](Ready => <>beat /\ <>~beat)

\* Whatever is typed is read.  Keys raise no interrupt: it is the timers that wake
\* the board for them.
KeysAreRead == Ready /\ key ~> ~key
================================================================================
