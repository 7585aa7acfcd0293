-------------------------------- MODULE Terminal --------------------------------
(***************************************************************************)
(* The line editor and the command table (src/terminal.c, src/command.c).  *)
(* The main loop reads at most one key per turn; the escape key starts a   *)
(* line, and the enter key, or a full buffer, ends it and runs a command.  *)
(*                                                                         *)
(* A word is the sequence of its characters.  The screen shows what the    *)
(* terminal, the commands and every other handler print on the one log     *)
(* (src/system/log.c); of their wording only who prints is kept.  Device   *)
(* models what adv, scan and bro do.                                       *)
(***************************************************************************)
EXTENDS Integers, Sequences, FiniteSets, SequencesExt

CONSTANTS TERMINAL_BUFFER_SIZE,  \* 48 in inc/terminal.h
          MAX_ARGUMENTS,         \* 8 in inc/terminal.h
          Letters,               \* the characters of words
          Space, Enter, Escape,  \* the other keys
          CommandNames,          \* the words of the command table but help
          NeedArgument,          \* those that read their first argument: bro
          Reporting,             \* those that log what they found: adv, scan, cons
          OtherEvents,           \* events of the softdevice that have no handler
          Garbage,               \* what following a pointer nobody set may run
          MaxLines               \* bound: lines on the screen since the prompt

Help == <<"help">>
Hang == <<"hang">>    \* a fault, whose handler never ends
None == <<"none">>
Keys == Letters \union {Space, Enter, Escape}
Colors == {"Default", "Black", "Red", "Green", "Yellow", "Blue", "Magenta", "Cyan", "White"}

ASSUME TerminalAssumption ==
    /\ TERMINAL_BUFFER_SIZE \in Nat \ {0}
    /\ MAX_ARGUMENTS \in Nat
    /\ CommandNames \subseteq Seq(Letters) \ {Help, Hang, None}
    /\ NeedArgument \subseteq CommandNames
    /\ Reporting \subseteq CommandNames
    /\ MaxLines \in Nat
    /\ Garbage \subseteq CommandNames \union {Help, Hang}

VARIABLES input_mode,     \* user_input_mode of system/log.c
          readBuffer,     \* the characters before readBufferIndex
          parsedCommand,  \* the words of the line executed last, else <<>>
          ran,            \* the command this turn ran, or Hang or None
          screen,         \* the lines since the prompt, and the colour of the next
          typed           \* history: the keys since the prompt

vars == <<input_mode, readBuffer, parsedCommand, ran, screen, typed>>

TypeOK ==
    /\ input_mode \in BOOLEAN
    /\ readBuffer \in Seq(Keys \ {Enter})
    /\ Len(readBuffer) < TERMINAL_BUFFER_SIZE    \* and a byte for the end mark
    /\ ran \in CommandNames \union {Help, Hang, None}
    /\ screen.ink \in Colors

Init ==
    /\ input_mode = FALSE
    /\ readBuffer = <<>>
    /\ parsedCommand = <<>>
    /\ ran = None
    /\ screen = [lines |-> <<>>, ink |-> "Default"]
    /\ typed = <<>>

--------------------------------------------------------------------------------
(* strtok: the maximal runs of characters other than a space. *)

Starts(line) ==
    {i \in 1 .. Len(line) : line[i] # Space /\ (i = 1 \/ line[i - 1] = Space)}

WordAt(line, i) ==
    CHOOSE w \in {SubSeq(line, i, j) : j \in i .. Len(line)} :
        /\ Space \notin Range(w)
        /\ i + Len(w) <= Len(line) => line[i + Len(w)] = Space

\* Where the k-th word starts: k - 1 words start before it.
StartOf(line, k) ==
    CHOOSE i \in Starts(line) : Cardinality({j \in Starts(line) : j < i}) = k - 1

find_arguments(line) ==
    [k \in 1 .. Min({Cardinality(Starts(line)), MAX_ARGUMENTS + 1}) |->
        WordAt(line, StartOf(line, k))]

\* The command a line of these words runs.  An empty line has no first word, and
\* bro on its own no argument: strcmp or strlen is given a pointer nobody set.
command_execute(words) ==
    CASE words = <<>> -> Garbage
      [] words # <<>> /\ words[1] \notin CommandNames -> {Help}
      [] words # <<>> /\ words[1] \in CommandNames ->
             {words[1]} \union IF words[1] \in NeedArgument /\ Len(words) = 1
                              THEN Garbage \intersect {Hang} ELSE {}

--------------------------------------------------------------------------------
(* Printing.  What the log of the SDK is configured to do (config/sdk_config.h) *)
(* decides whether a line gets to the terminal, which sits at the other end of  *)
(* the RTT, and in which colour.  The terminal keeps the colour it was told.    *)

Severity == [Off |-> 0, Error |-> 1, Warning |-> 2, Info |-> 3, Debug |-> 4]
NRF_LOG_DEFAULT_LEVEL == Severity.Info
NRF_LOG_DEFERRED == FALSE        \* nobody would call NRF_LOG_PROCESS
NRF_LOG_BACKEND_SERIAL_USES == [UART |-> FALSE, RTT |-> TRUE]

COLOR_CODE_DEFAULT == "ESC[0m"

NRF_LOG_COLOR(severity) ==
    IF severity = Severity.Error THEN "Red"
    ELSE IF severity = Severity.Warning THEN "Yellow" ELSE "Default"

NRF_LOG_ENABLED(severity) ==
    severity <= NRF_LOG_DEFAULT_LEVEL /\ ~NRF_LOG_DEFERRED /\ NRF_LOG_BACKEND_SERIAL_USES.RTT

Printed(on, text, color) ==
    [lines |-> Append(on.lines, [text |-> text, color |-> color]), ink |-> color]

\* With the severity and its colour in front of the text.
NRF_LOG(on, severity, text) ==
    IF NRF_LOG_ENABLED(severity) THEN Printed(on, text, NRF_LOG_COLOR(severity)) ELSE on

NRF_LOG_RAW_INFO(on, text) ==
    IF ~NRF_LOG_ENABLED(Severity.Info) THEN on
    ELSE IF text = COLOR_CODE_DEFAULT THEN [on EXCEPT !.ink = "Default"]
    ELSE Printed(on, text, on.ink)

terminal_putstring(on, text) == NRF_LOG_RAW_INFO(on, text)

\* Slip: the log does not ask for the mode.
MESH_LOG_always(on, text, typing) == NRF_LOG_RAW_INFO(on, text)

\* The log holds its tongue while a command is being typed.
MESH_LOG(on, text, typing) == IF typing THEN on ELSE NRF_LOG_RAW_INFO(on, text)

MESH_LOG_DEBUG(on, text, typing) == IF typing THEN on ELSE NRF_LOG(on, Severity.Debug, text)

\* Slip: the colour is not put back.
MESH_LOG_ERROR_red(on, text, typing) == IF typing THEN on ELSE NRF_LOG(on, Severity.Error, text)

MESH_LOG_ERROR(on, text, typing) ==
    IF typing THEN on
    ELSE MESH_LOG(NRF_LOG(on, Severity.Error, text), COLOR_CODE_DEFAULT, typing)

app_error_fault_handler(on, typing) == MESH_LOG_ERROR(on, "error", typing)

NamedEvents ==
   {"BLE_EVT_TX_COMPLETE", "BLE_EVT_USER_MEM_REQUEST", "BLE_EVT_USER_MEM_RELEASE",
    "BLE_GAP_EVT_CONNECTED", "BLE_GAP_EVT_DISCONNECTED", "BLE_GAP_EVT_CONN_PARAM_UPDATE",
    "BLE_GAP_EVT_SEC_PARAMS_REQUEST", "BLE_GAP_EVT_SEC_INFO_REQUEST",
    "BLE_GAP_EVT_PASSKEY_DISPLAY", "BLE_GAP_EVT_AUTH_KEY_REQUEST",
    "BLE_GAP_EVT_AUTH_STATUS", "BLE_GAP_EVT_CONN_SEC_UPDATE", "BLE_GAP_EVT_TIMEOUT",
    "BLE_GAP_EVT_RSSI_CHANGED", "BLE_GAP_EVT_ADV_REPORT", "BLE_GAP_EVT_SEC_REQUEST",
    "BLE_GAP_EVT_CONN_PARAM_UPDATE_REQUEST", "BLE_GATTC_EVT_PRIM_SRVC_DISC_RSP",
    "BLE_GATTC_EVT_REL_DISC_RSP", "BLE_GATTC_EVT_CHAR_DISC_RSP",
    "BLE_GATTC_EVT_DESC_DISC_RSP", "BLE_GATTC_EVT_CHAR_VAL_BY_UUID_READ_RSP",
    "BLE_GATTC_EVT_READ_RSP", "BLE_GATTC_EVT_CHAR_VALS_READ_RSP",
    "BLE_GATTC_EVT_WRITE_RSP", "BLE_GATTC_EVT_HVX", "BLE_GATTC_EVT_TIMEOUT",
    "BLE_GATTS_EVT_WRITE", "BLE_GATTS_EVT_RW_AUTHORIZE_REQUEST",
    "BLE_GATTS_EVT_SYS_ATTR_MISSING", "BLE_GATTS_EVT_HVC", "BLE_GATTS_EVT_SC_CONFIRM",
    "BLE_GATTS_EVT_TIMEOUT"}

getBleEventNameString(event) == IF event \in NamedEvents THEN event ELSE "Unknown Error"

\* What the other handlers log of their doings, and handle_gap_event of an event
\* it has no handler for.
Logged == {"event"} \union {getBleEventNameString(event) : event \in OtherEvents}

\* print_help talks to the terminal, the other commands log; bro has something
\* to say only if its text is too long, or a peer whose queue is full cannot be
\* disconnected.
Answer(command, typing) ==
    IF command = Help THEN {terminal_putstring(screen, "help")}
    ELSE IF command \in Reporting THEN {MESH_LOG(screen, "report", typing)}
    ELSE {screen, MESH_LOG(screen, "too long", typing), app_error_fault_handler(screen, typing)}

--------------------------------------------------------------------------------
(* terminal_process_input, by the key it reads. *)

Running == ran # Hang

ends_line(key) == key = Enter \/ Len(readBuffer) >= TERMINAL_BUFFER_SIZE - 1

prompt ==
    /\ Running /\ ~input_mode
    /\ input_mode' = TRUE
    /\ screen' = terminal_putstring([screen EXCEPT !.lines = <<>>], "prompt")
    /\ typed' = <<>>
    /\ parsedCommand' = <<>>
    /\ ran' = None
    /\ UNCHANGED readBuffer

\* Slip: the test for a full buffer forgets the end mark.
append_char_to_buffer_full(key) ==
    /\ Running /\ input_mode
    /\ ~(key = Enter \/ Len(readBuffer) >= TERMINAL_BUFFER_SIZE)
    /\ readBuffer' = Append(readBuffer, key)
    /\ typed' = Append(typed, key)
    /\ UNCHANGED <<input_mode, parsedCommand, ran, screen>>

append_char_to_buffer(key) ==
    /\ Running /\ input_mode
    /\ ~ends_line(key)
    /\ readBuffer' = Append(readBuffer, key)
    /\ typed' = Append(typed, key)
    /\ UNCHANGED <<input_mode, parsedCommand, ran, screen>>

\* Slip: the buffer is not reset.
terminal_execute_command_keeps(key) ==
    /\ Running /\ input_mode
    /\ ends_line(key)
    /\ input_mode' = FALSE
    /\ parsedCommand' = find_arguments(readBuffer)
    /\ ran' \in command_execute(parsedCommand')
    /\ screen' \in Answer(ran', input_mode')
    /\ UNCHANGED <<readBuffer, typed>>

\* Slip: the mode is switched off when the command is done.
terminal_execute_command_late(key) ==
    /\ Running /\ input_mode
    /\ ends_line(key)
    /\ input_mode' = FALSE
    /\ parsedCommand' = find_arguments(readBuffer)
    /\ ran' \in command_execute(parsedCommand')
    /\ screen' \in Answer(ran', input_mode)
    /\ readBuffer' = IF ran' = Hang THEN readBuffer ELSE <<>>
    /\ UNCHANGED typed

\* The key that finds the buffer full is dropped; a board that hangs never
\* resets the buffer.
terminal_execute_command(key) ==
    /\ Running /\ input_mode
    /\ ends_line(key)
    /\ input_mode' = FALSE
    /\ parsedCommand' = find_arguments(readBuffer)
    /\ ran' \in command_execute(parsedCommand')
    /\ screen' \in Answer(ran', input_mode')
    /\ readBuffer' = IF ran' = Hang THEN readBuffer ELSE <<>>
    /\ UNCHANGED typed

terminal_process_input(key) ==
    \/ key = Escape /\ prompt
    \/ append_char_to_buffer(key)
    \/ terminal_execute_command(key)

\* Between two keys any other handler may have something to say.
OtherHandler ==
    /\ Running /\ Len(screen.lines) < MaxLines
    /\ \/ \E text \in Logged : screen' = MESH_LOG(screen, text, input_mode)
       \/ screen' = MESH_LOG_DEBUG(screen, "detail", input_mode)
       \/ screen' = app_error_fault_handler(screen, input_mode)
    /\ UNCHANGED <<input_mode, readBuffer, parsedCommand, ran, typed>>

Next == OtherHandler \/ \E key \in Keys : terminal_process_input(key)

Spec == Init /\ [][Next]_vars

--------------------------------------------------------------------------------
\* The line is what was typed since the prompt, and nothing of an earlier line
\* is left in the buffer when the next one starts.
LineIsTyped ==
    Running => readBuffer = IF input_mode THEN typed ELSE <<>>

\* What ran is what the first word typed asks for, also when the line was cut
\* off by a full buffer; words beyond the limit are dropped, not merged.  (What
\* a line without a word runs is anybody's guess.)
RunsWhatWasTyped ==
    ran \in CommandNames /\ parsedCommand # <<>> =>
        \E i \in 1 .. Len(typed) :
            /\ SubSeq(typed, i, i + Len(ran) - 1) = ran
            /\ \A j \in 1 .. i - 1 : typed[j] = Space
            /\ i + Len(ran) <= Len(typed) => typed[i + Len(ran)] = Space

Plain(text) == [text |-> text, color |-> "Default"]

\* "ESC to pause into command mode": from the prompt to the end of the line
\* nothing is printed, whatever the other handlers do, and the prompt itself is
\* not in the colour of an error that came before.
PromptUndisturbed == input_mode => screen.lines = <<Plain("prompt")>>

\* Once the line has ended the command speaks first: its answer follows the
\* prompt and is not lost to the silence that the typing imposed.
AnswerFollowsPrompt ==
    ran \in Reporting \union {Help} =>
        /\ Len(screen.lines) > 1
        /\ screen.lines[2].text = IF ran = Help THEN "help" ELSE "report"

\* "log with no prefix" (system/log.h): most lines carry no colour of their own.
\* They are plain all the same: red is an error, and what follows it is not.
OnlyErrorsAreRed ==
    \A i \in DOMAIN screen.lines :
        screen.lines[i].color = IF screen.lines[i].text = "error" THEN "Red" ELSE "Default"
================================================================================
