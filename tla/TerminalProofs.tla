----------------------------- MODULE TerminalProofs -----------------------------
(***************************************************************************)
(* Theorems about Terminal, for every buffer size, number of arguments,    *)
(* set of characters and command table, whatever garbage pointers lead to. *)
(***************************************************************************)
EXTENDS Terminal, WellFoundedInduction, FiniteSetTheorems, TLAPS

LEMMA Nothing ==
    ASSUME NEW S
    PROVE  <<>> \in Seq(S) /\ Len(<<>>) = 0
OBVIOUS

LEMMA Appended ==
    ASSUME NEW S, NEW q \in Seq(S), NEW e \in S
    PROVE  Append(q, e) \in Seq(S) /\ Len(Append(q, e)) = Len(q) + 1 /\ Len(q) \in Nat
OBVIOUS

LEMMA CommandKnown ==
    ASSUME NEW words, NEW c \in command_execute(words)
    PROVE  c \in CommandNames \union {Help, Hang}
<1>1. CASE words = <<>>
  BY <1>1, TerminalAssumption DEF command_execute, TerminalAssumption
<1>2. CASE words # <<>> /\ words[1] \notin CommandNames
  BY <1>2 DEF command_execute
<1>3. CASE words # <<>> /\ words[1] \in CommandNames
  <2>1. command_execute(words) =
            {words[1]} \union IF words[1] \in NeedArgument /\ Len(words) = 1
                              THEN Garbage \intersect {Hang} ELSE {}
    BY <1>3 DEF command_execute
  <2>2. QED
    BY <1>3, <2>1
<1>4. QED
  BY <1>1, <1>2, <1>3

\* No line takes over anything from the one before.
THEOREM LinesApart == Spec => []LineIsTyped
<1>1. Init => LineIsTyped
  BY DEF Init, LineIsTyped
<1>2. LineIsTyped /\ [Next]_vars => LineIsTyped'
  <2> SUFFICES ASSUME LineIsTyped, [Next]_vars
               PROVE  LineIsTyped'
    OBVIOUS
  <2>1. CASE prompt
    BY <2>1 DEF prompt, LineIsTyped
  <2>2. ASSUME NEW key \in Keys, append_char_to_buffer(key)
        PROVE  LineIsTyped'
    BY <2>2 DEF append_char_to_buffer, LineIsTyped, Running
  <2>3. ASSUME NEW key \in Keys, terminal_execute_command(key)
        PROVE  LineIsTyped'
    BY <2>3 DEF terminal_execute_command, LineIsTyped, Running
  <2>4. CASE OtherHandler
    BY <2>4 DEF OtherHandler, LineIsTyped, Running
  <2>5. CASE UNCHANGED vars
    BY <2>5 DEF vars, LineIsTyped, Running
  <2>6. QED
    BY <2>1, <2>2, <2>3, <2>4, <2>5 DEF Next, terminal_process_input
<1>3. QED
  BY <1>1, <1>2, PTL DEF Spec
--------------------------------------------------------------------------------
(* The screen.  A line is ended in the state that the prompt left, so what a   *)
(* command prints comes second.                                                *)

Texts == {"prompt", "help", "report", "too long", "error"} \union Logged
Shown(text) == [text |-> text, color |-> IF text = "error" THEN "Red" ELSE "Default"]
Lines == {Shown(text) : text \in Texts}
Screens == [lines : Seq(Lines), ink : {"Default"}]

\* On what a screen turns into when a text is printed.
Adds(on, text) == [lines |-> Append(on.lines, Shown(text)), ink |-> "Default"]

LEMMA Single ==
    ASSUME NEW S, NEW e \in S
    PROVE  Append(<<>>, e) = <<e>> /\ <<e>> \in Seq(S) /\ Len(<<e>>) = 1
OBVIOUS

LEMMA AppendedLater ==
    ASSUME NEW S, NEW q \in Seq(S), NEW e \in S
    PROVE  /\ Len(q) > 1 => Len(Append(q, e)) > 1 /\ Append(q, e)[2] = q[2]
           /\ Len(q) = 1 => Len(Append(q, e)) > 1 /\ Append(q, e)[2] = e
OBVIOUS

LEMMA Indexed ==
    ASSUME NEW S, NEW q \in Seq(S), NEW i \in DOMAIN q
    PROVE  q[i] \in S
OBVIOUS

LEMMA KnownTexts ==
    /\ {"prompt", "help", "report", "too long", "error"} \subseteq Texts
    /\ Logged \subseteq Texts
BY DEF Texts

\* No text is mistaken for the code that puts the colour back.
LEMMA TextsAreNoCode == \A text \in Texts : text # COLOR_CODE_DEFAULT
BY DEF Texts, Logged, getBleEventNameString, NamedEvents, COLOR_CODE_DEFAULT

LEMMA LoggedIsNoError == \A text \in Logged : text # "error"
BY DEF Logged, getBleEventNameString, NamedEvents

\* As it is configured, the log prints what it is given, and in the colour left.
LEMMA PrintsRaw ==
    ASSUME NEW on \in Screens, NEW text \in Texts, text # "error"
    PROVE  NRF_LOG_RAW_INFO(on, text) = Adds(on, text)
<1>1. NRF_LOG_ENABLED(Severity.Info)
  BY DEF NRF_LOG_ENABLED, NRF_LOG_DEFAULT_LEVEL, NRF_LOG_DEFERRED,
         NRF_LOG_BACKEND_SERIAL_USES, Severity
<1>2. NRF_LOG_RAW_INFO(on, text) = Printed(on, text, on.ink)
  BY <1>1, TextsAreNoCode DEF NRF_LOG_RAW_INFO
<1>3. on.ink = "Default"
  BY DEF Screens
<1>4. QED
  BY <1>2, <1>3 DEF Printed, Adds, Shown

\* An error is red and leaves no red behind.
LEMMA PrintsError ==
    ASSUME NEW on \in Screens, NEW typing \in BOOLEAN
    PROVE  app_error_fault_handler(on, typing) = IF typing THEN on ELSE Adds(on, "error")
<1>1. /\ NRF_LOG_ENABLED(Severity.Info)
      /\ NRF_LOG_ENABLED(Severity.Error)
      /\ NRF_LOG_COLOR(Severity.Error) = "Red"
  BY DEF NRF_LOG_ENABLED, NRF_LOG_DEFAULT_LEVEL, NRF_LOG_DEFERRED,
         NRF_LOG_BACKEND_SERIAL_USES, Severity, NRF_LOG_COLOR
<1>2. NRF_LOG(on, Severity.Error, "error") = Printed(on, "error", "Red")
  BY <1>1 DEF NRF_LOG
<1>3. MESH_LOG(Printed(on, "error", "Red"), COLOR_CODE_DEFAULT, FALSE) =
          [Printed(on, "error", "Red") EXCEPT !.ink = "Default"]
  BY <1>1 DEF MESH_LOG, NRF_LOG_RAW_INFO
<1>4. [Printed(on, "error", "Red") EXCEPT !.ink = "Default"] = Adds(on, "error")
  BY DEF Printed, Adds, Shown
<1>5. CASE typing = TRUE
  BY <1>5 DEF app_error_fault_handler, MESH_LOG_ERROR
<1>6. CASE typing = FALSE
  BY <1>2, <1>3, <1>4, <1>6 DEF app_error_fault_handler, MESH_LOG_ERROR
<1>7. QED
  BY <1>5, <1>6

LEMMA AddsIsScreen ==
    ASSUME NEW on \in Screens, NEW text \in Texts
    PROVE  /\ Adds(on, text) \in Screens
           /\ Len(on.lines) > 1 => /\ Len(Adds(on, text).lines) > 1
                                   /\ Adds(on, text).lines[2] = on.lines[2]
           /\ Len(on.lines) = 1 => /\ Len(Adds(on, text).lines) > 1
                                   /\ Adds(on, text).lines[2] = Shown(text)
<1>1. on.lines \in Seq(Lines) /\ Shown(text) \in Lines
  BY DEF Screens, Lines
<1>2. Append(on.lines, Shown(text)) \in Seq(Lines)
  BY <1>1, Appended
<1>3. Adds(on, text) \in Screens
  BY <1>2 DEF Adds, Screens
<1>4. Adds(on, text).lines = Append(on.lines, Shown(text))
  BY DEF Adds
<1>5. QED
  BY <1>1, <1>3, <1>4, AppendedLater

ScreenInv ==
    /\ input_mode \in BOOLEAN
    /\ screen \in Screens
    /\ PromptUndisturbed
    /\ input_mode => ran = None
    /\ AnswerFollowsPrompt

LEMMA NothingRan == None \notin Reporting \union {Help}
BY TerminalAssumption DEF TerminalAssumption, None, Help

LEMMA ScreenStep == ScreenInv /\ [Next]_vars => ScreenInv'
<1> SUFFICES ASSUME ScreenInv, [Next]_vars
             PROVE  ScreenInv'
  OBVIOUS
<1> screen \in Screens /\ input_mode \in BOOLEAN
  BY DEF ScreenInv
<1>1. CASE prompt
  <2> DEFINE empty == [screen EXCEPT !.lines = <<>>]
  <2>1. empty.lines = <<>> /\ empty \in Screens
    <3>1. <<>> \in Seq(Lines)
      BY Nothing
    <3>2. QED
      BY <3>1 DEF Screens
  <2>2. screen' = Adds(empty, "prompt")
    BY <1>1, <2>1, PrintsRaw, KnownTexts DEF prompt, terminal_putstring
  <2>3. screen' \in Screens
    BY <2>1, <2>2, AddsIsScreen, KnownTexts
  <2>4. screen'.lines = <<Plain("prompt")>>
    <3>1. Shown("prompt") = Plain("prompt")
      BY DEF Shown, Plain
    <3>2. screen'.lines = Append(<<>>, Shown("prompt"))
      BY <2>1, <2>2 DEF Adds
    <3>3. QED
      BY <3>1, <3>2, Single
  <2>5. QED
    BY <1>1, <2>3, <2>4, NothingRan
       DEF prompt, ScreenInv, PromptUndisturbed, AnswerFollowsPrompt, Plain
<1>2. ASSUME NEW key \in Keys, append_char_to_buffer(key)
      PROVE  ScreenInv'
  BY <1>2 DEF append_char_to_buffer, ScreenInv, PromptUndisturbed, AnswerFollowsPrompt, Plain
<1>3. ASSUME NEW key \in Keys, terminal_execute_command(key)
      PROVE  ScreenInv'
  <2>1. Len(screen.lines) = 1
    <3>1. screen.lines = <<Plain("prompt")>>
      BY <1>3 DEF terminal_execute_command, ScreenInv, PromptUndisturbed
    <3>2. QED
      BY <3>1, Single
  <2>2. input_mode' = FALSE /\ screen' \in Answer(ran', FALSE)
    BY <1>3 DEF terminal_execute_command
  <2>3. CASE ran' = Help
    <3>1. screen' = Adds(screen, "help")
      BY <2>2, <2>3, PrintsRaw, KnownTexts DEF Answer, terminal_putstring
    <3>2. /\ screen' \in Screens /\ Len(screen'.lines) > 1
          /\ screen'.lines[2].text = "help"
      <4>1. /\ Adds(screen, "help") \in Screens
            /\ Len(Adds(screen, "help").lines) > 1
            /\ Adds(screen, "help").lines[2] = Shown("help")
        BY <2>1, AddsIsScreen, KnownTexts
      <4>2. Shown("help").text = "help"
        BY DEF Shown
      <4>3. QED
        BY <3>1, <4>1, <4>2
    <3>3. QED
      BY <2>2, <2>3, <3>2 DEF ScreenInv, PromptUndisturbed, AnswerFollowsPrompt
  <2>4. CASE ran' # Help /\ ran' \in Reporting
    <3>1. screen' = Adds(screen, "report")
      BY <2>2, <2>4, PrintsRaw, KnownTexts DEF Answer, MESH_LOG
    <3>2. /\ screen' \in Screens /\ Len(screen'.lines) > 1
          /\ screen'.lines[2].text = "report"
      <4>1. /\ Adds(screen, "report") \in Screens
            /\ Len(Adds(screen, "report").lines) > 1
            /\ Adds(screen, "report").lines[2] = Shown("report")
        BY <2>1, AddsIsScreen, KnownTexts
      <4>2. Shown("report").text = "report"
        BY DEF Shown
      <4>3. QED
        BY <3>1, <4>1, <4>2
    <3>3. QED
      BY <2>2, <2>4, <3>2 DEF ScreenInv, PromptUndisturbed, AnswerFollowsPrompt
  <2>5. CASE ran' # Help /\ ran' \notin Reporting
    <3>1. screen' \in {screen, MESH_LOG(screen, "too long", FALSE),
                       app_error_fault_handler(screen, FALSE)}
      BY <2>2, <2>5 DEF Answer
    <3>2. /\ MESH_LOG(screen, "too long", FALSE) = Adds(screen, "too long")
          /\ app_error_fault_handler(screen, FALSE) = Adds(screen, "error")
          /\ Adds(screen, "too long") \in Screens
          /\ Adds(screen, "error") \in Screens
      BY PrintsRaw, KnownTexts, PrintsError, AddsIsScreen DEF MESH_LOG
    <3>3. screen' \in Screens
      BY <3>1, <3>2
    <3>4. QED
      BY <2>2, <2>5, <3>3 DEF ScreenInv, PromptUndisturbed, AnswerFollowsPrompt
  <2>6. QED
    BY <2>3, <2>4, <2>5
<1>4. CASE OtherHandler
  <2>1. screen' = screen \/ (~input_mode /\ \E text \in Texts : screen' = Adds(screen, text))
    <3>1. ASSUME NEW text \in Logged, screen' = MESH_LOG(screen, text, input_mode)
          PROVE  screen' = screen \/ (~input_mode /\ screen' = Adds(screen, text))
      BY <3>1, PrintsRaw, KnownTexts, LoggedIsNoError DEF MESH_LOG
    <3>2. ASSUME screen' = MESH_LOG_DEBUG(screen, "detail", input_mode)
          PROVE  screen' = screen
      BY <3>2 DEF MESH_LOG_DEBUG, NRF_LOG, NRF_LOG_ENABLED, NRF_LOG_DEFAULT_LEVEL, Severity
    <3>3. ASSUME screen' = app_error_fault_handler(screen, input_mode)
          PROVE  screen' = screen \/ (~input_mode /\ screen' = Adds(screen, "error"))
      BY <3>3, PrintsError DEF ScreenInv
    <3>4. QED
      BY <1>4, <3>1, <3>2, <3>3, KnownTexts DEF OtherHandler
  <2>2. CASE screen' = screen
    BY <1>4, <2>2 DEF OtherHandler, ScreenInv, PromptUndisturbed, AnswerFollowsPrompt, Plain
  <2>3. ASSUME NEW text \in Texts, ~input_mode, screen' = Adds(screen, text)
        PROVE  ScreenInv'
    <3>1. /\ screen' \in Screens
          /\ Len(screen.lines) > 1 => /\ Len(screen'.lines) > 1
                                      /\ screen'.lines[2] = screen.lines[2]
      BY <2>3, AddsIsScreen
    <3>2. QED
      BY <1>4, <2>3, <3>1 DEF OtherHandler, ScreenInv, PromptUndisturbed, AnswerFollowsPrompt
  <2>4. QED
    BY <2>1, <2>2, <2>3
<1>5. CASE UNCHANGED vars
  BY <1>5 DEF vars, ScreenInv, PromptUndisturbed, AnswerFollowsPrompt, Plain
<1>6. QED
  BY <1>1, <1>2, <1>3, <1>4, <1>5 DEF Next, terminal_process_input

LEMMA ScreenStart == Init => ScreenInv
<1> SUFFICES ASSUME Init
             PROVE  ScreenInv
  OBVIOUS
<1>1. screen \in Screens
  BY Nothing DEF Init, Screens
<1>2. QED
  BY <1>1, NothingRan DEF Init, ScreenInv, PromptUndisturbed, AnswerFollowsPrompt

\* While a command is being typed nobody else gets a word in.
THEOREM PromptStaysAlone == Spec => []PromptUndisturbed
<1>1. ScreenInv => PromptUndisturbed
  BY DEF ScreenInv
<1>2. QED
  BY <1>1, ScreenStart, ScreenStep, PTL DEF Spec

\* No command is answered into the silence.
THEOREM CommandsAreAnswered == Spec => []AnswerFollowsPrompt
<1>1. ScreenInv => AnswerFollowsPrompt
  BY DEF ScreenInv
<1>2. QED
  BY <1>1, ScreenStart, ScreenStep, PTL DEF Spec

\* No line takes over the colour of an error.
THEOREM ErrorsAloneAreRed == Spec => []OnlyErrorsAreRed
<1>1. ScreenInv => OnlyErrorsAreRed
  <2> SUFFICES ASSUME ScreenInv, NEW i \in DOMAIN screen.lines
               PROVE  screen.lines[i].color =
                          IF screen.lines[i].text = "error" THEN "Red" ELSE "Default"
    BY DEF OnlyErrorsAreRed
  <2>1. screen.lines \in Seq(Lines)
    BY DEF ScreenInv, Screens
  <2>2. screen.lines[i] \in Lines
    BY <2>1, Indexed
  <2>3. QED
    BY <2>2 DEF Lines, Shown
<1>2. QED
  BY <1>1, ScreenStart, ScreenStep, PTL DEF Spec

\* The buffer never holds more characters than leave room for the end mark.
THEOREM TypeCorrect == Spec => []TypeOK
<1>1. Init => TypeOK
  <2> SUFFICES ASSUME Init
               PROVE  TypeOK
    OBVIOUS
  <2>1. readBuffer = <<>>
    BY DEF Init
  <2>2. readBuffer \in Seq(Keys \ {Enter}) /\ Len(readBuffer) = 0
    BY <2>1, Nothing
  <2>3. input_mode \in BOOLEAN /\ ran = None /\ screen.ink \in Colors
    BY DEF Init, Colors
  <2>4. QED
    BY <2>2, <2>3, TerminalAssumption DEF TypeOK, TerminalAssumption
<1>2. TypeOK /\ ScreenInv' /\ [Next]_vars => TypeOK'
  <2> SUFFICES ASSUME TypeOK, ScreenInv', [Next]_vars
               PROVE  TypeOK'
    OBVIOUS
  <2> screen'.ink \in Colors
    BY DEF ScreenInv, Screens, Colors
  <2>1. CASE prompt
    BY <2>1 DEF prompt, TypeOK
  <2>2. ASSUME NEW key \in Keys, append_char_to_buffer(key)
        PROVE  TypeOK'
    <3>1. key \in Keys \ {Enter} /\ Len(readBuffer) < TERMINAL_BUFFER_SIZE - 1
      BY <2>2, Nothing, Appended, TerminalAssumption
         DEF append_char_to_buffer, ends_line, TypeOK, TerminalAssumption
    <3>2. /\ readBuffer' \in Seq(Keys \ {Enter})
          /\ Len(readBuffer') < TERMINAL_BUFFER_SIZE
      BY <2>2, <3>1, Appended, TerminalAssumption
         DEF append_char_to_buffer, TypeOK, TerminalAssumption
    <3>3. QED
      BY <2>2, <3>2 DEF append_char_to_buffer, TypeOK
  <2>3. ASSUME NEW key \in Keys, terminal_execute_command(key)
        PROVE  TypeOK'
    <3>1. ran' \in CommandNames \union {Help, Hang}
      BY <2>3, CommandKnown DEF terminal_execute_command
    <3>2. readBuffer' = readBuffer \/ readBuffer' = <<>>
      BY <2>3 DEF terminal_execute_command
    <3>3. CASE readBuffer' = readBuffer
      BY <2>3, <3>1, <3>3 DEF terminal_execute_command, TypeOK
    <3>4. CASE readBuffer' = <<>>
      <4>1. readBuffer' \in Seq(Keys \ {Enter}) /\ Len(readBuffer') = 0
        BY <3>4, Nothing
      <4>2. Len(readBuffer') < TERMINAL_BUFFER_SIZE
        BY <4>1, TerminalAssumption DEF TerminalAssumption
      <4>3. input_mode' \in BOOLEAN
        BY <2>3 DEF terminal_execute_command
      <4>4. QED
        BY <3>1, <4>1, <4>2, <4>3 DEF TypeOK
    <3>5. QED
      BY <3>2, <3>3, <3>4
  <2>4. CASE OtherHandler
    BY <2>4 DEF OtherHandler, TypeOK
  <2>5. CASE UNCHANGED vars
    BY <2>5 DEF vars, TypeOK
  <2>6. QED
    BY <2>1, <2>2, <2>3, <2>4, <2>5 DEF Next, terminal_process_input
<1>3. QED
  BY <1>1, <1>2, ScreenStart, ScreenStep, PTL DEF Spec
--------------------------------------------------------------------------------
(* The words of a line.  There is no induction on the places of a line here:  *)
(* the least of them is found as the one with the fewest places up to it.      *)

LEMMA LeastOf ==
    ASSUME NEW n \in Nat, NEW S \in SUBSET (1 .. n), S # {}
    PROVE  \E i \in S : \A j \in S : i <= j
<1> DEFINE T == {1 .. i : i \in S}
<1>1. IsWellFoundedOn(StrictSubsetOrdering(Nat), FiniteSubsetsOf(Nat))
  BY FS_StrictSubsetOrderingWellFounded
<1>2. T \subseteq FiniteSubsetsOf(Nat) /\ T # {}
  <2>1. \A i \in S : i \in Int /\ 1 .. i \subseteq Nat
    OBVIOUS
  <2>2. \A i \in S : IsFiniteSet(1 .. i)
    BY <2>1, FS_Interval
  <2> QED BY <2>1, <2>2 DEF FiniteSubsetsOf
<1> HIDE DEF T
<1>3. PICK x \in T : \A y \in T : <<y, x>> \notin StrictSubsetOrdering(Nat)
  BY <1>1, <1>2, WFMin
<1> USE DEF T
<1>4. PICK i \in S : x = 1 .. i
  BY <1>3
<1>5. ASSUME NEW j \in S, j < i PROVE FALSE
  <2> DEFINE y == 1 .. j
  <2>1. y \in T /\ y \subseteq x /\ x \subseteq Nat
    BY <1>4, <1>5
  <2>2. i \in x /\ i \notin y
    BY <1>4, <1>5
  <2> HIDE DEF y
  <2>3. <<y, x>> \in StrictSubsetOrdering(Nat)
    BY <2>1, <2>2 DEF StrictSubsetOrdering
  <2> QED BY <1>3, <2>1, <2>3
<1> QED BY <1>5

\* The first word starts at the first character other than a space.
LEMMA FirstStart ==
    ASSUME NEW S, NEW line \in Seq(S), Starts(line) # {}
    PROVE  /\ StartOf(line, 1) \in Starts(line)
           /\ \A j \in 1 .. StartOf(line, 1) - 1 : line[j] = Space
<1> DEFINE n == Len(line)
           words == {j \in 1 .. n : line[j] # Space}
<1>1. n \in Nat
  OBVIOUS
<1> HIDE DEF n
<1>2. words \in SUBSET (1 .. n) /\ words # {}
  BY DEF Starts, n
<1>3. PICK i \in words : \A j \in words : i <= j
  BY <1>1, <1>2, LeastOf
<1>4. i = 1 \/ (i - 1 \in 1 .. n /\ line[i - 1] = Space)
  BY <1>1, <1>3
<1>5. i \in Starts(line) /\ \A j \in Starts(line) : i <= j /\ j \in words
  BY <1>3, <1>4 DEF Starts, n
<1> HIDE DEF words
<1>6. {j \in Starts(line) : j < i} = {}
  <2>1. \A j \in Starts(line) : ~(j < i)
    BY <1>1, <1>2, <1>5
  <2> QED BY <2>1
<1>7. Cardinality({j \in Starts(line) : j < i}) = 1 - 1
  <2>1. Cardinality({j \in Starts(line) : j < i}) = 0
    BY <1>6, FS_EmptySet, Zenon
  <2> QED BY <2>1
<1>8. ASSUME NEW k \in Starts(line), Cardinality({j \in Starts(line) : j < k}) = 1 - 1
      PROVE  k = i
  <2>1. IsFiniteSet({j \in Starts(line) : j < k})
    <3>1. IsFiniteSet(1 .. n) /\ {j \in Starts(line) : j < k} \in SUBSET (1 .. n)
      BY <1>1, FS_Interval DEF Starts, n
    <3> QED BY <3>1, FS_Subset
  <2>2. {j \in Starts(line) : j < k} = {}
    <3>1. Cardinality({j \in Starts(line) : j < k}) = 0
      BY <1>8
    <3> QED BY <2>1, <3>1, FS_EmptySet, Zenon
  <2>3. ~(i < k)
    BY <1>5, <2>2
  <2>4. i \in Nat /\ k \in Nat /\ i <= k
    BY <1>1, <1>2, <1>5
  <2> QED BY <2>3, <2>4
<1>9. StartOf(line, 1) = i
  BY <1>5, <1>7, <1>8 DEF StartOf
<1>10. \A j \in 1 .. i - 1 : j \notin words /\ j \in 1 .. n
  BY <1>1, <1>2, <1>3
<1> QED BY <1>5, <1>9, <1>10 DEF words

\* A word ends before the next space, or with the line.
LEMMA WordBounds ==
    ASSUME NEW S, NEW line \in Seq(S), NEW i \in Starts(line)
    PROVE  \E j \in i .. Len(line) :
               /\ WordAt(line, i) = SubSeq(line, i, j)
               /\ Len(WordAt(line, i)) = j - i + 1
               /\ j + 1 <= Len(line) => line[j + 1] = Space
<1> DEFINE n == Len(line)
           gaps == {k \in 1 .. n : k >= i /\ line[k] = Space}
           IsWord(w) == /\ Space \notin Range(w)
                        /\ i + Len(w) <= n => line[i + Len(w)] = Space
           Words == {SubSeq(line, i, j) : j \in i .. n}
<1>1. n \in Nat /\ i \in 1 .. n /\ line[i] # Space
  BY DEF Starts
<1>2. \A j \in i .. n : /\ Len(SubSeq(line, i, j)) = j - i + 1
                        /\ DOMAIN SubSeq(line, i, j) = 1 .. j - i + 1
                        /\ \A k \in 1 .. j - i + 1 : SubSeq(line, i, j)[k] = line[i + k - 1]
  <2> TAKE j \in i .. n
  <2>1. i \in 1 .. Len(line) /\ j \in i .. Len(line)
    BY <1>1
  <2> HIDE DEF n
  <2> QED BY <2>1
<1>3. \E j \in i .. n : /\ \A k \in i .. j : line[k] # Space
                        /\ j + 1 <= n => line[j + 1] = Space
  <2>1. CASE gaps = {}
    BY <1>1, <2>1
  <2>2. CASE gaps # {}
    <3>1. gaps \in SUBSET (1 .. n)
      OBVIOUS
    <3> HIDE DEF n
    <3>2. PICK g \in gaps : \A k \in gaps : g <= k
      BY <1>1, <2>2, <3>1, LeastOf
    <3>3. g \in 1 .. n /\ g > i /\ line[g] = Space
      BY <1>1, <3>2
    <3>4. g - 1 \in i .. n /\ (g - 1) + 1 = g
      BY <1>1, <3>3
    <3>5. \A k \in i .. g - 1 : line[k] # Space
      BY <1>1, <3>2, <3>3
    <3> QED BY <3>3, <3>4, <3>5
  <2> QED BY <2>1, <2>2
<1>4. PICK e \in i .. n : /\ \A k \in i .. e : line[k] # Space
                          /\ e + 1 <= n => line[e + 1] = Space
  BY <1>3
<1> DEFINE v == SubSeq(line, i, e)
<1>5. Len(v) = e - i + 1 /\ v \in Words
  BY <1>2
<1>6. Space \notin Range(v)
  <2>1. \A k \in 1 .. e - i + 1 : v[k] # Space
    <3> TAKE k \in 1 .. e - i + 1
    <3>1. i + k - 1 \in i .. e
      BY <1>1
    <3> QED BY <1>2, <1>4, <3>1
  <2> QED BY <1>2, <2>1 DEF Range
<1>7. i + Len(v) = e + 1
  BY <1>1, <1>5
<1>8. IsWord(v)
  BY <1>4, <1>6, <1>7
<1>9. WordAt(line, i) = CHOOSE w \in Words : IsWord(w)
  BY DEF WordAt
<1> HIDE DEF v, IsWord, Words
<1>10. WordAt(line, i) \in Words /\ IsWord(WordAt(line, i))
  BY <1>5, <1>8, <1>9
<1> USE DEF Words, IsWord
<1>11. PICK j \in i .. n : WordAt(line, i) = SubSeq(line, i, j)
  BY <1>10
<1>12. Len(WordAt(line, i)) = j - i + 1
  BY <1>2, <1>11
<1>13. i + Len(WordAt(line, i)) = j + 1
  BY <1>1, <1>12
<1>14. j + 1 <= n => line[j + 1] = Space
  BY <1>10, <1>13
<1> QED BY <1>11, <1>12, <1>14

\* Wherever a line has words, the first argument is the first of them.
LEMMA FirstArgument ==
    ASSUME NEW S, NEW line \in Seq(S), find_arguments(line) # <<>>
    PROVE  /\ Starts(line) # {}
           /\ find_arguments(line)[1] = WordAt(line, StartOf(line, 1))
<1> DEFINE c == Cardinality(Starts(line))
           m == Min({c, MAX_ARGUMENTS + 1})
<1>1. Starts(line) \in SUBSET (1 .. Len(line)) /\ Len(line) \in Nat
  BY DEF Starts
<1>2. IsFiniteSet(Starts(line))
  <2>1. IsFiniteSet(1 .. Len(line))
    BY <1>1, FS_Interval
  <2> QED BY <1>1, <2>1, FS_Subset
<1>3. c \in Nat /\ (c = 0 <=> Starts(line) = {})
  BY <1>2, FS_EmptySet, FS_CardinalityType
<1>4. MAX_ARGUMENTS \in Nat
  BY TerminalAssumption DEF TerminalAssumption
<1>5. find_arguments(line) = [k \in 1 .. m |-> WordAt(line, StartOf(line, k))]
  BY DEF find_arguments
<1> HIDE DEF c
<1>6. m \in Nat /\ m <= c
  <2>1. \E x \in {c, MAX_ARGUMENTS + 1} : \A y \in {c, MAX_ARGUMENTS + 1} : x <= y
    BY <1>3, <1>4
  <2>2. /\ m \in {c, MAX_ARGUMENTS + 1}
        /\ \A y \in {c, MAX_ARGUMENTS + 1} : m <= y
    BY <2>1 DEF Min
  <2> QED BY <1>3, <1>4, <2>2
<1> HIDE DEF m
<1>7. m # 0
  <2> SUFFICES ASSUME m = 0 PROVE FALSE
    OBVIOUS
  <2>1. find_arguments(line) = [k \in 1 .. 0 |-> WordAt(line, StartOf(line, k))]
    BY <1>5
  <2>2. [k \in 1 .. 0 |-> WordAt(line, StartOf(line, k))] = <<>>
    OBVIOUS
  <2> QED BY <2>1, <2>2
<1>8. 1 \in 1 .. m /\ c # 0
  BY <1>3, <1>6, <1>7
<1> QED BY <1>3, <1>5, <1>8

\* A command of the table runs only as the first word of its line.
LEMMA RanIsFirstWord ==
    ASSUME NEW words, words # <<>>, NEW c \in command_execute(words), c # Help, c # Hang
    PROVE  c = words[1]
<1>1. CASE words[1] \notin CommandNames
  BY <1>1 DEF command_execute
<1>2. CASE words[1] \in CommandNames
  <2>1. command_execute(words) =
            {words[1]} \union IF words[1] \in NeedArgument /\ Len(words) = 1
                              THEN Garbage \intersect {Hang} ELSE {}
    BY <1>2 DEF command_execute
  <2>2. QED
    BY <2>1
<1>3. QED
  BY <1>1, <1>2

\* Nothing has run while a command is being typed.
LEMMA NoCommandIsNone == None \notin CommandNames
BY TerminalAssumption DEF TerminalAssumption, None

LEMMA RunsStep ==
    ScreenInv /\ TypeOK /\ LineIsTyped /\ RunsWhatWasTyped /\ [Next]_vars => RunsWhatWasTyped'
<1> SUFFICES ASSUME ScreenInv, TypeOK, LineIsTyped, RunsWhatWasTyped, [Next]_vars
             PROVE  RunsWhatWasTyped'
  OBVIOUS
<1>1. CASE prompt
  BY <1>1, NoCommandIsNone DEF prompt, RunsWhatWasTyped
<1>2. ASSUME NEW key \in Keys, append_char_to_buffer(key)
      PROVE  RunsWhatWasTyped'
  BY <1>2, NoCommandIsNone DEF append_char_to_buffer, ScreenInv, RunsWhatWasTyped
<1>3. ASSUME NEW key \in Keys, terminal_execute_command(key)
      PROVE  RunsWhatWasTyped'
  <2> SUFFICES ASSUME ran' \in CommandNames, parsedCommand' # <<>>
               PROVE  \E i \in 1 .. Len(typed') :
                          /\ SubSeq(typed', i, i + Len(ran') - 1) = ran'
                          /\ \A j \in 1 .. i - 1 : typed'[j] = Space
                          /\ i + Len(ran') <= Len(typed') => typed'[i + Len(ran')] = Space
    BY DEF RunsWhatWasTyped
  <2>1. readBuffer = typed /\ typed' = typed /\ typed \in Seq(Keys)
    BY <1>3 DEF terminal_execute_command, LineIsTyped, TypeOK
  <2>2. parsedCommand' = find_arguments(typed) /\ ran' \in command_execute(parsedCommand')
    BY <1>3, <2>1 DEF terminal_execute_command
  <2>3. ran' = parsedCommand'[1]
    <3>1. ran' # Help /\ ran' # Hang
      BY TerminalAssumption DEF TerminalAssumption
    <3> QED BY <2>2, <3>1, RanIsFirstWord
  <2> DEFINE i == StartOf(typed, 1)
  <2>4. /\ find_arguments(typed) # <<>> /\ Starts(typed) # {}
        /\ ran' = WordAt(typed, i)
    BY <2>1, <2>2, <2>3, FirstArgument
  <2>5. i \in Starts(typed) /\ \A j \in 1 .. i - 1 : typed[j] = Space
    BY <2>1, <2>4, FirstStart
  <2>6. i \in 1 .. Len(typed) /\ Len(typed) \in Nat
    BY <2>1, <2>5 DEF Starts
  <2> HIDE DEF i
  <2>7. PICK j \in i .. Len(typed) :
            /\ ran' = SubSeq(typed, i, j)
            /\ Len(ran') = j - i + 1
            /\ j + 1 <= Len(typed) => typed[j + 1] = Space
    BY <2>1, <2>4, <2>5, WordBounds
  <2>8. i + Len(ran') - 1 = j /\ i + Len(ran') = j + 1
    BY <2>6, <2>7
  <2>9. /\ SubSeq(typed, i, i + Len(ran') - 1) = ran'
        /\ i + Len(ran') <= Len(typed) => typed[i + Len(ran')] = Space
    BY <2>7, <2>8
  <2> QED BY <2>1, <2>5, <2>6, <2>9
<1>4. CASE OtherHandler
  BY <1>4 DEF OtherHandler, RunsWhatWasTyped
<1>5. CASE UNCHANGED vars
  BY <1>5 DEF vars, RunsWhatWasTyped
<1>6. QED
  BY <1>1, <1>2, <1>3, <1>4, <1>5 DEF Next, terminal_process_input

\* What runs is what the first word typed asks for, wherever the line was cut off.
THEOREM FirstWordRuns == Spec => []RunsWhatWasTyped
<1>1. Init => RunsWhatWasTyped
  BY NoCommandIsNone DEF Init, RunsWhatWasTyped
<1>2. QED
  BY <1>1, RunsStep, ScreenStart, ScreenStep, TypeCorrect, LinesApart, PTL DEF Spec
================================================================================
