CONSTANTS
    a = a
    b = b
    Space = space
    Enter = enter
    Escape = escape
    TERMINAL_BUFFER_SIZE = 6
    MAX_ARGUMENTS = 1
    MaxLines = 3
    Letters <- MCLetters
    CommandNames <- MCCommandNames
    NeedArgument <- MCNeedArgument
    Reporting <- MCReporting
    OtherEvents <- MCOtherEvents
    Garbage <- MCGarbage
SPECIFICATION Spec
INVARIANTS TypeOK LineIsTyped RunsWhatWasTyped PromptUndisturbed AnswerFollowsPrompt OnlyErrorsAreRed
CHECK_DEADLOCK FALSE
