CONSTANTS
    g = g
    a = a
    b = b
    Boards = {g, a, b}
    Gateway = g
    MAX_PERIPHERAL_CONNECTIONS = 2
    Prompt = TRUE
    MaxLosses = 2
SPECIFICATION FairSpec
INVARIANTS HangsUnderGateway StaysOpen
PROPERTIES ImplementsForest Heals
CHECK_DEADLOCK FALSE
