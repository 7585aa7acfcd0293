CONSTANTS
    g = g
    a = a
    b = b
    c = c
    Boards = {g, a, b, c}
    Gateway = g
    MAX_PERIPHERAL_CONNECTIONS = 1
    Prompt = FALSE
    MaxLosses = 1
SPECIFICATION Spec
INVARIANT HangsUnderGateway
CHECK_DEADLOCK FALSE
