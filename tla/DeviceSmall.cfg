CONSTANTS
    Handles = {0, 1}
    MAX_CENTRAL_CONNECTIONS = 1
    MAX_PERIPHERAL_CONNECTIONS = 1
    SCHED_QUEUE_SIZE = 3
    IS_PROD_BOARD = TRUE
    Commands = {"adv", "scan"}
    Writes = {"handshake"}
    NullAccess = {"nothing"}
    MaxPending = 3
SPECIFICATION FairSpec
INVARIANT ConnStateFollows
PROPERTY ChildrenReleased
CHECK_DEADLOCK FALSE
