CONSTANTS
    Handles = {0, 1}
    MAX_CENTRAL_CONNECTIONS = 1
    MAX_PERIPHERAL_CONNECTIONS = 1
    SCHED_QUEUE_SIZE = 8
    IS_PROD_BOARD = TRUE
    Commands = {}
    Writes = {}
    NullAccess = {"nothing"}
    MaxPending = 3
SPECIFICATION Spec
INVARIANT HeartbeatHasConnection
