CONSTANTS
    Handles = {0, 1}
    MAX_CENTRAL_CONNECTIONS = 1
    MAX_PERIPHERAL_CONNECTIONS = 1
    SCHED_QUEUE_SIZE = 8
    IS_PROD_BOARD = FALSE
    Commands = {"scan", "bro"}
    Writes = {"heartbeat", "broadcast"}
    NullAccess = {"hang", "nothing"}
    MaxPending = 4
SPECIFICATION Spec
INVARIANT GatewayKeepsScanning
CHECK_DEADLOCK FALSE
