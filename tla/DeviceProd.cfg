CONSTANTS
    Handles = {0, 1, 2}
    MAX_CENTRAL_CONNECTIONS = 1
    MAX_PERIPHERAL_CONNECTIONS = 2
    SCHED_QUEUE_SIZE = 8
    IS_PROD_BOARD = TRUE
    Commands = {"adv", "scan", "bro", "cons"}
    Writes = {"broadcast"}
    NullAccess = {"hang", "nothing"}
    MaxPending = 3
SPECIFICATION Spec
INVARIANTS TableFollows ListsEveryConnection OrphanShedsChildren KeepsAdvertising KeepsSearching
CHECK_DEADLOCK FALSE
