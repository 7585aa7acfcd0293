CONSTANTS
    g = g
    a = a
    b = b
    Boards = {g, a, b}
    Gateway = g
    MAX_PERIPHERAL_CONNECTIONS = 2
    MaxLosses = 1
SPECIFICATION FairSpec
INVARIANTS KnowsPeers BroadcastComplete
PROPERTIES BroadcastDiesOut TopologyLearned
CHECK_DEADLOCK FALSE
