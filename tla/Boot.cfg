CONSTANTS
    Boards = {"gateway", "board", "leaf"}
    ProdBoards = {"board", "leaf"}
    MAX_PERIPHERAL_CONNECTIONS = 1
    Commands = {"adv", "scan", "bro"}
    MaxEvents = 1
SPECIFICATION Spec
INVARIANTS TypesAgree KnowsMessages PeersFindService
CHECK_DEADLOCK FALSE
