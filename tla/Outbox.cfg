CONSTANTS
    MAX_QUEUE_SIZE = 2
    TX_BUFFERS = 2
    MaxAccepted = 6
    MaxEvents = 3
    MaxDrops = 1
SPECIFICATION FairSpec
INVARIANTS InOrder BuffersBusy
PROPERTIES EveryMessageLeaves ImplementsChannel
