CONSTANTS
    SCHED_QUEUE_SIZE = 5
    MaxEvents = 3
    MaxLate = 1
SPECIFICATION FairSpec
INVARIANT NeverSleepsOnWork
PROPERTIES BlinksForever HeartbeatsGoOn KeysAreRead
CHECK_DEADLOCK FALSE
