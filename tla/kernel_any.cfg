\* Any caller, any argument: the queues and the pool stay sound, the timer is fair.
SPECIFICATION FairSpec
CONSTANTS
    NULL = NULL
    b1 = b1  b2 = b2  d1 = d1
    THREAD_NUM = 3
    PRIORITY_NUM = 2
    MsgBox <- Box
    Data <- Payload
    Sizes <- SizesAny
    USER_STACK = 2
    APP_STACK = 1
    MSGBUFS = 2
INVARIANTS TypeOK QueueInv Conservation
PROPERTY RoundRobin
CHECK_DEADLOCK FALSE
