\* Callers that respect the kernel's unstated preconditions.
SPECIFICATION CarefulSpec
CONSTANTS
    NULL = NULL
    b1 = b1  b2 = b2  d1 = d1
    THREAD_NUM = 3
    PRIORITY_NUM = 2
    MsgBox <- Boxes
    Data <- Payload
    Sizes <- SizesGood
    USER_STACK = 2
    APP_STACK = 1
    MSGBUFS = 2
SYMMETRY Interchangeable
INVARIANTS BoxInv NoLostThread NoWreck
PROPERTY KeepsPromise
CHECK_DEADLOCK FALSE
