\* Stacks of apps are never given back.
SPECIFICATION FairSystem
CONSTANTS
    NULL = NULL
    THREAD_NUM = 7
    PRIORITY_NUM = 16
    MsgBox <- Boxes
    Data <- Payloads
    Sizes = {1, 2}
    USER_STACK = 12
    APP_STACK = 1
    MSGBUFS = 4
    KillIds <- NoIds
PROPERTY BackgroundRunEnds
CHECK_DEADLOCK FALSE
