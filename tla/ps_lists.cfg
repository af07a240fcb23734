\* A listing after an app in the middle has gone.
SPECIFICATION SystemSpec
CONSTANTS
    NULL = NULL
    THREAD_NUM = 7
    PRIORITY_NUM = 16
    MsgBox <- Boxes
    Data <- Payloads
    Sizes = {1, 2}
    USER_STACK = 12
    APP_STACK = 2
    MSGBUFS = 4
    KillIds <- AppIds
INVARIANT PsListsThreads
CHECK_DEADLOCK FALSE
