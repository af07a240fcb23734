\* kill 4 while the app thread waits for a request.
SPECIFICATION SystemSpec
CONSTANTS
    NULL = NULL
    THREAD_NUM = 7
    PRIORITY_NUM = 16
    MsgBox <- Boxes
    Data <- Payloads
    Sizes = {1, 2}
    USER_STACK = 12
    APP_STACK = 1
    MSGBUFS = 4
    KillIds <- ExecIds
INVARIANT ReceiverWaits
CHECK_DEADLOCK FALSE
