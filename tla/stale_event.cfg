\* Ctrl-C at the prompt ends the next foreground app.
SPECIFICATION SystemSpec
CONSTANTS
    NULL = NULL
    THREAD_NUM = 7
    PRIORITY_NUM = 16
    MsgBox <- Boxes
    Data <- Payloads
    Sizes = {1, 2}
    USER_STACK = 12
    APP_STACK = 1
    MSGBUFS = 4
    KillIds <- NoIds
INVARIANT EventHasCause
CHECK_DEADLOCK FALSE
