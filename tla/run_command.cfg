\* Run, kill and Ctrl-C over the kernel, with early-typed input.
SPECIFICATION FairSystem
CONSTANTS
    NULL = NULL
    THREAD_NUM = 7
    PRIORITY_NUM = 16
    MsgBox <- Boxes
    Data <- Payloads
    Sizes = {1, 2}
    USER_STACK = 12
    APP_STACK = 2
    MSGBUFS = 4
    KillIds <- AppIds
INVARIANTS OneForeground Handshake LeakOnlyOnFailure
PROPERTY PromptReturns
CHECK_DEADLOCK FALSE
