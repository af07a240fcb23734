\* Context switches over the linked ready queues.
SPECIFICATION Spec
CONSTANTS
    NULL = NULL
    Threads <- Slots
    Priorities <- Levels
    UserStack <- Kernel64
    AppStack <- Apps64
    STACK = 32
    Calls <- Made
INVARIANT Confined
PROPERTIES KeepsQueues OwnProcessor
CHECK_DEADLOCK FALSE
