\* App RAM: loads, runs, failures and leaks.
SPECIFICATION Spec
CONSTANTS
    NULL = NULL
    APP_LOAD_START = 16
    APP_PAGE_SIZE = 2
    APP_PAGE_COUNT = 6
    WORDS = 32
    PARAM_SIZE = 2
    Files <- Card
    Threads <- Slots
INVARIANTS TypeOK OneOwner Intact OwnBlock
CHECK_DEADLOCK FALSE
