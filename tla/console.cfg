\* The console driver and its UART.
SPECIFICATION FairConsole
CONSTANTS
    SEND_SIZE = 4
    RECV_SIZE = 3
    TX_FIFO = 2
    TX_LEVEL = 1
    RX_FIFO = 2
    Texts <- Written
INVARIANTS TypeOK NoLostWakeup OneLinePerEnter
PROPERTIES WholeTexts Drains
