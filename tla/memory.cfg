\* Block pools and the message boxes linked in them.
SPECIFICATION Spec
CONSTANTS
    NULL = NULL
    Pools <- SmallPools
    Requests <- Asked
    Boxes = {b1, b2}
    Threads = {t1, t2}
    Contents = {x}
INVARIANTS FreeOrGiven Apart NoLostBuffer
PROPERTIES CountsBlocks KeepsMessages
SYMMETRY Interchangeable
CHECK_DEADLOCK FALSE
