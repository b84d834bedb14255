CONSTANTS
    MaxThreads = 2
    Slots = {1}
    slot <- SameSlot
    Spurious = FALSE
SPECIFICATION TSpec
INVARIANT ReturnsOwnTid
CHECK_DEADLOCK FALSE
