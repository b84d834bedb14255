CONSTANTS
    MaxThreads = 3
    Slots = {1}
    slot <- SameSlot
    Spurious = TRUE
SPECIFICATION TFairSpec
INVARIANTS
    OwnTidUnlessForeignWake
    LateInSignalOnly
PROPERTIES
    CloneReturns
CHECK_DEADLOCK FALSE
