SPECIFICATION Spec
CONSTANTS
    Poller <- MCPoller
    Stream <- MCStream
    Writer <- MCWriter
    Arrival <- MCArrival
    Nobody = "nobody"
    SatisfiedYields = FALSE
    MaxLog = 2
    MaxBoots = 2
INVARIANTS
    CursorIsAReceipt
PROPERTIES
    ImplementsLongPoll
    BoardDrains
CHECK_DEADLOCK FALSE
