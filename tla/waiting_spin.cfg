SPECIFICATION Spec
CONSTANTS
    Poller <- MCPoller
    Stream <- MCStream
    Writer <- MCWriter
    Arrival <- MCFiltered
    Nobody = "nobody"
    SatisfiedYields = FALSE
    MaxLog = 2
    MaxBoots = 2
PROPERTIES
    BoardDrains
CHECK_DEADLOCK FALSE
