SPECIFICATION FairSpec
CONSTANTS
    Size = 3
    DataBytes = 2
    MaxSeq = 3
    Faults = {"deadline", "stale", "error"}
INVARIANTS
    ArenaHeldStill
    NoLostWakeup
PROPERTIES
    KeepsPromise
    ReadsEnd
CHECK_DEADLOCK FALSE
