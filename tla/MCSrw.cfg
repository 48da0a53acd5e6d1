SPECIFICATION FairSpec
CONSTANTS
    Threads = {t1, t2, t3}
    NoThread = NoThread
    Modes = {"shared", "exclusive"}
    Timeouts = {"zero", "finite", "infinite"}
    Suspensions = TRUE
    Deaths = TRUE
INVARIANTS
    HoldersExact
    NoSleepOnFreeLock
PROPERTIES
    WaitersAcquire
CHECK_DEADLOCK FALSE
