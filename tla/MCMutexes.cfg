SPECIFICATION Spec
CONSTANTS
    t1 = t1
    t2 = t2
    t3 = t3
    auto = auto
    manual = manual
    sem = sem
    mutex = mutex
    Threads = {t1, t2, t3}
    Main = t1
    NoThread = NoThread
    AutoEvents = {}
    ManualEvents = {}
    Semaphores = {sem}
    Mutexes = {mutex}
    MaxCount = 1
    MaxRecursion = 2
    MaxSuspend = 1
    Priorities <- Zero
    AnyLists <- OneMutex
    AllLists <- SemAndMutex
    Timed = {TRUE}
    Alertable = {TRUE}
    MaxApcs = 1
    Suspended = {TRUE}
    NoObject = NoObject
    MessageQueue = MessageQueue
SYMMETRY WorkerSymmetry
INVARIANTS
    TypeOK
    NoLostWakeup
    MutexOwnerAlive
    TimersExact
    AlertableWaitsHaveNoApc
    ContextSaved
PROPERTIES
    AbandonmentReported
CHECK_DEADLOCK FALSE
