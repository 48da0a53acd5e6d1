SPECIFICATION Spec
CONSTANTS
    t1 = t1
    t2 = t2
    t3 = t3
    auto = auto
    manual = manual
    sem = sem
    mutex = mutex
    Threads = {t1, t2, t3}
    Main = t1
    NoThread = NoThread
    AutoEvents = {auto}
    ManualEvents = {manual}
    Semaphores = {}
    Mutexes = {}
    MaxCount = 1
    MaxRecursion = 1
    MaxSuspend = 1
    Priorities <- Zero
    AnyLists <- ManualOnly
    AllLists <- AllWithAuto
    Timed = {FALSE}
    Alertable = {FALSE}
    MaxApcs = 0
    Suspended = {TRUE, FALSE}
    NoObject = NoObject
    MessageQueue = MessageQueue
SYMMETRY WorkerSymmetry
INVARIANTS
    NoLostWakeup
CHECK_DEADLOCK FALSE
