SPECIFICATION FairSpec
CONSTANTS
    t1 = t1
    t2 = t2
    t3 = t3
    auto = auto
    manual = manual
    sem = sem
    mutex = mutex
    Threads = {t1, t2, t3}
    Main = t1
    NoThread = NoThread
    AutoEvents = {}
    ManualEvents = {}
    Semaphores = {}
    Mutexes = {}
    MaxCount = 1
    MaxRecursion = 1
    MaxSuspend = 1
    Priorities <- Zero
    AnyLists <- OneThread
    AllLists <- NoLists
    Timed = {TRUE}
    Alertable = {FALSE}
    MaxApcs = 0
    Suspended = {TRUE, FALSE}
    NoObject = NoObject
    MessageQueue = MessageQueue
PROPERTIES
    ReadyThreadsRun
    TimedWaitsEnd
    ExitEndsAll
CHECK_DEADLOCK FALSE
