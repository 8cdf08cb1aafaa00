SPECIFICATION SyncSpec
CONSTANTS
    a1 = a1
    t2 = t2
    a3 = a3
    t4 = t4
    Idle = Idle
    NULL = NULL
    Mutex = Mutex
    Basic <- MCBasic
    Ext <- MCExt
    PrioOf <- MCPrioOf
    MAX_ACTIVE = 5
    QLen <- MCQLen
    LockCeilings <- MCLock
    Calls = {"queueGet", "delay", "delayCancel", "post", "schedLock", "wait", "tryWait", "signal", "lock", "tryLock"}
    Ending = {a3, t4}
    Timed = {"queue"}
    NestedIsrs = TRUE
    Ceilings = {5}
    MaxCount = 1
    MaxLock = 2
INVARIANTS FramesNested NoKernelAssertion HighestRuns MutualExclusion NoStrandedThread
CHECK_DEADLOCK FALSE
