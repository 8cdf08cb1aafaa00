SPECIFICATION SyncSpec
CONSTANTS
    a1 = a1
    t2 = t2
    a3 = a3
    t4 = t4
    Idle = Idle
    NULL = NULL
    Mutex = Mutex
    Basic <- MCBasic
    Ext <- MCExt
    PrioOf <- MCPrioOf
    MAX_ACTIVE = 5
    QLen <- MCQLen
    LockCeilings <- MCLock
    Calls = {"wait", "signal"}
    Ending = {}
    Timed = {"sema"}
    NestedIsrs = TRUE
    Ceilings = {0}
    MaxCount = 1
    MaxLock = 2
INVARIANT SignalFindsWaiter
CHECK_DEADLOCK FALSE
