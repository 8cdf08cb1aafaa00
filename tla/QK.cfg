SPECIFICATION Spec
CONSTANTS
    a1 = a1
    a2 = a2
    a3 = a3
    NULL = NULL
    Objs <- MCObjs
    PrioOf <- MCPrio
    MAX_ACTIVE = 3
    QLen = 1
    Fuel = 2
    MaxNest = 1
    Ceilings = {2}
    Calls = {"post", "lock", "publish", "subscribe", "start", "stop"}
INVARIANTS NoLostWakeup NoKernelAssertion HighestRuns StackNested CeilingRespected LocksNested MulticastUninterrupted
CHECK_DEADLOCK FALSE
