SPECIFICATION Spec
CONSTANTS
    a1 = a1
    a2 = a2
    a3 = a3
    NULL = NULL
    Objs <- MCObjs
    PrioOf <- MCPrio
    MAX_ACTIVE = 3
    QLen = 2
    Fuel = 2
INVARIANTS NoLostWakeup PickedCanRun NoSleepOverEvents
PROPERTY TopServed
CHECK_DEADLOCK FALSE
