SPECIFICATION Spec
CONSTANTS
    d1 = d1
    d2 = d2
    s1 = s1
    isr1 = isr1
    NULL = NULL
    NoMargin = NoMargin
    Prios <- MCPrios
    Isrs <- MCIsrs
    PoolSto <- MCTwoPools
    EvtSizes = {1, 2}
    StaticEvts = {}
    Cap = 2
    DeferCap = 1
    Margins = {0}
    Services = {"subscribe"}
INVARIANT SmallestFit
PROPERTY EventuallyRecycled
CHECK_DEADLOCK FALSE
