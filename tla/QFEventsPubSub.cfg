SPECIFICATION Spec
CONSTANTS
    d1 = d1
    d2 = d2
    s1 = s1
    isr1 = isr1
    NULL = NULL
    NoMargin = NoMargin
    Prios <- MCPrios
    Isrs <- MCIsrs
    PoolSto <- MCPoolOfTwo
    EvtSizes = {1}
    StaticEvts = {}
    Cap = 2
    DeferCap = 1
    Margins <- MCMargins
    Services = {"new", "forward", "subscribe"}
SYMMETRY MCSymmetry
INVARIANTS RefCtrExact NoDanglingReference
CHECK_DEADLOCK FALSE
