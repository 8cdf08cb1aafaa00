SPECIFICATION Spec
CONSTANTS
    d1 = d1
    d2 = d2
    s1 = s1
    isr1 = isr1
    NULL = NULL
    NoMargin = NoMargin
    Prios <- MCPrios
    Isrs <- MCIsrs
    PoolSto <- MCPoolOfOne
    EvtSizes = {1}
    StaticEvts <- MCStaticEvts
    Cap = 2
    DeferCap = 1
    Margins <- MCMargins
    Services = {"defer", "flush", "ref"}
INVARIANTS RefCtrExact NoCountingAssertion
CHECK_DEADLOCK FALSE
