SPECIFICATION Spec
CONSTANTS
    d1 = d1
    s1 = s1
    NULL = NULL
    NoMargin = NoMargin
    Evts <- MCEvts
    DynEvts <- MCDynEvts
    Margins <- MCMargins
    QLens <- MCQLens
    CtrMod = 8
    MaxHeld = 2
INVARIANTS TypeOK RingConsistent RefCtrExact
PROPERTY ImplementsDeque
CHECK_DEADLOCK FALSE
