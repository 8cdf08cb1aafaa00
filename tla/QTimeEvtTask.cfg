SPECIFICATION Spec
CONSTANTS
    t1 = t1
    t3 = t3
    t2 = t2
    Head = Head
    NULL = NULL
    TimeEvts <- MCTimeEvts
    MaxTicks = 1
    MaxPosted = 1
    MaxBacklog = 2
    Ops = {"armX", "disarm", "rearm"}
    TickInIsr = FALSE
SYMMETRY MCSymmetry
INVARIANTS ListsConsistent NoTickStranded
CHECK_DEADLOCK FALSE
