SPECIFICATION Spec
CONSTANTS
    t1 = t1
    t3 = t3
    t2 = t2
    Head = Head
    NULL = NULL
    TimeEvts <- MCTwoEvts
    MaxTicks = 2
    MaxPosted = 1
    MaxBacklog = 1
    Ops = {"armX", "disarm", "rearm", "wasDisarmed"}
    TickInIsr = TRUE
SYMMETRY MCTwoSymmetry
INVARIANTS OncePerTick OnTime ListsSurvive
CHECK_DEADLOCK FALSE
