SPECIFICATION Spec
CONSTANTS
    N = 6
    MAX_NEST_DEPTH_ = 4
INVARIANTS TransitionExact EntryExitOrder StableConfiguration NoPathOverflow
CHECK_DEADLOCK FALSE
