SPECIFICATION Spec
CONSTANTS
    c1 = c1
    c2 = c2
    NULL = NULL
    Data = Data
    Clients <- MCClients
    Margins <- MCMargins
    PoolSizes <- MCPoolSizes
    BlockSizes <- MCBlockSizes
    PtrSize = 2
    FastMod = 16
    SizeMod = 16
    CtrMod = 16
INVARIANTS FreeListExact NoPoolAssertion BlocksFit
PROPERTIES ImplementsPool InitTerminates
CHECK_DEADLOCK FALSE
