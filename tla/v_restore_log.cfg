SPECIFICATION CkSpec
CONSTANTS
    MaxNodes = 2
    k1 = k1
    tA = tA
    Unit = Unit
    NoKey = NoKey
    NoNode = NoNode
    NoVal = NoVal
    Keys <- MCKeys
    Types <- MCTypes
    Requests <- BothCalls
    Known <- OneCall
    TakesJson <- OneCall
    ByFactory <- OneCall
    CacheOn = FALSE
    MayPanic = TRUE
    MayShutDown = FALSE
CHECK_DEADLOCK FALSE
INVARIANTS
    ClosedRecordsAreRebuilt
