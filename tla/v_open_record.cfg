SPECIFICATION Spec
CONSTANTS
    MaxNodes = 1
    k1 = k1
    tA = tA
    tB = tB
    Unit = Unit
    NoKey = NoKey
    NoNode = NoNode
    NoVal = NoVal
    Keys <- MCKeys
    Types <- MCTypes
    Requests <- OneCall
    CacheOn = TRUE
    MayPanic = TRUE
    MayShutDown = FALSE
INVARIANTS
    OpenMeansRunning
