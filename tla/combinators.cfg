SPECIFICATION CombFairSpec
CONSTANTS
    MaxNodes = 4
    tA = tA
    tB = tB
    Unit = Unit
    NoKey = NoKey
    NoNode = NoNode
    NoVal = NoVal
    Keys = {}
    Types <- MCTypes
    Requests <- MCRequests
    Kinds <- AllKinds
    Outer <- Plain
    Inner <- Plain
    Io <- IoCalls
    CacheOn = FALSE
    MayPanic = TRUE
    MayShutDown = TRUE
INVARIANTS
    OneChildAtATime
    OkIsEarned
    ErrHasItsCause
    CancelEndsTheLoop
PROPERTIES
    CombinatorAnswers
