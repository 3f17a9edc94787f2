SPECIFICATION FairSpec
CONSTANTS
    MaxNodes = 2
    k1 = k1
    tA = tA
    tB = tB
    Unit = Unit
    NoKey = NoKey
    NoNode = NoNode
    NoVal = NoVal
    Keys <- MCKeys
    Types <- MCTypes
    Requests <- AllCalls
    CacheOn = TRUE
    MayPanic = TRUE
    MayShutDown = TRUE
INVARIANTS
    ReplyMatchesRecord
    CacheSound
    IInv
PROPERTIES
    HistoryIsFinal
    ImplementsLifecycle
    EveryHandleResolves
    FrontierDrains
    CancelStopsNewWork
    MemoizedWorkIsNotRepeated
