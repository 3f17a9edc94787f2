SPECIFICATION FairSpec
CONSTANTS
    Programs = {"solve", "pipeline"}
    MaxItems = 3
    MaxLines = 3
    Batches <- MCBatches
    FileSystems <- MCFileSystems
    KeepCats <- MCKeepCats
    MinValue = 5
INVARIANTS
    AnswerIsReference
    TestsSeeEveryEdit
    GraphIsCompleteAtTheAnswer
PROPERTIES
    ProgramEnds
CHECK_DEADLOCK FALSE
