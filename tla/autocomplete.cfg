SPECIFICATION FairSpec
CONSTANTS
    Last = 3
    Looks = 2
INVARIANTS
    LastTaskCompletes
    ReportAgrees
PROPERTIES
    OutcomeStays
    ProgramEnds
CHECK_DEADLOCK FALSE
