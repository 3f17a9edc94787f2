SPECIFICATION Spec
CONSTANTS
    Parse = Parse
    Count = Count
    Fetch = Fetch
    Wrapper = Wrapper
    PureTypes <- MCPureTypes
    IoTypes <- MCIoTypes
    JsonTypes <- MCJsonTypes
    Values = {v}
    Null = Null
    Unserializable = {v}
    MaxNodes = 2
    MaxGenerations = 2
    MaxSetup = 1
    MaxReplaced = 1
INVARIANTS
    RunsOnItsInput
    SecondRestoreNeedsAFactory
    RestoredTasksRunThemselves
CHECK_DEADLOCK FALSE
