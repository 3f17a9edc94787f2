SPECIFICATION Spec
CONSTANTS
    Providers = {openai, anthropic, ollama, azure, unknown}
    Usual = openai
    Completes = {openai, anthropic, ollama, azure}
    Embeds = {openai, ollama, azure}
    Keyless = {ollama}
    FromEnv = {azure}
    Names = {small, large}
    MaxFiles = 3
    MaxHistory = 10
    RetrieveK = 3
    MaxTurns = 7
    MaxProcesses = 2
    CommandLines <- MCCommandLines
    Files <- MCFiles
INVARIANTS
    PromptIsWholeTurns
    TasksFindTheirModels
    EntriesAreOneFile
CHECK_DEADLOCK FALSE
