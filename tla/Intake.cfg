SPECIFICATION MCSpec
CONSTANTS
    SourceLines <- MCSourceLines
    MaxSourceLines = 5
    Tokens <- MCTokens
    MaxTokens = 4
    SettingsGiven <- MCSettings
    MaxGiven = 3
    Directories <- MCDirectories
    Patterns <- MCPatterns
    SourcePaths <- MCSourcePaths
    Paths <- MCPaths
    Invocations <- MCInvocations
    MaxEdits = 1
CHECK_DEADLOCK FALSE
INVARIANTS
    FormIsRecognised
    OrderDoesNotMatter
    SettingsAreRight
    ExclusionIsExact
    SelectionIsRight
