SPECIFICATION MCSpec
CONSTANTS
    Texts <- MCTexts
    Modes = {"NormalizeOnly", "CanonicalizeOnly", "Full"}
    OptionSets <- MCOptionSets
    Files <- MCFiles
    Byte = {"a", "b", "c", "X"}
    Lines <- MCLines
    Inserts <- MCInserts
    MaxRequests = 3
CHECK_DEADLOCK FALSE
INVARIANTS
    ViewCurrent
    TerminatorsRight
    ShapeSettled
    SurvivorsKept
    TextsInPlace
    AgreeingApplied
