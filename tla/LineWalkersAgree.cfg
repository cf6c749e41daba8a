SPECIFICATION WSpec
CONSTANTS
    Lines <- MCLines
    MaxLines = 4
CHECK_DEADLOCK FALSE
INVARIANTS
    WalkersAgree
PROPERTIES
    StatementsLexAsOne
    TrimmingIsHarmless
