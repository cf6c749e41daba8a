SPECIFICATION WSpec
CONSTANTS
    Lines <- MCLines
    MaxLines = 3
CHECK_DEADLOCK FALSE
INVARIANTS
    RewrittenGroupIsOneStream
