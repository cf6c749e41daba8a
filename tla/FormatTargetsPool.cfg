SPECIFICATION Spec
CONSTANTS
    None = None
    N = 4
    Parallelism = 2
    SpawnFails = TRUE
CHECK_DEADLOCK FALSE
INVARIANTS
    FormattedOnce
    SlotsFilled
PROPERTIES
    ImplementsFormatAll
