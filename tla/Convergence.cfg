SPECIFICATION MCSpec
CONSTANTS
    Layouts = {a, b, c}
    Groups = {g, h, k}
    Wrappable = {g, h}
    None = None
    Failure = Failure
    Documents = {d1, d2, d3, d4}
    Rewraps = {TRUE, FALSE}
CHECK_DEADLOCK FALSE
INVARIANTS
    OkIsFixedPoint
    CycleIsGenuine
    SettlementIsRight
PROPERTIES
    LoopsEnd
