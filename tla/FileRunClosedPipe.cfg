SPECIFICATION Spec
CONSTANTS
    None = None
    a = a
    b = b
    c = c
    link = link
    r1 = r1
    r2 = r2
    r3 = r3
    Runs = {r1, r2, r3}
    Files = {a, b, c}
    Paths = {a, b, c, link}
    Resolve <- ResolveLink
    Fixed = {c}
    MaxEdits = 0
    Settings <- OneSetting
CHECK_DEADLOCK FALSE
INVARIANTS
    ClosedPipeExitsZero
