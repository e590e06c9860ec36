CONSTANTS
    w1 = w1
    w2 = w2
    Tools = {w2}
    MaxCards = 2
    Cap = 2
    MaxMeta = 1
    Kinds <- OneKind
    Switches = {s1}
CHECK_DEADLOCK FALSE
SPECIFICATION Spec
INVARIANTS
    ResolvedBeforeResult
