\* A bare /new does not end the conversation it leaves.
CONSTANTS
    Requests = {r1, r2, r3}
    Commands = {"plain", "new"}
    MaxSessions = 3
    Windows = {}
SYMMETRY Symmetry
\* All requests may be answered and all sessions over.
CHECK_DEADLOCK FALSE
SPECIFICATION Spec
INVARIANTS
    NewStartsAfresh
