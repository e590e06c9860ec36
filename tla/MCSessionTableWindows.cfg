\* Every command, with all gaps between awaits.
CONSTANTS
    Requests = {r1, r2, r3}
    Commands = {"plain", "control", "new", "new_prompt"}
    MaxSessions = 3
    Windows = {"slow_join", "slip_in", "late_leave"}
SYMMETRY Symmetry
\* All requests may be answered and all sessions over.
CHECK_DEADLOCK FALSE
SPECIFICATION Spec
INVARIANTS
    OneJoinableSession
    NewIsABoundary
