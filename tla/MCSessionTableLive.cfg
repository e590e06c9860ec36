\* Messages and controls, with all gaps between awaits: every request returns, every
\* accepted message is served.
CONSTANTS
    Requests = {r1, r2, r3}
    Commands = {"plain", "control"}
    MaxSessions = 3
    Windows = {"slow_join", "slip_in", "late_leave"}
\* All requests may be answered and all sessions over.
CHECK_DEADLOCK FALSE
SPECIFICATION FairSpec
PROPERTIES
    RequestsAreServed
