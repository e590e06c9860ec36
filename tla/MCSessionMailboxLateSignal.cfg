\* The signal of a /stop can reach the batch after it.
CONSTANTS
    Requests = {r1, r2, r3}
    Opener = opener
    Cap = 2
    Parallel = TRUE
    MayFail = FALSE
SYMMETRY Symmetry
\* The session may end and leave nothing to do.
CHECK_DEADLOCK FALSE
SPECIFICATION Spec
INVARIANTS
    StopSparesLaterMessages
