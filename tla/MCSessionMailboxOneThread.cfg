\* The mailbox on a single-threaded executor, as the tests run it: a stop spares
\* what comes after it.
CONSTANTS
    Requests = {r1, r2, r3}
    Opener = opener
    Cap = 2
    Parallel = FALSE
    MayFail = TRUE
SYMMETRY Symmetry
\* The session may end and leave nothing to do.
CHECK_DEADLOCK FALSE
SPECIFICATION Spec
INVARIANTS
    TypeOK
    StopSparesLaterMessages
PROPERTIES
    MailboxIsOneLine
