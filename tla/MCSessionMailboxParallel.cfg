\* The mailbox on the daemon's multi-threaded executor: what is never lost, and
\* that everything is resolved and every sender returns.
CONSTANTS
    Requests = {r1, r2}
    Opener = opener
    Cap = 1
    Parallel = TRUE
    MayFail = TRUE
\* The session may end and leave nothing to do.
CHECK_DEADLOCK FALSE
SPECIFICATION FairSpec
INVARIANTS
    NothingIsLost
    ControlIsHeard
PROPERTIES
    MailboxIsOneLine
    NoWorkPastAStop
    SendsAreResolved
