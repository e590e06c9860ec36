\* The maintenance gate: its safety, its refinement of LeasedLock, and that a
\* lease nobody releases ends on its own.
CONSTANTS
    Workers = {w1, w2, w3}
    Owners = {o1, o2}
    LeaseTime = 2
    MaxTokens = 3
SPECIFICATION FairSpec
INVARIANTS
    ActiveCountsPermits
PROPERTIES
    GateIsLeasedLock
    ReopensAfterCrash
