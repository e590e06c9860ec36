\* Two messages, a child conversation, one refusal and a crash.
CONSTANTS
    MaxConvs = 2
    MaxSaved = 2
    MaxFaults = 1
    MaxCrashes = 1
\* All may be said and formed.
CHECK_DEADLOCK FALSE
SPECIFICATION FairSpec
INVARIANTS
    NothingSkipped
    FormedOnce
PROPERTIES
    MemoryCatchesUp
