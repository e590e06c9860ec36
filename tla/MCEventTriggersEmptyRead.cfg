\* The stored event that a run which finds none forgets, with no fault.
CONSTANTS
    Keys = {1}
    StreamLength <- OneEach
    Past <- ThirdWaits
    QueueLimit = 2
    Batch = 1
    MaxFailures = 2
    KeepRuns = 2
    KeepHandled = 1
    MaxEdits = 1
    MaxFaults = 0
\* The trigger may be deleted.
CHECK_DEADLOCK FALSE
SPECIFICATION Spec
INVARIANTS
    NoneForgotten
