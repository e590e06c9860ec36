CONSTANTS
    Keys = {1}
    StreamLength <- OneEach
    Past <- ThirdWaits
    QueueLimit = 2
    Batch = 1
    MaxFailures = 2
    KeepRuns = 2
    KeepHandled = 1
    MaxEdits = 1
    MaxFaults = 1
\* The trigger may be deleted.
CHECK_DEADLOCK FALSE
SPECIFICATION Spec
PROPERTIES
    ResumeClearsEnd
