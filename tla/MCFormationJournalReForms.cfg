\* A window that has not grown is formed twice after an error.
CONSTANTS
    MaxConvs = 1
    MaxSaved = 1
    MaxFaults = 1
    MaxCrashes = 1
\* All may be said and formed.
CHECK_DEADLOCK FALSE
SPECIFICATION Spec
INVARIANTS
    NeverReForms
