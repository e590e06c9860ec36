\* The passage over a card is lost in a crash, and the window then begins with it.
CONSTANTS
    MaxConvs = 1
    MaxSaved = 2
    MaxFaults = 0
    MaxCrashes = 1
\* All may be said and formed.
CHECK_DEADLOCK FALSE
SPECIFICATION Spec
INVARIANTS
    OneWindowEach
