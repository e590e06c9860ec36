\* One change of any kind, two failures and two ends of the daemon.
CONSTANTS
    Corrections = {c}
    Deletions = {d}
    Repairs = {r}
    c = c
    d = d
    r = r
    MaxChanges = 1
    MaxAdmitted = 1
    MaxFaults = 2
    MaxCrashes = 2
\* It may be settled.
CHECK_DEADLOCK FALSE
SPECIFICATION FairSpec
INVARIANTS
    SavedBeforeBegun
    ConfirmedIsDone
    ClosedIsQuiet
PROPERTIES
    DiscardStands
    AdmittedSettles
