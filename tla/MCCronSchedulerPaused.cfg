\* A paused one-time job that has run before.
CONSTANTS
    Jobs = {j1}
    Origins = {o1}
    Schedules <- Mixed
    MaxConcurrent = 1
    Never = 9
    MaxTime = 2
    MaxRuns = 2
    MaxEdits = 3
    MaxRestarts = 0
    MayCrash = FALSE
\* The clock stops at its bound.
CHECK_DEADLOCK FALSE
SPECIFICATION Spec
PROPERTIES
    RescheduleKeepsPaused
