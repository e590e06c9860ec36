\* Two jobs, two slots, every kind of edit, and a crash.
CONSTANTS
    Jobs = {j1, j2}
    Origins = {o1, o2}
    Schedules <- Mixed
    MaxConcurrent = 2
    Never = 9
    MaxTime = 2
    MaxRuns = 2
    MaxEdits = 2
    MaxRestarts = 1
    MayCrash = TRUE
SYMMETRY Symmetry
\* The clock stops at its bound.
CHECK_DEADLOCK FALSE
SPECIFICATION Spec
INVARIANTS
    OneRunPerJob
    OneTimeRunsOnce
    ConversationOfItsOrigin
PROPERTIES
    PauseHolds
    FinishRespectsEdits
