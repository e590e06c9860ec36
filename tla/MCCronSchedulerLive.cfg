\* One slot: every run ends, every due job gets its turn.
CONSTANTS
    Jobs = {j1, j2}
    Origins = {o1}
    Schedules <- Mixed
    MaxConcurrent = 1
    Never = 9
    MaxTime = 2
    MaxRuns = 2
    MaxEdits = 1
    MaxRestarts = 1
    MayCrash = FALSE
\* The clock stops at its bound.
CHECK_DEADLOCK FALSE
SPECIFICATION FairSpec
PROPERTIES
    RunsAreFinished
    DueIsClaimed
