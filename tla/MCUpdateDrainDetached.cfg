\* Work goes on unseen: in a session that /new took out of the table and, with
\* Kinds = {"plain"}, in one that serves an input rescued behind the closed channel.
CONSTANTS
    Requests = {1, 2}
    Kinds = {"plain", "new"}
    MaxSessions = 1
    Retries = 1
\* The daemon may be shut down, or everything be answered.
CHECK_DEADLOCK FALSE
SPECIFICATION DrainSpec
INVARIANTS
    ExistingWorkDrains
