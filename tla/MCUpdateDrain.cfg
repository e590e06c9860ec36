\* An update while messages, stops and /new come and go: it cuts no
\* work of the session in the table that the daemon can see, and it ends.
CONSTANTS
    Requests = {1, 2, 3}
    Kinds = {"plain", "stop", "new"}
    MaxSessions = 2
    Retries = 1
\* The daemon may be shut down, or everything be answered.
CHECK_DEADLOCK FALSE
SPECIFICATION OrderedSpec
INVARIANTS
    AttachedWorkDrains
PROPERTIES
    UpdateConcludes
