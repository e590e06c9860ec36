\* With a gap between awaits a conversation gets two runners, and an open session loses
\* its place in the table.
CONSTANTS
    Requests = {r1, r2, r3}
    Commands = {"plain", "control"}
    MaxSessions = 3
    Windows = {"slow_join"}
SYMMETRY Symmetry
CHECK_DEADLOCK FALSE
SPECIFICATION Spec
INVARIANTS
    OneRunnerPerConversation
    OpenSessionsAreListed
