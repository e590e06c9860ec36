CONSTANTS
    w1 = w1
    w2 = w2
    Tools = {w1, w2}
    MaxCards = 4
    Cap = 1
    MaxMeta = 1
    Kinds <- MixedKinds
    Switches = {s1}
\* The turn ends.
CHECK_DEADLOCK FALSE
SPECIFICATION FairSpec
PROPERTIES
    WaitsEnd
INVARIANTS
    CardAndToolAgree
    CardClosesFirst
    OpenCardsSettle
    ApprovalsFollowTheMode
