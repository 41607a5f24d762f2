CONSTANTS
    k1 = k1
    k2 = k2
    k3 = k3
    s1 = s1
    Invocations = {k1, k2, k3}
    First = k1
    Streams = {s1}
    Overlap = FALSE
SPECIFICATION FairSpec
INVARIANTS
    RecordHolds
    DecisionDurable
    NoUnapprovedAction
PROPERTIES
    DurableStatusFinal
    CancelledSessionsSettle
    SettledStreamsEnd
CHECK_DEADLOCK FALSE
