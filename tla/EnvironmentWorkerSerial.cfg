CONSTANTS
    i1 = i1
    i2 = i2
    w1 = w1
    w2 = w2
    c1 = c1
    c2 = c2
    Items = {i1}
    LeaseMs = 1
    MaxClaims = 2
    NoLease = NoLease
    Workers = {w1, w2}
    Calls = {c1, c2}
    WorkerOf <- Serial
    NoCall = NoCall
    NoItem = NoItem
    RemoteFaults = FALSE
    Modes = {"run"}
    Settlements = {"completed"}
SPECIFICATION FairSpec
CHECK_DEADLOCK FALSE
INVARIANTS
    ForcedStopReachesHandler
    NoSleepAfterStop
    StatusTruthful
PROPERTIES
    KeepsPromise
    StopEndsCalls
    BeatsNoticeLoss
