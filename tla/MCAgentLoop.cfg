CONSTANTS
    CallBound = 4
    Capacity = 1
    MaxIterations = 3
    MaxRetries = 1
    MaxCalls = 3
    MaxParallel = 2
    Candidates <- TwoCandidates
    NoProvider = "nobody"
    Strategies = {"text", "provider_native", "posthoc_parse_with_retry"}
    NativeFallback = "finalizer_tool"
SPECIFICATION FairSpec
CHECK_DEADLOCK FALSE
INVARIANTS
    SlotsAccounted
    BudgetsHold
    InterruptedTurnNotAnswered
PROPERTIES
    KeepsGovernance
    RunEnds
