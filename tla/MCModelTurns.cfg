SPECIFICATION FairSpec
CONSTANTS
    Calls <- AllCalls
    Timeout = TRUE
    Responses <- ResponseSet
    MaxRetries = 2
    MaxTurns = 2
    MaxChunk = 4
CHECK_DEADLOCK FALSE
INVARIANTS
    DecodedAsWhole
    PricedOnce
    SentAsAsked
    ReplayGuarded
    SentWithinPackage
PROPERTY
    TurnsSettle
