SPECIFICATION FairSpec
CONSTANTS
    Starter = start
    Senders = {m1, m2}
    Cancellers = {x1}
    Closers = {q1}
    Callers = {start, m1, m2, x1, q1}
    Nobody = nobody
    Streams = {s1}
    ApprovalIds = {a1}
    Specs <- SpecSet
    Tasks <- TaskSet
    Cursors = {2}
    Loads <- LoadSet
    SerialSenders = TRUE
CHECK_DEADLOCK FALSE
INVARIANTS
    StreamsComplete
    RequestsSettle
    AnsweredOnce
    TurnKnown
PROPERTY
    CancelSettles
