SPECIFICATION FairSpec
CONSTANTS
    p1 = p1
    p2 = p2
    Callers <- TwoPasses
    Sessions <- AllSessions
    MaxFaults = 1
    List <- SomeSchedules
    Passes <- TwoPasses
    Since = 0
    TimeStep = 40
    Horizon = 80
    SearchLimit = 1500
INVARIANTS
    RunsOnce
    RunsAreLogged
    WritesInOrder
PROPERTY
    DueRuns
