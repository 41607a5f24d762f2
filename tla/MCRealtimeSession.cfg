SPECIFICATION Spec
CONSTANTS
    Streams = {s1, s2}
    Closers = {c1}
    Updaters = {u1}
    None = None
    Capabilities <- OpenAIRealtime
    Realtime <- RealtimeRefs
    Requests <- Connections
    Configurations <- Voice
    Updates <- SomeUpdates
    Definitions <- Guarded
    Frames <- OneFrame
    MaxEvents = 2
    MaxCommands = 1
    MaxEdits = 1
    SerialStreams = TRUE
CHECK_DEADLOCK FALSE
SYMMETRY StreamSymmetry
INVARIANTS
    CommandsInOrder
    AnsweredOnce
    KeysForgotten

    
