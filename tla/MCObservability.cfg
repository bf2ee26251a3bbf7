CONSTANTS
    Nothing = Nothing
    r1 = r1
    r2 = r2
    Callbacks = {c1}
    PendMax = 1
    SinkMax = 1
    MaxEvents = 6
    InitEvents = 1
    MaxResumes = 1
    HasSink = TRUE
SPECIFICATION MCSpec
INVARIANTS
    StreamIsComplete
    SinkIsIsolated
    CheckpointNumbersLast
    ObservabilitySound
PROPERTIES
    RunsEnd
CHECK_DEADLOCK FALSE
