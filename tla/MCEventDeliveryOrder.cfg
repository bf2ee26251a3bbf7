CONSTANTS
    Callbacks = {}
    PendMax = 1
    SinkMax = 1
    MaxEvents = 5
    InitEvents = 1
    MaxResumes = 0
    HasSink = FALSE
SPECIFICATION Spec
INVARIANTS
    StreamInOrder
CHECK_DEADLOCK FALSE
