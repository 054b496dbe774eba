CONSTANTS
    Conn = {c1, c2, c3}
    Backoff = 1
    ShutdownTimeout = 2

SPECIFICATION FairSpec

INVARIANTS
    TasksServe

PROPERTIES
    CutOnlyByTimeout
    TimeoutOnlyForResponses
    SignalEndsProcess
    EachServes
