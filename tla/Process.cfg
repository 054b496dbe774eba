CONSTANTS
    Conn = {c1}
    Backoff = 1
    ShutdownTimeout = 1
    MaxAsked = 2
    MaxNow = 1

SPECIFICATION FairProcess

INVARIANTS
    ProcessTypeOK
    ProfilesKept
    NeverStuck

PROPERTIES
    RequestsHeard
    ProcessEnds
    KeepsServer
