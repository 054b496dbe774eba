CONSTANTS
    Interval = 2
    MaxInterval = 2
    Capacity = 2
    MaxChunks = 3

SPECIFICATION FairSpec

INVARIANTS
    TypeOK
    KeepAlive
    HonestEnd
    NeverStuck

PROPERTIES
    KeepsPromise
    KeepsContract
    HeartbeatsOnlyWhenIdle
    NeverSpins
    StreamConcludes
    GoneNoticed
