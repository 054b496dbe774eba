CONSTANTS
    Byte <- MCByte
    MaxChunk = 6
    Chunks = 2

SPECIFICATION Spec

INVARIANT FeedIsBytewise
