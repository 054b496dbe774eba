CONSTANTS
    Interval = 3
    MaxInterval = 2
    Capacity = 2
    MaxChunks = 2

SPECIFICATION Spec

INVARIANT HonestEnd
