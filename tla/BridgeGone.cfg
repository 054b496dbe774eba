CONSTANTS
    Interval = 2
    MaxInterval = 2
    Capacity = 2
    MaxChunks = 2

SPECIFICATION FairSpec

PROPERTY GoneCancels
