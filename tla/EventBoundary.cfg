CONSTANTS
    Content <- MCContent
    Colon = ":"
    Report = "d"
    MaxBytes = 7

SPECIFICATION Spec

INVARIANTS
    TypeOK
    BoundaryExact
    HeartbeatsInvisible
    ErrorEventSeparate
