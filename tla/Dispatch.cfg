SPECIFICATION Spec
CONSTANTS
    MaxProbe = 2
    Width = 16
    MaxBody = 4
INVARIANTS
    TypeOK
    BufferBounded
    RawOrNothing
    WrappedIffAsked
    RefusedForCause
