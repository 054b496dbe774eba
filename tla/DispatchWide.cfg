SPECIFICATION Spec
CONSTANTS
    MaxProbe = 3
    Width = 4
    MaxBody = 3
INVARIANTS
    WrappedIffAsked
