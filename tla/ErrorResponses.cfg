SPECIFICATION Spec
CONSTANTS
    Status = {101, 304, 400, 401, 413, 418, 429, 500, 503, 529, 600}
    MaxMsg = 5
    MaxText = 2
INVARIANTS
    ErrorFilledIn
