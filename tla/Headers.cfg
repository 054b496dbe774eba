SPECIFICATION Spec
CONSTANTS
    ClientNames = {"connection", "host", "te", "x-id"}
    UpstreamNames = {"connection", "content-length", "content-encoding", "content-type", "te", "x-id"}
    Listable = {"host", "content-length", "content-encoding", "content-type", "x-id"}
INVARIANTS
    RequestCrosses
    UpstreamHonoured
    ResponseDescribesBody
    OnlyStreamsAreTouched
    ResponseCrosses
