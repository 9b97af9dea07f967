SPECIFICATION Spec
CONSTANTS
    Requests <- AllRequests
    Adapters <- AllAdapters
    CanFail = TRUE
    CanLeave = TRUE
    Horizon = 2
    None = None
    NoBundle = NoBundle
INVARIANT FallbackIsPreserved
