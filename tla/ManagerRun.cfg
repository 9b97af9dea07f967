SPECIFICATION FairSpec
CONSTANTS
    Requests <- AllRequests
    Adapters <- AllAdapters
    CanFail = TRUE
    CanLeave = TRUE
    Horizon = 2
    None = None
    NoBundle = NoBundle
INVARIANTS TypeOK DispatchIsWarranted NoFalseComplete SessionAgreesWithGraph OneWorkerPerTask
PROPERTIES RecordsSurviveRestore RunEnds
CHECK_DEADLOCK TRUE
