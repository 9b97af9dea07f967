\* A crash during a run, with one claim per tick.
SPECIFICATION FairSpec
CONSTANTS
    Schedule = {s1, s2}
    Token = {k1, k2, k3, k4}
    Cadences <- OneCadence
    Outcomes = {"verified_complete"}
    TickLimits = {1}
    Day = 2
    Horizon = 0
    MaxRunNows = 0
    CanCrash = TRUE
    NoToken = NoToken
PROPERTIES
    EveryDueScheduleRuns
