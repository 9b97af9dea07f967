\* A pause of the schedule that runs at the head of a batch.
SPECIFICATION FairSpec
CONSTANTS
    Schedule = {s1, s2}
    Token = {k1, k2, k3, k4}
    Cadences <- OneCadence
    Outcomes = {"verified_complete"}
    TickLimits = {2}
    Day = 2
    Horizon = 0
    MaxRunNows = 0
    CanCrash = FALSE
    NoToken = NoToken
PROPERTIES
    EveryDueScheduleRuns
