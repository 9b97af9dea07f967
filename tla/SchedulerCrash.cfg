\* Two schedules: ticks, run-now, pauses, the stop, crashes and restarts,
\* under the fairness of the poll timer.
SPECIFICATION FairSpec
CONSTANTS
    Schedule = {s1, s2}
    Token = {k1, k2, k3}
    Cadences <- MCCadences
    Outcomes = {"failed"}
    TickLimits = {2}
    Day = 2
    Horizon = 1
    MaxRunNows = 1
    CanCrash = TRUE
    NoToken = NoToken
INVARIANTS
    LockIsServed
    LostOnlyByPause
PROPERTIES
    NextRunIsLater
    PausedIsQuiet
    DueSchedulesRun
