\* The emergency stop against a tick whose batch is running.
SPECIFICATION Spec
CONSTANTS
    Schedule = {s1, s2}
    Token = {k1, k2, k3, k4}
    Cadences <- OneCadence
    Outcomes = {"verified_complete"}
    TickLimits = {2}
    Day = 2
    Horizon = 1
    MaxRunNows = 1
    CanCrash = FALSE
    NoToken = NoToken
PROPERTIES
    NoRunStartsWhileStopped
