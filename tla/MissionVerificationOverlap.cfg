\* Two manager runs of one mission: the verifier's stamp and the path to verified_complete.
SPECIFICATION Spec
CONSTANTS
    Mission = {x1}
    Manager = {m1, m2}
    Client = {}
    Public = {}
    MaxOutcomes = 3
    MaxRuns = 3
    Horizon = 1
    CanFail = FALSE
    NoMission = NoMission
INVARIANTS
    StampIsEarned
PROPERTIES
    ThroughAwaiting
CHECK_DEADLOCK FALSE
