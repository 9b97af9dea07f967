\* Concurrent manager runs of one mission that may break off.
SPECIFICATION Spec
CONSTANTS
    Mission = {x1}
    Manager = {m1, m2}
    Client = {}
    Public = {}
    MaxOutcomes = 3
    MaxRuns = 3
    Horizon = 2
    CanFail = TRUE
    NoMission = NoMission
SYMMETRY CallerSymmetry
INVARIANTS
    StatusMatchesProof
CHECK_DEADLOCK FALSE
