\* One manager run at a time on a private and a public mission, beside a client.
SPECIFICATION Spec
CONSTANTS
    Mission = {x1, x2}
    Manager = {m1}
    Client = {c1}
    Public = {x2}
    MaxOutcomes = 2
    MaxRuns = 2
    Horizon = 1
    CanFail = FALSE
    NoMission = NoMission
INVARIANTS
    OutcomeIsOwn
    OpenRunHasOwner
    StampIsEarned
CHECK_DEADLOCK FALSE
