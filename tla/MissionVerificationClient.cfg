\* A client that sends a status with an outcome, or completes a verification
\* without checks (-continue reports both).
SPECIFICATION Spec
CONSTANTS
    Mission = {x1}
    Manager = {}
    Client = {c1}
    Public = {x1}
    MaxOutcomes = 3
    MaxRuns = 3
    Horizon = 1
    CanFail = FALSE
    NoMission = NoMission
INVARIANTS
    VerifiedHasRun
    VerifiedHasChecks
CHECK_DEADLOCK FALSE
