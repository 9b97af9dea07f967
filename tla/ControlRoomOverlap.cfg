\* Overlapping reruns, plans, decisions and restarts on one mission.
SPECIFICATION Spec
CONSTANTS
    Mission = {x1}
    Kind = {k1}
    Operator = {o1}
    Chat = {h1}
    Background = {b1}
    Levels = {"semi_autonomous"}
    Minimums = {1}
    MaxRuns = 3
    MaxEvents = 1
    NoMission = NoMission
INVARIANTS
    ReviewFitsStatus
    AutoApprovalIsRoutine
PROPERTIES
    HistoryIsKept
    OverrideHolds
