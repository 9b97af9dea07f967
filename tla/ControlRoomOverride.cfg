\* The override of a running mission.
SPECIFICATION Spec
CONSTANTS
    Mission = {x1}
    Kind = {k1}
    Operator = {o1}
    Chat = {}
    Background = {}
    Levels = {}
    Minimums = {}
    MaxRuns = 2
    MaxEvents = 2
    NoMission = NoMission
INVARIANTS
    RunningCanBeOverridden
