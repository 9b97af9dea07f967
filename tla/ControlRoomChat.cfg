\* A chat message while execution is stopped.
SPECIFICATION Spec
CONSTANTS
    Mission = {x1, x2}
    Kind = {k1}
    Operator = {}
    Chat = {h1}
    Background = {}
    Levels = {}
    Minimums = {}
    MaxRuns = 2
    MaxEvents = 2
    NoMission = NoMission
PROPERTIES
    NoMissionStartsWhileStopped
