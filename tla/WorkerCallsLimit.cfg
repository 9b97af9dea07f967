\* A task about limits, whose output mentions them.
SPECIFICATION Spec
CONSTANTS
    Tasks <- MentioningTasks
    Adapters <- AllAdapters
    MaxMessages = 2
    CountsTimeout = FALSE
    None = None
INVARIANTS DoneOnce
