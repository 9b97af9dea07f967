\* A report counts as work done also when its process was killed afterwards.
SPECIFICATION Spec
CONSTANTS
    Tasks <- PlainTasks
    Adapters <- AllAdapters
    MaxMessages = 2
    CountsTimeout = TRUE
    None = None
INVARIANTS DoneOnce
