\* Every worker, programs that do anything, no task about limits.
SPECIFICATION Spec
CONSTANTS
    Tasks <- PlainTasks
    Adapters <- AllAdapters
    MaxMessages = 2
    CountsTimeout = FALSE
    None = None
INVARIANTS FailureIsHeard DoneOnce
PROPERTIES KeepsFabric
