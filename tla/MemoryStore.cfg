\* Up to three owner facts, failure lessons and mission outcomes: merges, successors, conflicts, ageing, crashes.
SPECIFICATION Spec
CONSTANTS
    Title = {t1, t2, t3}
    t1 = t1
    t2 = t2
    t3 = t3
    SlugOf <- MCSlugOf
    MissionOf <- MCMissionOf
    Content = {c1, c2}
    LearnRequests <- MCLearnRequests
    CuratedInputs <- MCCuratedInputs
    Keyed = {"Persona"}
    Ttl = 1
    ArchiveAfter = 1
    Horizon = 1
    MaxMemories = 3
    CanMisname = FALSE
    CanCrash = TRUE
    NoMemory = NoMemory
SYMMETRY ContentSymmetry
INVARIANTS
    OneOpenPerTitle
    ConflictsAreRecorded
    ActiveIsServed
    ServedIsCurrent
PROPERTIES
    ClosedStaysClosed
    OwnerFactsStand
