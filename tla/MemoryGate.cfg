\* A proposed procedure that nobody confirmed.
SPECIFICATION Spec
CONSTANTS
    Title = {t1, t2, t3}
    t1 = t1
    t2 = t2
    t3 = t3
    SlugOf <- MCSlugOf
    MissionOf <- MCMissionOf
    Content = {c1, c2}
    LearnRequests <- NoteRequests
    CuratedInputs <- RepoInputs
    Keyed = {"Procedures"}
    Ttl = 1
    ArchiveAfter = 1
    Horizon = 1
    MaxMemories = 3
    CanMisname = FALSE
    CanCrash = FALSE
    NoMemory = NoMemory
SYMMETRY ContentSymmetry
PROPERTY PromotionIsConfirmed
