\* Two rows: retries, cancellation, the stop, crashes and restarts, under
\* the fairness of the poll timer.
SPECIFICATION FairSpec
CONSTANTS
    Item = {i1, i2}
    Mission = {m1}
    Text = {t1, t2}
    m1 = m1
    t1 = t1
    t2 = t2
    Requests <- MCRequests
    Results <- MCResults
    TickLimits = {2}
    Horizon = 1
    CanCrash = TRUE
    NoItem = NoItem
    NoMission = NoMission
INVARIANTS
    TypeOK
    RunningIsExecuted
    LostOnlyByCancel
    AttemptBudget
    NoDuplicateFollowups
PROPERTIES
    KeepsLedger
    NoPriorityInversion
    EveryItemSettles
