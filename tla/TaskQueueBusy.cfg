\* Three rows that compete for one tick.
SPECIFICATION Spec
CONSTANTS
    Item = {i1, i2, i3}
    Mission = {m1}
    Text = {t1, t2}
    m1 = m1
    t1 = t1
    t2 = t2
    Requests <- FewRequests
    Results <- FewResults
    TickLimits = {2}
    Horizon = 0
    CanCrash = FALSE
    NoItem = NoItem
    NoMission = NoMission
SYMMETRY ItemSymmetry
INVARIANTS
    LockMatchesStatus
    NoDuplicateFollowups
    BackoffElapses
PROPERTIES
    SettledIsFinal
    NoPriorityInversion
