\* The queue over crashes, under the fairness of the poll timer.
SPECIFICATION FairSpec
CONSTANTS
    Item = {i1, i2}
    Mission = {m1}
    Text = {t1, t2}
    m1 = m1
    t1 = t1
    t2 = t2
    Requests <- FewRequests
    Results <- FewResults
    TickLimits = {2}
    Horizon = 0
    CanCrash = TRUE
    NoItem = NoItem
    NoMission = NoMission
PROPERTY EveryItemSettlesAfterCrash
