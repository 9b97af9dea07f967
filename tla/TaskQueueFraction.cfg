\* Fractions of max_attempts.
SPECIFICATION Spec
CONSTANTS
    Item = {i1, i2}
    Mission = {m1}
    Text = {t1, t2}
    m1 = m1
    t1 = t1
    t2 = t2
    Requests <- HalfRequests
    Results <- FewResults
    TickLimits = {2}
    Horizon = 0
    CanCrash = FALSE
    NoItem = NoItem
    NoMission = NoMission
INVARIANT MaxAttemptsPositive
