SPECIFICATION Spec
CONSTANTS
    c1 = c1
    c2 = c2
    c3 = c3
    t1 = t1
    t2 = t2
    none = none
    Callers = {c1, c2, c3}
    Watches = {t1, t2}
    MayCall <- MCMayCall
    NoTask = none
    MaxChanges = 2
INVARIANTS
    TypeOK
    NoStepBack
    ClosedIsQuiet
PROPERTIES
    FollowsServer
    EventsAreHeeded
    WatchResumes
    LeakedEnds
CHECK_DEADLOCK FALSE
