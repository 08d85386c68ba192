SPECIFICATION Spec
CONSTANTS
    c1 = c1
    c2 = c2
    c3 = c3
    t1 = t1
    t2 = t2
    none = none
    Callers = {c1}
    Watches = {t1}
    MayCall <- MCMayCall
    NoTask = none
    MaxChanges = 1
PROPERTY
    ReconnectRefreshes
CHECK_DEADLOCK FALSE
