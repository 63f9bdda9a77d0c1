CONSTANTS
    t1 = t1
    t2 = t2
    Tasks = {t1, t2}
    NoTask = NoTask
    Lease = 1
    Hard = 1
    Visible = 2
    MaxRetries = 1
SPECIFICATION TaskSpec
INVARIANTS
    TaskTypeOK
    NoDoubleDispatch
PROPERTIES
    ImplementsDate
    DateGetsVerdict
