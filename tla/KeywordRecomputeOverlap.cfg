SPECIFICATION Spec
CONSTANTS
    Tasks = {t1, t2}
    t1 = t1
    t2 = t2
    Nobody = Nobody
    MaxVersion = 2
    Batches = 2
    Stale = 3
    Abort = 2
    MaxAttempts = 2
    Faulty = TRUE
    Reverts = FALSE
    Racing = FALSE
INVARIANT SweepsExclusive
CHECK_DEADLOCK FALSE
