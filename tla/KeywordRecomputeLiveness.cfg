SPECIFICATION FairSpec
CONSTANTS
    Tasks = {t1, t2}
    t1 = t1
    t2 = t2
    Nobody = Nobody
    MaxVersion = 3
    Batches = 2
    Stale = 3
    Abort = 2
    MaxAttempts = 3
    Faulty = FALSE
    Reverts = FALSE
    Racing = FALSE
INVARIANT SweepsExclusive
PROPERTY MarkerConverges
CHECK_DEADLOCK FALSE
