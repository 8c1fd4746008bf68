SPECIFICATION FairSpec
CONSTANTS
    Tasks = {t1, t2}
    t1 = t1
    t2 = t2
    Nobody = Nobody
    MaxVersion = 2
    Batches = 2
    Stale = 3
    Abort = 2
    MaxAttempts = 2
    Faulty = FALSE
    Reverts = TRUE
    Racing = FALSE
PROPERTY KeepsConverging
CHECK_DEADLOCK FALSE
