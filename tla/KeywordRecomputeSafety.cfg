SPECIFICATION Spec
CONSTANTS
    Tasks = {t1, t2}
    t1 = t1
    t2 = t2
    Nobody = Nobody
    MaxVersion = 2
    Batches = 2
    Stale = 2
    Abort = 1
    MaxAttempts = 1
    Faulty = TRUE
    Reverts = TRUE
    Racing = TRUE
SYMMETRY Symmetry
INVARIANT TypeOK
INVARIANT LostSweepEnds
PROPERTY PublishedByLatest
PROPERTY PublishedWasSwept
CHECK_DEADLOCK FALSE
