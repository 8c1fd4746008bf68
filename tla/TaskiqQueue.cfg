SPECIFICATION Spec
CONSTANTS
    Tasks = {t1, t2}
    Slots = {s1, s2}
    Msgs = {1, 2, 3}
    t1 = t1
    t2 = t2
    s1 = s1
    s2 = s2
    NoTask = NoTask
    NoMsg = NoMsg
    Interval = 1
    MaxRetries = 2
    Budget = 3
SYMMETRY Symmetry
INVARIANT TypeOK
INVARIANT CancelledNeverStarts
INVARIANT RecordSettles
INVARIANT RunningSettles
PROPERTY IntervalKept
CHECK_DEADLOCK FALSE
