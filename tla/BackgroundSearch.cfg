SPECIFICATION FairSpec
CONSTANTS
    Items = {m1, s1}
    Movies = {m1}
    Runs = {e1, e2}
    m1 = m1
    s1 = s1
    e1 = e1
    e2 = e2
    NoItem = NoItem
    BatchSize = 1
    Interval = 2
    MaxFaults = 1
INVARIANT TypeOK
INVARIANT MarksOwned
PROPERTY SpacedOrExcused
PROPERTY Periodic
