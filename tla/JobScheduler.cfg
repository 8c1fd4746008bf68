CONSTANTS
    Replicas = {r1, r2}
    NoOne = NoOne
    TicksPerMinute = 1
    Period = 2
    MaxNow = 4
    FaultKinds = {"crash", "lock", "enqueue", "stamp"}
    MaxFaults = 2
SPECIFICATION FairSpec
INVARIANTS
    TypeOK
    FiresAccounted
    DeposedStops
    SoleOwner
PROPERTY DueIsStamped
