CONSTANTS
    Jobs = {j1}
    Workers = {w1, w2}
    Keys = {}
    Clients = {}
    NoKey = NoKey
    NoWorker = NoWorker
    InlineCli = InlineCli
    Concurrency = 1
    MaxAttempts = 3
    MaxCrashes = 1
SPECIFICATION FairSpec
CHECK_DEADLOCK FALSE
INVARIANT TypeOK
INVARIANT SoleExecution
INVARIANT OverlapBounded
INVARIANT AttemptsBounded
INVARIANT TokenReachable
PROPERTY FinalStatusKept
PROPERTY LifecycleKept
PROPERTY JobsSettle
PROPERTY DueJobsClaimed
