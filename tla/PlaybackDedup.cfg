SPECIFICATION FairSpec
CONSTANTS
    Requests = {r1, r2}
    r1 = r1
    r2 = r2
    NoOne = NoOne
    Earlier = Earlier
    TTL = 3
    Holder = 9
    Stale = 9
    Wait = 10
    Retries = 2
    MaxDelay = 2
INVARIANT TypeOK
INVARIANT HolderOwnsLock
INVARIANT NoRedundantResolve
PROPERTY RequestsEnd
PROPERTY LockIsFreed
CHECK_DEADLOCK FALSE
