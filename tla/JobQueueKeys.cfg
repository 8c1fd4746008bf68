CONSTANTS
    Jobs = {j1, j2}
    Workers = {w1}
    Keys = {k1}
    Clients = {c1, c2}
    NoKey = NoKey
    NoWorker = NoWorker
    InlineCli = InlineCli
    Concurrency = 1
    MaxAttempts = 1
    MaxCrashes = 1
SPECIFICATION Spec
SYMMETRY Symmetry
CHECK_DEADLOCK FALSE
INVARIANT KeyHolders
