CONSTANTS
    PoolNode = {n1}
    PoolWorker = {w1, w2}
    Caller = {c1, c2}
    Sizes = {1}
    MaxCalls = 1
    MaxCrashes = 1
SPECIFICATION RouterSpec
INVARIANT PoolIsNeverStuck
CHECK_DEADLOCK FALSE
