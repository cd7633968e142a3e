CONSTANTS
    c1 = c1
    c2 = c2
    c3 = c3
    c4 = c4
    c5 = c5
    w1 = w1
    w2 = w2
    Nobody = Nobody
    Client = {c1, c2, c3}
    Worker = {w1, w2}
    Anonymous = {c3}
    InitialWorkers <- OneWorker
    Threshold = 7
    SizeMax = 7
    Commands = {"put", "delete", "die", "clear", "exit"}
    MaxCommands = 3
    PoolNode = {n1, n2}
    PoolWorker = {p1, p2, p3}
    Caller = {k1, k2}
    Sizes = {1, 2}
    MaxCalls = 3
    MaxCrashes = 1
SYMMETRY NodesAreAlike
SPECIFICATION MCSpec
INVARIANTS
    TypeOK
    LoadIsOpenRequests
    AnswersAreOwn
    TicketsAreOpen
    RouterTypeOK
    PoolMatchesNodes
    ResizeReachesSize
    OnlyMonitorSticks
CHECK_DEADLOCK FALSE
