CONSTANTS
    Node = {a, b}
    HostNode = {a}
    Run <- MCRun
    MaxChanges = 3
    MaxForks = 2
    MaxSignals = 2
    Actor = {a1, a2, a3}
    CountModulus = 4
    PosModulus = 6
    MaxSends = 1
    Caller = {c1, c2}
    MaxGuardCalls = 5
    MaxRestarts = 3
    Triangles <- MCTriangles
    Batch = 2
    MaxJobs = 2
    MaxWorkerCrashes = 1
SPECIFICATION MCSpec
INVARIANTS
    HostTypesOK
    NoAppIsAbandoned
    SettledKeeperIsCurrent
    AppSeesCluster
    EventsAlternate
    DeadAppIsDown
    OutOfWorkIsTrue
    OneCallbackPerCall
    AnswersAreRight
    JobsAreAnswered
CHECK_DEADLOCK FALSE
