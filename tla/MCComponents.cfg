CONSTANTS
    MaxForks = 3
    MaxSignals = 3
    Functor = {f, g}
    MaxTimes = 2
    MaxPushes = 3
    PullId = {p, q}
    HeaderBytes = 2
    BodyBytes = {0, 1}
    BufferBytes = 2
    Relay = {r1, r2}
    MaxRounds = 2
    MaxWork = 1
    MaxFailures = 2
    Watched = {v1, v2}
    MaxMonitorCalls = 3
SPECIFICATION MCSpec
INVARIANTS
    ComponentTypesOK
    QuitStopsRestarting
    OneAppAtATime
    PullHasOneResult
    AnswerIsWhole
    TargetIsWatched
    DownIsDescribed
    DeadAreUnlisted
PROPERTIES
    RunsInOrder
    QueueMovesOn
    QuitIsObeyed
    DeadTargetIsSuspected
CHECK_DEADLOCK FALSE
