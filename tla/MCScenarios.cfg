CONSTANTS
    a = a
    b = b
    c = c
    Node = {a, b, c}
    Seeds <- TrioSeeds
    Managed = {c}
    Hosting = {c}
    Detecting = {a, c}
    RetransmitMultiplier = 1
    Mortal = {c}
    MaxLives <- CRestarts
    MaxIncarnation <- Inc012
    MaxPulls = 1
    MaxGossip = 1
    MaxQueue = 2
    MaxFaults = 1
SPECIFICATION MCSpec
INVARIANTS
    TypeOK
    IncarnationsWereIssued
    ActorSystemsAreMembers
    SelfIsKnown
PROPERTIES
    MemberIncarnationGrows
    OnlyLeaveForgets
CHECK_DEADLOCK FALSE
