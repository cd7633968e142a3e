CONSTANTS
    a = a
    b = b
    c = c
    Node = {a, b}
    Seeds <- PairSeeds
    Managed = {}
    Hosting = {b}
    Detecting = {a, b}
    RetransmitMultiplier = 1
    Mortal = {}
    MaxLives <- OneLife
    MaxIncarnation <- Inc020
    MaxPulls = 1
    MaxGossip = 1
    MaxQueue = 1
    MaxFaults = 1
SPECIFICATION Spec
INVARIANTS
    UpAnnouncementIsKept
CHECK_DEADLOCK FALSE
