CONSTANTS
    a = a
    b = b
    c = c
    Node = {a, b}
    Seeds <- PairSeeds
    Managed = {a}
    Hosting = {}
    Detecting = {a, b}
    RetransmitMultiplier = 1
    Mortal = {}
    MaxLives <- ARestarts
    MaxIncarnation <- Inc110
    MaxPulls = 1
    MaxGossip = 1
    MaxQueue = 1
    MaxFaults = 0
SPECIFICATION FairSpec
PROPERTIES
    JoinInOneCluster
CHECK_DEADLOCK FALSE
