CONSTANTS
    a = a
    b = b
    c = c
    Node = {a, b}
    Seeds <- PairSeeds
    Managed = {}
    Hosting = {}
    Detecting = {a, b}
    RetransmitMultiplier = 1
    Mortal = {a, b}
    MaxLives <- BothRestart
    MaxIncarnation <- Inc110
    MaxPulls = 1
    MaxGossip = 2
    MaxQueue = 2
    MaxFaults = 1
SPECIFICATION JoinSpec
PROPERTIES
    JoinInOneCluster
CHECK_DEADLOCK FALSE
