CONSTANTS
    c1 = c1
    c2 = c2
    c3 = c3
    c4 = c4
    c5 = c5
    w1 = w1
    w2 = w2
    Nobody = Nobody
    Client = {c1, c2, c3, c4, c5}
    Worker = {w1}
    Anonymous = {}
    InitialWorkers <- OneWorker
    Threshold = 1
    SizeMax = 7
    Commands = {}
    MaxCommands = 0
SPECIFICATION Spec
SYMMETRY Clients
INVARIANTS
    HeldOnlyWhileBusy
CHECK_DEADLOCK FALSE
