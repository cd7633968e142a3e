CONSTANTS
    c1 = c1
    c2 = c2
    c3 = c3
    c4 = c4
    c5 = c5
    w1 = w1
    w2 = w2
    Nobody = Nobody
    Client = {c1, c2}
    Worker = {w1, w2}
    Anonymous = {}
    InitialWorkers <- OneWorker
    Threshold = 2
    SizeMax = 7
    Commands = {"put"}
    MaxCommands = 1
SPECIFICATION Spec
PROPERTIES
    AssertionNeverFails
CHECK_DEADLOCK FALSE
