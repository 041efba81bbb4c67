CONSTANTS
    Nodes = {n1, n2}
    Free = Free
    MaxFaults = 1
    Routers = {r1, r2}
    MaxTx = 2
    MaxRows = 2
    BatchSize = 2
SPECIFICATION FairSpec
INVARIANTS TypeOK NothingSkipped
PROPERTIES ImplementsLog Delivered Led
