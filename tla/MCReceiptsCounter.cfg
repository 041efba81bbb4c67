SPECIFICATION Spec
CONSTANTS
    Members = {a, b}
    Bots = {}
    Clients = {b}
    Founders = {a, b}
    Calls = {k1, k2}
    MaxSeq = 2
    MaxBatch = 1
    MaxJoins = 0
    MaxErrors = 0
SYMMETRY CallSymmetry
INVARIANT UnreadExact
