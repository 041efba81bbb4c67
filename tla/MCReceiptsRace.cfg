SPECIFICATION Spec
CONSTANTS
    Members = {a, b}
    Bots = {}
    Clients = {b}
    Founders = {b}
    Calls = {k1, k2}
    MaxSeq = 2
    MaxBatch = 1
    MaxJoins = 1
    MaxErrors = 1
SYMMETRY CallSymmetry
INVARIANTS TypeOK ReadBounded ReadImpliesDelivered
PROPERTIES HorizonsMonotone MovesAnnounced ErrorsRecovered UnreadKept
