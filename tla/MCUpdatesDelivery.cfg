SPECIFICATION FairSpec
CONSTANTS
    Contacts = {c1}
    Threads = {t1, t2}
    Nil = Nil
    MaxXid = 3
    MaxEntries = 2
    MaxClock = 1
    MaxFails = 1
    Overlap = 2
    TTL = 2
    CleanupBatch = 1
    MaxContactChanges = 1
    Clients = {c1}
    Sockets = {c1}
    Mutations = {"change"}
PROPERTY CatchesUp
