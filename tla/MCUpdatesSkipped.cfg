SPECIFICATION Spec
CONSTANTS
    Contacts = {c1}
    Threads = {t1, t2}
    Nil = Nil
    MaxXid = 3
    MaxEntries = 3
    MaxClock = 1
    MaxFails = 0
    Overlap = 0
    TTL = 1
    CleanupBatch = 1
    MaxContactChanges = 3
    Clients = {c1}
    Sockets = {}
    Mutations = {"change"}
INVARIANT NothingLost
