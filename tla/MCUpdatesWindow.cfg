SPECIFICATION Spec
CONSTANTS
    Contacts = {c1, c2}
    Threads = {t1}
    Nil = Nil
    MaxXid = 3
    MaxEntries = 2
    MaxClock = 1
    MaxFails = 0
    Overlap = 0
    TTL = 0
    CleanupBatch = 1
    MaxContactChanges = 1
    Clients = {c1}
    Sockets = {c1}
    Mutations = {"change", "joined", "left", "tags"}
INVARIANTS TypeOK CursorSettled TagsPrivate
PROPERTIES WindowStable AnswersComplete
