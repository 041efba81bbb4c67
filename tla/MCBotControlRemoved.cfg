SPECIFICATION Spec
CONSTANTS
    Nil = Nil
    MaxDialogs = 4
    MaxFails = 0
    Calls = {k1}
    Joiners <- RaceJoiners
INVARIANT RemovedLosesControl
CHECK_DEADLOCK FALSE
