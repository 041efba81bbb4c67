SPECIFICATION FairSpec
CONSTANTS
    Nil = Nil
    MaxDialogs = 3
    MaxFails = 1
    Calls = {k1, k2}
    Joiners <- MCJoiners
INVARIANT TypeOK
PROPERTIES OwnerKept ControlFollowsStack GrantsReal BotAnswers
CHECK_DEADLOCK FALSE
