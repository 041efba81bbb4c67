SPECIFICATION Spec
CONSTANTS
  Threads = {t1, t2}
  Sizes = {0, 2, 3, 4}
  MaxSize = 3
  DefaultLimit = 1
  MaxMsgs = 5
INVARIANTS
  TypeOK
  NoGap
  EndHonest
PROPERTIES
  ReachesEnd
CHECK_DEADLOCK FALSE
