CONSTANTS
    t1 = t1  a = a  b = b
    Threads = {t1}
    Members = {a, b}
    Bodies = {"x", "y"}
    Emojis = {"e"}
    Buttons = {"n"}
    Changing <- MCChanging
    Calls = {c1, c2}
    MaxMsgs = 2
    MaxSends = 1
    MaxTx = 3
SPECIFICATION Spec
INVARIANTS TypeOK Announced
PROPERTIES RevisionsComplete
CHECK_DEADLOCK FALSE
