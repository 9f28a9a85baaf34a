CONSTANTS
    a = a
    b = b
    c = c
    Users = {a, b}
    Dms <- OneDm
    None = None
    Absent = Absent
    Fragile = {a}
    Openers = {b}
    MaxActs = 3
    MaxDrops = 1
    MaxQueue = 4
SPECIFICATION Spec
INVARIANT RingEnds
INVARIANT TalkersKnow
INVARIANT NobodyDraggedIn
INVARIANT NoGhostCall
CHECK_DEADLOCK FALSE
