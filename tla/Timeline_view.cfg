CONSTANTS
    c1 = c1
    d1 = d1
    None = None
    Channels = {c1}
    First = c1
    Dms = {d1}
    PageSize = 1
    MaxMsgs = 2
    MaxTrouble = 1
    MaxMoves = 2
    MaxPages = 1
    MaxTasks = 2
SPECIFICATION FairSpec
INVARIANT NoDuplicates
INVARIANT ChannelRowsBelong
INVARIANT ViewComplete
INVARIANT MoreNotStuck
PROPERTY LoadSettles
CHECK_DEADLOCK FALSE
