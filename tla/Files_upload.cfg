CONSTANTS
    x = x
    y = y
    ch = ch
    ch2 = ch2
    dm = dm
    None = None
    Convs = {ch, ch2, dm}
    Direct = {dm}
    Names = {x, y}
    Size <- OneAndTwo
    Picks <- Chosen
    Quota = 3
    MaxUploads = 2
    MaxIds = 2
    MaxTrouble = 1
SPECIFICATION FairSpec
INVARIANT CompleteIsWhole
INVARIANT SentIsComplete
INVARIANT SentAsConfirmed
PROPERTY OrphansGo
CHECK_DEADLOCK FALSE
