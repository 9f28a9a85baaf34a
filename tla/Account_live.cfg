CONSTANTS
    d1 = d1
    d2 = d2
    d3 = d3
    k1 = k1
    k2 = k2
    fkc = fkc
    None = None
    Devices = {d1, d2}
    SignedIn = {d1}
    Keys = {fkc}
    MediaKeys = {fkc}
    Ops = {"kickall","login"}
    TwoFactor = TRUE
    MaxTries = 1
    MaxEdits = 2
    MaxOps = 2
    MaxReqs = 2
    MaxSids = 3
    MaxFaults = 0
SPECIFICATION FairSpec
PROPERTY EditsAreSent
PROPERTY SignedOutLeaves
CHECK_DEADLOCK FALSE
