CONSTANTS
    d1 = d1
    d2 = d2
    d3 = d3
    k1 = k1
    k2 = k2
    fkc = fkc
    None = None
    Devices = {d1, d2}
    SignedIn = {d1, d2}
    Keys = {k1}
    MediaKeys = {}
    Ops = {"load","reauth","kickall","change","backup","reload","logout"}
    TwoFactor = FALSE
    MaxTries = 1
    MaxEdits = 2
    MaxOps = 1
    MaxReqs = 2
    MaxSids = 3
    MaxFaults = 1
SPECIFICATION Spec
INVARIANT SaverNeverStuck
INVARIANT QueuedHasCarrier
INVARIANT EditsAwaitSave
INVARIANT KickedAreTold
PROPERTY MergesOnlyAdd
CHECK_DEADLOCK FALSE
