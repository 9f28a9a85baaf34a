CONSTANTS
    a = a
    b = b
    Impolite = a
    Polite = b
    None = None
    MaxTracks = 1
    MaxCreds = 7
    MaxFaults = 1
    MaxJoins = 2
SPECIFICATION FairSpec
INVARIANT NoKeylessPeer
INVARIANT OnePair
INVARIANT NeverGivenUp
PROPERTY EdgeConnects
CHECK_DEADLOCK FALSE
