CONSTANTS
    ann = ann
    bob = bob
    d1 = d1
    d2 = d2
    c1 = c1
    c2 = c2
    c3 = c3
    sv1 = sv1
    sv2 = sv2
    ch1 = ch1
    dm1 = dm1
    NoDevice = NoDevice
    None = None
    Users = {ann, bob}
    Devices = {d1, d2}
    Tokens = {}
    MaxRestarts = 0
    MaxSessions = 3
    MaxMsgs = 2
    ConnUser <- UserOf
    ConnDevice <- TwoDevices
    Servers = {}
    ServerOf <- FirstServer
    DmRooms = {dm1}
    ServerRooms = {}
    DmMembers <- DmBoth
    Moderates <- Nobody
    Conns = {c1, c3}
    Kinds = {"join", "leave", "dm_waiting", "dm_declined", "unfriend"}
SPECIFICATION FairSpec
PROPERTY EvictionAuthorized
PROPERTY StaleMarkerCleared
CHECK_DEADLOCK FALSE
