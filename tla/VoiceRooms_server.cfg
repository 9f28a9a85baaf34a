CONSTANTS
    ann = ann
    bob = bob
    d1 = d1
    d2 = d2
    c1 = c1
    c2 = c2
    c3 = c3
    sv1 = sv1
    sv2 = sv2
    ch1 = ch1
    dm1 = dm1
    NoDevice = NoDevice
    None = None
    Users = {ann, bob}
    Devices = {d1, d2}
    Tokens = {}
    MaxRestarts = 1
    MaxSessions = 3
    MaxMsgs = 3
    ConnUser <- UserOf
    ConnDevice <- Legacy
    Servers = {sv1}
    ServerOf <- FirstServer
    DmRooms = {}
    ServerRooms = {ch1}
    DmMembers <- NoDms
    Moderates <- Nobody
    Conns = {c1, c2, c3}
    Kinds = {"join", "leave", "leave_all", "delete"}
SPECIFICATION Spec
INVARIANT RoomShape
INVARIANT SessionsMatchRooms
INVARIANT PresentAreMembers
CHECK_DEADLOCK FALSE
