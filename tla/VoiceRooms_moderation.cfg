CONSTANTS
    ann = ann
    bob = bob
    d1 = d1
    d2 = d2
    c1 = c1
    c2 = c2
    c3 = c3
    sv1 = sv1
    sv2 = sv2
    ch1 = ch1
    dm1 = dm1
    NoDevice = NoDevice
    None = None
    Users = {ann, bob}
    Devices = {d1, d2}
    Tokens = {t1, t2}
    MaxRestarts = 0
    MaxSessions = 3
    MaxMsgs = 3
    ConnUser <- UserOf
    ConnDevice <- TwoDevices
    Servers = {sv1, sv2}
    ServerOf <- FirstServer
    DmRooms = {}
    ServerRooms = {ch1}
    DmMembers <- NoDms
    Moderates <- OneEach
    Conns = {c1, c3}
    Kinds = {"join", "leave", "state", "control", "play", "stop", "disable"}
SPECIFICATION Spec
SYMMETRY TokenSymmetry
INVARIANT TypeOK
INVARIANT SanctionEnforced
INVARIANT PlayingKeepsAudio
PROPERTY EvictionAuthorized
CHECK_DEADLOCK FALSE
