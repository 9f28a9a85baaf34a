CONSTANTS
    ann = ann
    mod = mod
    joe = joe
    Users = {ann, joe}
    Owner = ann
    Mods = {}
    Initial = {ann}
    Open = {joe}
    Requests = {"join", "leave", "kick", "ban", "unban"}
    Dropping = {ann}
    TaskIds = {t1, t2}
    MaxOps = 2
    MaxKeys = 2
    MaxTries = 2
SYMMETRY SlotSymmetry
SPECIFICATION Spec
INVARIANT KeysReachMembers
INVARIANT MembersSupplied
CHECK_DEADLOCK FALSE
