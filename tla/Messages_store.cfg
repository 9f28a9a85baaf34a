CONSTANTS
    ann = ann
    bob = bob
    c1 = c1
    c2 = c2
    c3 = c3
    ch1 = ch1
    dm1 = dm1
    None = None
    Users = {ann, bob}
    Tasks = {c1, c2}
    TaskUser <- UserOf
    Channels = {ch1}
    Dms = {dm1}
    Members <- Everybody
    Texts = {t1}
    Wordless = {}
    Files = {f1}
    Emojis = {e1}
    Ttls = {"later"}
    Options = {o1, o2}
    Granted <- AnnManages
    Changing <- ManageChanges
    MaxMessages = 2
    MaxOps = 2
    Kinds = {"send", "edit", "delete", "react", "vote", "ack", "pin"}
SPECIFICATION SweepSpec
INVARIANT DependentsBelong
PROPERTY ReadStaysRead
PROPERTY DeletedByRight
PROPERTY ImplementsLife
PROPERTY ExpiredShredded
CHECK_DEADLOCK FALSE
