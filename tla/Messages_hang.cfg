CONSTANTS
    ann = ann
    bob = bob
    c1 = c1
    c2 = c2
    c3 = c3
    ch1 = ch1
    dm1 = dm1
    None = None
    Users = {ann, bob}
    Tasks = {c1, c3}
    TaskUser <- UserOf
    Channels = {}
    Dms = {dm1}
    Members <- Everybody
    Texts = {t1}
    Wordless = {}
    Files = {f1}
    Emojis = {}
    Ttls = {"never"}
    Options = {}
    Granted <- AnnManages
    Changing <- Nothing
    MaxMessages = 1
    MaxOps = 1
    Kinds = {"delete"}
SPECIFICATION FairSpec
PROPERTY DeletedFileGoes
CHECK_DEADLOCK FALSE
