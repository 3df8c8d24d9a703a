CONSTANTS
    a = a
    b = b
    c = c
    v = v
    w = w
    it = it
    Devices = {a, b}
    Items = {it}
    Values = {v}
    Deleted = Deleted
    Kept = Kept
    None = None
    Founders = {a, b}
    Joiners = {a}
    Sealed = {}
    Links <- Pair
    InviterAnswers = FALSE
    MaxChanges = 1
    MaxCerts = 1
    MaxReceipts = 8
    MaxSpool = 8
SPECIFICATION FairSpec
PROPERTIES
    JoiningDeviceSyncs
