CONSTANTS
    a = a
    b = b
    c = c
    v = v
    w = w
    it = it
    Devices = {a, b, c}
    Items = {it}
    Values = {v}
    Deleted = Deleted
    Kept = Kept
    None = None
    Founders = {a, b}
    Joiners = {c}
    Sealed = {b}
    Links <- Chain
    InviterAnswers = TRUE
    MaxChanges = 2
    MaxCerts = 2
    MaxReceipts = 8
    MaxSpool = 8
SPECIFICATION FairSpec
INVARIANTS
  NothingUnpublished
PROPERTIES
  MembershipsMoveForward
  EditsArePublished
  DevicesConverge
