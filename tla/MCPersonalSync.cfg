CONSTANTS
    a = a
    b = b
    c = c
    v = v
    w = w
    it = it
    Devices = {a, b}
    Items = {it}
    Values = {v, w}
    Deleted = Deleted
    Kept = Kept
    None = None
    Founders = {a, b}
    Joiners = {}
    Sealed = {}
    Links <- OneWay
    InviterAnswers = TRUE
    MaxChanges = 4
    MaxCerts = 1
    MaxReceipts = 3
    MaxSpool = 3
SPECIFICATION ApartSpec
INVARIANTS
  RecordMatchesHistory
PROPERTIES
  ResolutionsAreInformed
