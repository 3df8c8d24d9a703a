SPECIFICATION MCSpec
CONSTANTS
  a1 = a1  a2 = a2  i1 = i1  i2 = i2  v1 = v1  v2 = v2
  Threads = {a1, a2}
  Items = {i1, i2}
  Secrets = {v1, v2}
  Gone = Gone
  MaxSessions = 2
  MaxCalls = 3
  Prompts = {a1, a2}
  Searchers = {i1, i2}
  SessionPaths = {"s1", "s2", "s3"}
  MaxOpenings = 2
  MaxRefreshes = 1
  MaxSessionsOpen = 2
  Writers = {a1, a2}
  KeyringIds = {i1, i2}
  Attributes = {"a"}
  Payloads = {v1, v2}
  NoPayload = NoPayload
  MaxTries = 2
  WifiSecrets = {v1, v2}
  NoSecret = NoSecret
  MaxVersions = 2
  MaxMoves = 2
  MaxVaults = 2
  MaxName = 2
  Values = {v1, v2}
  NoEntry = NoEntry
  PageLimit = 1
  MaxWrites = 2
  MaxImports = 2
SYMMETRY Alike
INVARIANTS
  ClientsTypeOK
  SealedCoreIsEmpty
  ServiceAnswers
  KeyringSound
  ImportIsComplete
PROPERTIES
  
  
  ExportIsConsistent
CHECK_DEADLOCK FALSE
