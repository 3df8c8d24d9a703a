SPECIFICATION MCSpec
CONSTANTS
  s1 = s1  s2 = s2  wk = wk  c = c  g1 = g1  g2 = g2  e1 = e1  e2 = e2  l1 = l1
  p1 = p1  p2 = p2  p3 = p3
  Peers = {p1, p2, p3}
  MaxCertificates = 3
  MaxInvitations = 2
  MaxRequests = 2
  MaxPresses = 3
  Sessions = {s1, s2}
  Keys = {k1}
  NoKey = NoKey
  MaxSessions = 2
  Inventory <- OneLogin
  Passwords = {"blank", "p1"}
  Matching = {"blank", "p1"}
  Blank = "blank"
  MaxTickets = 1
  MaxSeen = 2
  MaxCandidates = 1
  MaxGeneration = 2
  MaxEdits = 1
  Procs = {wk, c}
  Ids = {1, 2}
  Slots = {1}
  None = None
  Torn = Torn
  MaxStarts = 2
  MaxCrashes = 1
  Worker = wk
  QueueSize = 16
  Lookups = {l1}
  Entries = {e1, e2}
  Grants = {g1, g2}
  SingleUse = {g1}
  Nobody = Nobody
  MaxSeals = 1
  MaxAsked = 2
SYMMETRY Alike
INVARIANTS
  BrowserConsent
  VaultIsWhole
  AttemptsEnd
  
  
PROPERTIES
  NoBlindOverwrite
  
CHECK_DEADLOCK FALSE
