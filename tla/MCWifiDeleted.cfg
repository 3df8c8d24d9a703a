\* One connection whose password is asked for while it is edited and deleted.
SPECIFICATION WifiSpec
CONSTANTS
  WifiSecrets = {"p1"}
  NoSecret = NoSecret
  MaxVersions = 2
  MaxMoves = 0
  MaxVaults = 1
INVARIANT DeletedStaysDeleted
CHECK_DEADLOCK FALSE
