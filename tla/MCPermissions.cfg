\* One caller and two requests for the same write that differ only in context,
\* one pending at a time: approvals of one grant address across seals and failed
\* saves, next to a trusted grant that may make a request unnecessary, while a
\* watcher lists.  The wall clock stops at MaxTime, so the system may stop.
CONSTANTS
    c1 = c1
    w1 = w1
    w2 = w2
    login = login
    wide = wide
    plain = plain
    expiring = expiring
    Never = Never
    NoGrant = NoGrant
    Callers <- MCOneCaller
    Addresses <- MCAddresses
    CacheAddresses <- MCAddresses
    Operations = {"put"}
    Watchers = {w1}
    Contexts <- MCContexts
    TrustedTargets <- MCTrusted
    Coverage <- MCCoverage
    Durations = {}
    ApprovalTTL = 2
    SingleUseSeconds = 1
    RateWindow = 1
    MaxPending = 1
    MaxPendingPerCaller = 1
    MaxNewPerCaller = 2
    MaxNew = 2
    MaxTime = 2
    MaxIds = 2
    MaxApproved = 1
SPECIFICATION Spec
INVARIANTS
  GrantsRevocable
  SingleUseWritesOnce
  RequestsAreKept

  
CHECK_DEADLOCK FALSE
