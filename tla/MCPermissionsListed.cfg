\* Two approvals of one grant address.
CONSTANTS
    c1 = c1
    w1 = w1
    w2 = w2
    login = login
    wide = wide
    plain = plain
    expiring = expiring
    Never = Never
    NoGrant = NoGrant
    Callers <- MCOneCaller
    Addresses <- MCAddresses
    CacheAddresses <- MCAddresses
    Operations = {"put"}
    Watchers = {}
    Contexts <- MCContexts
    TrustedTargets <- MCNoTrusted
    Coverage <- MCCoverage
    Durations <- MCDurations
    ApprovalTTL = 2
    SingleUseSeconds = 2
    RateWindow = 1
    MaxPending = 2
    MaxPendingPerCaller = 2
    MaxNewPerCaller = 2
    MaxNew = 2
    MaxTime = 1
    MaxIds = 2
    MaxApproved = 2
SPECIFICATION Spec
INVARIANTS
    ListedPermissionsHold
CHECK_DEADLOCK FALSE
