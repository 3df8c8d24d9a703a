CONSTANTS
    r1 = r1
    r2 = r2
    w1 = w1
    h1 = h1
    server = server
    Requests = {r1}
    Waiters = {w1}
    Watchers = {w1}
    Returning = {}
    Hooks = {}
    Server = server
    Nobody = Nobody
    Halt = Halt
    IdleTimeout = 1
    MaximumLifetime = 1
    WaitTimeout = 1
    CommandQueue = 1
    EmergencyDelay = 1
    MaxTime = 1
SPECIFICATION FairSpec
INVARIANTS
    NoLostDecision
PROPERTIES
    RequestsEnd
    KeysEventuallyGone
