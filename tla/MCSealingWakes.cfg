CONSTANTS
    r1 = r1
    r2 = r2
    w1 = w1
    h1 = h1
    server = server
    Requests = {}
    Waiters = {w1}
    Watchers = {w1}
    Returning = {}
    Hooks = {}
    Server = server
    Nobody = Nobody
    Halt = Halt
    IdleTimeout = 1
    MaximumLifetime = 2
    WaitTimeout = 1
    CommandQueue = 1
    EmergencyDelay = 1
    MaxTime = 2
SPECIFICATION Spec
INVARIANTS
    SealWakesWaiters
