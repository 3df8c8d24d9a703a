CONSTANTS
    r1 = r1
    r2 = r2
    w1 = w1
    h1 = h1
    server = server
    Requests = {r1}
    Waiters = {}
    Watchers = {}
    Returning = {r1}
    Hooks = {h1}
    Server = server
    Nobody = Nobody
    Halt = Halt
    IdleTimeout = 2
    MaximumLifetime = 3
    WaitTimeout = 1
    CommandQueue = 1
    EmergencyDelay = 1
    MaxTime = 3
SPECIFICATION Spec
INVARIANTS
  SealingSound
PROPERTIES
  LeaseIsFinal
