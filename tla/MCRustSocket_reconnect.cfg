SPECIFICATION FairSpec
CONSTANTS
    c1 = c1  c2 = c2
    Callers = {c1, c2}
    INITIAL_RECONNECT_DELAY = 1
    max_reconnect_delay = 3
    MaxSpawns = 2
    MaxCalls = 3
    MaxLosses = 1
INVARIANTS
    OneSupervisor QuietAfterDisconnect
PROPERTIES
    ReconnectsAfterLoss
CHECK_DEADLOCK FALSE
