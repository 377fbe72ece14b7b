SPECIFICATION Spec
CONSTANTS
    c1 = c1
    c2 = c2
    m1 = m1
    m2 = m2
    m3 = m3
    None = None
    Contracts = {c1}
    MaxQueues = 3
    Messages = {m1}
    Size <- Sizes
    MinBytes = 2
    Capacity <- Capacities
    WantsAck = {m1}
    Retained = {}
    Expiring = {}
INVARIANT FlushReleases
CHECK_DEADLOCK FALSE
