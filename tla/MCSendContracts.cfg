SPECIFICATION Spec
CONSTANTS
    c1 = c1
    c2 = c2
    m1 = m1
    m2 = m2
    m3 = m3
    None = None
    Contracts = {c1, c2}
    MaxQueues = 3
    Messages = {m1, m2, m3}
    Size <- Sizes
    MinBytes = 2
    Capacity <- Capacities
    WantsAck = {m2}
    Retained = {m2}
    Expiring = {c1}
INVARIANTS
    TypeOK
    PlacedOnce
    DebitsExact
    ReportsExact
    OpenForReason
    AnnouncedFirst
    HeldMapped
CHECK_DEADLOCK FALSE
