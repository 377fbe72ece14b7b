SPECIFICATION FairSpec
CONSTANTS
    p1 = p1
    p2 = p2
    Callers = {p1, p2}
    MaxSequences = 4
    Kinds = {"send", "forward"}
    BufferSize = 1
    ResendQueueMax = 1
    Unbounded = {}
    Gated = {p1}
    MaxCancels = 1
INVARIANTS
    TypeOK
    NoSendOnClosed
    IdleStrandsOnlyResident
    OwnedOnce
    OrphansStop
PROPERTIES
    Returns
    AcceptedReleased
CHECK_DEADLOCK FALSE
