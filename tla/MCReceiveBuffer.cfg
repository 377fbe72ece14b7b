SPECIFICATION FairSpec
CONSTANTS
    p1 = p1
    p2 = p2
    p3 = p3
    None = None
    Callers = {p1, p2, p3}
    MaxSequences = 3
    Version <- TwoVersions
    BufferSize = 1
    MaxFlushes = 1
INVARIANTS
    TypeOK
    HeadExact
    OrderedUnlessFlushed
    ReleasedOnce
    NoSendOnClosed
PROPERTIES
    PackReturns
    Settled
CHECK_DEADLOCK FALSE
